-------------------------- MODULE MeasurementProofs ---------------------------
(***************************************************************************)
(* The programs that ask a live model, for any configuration, workload and *)
(* evidence: which secrets they read, what a cached answer is credited     *)
(* with, and what a break-even volume rests on.                            *)
(***************************************************************************)
EXTENDS Measurement, Counting, SequenceTheorems

-----------------------------------------------------------------------------
(* From a configuration to a client.                                        *)

(* Only the demonstration must stay with the simulator.                     *)
AllowLive == kind # "demonstration"

(* What was read is named by a route the program selected.                  *)
Named(name) ==
  \E a \in Selectable[kind] \cap DOMAIN config.routes :
    Get(Get(config.routes[a], "auth", <<>>), "name", Unset) = name

ClientInv ==
  /\ kind \in Kinds /\ {"routes", "fallbacks"} \subseteq DOMAIN config
  /\ client = [at |-> client.at, made |-> client.made, read |-> client.read]
  /\ client.at \in {"start", "refused", "checking", "making", "ready"}
  /\ client.at \in {"start", "checking"} => client.read = {}
  /\ client.at \in {"start", "checking", "refused"} => client.made = {}
  /\ client.at # "start" /\ AllowLive => DOMAIN config.routes \subseteq Selectable[kind]
  /\ client.at \in {"making", "ready"} \/ client.read # {} => preflight_config(config, AllowLive)
  /\ \A name \in client.read : Named(name)

LEMMA SelectableIs ==
  /\ Selectable["comparison"] = Aliases /\ Selectable["cache"] = {"primary"}
  /\ Selectable["self-host"] = {"open_weight"} /\ Selectable["demonstration"] = {}
BY DEF Selectable, Kinds

(* A route that names its secret, in a configuration that passed, is a live *)
(* one, which the demonstration has none of.                                *)
LEMMA NamedIsLive ==
  ASSUME NEW allow \in BOOLEAN, preflight_config(config, allow), NEW alias \in DOMAIN config.routes,
         ~Simulated(config.routes[alias]),
         Get(config.routes[alias], "auth", <<>>).type # "none"
  PROVE  /\ allow
         /\ Get(Get(config.routes[alias], "auth", <<>>), "name", Unset)
              = Get(config.routes[alias], "auth", <<>>).name
<1> DEFINE route == config.routes[alias]
           auth == Get(route, "auth", <<>>)
<1>1. /\ Admitted(route, config.money)
      /\ Get(route, "mode", Unset) \in LIVE_MODES => allow
  BY DEF preflight_config
<1>2. Get(route, "mode", Unset) \in LIVE_MODES /\ Authorized(route)
  BY <1>1 DEF Admitted, Simulated
<1>3. DOMAIN auth = {"type", "name"}
  <2>1. \/ Get(auth, "type", Unset) = "none" /\ DOMAIN auth = {"type"}
        \/ DOMAIN auth = {"type", "name"}
    BY <1>2 DEF Authorized
  <2>2. "type" \in DOMAIN auth => Get(auth, "type", Unset) = auth.type
    BY DEF Get
  <2> QED
    BY <2>1, <2>2
<1> QED
  BY <1>1, <1>2, <1>3 DEF Get

LEMMA InitClientInv == Init => ClientInv
<1> SUFFICES ASSUME Init PROVE ClientInv
  OBVIOUS
<1>1. /\ kind \in Kinds /\ config \in Profiles[kind]
      /\ client = [at |-> "start", made |-> {}, read |-> {}]
  BY DEF Init, ClientInit
<1>2. {"routes", "fallbacks"} \subseteq DOMAIN config
  BY <1>1, ConfigurationAssumption DEF ConfigurationAssumption
<1> QED
  BY <1>1, <1>2 DEF ClientInv

LEMMA SelectStep ==
  ASSUME ClientInv, select
  PROVE  ClientInv'
<1>1. /\ client.at = "start" /\ client.made = {} /\ client.read = {} /\ kind \in Kinds /\ kind' = kind
      /\ client = [at |-> client.at, made |-> client.made, read |-> client.read]
      /\ {"routes", "fallbacks"} \subseteq DOMAIN config
  BY DEF select, ClientInv
<1>2. PICK next \in {"refused", "checking"} : client' = [client EXCEPT !.at = next]
  BY DEF select
<1>3. client' = [at |-> next, made |-> {}, read |-> {}]
  BY <1>1, <1>2
<1>4. ASSUME NEW aliases, NEW chains, config' = Selecting(config, aliases, chains)
      PROVE  /\ {"routes", "fallbacks"} \subseteq DOMAIN config'
             /\ DOMAIN config'.routes = DOMAIN config.routes \cap aliases
  BY <1>1, <1>4 DEF Selecting
<1>5. /\ {"routes", "fallbacks"} \subseteq DOMAIN config'
      /\ AllowLive => DOMAIN config'.routes \subseteq Selectable[kind]
  <2>1. CASE kind = "comparison"
    BY <1>4, <2>1, SelectableIs DEF select, comparison_config
  <2>2. CASE kind = "cache"
    BY <1>4, <2>2, SelectableIs DEF select, benchmark_config
  <2>3. CASE kind = "self-host"
    BY <1>4, <2>3, SelectableIs DEF select, benchmark_config
  <2>4. CASE kind = "demonstration"
    BY <1>1, <2>4 DEF select, AllowLive
  <2> QED
    BY <1>1, <2>1, <2>2, <2>3, <2>4 DEF Kinds
<1> QED
  BY <1>1, <1>3, <1>5 DEF ClientInv, AllowLive

LEMMA CheckStep ==
  ASSUME ClientInv, check
  PROVE  ClientInv'
<1>1. /\ client.at = "checking" /\ UNCHANGED <<kind, config>>
      /\ client' = [client EXCEPT !.at = IF preflight_config(config, AllowLive) THEN "making" ELSE "refused"]
  BY DEF check, AllowLive
<1>2. /\ client.made = {} /\ client.read = {} /\ kind \in Kinds
      /\ client = [at |-> client.at, made |-> client.made, read |-> client.read]
      /\ {"routes", "fallbacks"} \subseteq DOMAIN config
      /\ AllowLive => DOMAIN config.routes \subseteq Selectable[kind]
  BY <1>1 DEF ClientInv
<1>3. client' = [at |-> IF preflight_config(config, AllowLive) THEN "making" ELSE "refused",
                 made |-> {}, read |-> {}]
  BY <1>1, <1>2
<1>4. preflight_config(config', AllowLive') = preflight_config(config, AllowLive)
  BY <1>1 DEF AllowLive
<1> QED
  BY <1>1, <1>2, <1>3, <1>4 DEF ClientInv, AllowLive

LEMMA MakeStep ==
  ASSUME ClientInv, NEW alias, make(alias)
  PROVE  ClientInv'
<1> DEFINE auth == Get(config.routes[alias], "auth", <<>>)
           named == ~Simulated(config.routes[alias]) /\ auth.type # "none"
           read == IF named THEN client.read \cup {auth.name} ELSE client.read
<1>1. /\ client.at = "making" /\ alias \in DOMAIN config.routes /\ UNCHANGED <<kind, config>>
      /\ \E found \in {TRUE} \cup {~named} :
           client' = IF found
                     THEN [at |-> IF client.made \cup {alias} = DOMAIN config.routes THEN "ready" ELSE "making",
                           made |-> client.made \cup {alias}, read |-> read]
                     ELSE [at |-> "refused", made |-> {}, read |-> read]
  BY DEF make
<1>2. /\ preflight_config(config, AllowLive) /\ kind \in Kinds
      /\ {"routes", "fallbacks"} \subseteq DOMAIN config
      /\ AllowLive => DOMAIN config.routes \subseteq Selectable[kind]
      /\ \A name \in client.read : Named(name)
  BY <1>1 DEF ClientInv
<1>3. \A name \in read : Named(name)
  <2>1. ASSUME named PROVE Named(auth.name)
    <3>1. AllowLive /\ Get(auth, "name", Unset) = auth.name
      BY <1>1, <1>2, <2>1, NamedIsLive DEF AllowLive
    <3> QED
      BY <1>1, <1>2, <3>1 DEF Named
  <2> HIDE DEF named, auth
  <2> QED
    BY <1>2, <2>1
<1> HIDE DEF read, named
<1>4. /\ client' = [at |-> client'.at, made |-> client'.made, read |-> client'.read]
      /\ client'.at \in {"ready", "making", "refused"} /\ client'.read = read
      /\ client'.at = "refused" => client'.made = {}
  BY <1>1
<1>5. preflight_config(config', AllowLive')
  BY <1>1, <1>2 DEF AllowLive
<1>6. \A name \in client'.read : Named(name)'
  BY <1>1, <1>3, <1>4 DEF Named
<1> QED
  BY <1>1, <1>2, <1>4, <1>5, <1>6 DEF ClientInv, AllowLive

LEMMA NextClientInv == ClientInv /\ [main]_measurementVars => ClientInv'
<1> SUFFICES ASSUME ClientInv, [main]_measurementVars PROVE ClientInv'
  OBVIOUS
<1>1. CASE UNCHANGED clientVars
  BY <1>1 DEF clientVars, ClientInv, Named, AllowLive
<1>2. CASE ClientNext
  BY <1>2, SelectStep, CheckStep, MakeStep DEF ClientNext
<1> QED
  BY <1>1, <1>2 DEF main, measurementVars

(* "All route validation precedes every named secret lookup": whatever      *)
(* configuration a program is given, the secrets it reads are named by the  *)
(* routes it selected as live ones, of a configuration that passed; a       *)
(* client that could not be made holds nothing open; and the demonstration  *)
(* stays on this machine.                                                   *)
THEOREM MeasurementOnlySelectedSecrets == Spec => []OnlySelectedSecrets
<1>1. ClientInv => OnlySelectedSecrets
  <2> SUFFICES ASSUME ClientInv PROVE OnlySelectedSecrets
    OBVIOUS
  <2>1. preflight_config(config, AllowLive) => preflight_config(config, TRUE)
    BY DEF preflight_config
  <2>2. ASSUME client.at = "ready", kind = "demonstration", NEW a \in DOMAIN config.routes
        PROVE  config.routes[a].url.host = "loopback"
    <3>1. preflight_config(config, FALSE)
      BY <2>2 DEF ClientInv, AllowLive
    <3>2. /\ Admitted(config.routes[a], config.money)
          /\ Get(config.routes[a], "mode", Unset) \notin LIVE_MODES
      BY <2>2, <3>1 DEF preflight_config
    <3>3. Simulated(config.routes[a]) /\ require_loopback(config.routes[a])
      BY <3>2 DEF Admitted, Simulated
    <3> QED
      BY <3>3 DEF require_loopback
  <2>3. /\ client.read # {} => preflight_config(config, TRUE)
        /\ \A name \in client.read : Named(name)
        /\ client.at = "refused" => client.made = {}
    BY <2>1 DEF ClientInv
  <2> QED
    BY <2>2, <2>3 DEF OnlySelectedSecrets, Named
<1> QED
  BY InitClientInv, NextClientInv, <1>1, PTL DEF Spec

-----------------------------------------------------------------------------
(* What flattening and folding make of the texts of a request.              *)

(* FlattenSeq is the last value of any function that meets its recursion.   *)
LEMMA FlattenIs ==
  ASSUME NEW n \in Nat \ {0}, NEW s, NEW g,
         Len(s) = n /\ g[1] = s[1] /\ (\A i \in 2 .. n : g[i] = g[i - 1] \o s[i])
  PROVE  FlattenSeq(s) = g[n]
<1> DEFINE Extended(f) == [i \in 1 .. n |-> IF i = 1 THEN s[i] ELSE f[i - 1] \o s[i]]
           flatten == CHOOSE f : f = Extended(f)
           known == [i \in 1 .. n |-> g[i]]
<1>1. known = Extended(known)
  <2>1. ASSUME NEW i \in 1 .. n PROVE known[i] = IF i = 1 THEN s[i] ELSE known[i - 1] \o s[i]
    <3>1. i # 1 => i \in 2 .. n /\ i - 1 \in 1 .. n
      OBVIOUS
    <3> QED
      BY <3>1
  <2> QED
    BY <2>1
<1>2. flatten = Extended(flatten)
  <2> HIDE DEF Extended, known
  <2> QED
    BY <1>1
<1>3. FlattenSeq(s) = flatten[n]
  BY DEF FlattenSeq
<1>4. ASSUME NEW f, NEW i \in 1 .. n PROVE Extended(f)[i] = IF i = 1 THEN s[i] ELSE f[i - 1] \o s[i]
  OBVIOUS
<1> HIDE DEF flatten, Extended, known
<1>5. ASSUME NEW i \in 1 .. n PROVE flatten[i] = g[i]
  <2> DEFINE T == {x \in 1 .. n : flatten[x] # g[x]}
  <2>1. ASSUME T # {} PROVE FALSE
    <3>1. PICK x \in T : \A y \in T : x <= y
      BY <2>1, LeastOf
    <3>2. x \in 1 .. n /\ flatten[x] # g[x]
      OBVIOUS
    <3>3. flatten[x] = IF x = 1 THEN s[x] ELSE flatten[x - 1] \o s[x]
      BY <1>2, <1>4, <3>2
    <3>4. x # 1
      BY <3>2, <3>3
    <3>5. x - 1 \in 1 .. n /\ x \in 2 .. n /\ x - 1 \notin T
      BY <3>1, <3>2, <3>4
    <3> QED
      BY <3>2, <3>3, <3>4, <3>5
  <2> QED
    BY <2>1
<1> QED
  BY <1>3, <1>5

(* A sequence followed by single values is flattened to their sequence.     *)
LEMMA FlattenSingles ==
  ASSUME NEW V, NEW b \in Seq(V), NEW x \in Seq(V), NEW s,
         Len(s) = 1 + Len(x) /\ s[1] = b /\ (\A i \in 1 .. Len(x) : s[i + 1] = <<x[i]>>)
  PROVE  FlattenSeq(s) = b \o x
<1> DEFINE n == 1 + Len(x)
           G(i) == b \o SubSeq(x, 1, i - 1)
           g == [i \in 1 .. n |-> G(i)]
<1>1. n \in Nat \ {0} /\ 1 \in 1 .. n
  OBVIOUS
<1>2. G(1) = b
  OBVIOUS
<1>3. ASSUME NEW i \in 1 .. n, i # 1 PROVE G(i) = G(i - 1) \o s[i]
  <2>1. PICK j \in 1 .. Len(x) : j = i - 1 /\ i = j + 1
    BY <1>3
  <2>2. s[i] = <<x[j]>> /\ x[j] \in V
    BY <2>1
  <2>3. SubSeq(x, 1, j) = SubSeq(x, 1, j - 1) \o <<x[j]>>
    BY <2>2
  <2>4. SubSeq(x, 1, j - 1) \in Seq(V) /\ G(i - 1) = b \o SubSeq(x, 1, j - 1) /\ G(i) = b \o SubSeq(x, 1, j)
    BY <2>1
  <2>5. ASSUME NEW A \in Seq(V), NEW v \in V PROVE b \o (A \o <<v>>) = (b \o A) \o <<v>>
    OBVIOUS
  <2> HIDE DEF G
  <2> QED
    BY <2>2, <2>3, <2>4, <2>5
<1>4. G(n) = b \o x
  OBVIOUS
<1>5. g[1] = s[1] /\ \A i \in 2 .. n : g[i] = g[i - 1] \o s[i]
  <2> HIDE DEF G
  <2>1. ASSUME NEW i \in 2 .. n PROVE i \in 1 .. n /\ i # 1 /\ i - 1 \in 1 .. n
    OBVIOUS
  <2> QED
    BY <1>1, <1>2, <1>3, <2>1
<1>6. g[n] = b \o x
  BY <1>1, <1>4
<1>7. Len(s) = n
  OBVIOUS
<1> HIDE DEF g, n
<1>8. n \in Nat \ {0}
  BY <1>1
<1>9. FlattenSeq(s) = g[n]
  BY <1>5, <1>7, <1>8, FlattenIs
<1> QED
  BY <1>6, <1>9

(* Single values are flattened to their sequence.                           *)
LEMMA FlattenOnly ==
  ASSUME NEW V, NEW x \in Seq(V), NEW s \in Seq(Seq(V)),
         Len(s) = Len(x) /\ (\A i \in 1 .. Len(x) : s[i] = <<x[i]>>)
  PROVE  FlattenSeq(s) = x
<1>1. CASE Len(x) = 0
  BY <1>1 DEF FlattenSeq
<1>2. CASE Len(x) # 0
  <2>1. Tail(x) \in Seq(V) /\ <<x[1]>> \in Seq(V) /\ Len(s) = 1 + Len(Tail(x)) /\ s[1] = <<x[1]>>
    BY <1>2
  <2>2. \A i \in 1 .. Len(Tail(x)) : s[i + 1] = <<Tail(x)[i]>>
    BY <1>2
  <2>3. FlattenSeq(s) = <<x[1]>> \o Tail(x)
    BY <2>1, <2>2, FlattenSingles
  <2> QED
    BY <1>2, <2>3
<1> QED
  BY <1>1, <1>2

(* A value before a sequence.                                               *)
LEMMA Prefixed ==
  ASSUME NEW V, NEW v \in V, NEW x \in Seq(V)
  PROVE  LET s == <<v>> \o x IN
         /\ Len(s) = 1 + Len(x) /\ DOMAIN s = 1 .. 1 + Len(x)
         /\ s[1] = v /\ Tail(s) = x /\ \A i \in 1 .. Len(x) : s[i + 1] = x[i]
OBVIOUS

-----------------------------------------------------------------------------
Roles == {"system", "developer", "user", "assistant", "tool"}
Words == {"context", "prompt", "text", "repair", "workflow", "request", "call", "result", "schema"}

(* What is put together of one text each, instructions of the system first. *)
PlainMessages == {Message(role, word) : role \in Roles, word \in Words}
SystemFirst(messages) ==
  \E k \in 0 .. Len(messages) : \A i \in 1 .. Len(messages) : messages[i].role = "system" <=> i <= k

WordsOf(messages) == [i \in 1 .. Len(messages) |-> messages[i].content[1]]

(* A plain message has one text, which no label precedes before it is       *)
(* folded, and which is all that counts afterwards.                         *)
LEMMA PlainIs ==
  ASSUME NEW m \in PlainMessages
  PROVE  /\ m.role \in Roles /\ m.content[1] \in Words /\ m.content = <<m.content[1]>>
         /\ m.content[1] # "label"
         /\ Unlabelled(m.content) = m.content /\ Unlabelled(Later(m).content) = m.content
<1>1. PICK role \in Roles, word \in Words : m = [role |-> role, content |-> <<word>>]
  BY DEF PlainMessages, Message
<1>2. m.role = role /\ m.content = <<word>> /\ m.content[1] = word /\ word # "label"
  BY <1>1 DEF Words
<1>3. Unlabelled(m.content) = m.content
  BY <1>2 DEF Unlabelled
<1>4. Unlabelled(Later(m).content) = m.content
  <2>1. CASE role = "developer"
    <3>1. Later(m).content = <<"label">> \o <<word>>
      BY <1>2, <2>1 DEF Later
    <3>2. (<<"label">> \o <<word>>)[1] = "label" /\ Tail(<<"label">> \o <<word>>) = <<word>>
      <4>1. "label" \in Words \cup {"label"} /\ <<word>> \in Seq(Words \cup {"label"})
        OBVIOUS
      <4> QED
        BY <4>1, Prefixed
    <3> QED
      BY <1>2, <3>1, <3>2 DEF Unlabelled
  <2>2. CASE role # "developer"
    BY <1>2, <1>3, <2>2 DEF Later
  <2> QED
    BY <2>1, <2>2
<1> QED
  BY <1>2, <1>3, <1>4

(* What plain messages say is their texts in order.                         *)
LEMMA PlainTexts ==
  ASSUME NEW messages \in Seq(PlainMessages)
  PROVE  Texts(messages) = WordsOf(messages) /\ WordsOf(messages) \in Seq(Words)
<1> DEFINE n == Len(messages)
           x == WordsOf(messages)
           s == [i \in 1 .. n |-> Unlabelled(messages[i].content)]
<1>1. n \in Nat /\ \A i \in 1 .. n : messages[i] \in PlainMessages
  OBVIOUS
<1>2. \A i \in 1 .. n : s[i] = <<x[i]>> /\ x[i] \in Words
  BY <1>1, PlainIs DEF WordsOf
<1>3. x = [i \in 1 .. n |-> x[i]] /\ x \in Seq(Words) /\ Len(x) = n
  BY <1>1, <1>2 DEF WordsOf
<1>4. s \in Seq(Seq(Words)) /\ Len(s) = n
  <2>1. ASSUME NEW i \in 1 .. n PROVE s[i] \in Seq(Words)
    <3> HIDE DEF s, x
    <3>1. s[i] = <<x[i]>> /\ x[i] \in Words
      BY <1>2
    <3>2. ASSUME NEW w \in Words PROVE <<w>> \in Seq(Words)
      OBVIOUS
    <3> QED
      BY <3>1, <3>2
  <2> QED
    BY <1>1, <2>1
<1>5. FlattenSeq(s) = x
  <2> HIDE DEF x, s, n
  <2> QED
    BY <1>2, <1>3, <1>4, FlattenOnly
<1> QED
  BY <1>3, <1>5 DEF Texts

(* What fold_developer_messages makes of the leading instructions and of    *)
(* the rest.                                                                *)
LEMMA FoldIs ==
  ASSUME NEW messages \in Seq(PlainMessages)
  PROVE  LET n == Len(messages)
             sent == fold_developer_messages(messages)
         IN \E L \in 0 .. n :
              /\ \A i \in 1 .. L : Trusted(messages[i])
              /\ L = n \/ ~Trusted(messages[L + 1])
              /\ L = 0 => Len(sent) = n /\ DOMAIN sent = 1 .. n /\ \A i \in 1 .. n : sent[i] = Later(messages[i])
              /\ L > 0 => /\ Len(sent) = 1 + (n - L) /\ DOMAIN sent = 1 .. 1 + (n - L)
                          /\ sent[1].role = "system"
                          /\ sent[1].content = FlattenSeq([i \in 1 .. L |-> messages[i].content])
                          /\ \A i \in 1 .. n - L : sent[i + 1] = Later(messages[L + i])
<1> DEFINE n == Len(messages)
           Leading(k) == /\ \A i \in 1 .. k : Trusted(messages[i])
                         /\ k = n \/ ~Trusted(messages[k + 1])
           L == CHOOSE k \in 0 .. n : Leading(k)
           content == FlattenSeq([i \in 1 .. L |-> messages[i].content])
           first == [role |-> "system", content |-> content]
           rest == [i \in 1 .. n - L |-> Later(messages[L + i])]
           sent == (IF L = 0 THEN <<>> ELSE <<first>>) \o rest
<1>1. n \in Nat
  OBVIOUS
<1>2. \E k \in 0 .. n : Leading(k)
  <2> DEFINE T == {i \in 1 .. n : ~Trusted(messages[i])}
  <2>1. CASE T = {}
    BY <1>1, <2>1
  <2>2. CASE T # {}
    <3>1. PICK x \in T : \A y \in T : x <= y
      BY <1>1, <2>2, LeastOf
    <3>2. x - 1 \in 0 .. n /\ x = (x - 1) + 1 /\ ~Trusted(messages[x])
      BY <1>1, <3>1
    <3>3. \A i \in 1 .. x - 1 : Trusted(messages[i])
      BY <1>1, <3>1, <3>2
    <3> QED
      BY <3>2, <3>3
  <2> QED
    BY <2>1, <2>2
<1>3. L \in 0 .. n /\ Leading(L)
  <2> HIDE DEF Leading, n
  <2> QED
    BY <1>2
<1>4. fold_developer_messages(messages) = sent
  BY DEF fold_developer_messages
<1> HIDE DEF L, content
<1>5. rest \in Seq({Later(messages[i]) : i \in 1 .. n}) /\ Len(rest) = n - L /\ DOMAIN rest = 1 .. n - L
  BY <1>1, <1>3
<1>6. CASE L = 0
  <2>1. sent = rest
    <3> HIDE DEF rest
    <3>1. sent = <<>> \o rest
      BY <1>6
    <3> QED
      BY <1>5, <3>1
  <2>2. Len(sent) = n /\ DOMAIN sent = 1 .. n /\ \A i \in 1 .. n : sent[i] = Later(messages[i])
    BY <1>1, <1>5, <1>6, <2>1
  <2> HIDE DEF sent
  <2> QED
    BY <1>3, <1>4, <1>6, <2>2
<1>7. CASE L > 0
  <2>1. sent = <<first>> \o rest
    BY <1>3, <1>7
  <2>2. /\ Len(sent) = 1 + (n - L) /\ DOMAIN sent = 1 .. 1 + (n - L) /\ sent[1] = first
        /\ \A i \in 1 .. n - L : sent[i + 1] = rest[i]
    <3> HIDE DEF rest, first, sent
    <3>1. first \in {first} \cup {Later(messages[i]) : i \in 1 .. n}
      OBVIOUS
    <3>2. rest \in Seq({first} \cup {Later(messages[i]) : i \in 1 .. n})
      BY <1>5
    <3> QED
      BY <1>5, <2>1, <3>1, <3>2, Prefixed
  <2>3. \A i \in 1 .. n - L : sent[i + 1] = Later(messages[L + i])
    <3> HIDE DEF sent
    <3> QED
      BY <2>2
  <2>4. sent[1].role = "system" /\ sent[1].content = content
    <3> HIDE DEF sent
    <3> QED
      BY <2>2
  <2>5. content = FlattenSeq([i \in 1 .. L |-> messages[i].content])
    BY DEF content
  <2>6. L # 0
    BY <1>3, <1>7
  <2> HIDE DEF sent
  <2> QED
    BY <1>3, <1>4, <2>2, <2>3, <2>4, <2>5, <2>6
<1> QED
  BY <1>3, <1>6, <1>7

(* Folding keeps every text in its place, and leaves roles the route knows. *)
LEMMA FoldServes ==
  ASSUME NEW messages \in Seq(PlainMessages), SystemFirst(messages)
  PROVE  LET sent == fold_developer_messages(messages) IN
         /\ Texts(sent) = WordsOf(messages)
         /\ \A i \in DOMAIN sent : sent[i].role # "developer" /\ (sent[i].role = "system" => i = 1)
<1> DEFINE n == Len(messages)
           x == WordsOf(messages)
           sent == fold_developer_messages(messages)
           s == [i \in 1 .. Len(sent) |-> Unlabelled(sent[i].content)]
<1>1. n \in Nat /\ \A i \in 1 .. n : messages[i] \in PlainMessages
  OBVIOUS
<1>2. /\ x \in Seq(Words) /\ Len(x) = n
      /\ \A i \in 1 .. n : x[i] \in Words /\ messages[i].content = <<x[i]>> /\ x[i] # "label"
  <2>1. x \in Seq(Words)
    BY PlainTexts
  <2> QED
    BY <1>1, <2>1, PlainIs DEF WordsOf
<1>3. PICK L \in 0 .. n :
         /\ \A i \in 1 .. L : Trusted(messages[i])
         /\ L = n \/ ~Trusted(messages[L + 1])
         /\ L = 0 => Len(sent) = n /\ DOMAIN sent = 1 .. n /\ \A i \in 1 .. n : sent[i] = Later(messages[i])
         /\ L > 0 => /\ Len(sent) = 1 + (n - L) /\ DOMAIN sent = 1 .. 1 + (n - L)
                     /\ sent[1].role = "system"
                     /\ sent[1].content = FlattenSeq([i \in 1 .. L |-> messages[i].content])
                     /\ \A i \in 1 .. n - L : sent[i + 1] = Later(messages[L + i])
  BY FoldIs
<1> HIDE DEF sent, x
<1>4. ASSUME NEW i \in 1 .. n PROVE Unlabelled(Later(messages[i]).content) = <<x[i]>>
  BY <1>1, <1>2, PlainIs
<1>5. ASSUME NEW w \in Words PROVE <<w>> \in Seq(Words)
  OBVIOUS
<1>6. Texts(sent) = FlattenSeq(s)
  BY DEF Texts
<1>7. FlattenSeq(s) = x
  <2>1. CASE L = 0
    <3>1. Len(sent) = n /\ \A i \in 1 .. n : s[i] = <<x[i]>>
      BY <1>3, <1>4, <2>1
    <3>2. s \in Seq(Seq(Words)) /\ Len(s) = n
      <4>1. ASSUME NEW i \in 1 .. n PROVE s[i] \in Seq(Words)
        BY <1>2, <1>5, <3>1
      <4> QED
        BY <1>1, <3>1, <4>1
    <3> HIDE DEF s
    <3> QED
      BY <1>2, <3>1, <3>2, FlattenOnly
  <2>2. CASE L # 0
    <3> DEFINE b == SubSeq(x, 1, L)
               y == SubSeq(x, L + 1, n)
               z == [i \in 1 .. L |-> messages[i].content]
    <3>1. L \in 1 .. n
      BY <1>1, <2>2
    <3>2. /\ b \in Seq(Words) /\ Len(b) = L /\ b[1] = x[1]
          /\ y \in Seq(Words) /\ Len(y) = n - L /\ x = b \o y
      <4>1. /\ b \in Seq(Words) /\ Len(b) = L /\ b[1] = x[1]
            /\ y \in Seq(Words) /\ Len(y) = n - L
        BY <1>1, <1>2, <3>1
      <4>2. b \o y = SubSeq(x, 1, n)
        BY <1>1, <1>2, <3>1, ConcatAdjacentSubSeq
      <4>3. SubSeq(x, 1, n) = x
        BY <1>2, SubSeqFull
      <4> HIDE DEF b, y
      <4> QED
        BY <4>1, <4>2, <4>3
    <3>3. \A i \in 1 .. L : b[i] = x[i]
      BY <1>1, <1>2, <3>1
    <3>4. ASSUME NEW i \in 1 .. n - L PROVE L + i \in 1 .. n /\ y[i] = x[L + i]
      BY <1>1, <1>2, <3>1
    <3> HIDE DEF b, y
    <3>5. FlattenSeq(z) = b
      <4>1. ASSUME NEW i \in 1 .. L PROVE z[i] = <<b[i]>> /\ z[i] \in Seq(Words)
        <5>1. i \in 1 .. n
          BY <1>1, <3>1
        <5>2. messages[i].content = <<x[i]>> /\ x[i] \in Words /\ b[i] = x[i]
          BY <1>2, <3>3, <5>1
        <5> QED
          BY <1>5, <5>2
      <4>2. z \in Seq(Seq(Words)) /\ Len(z) = L
        BY <3>1, <4>1
      <4> HIDE DEF z
      <4> QED
        BY <3>2, <4>1, <4>2, FlattenOnly
    <3>6. sent[1].content = b /\ Len(sent) = 1 + Len(y)
      BY <1>3, <3>1, <3>2, <3>5
    <3>7. b[1] # "label"
      BY <1>2, <3>1, <3>2
    <3>8. s[1] = b
      <4>1. s[1] = Unlabelled(b)
        BY <3>2, <3>6
      <4> QED
        BY <3>7, <4>1 DEF Unlabelled
    <3>9. ASSUME NEW i \in 1 .. Len(y) PROVE s[i + 1] = <<y[i]>>
      <4>1. i \in 1 .. n - L /\ i + 1 \in 1 .. Len(sent)
        BY <3>2, <3>6
      <4>2. s[i + 1] = Unlabelled(sent[i + 1].content) /\ sent[i + 1] = Later(messages[L + i])
        BY <1>3, <3>1, <4>1
      <4> QED
        BY <1>4, <3>4, <4>1, <4>2
    <3>10. Len(s) = 1 + Len(y)
      BY <3>2, <3>6
    <3> HIDE DEF s
    <3>11. FlattenSeq(s) = b \o y
      BY <3>2, <3>8, <3>9, <3>10, FlattenSingles
    <3> QED
      BY <3>2, <3>11
  <2> QED
    BY <2>1, <2>2
<1>8. ASSUME NEW i \in DOMAIN sent
      PROVE  sent[i].role # "developer" /\ (sent[i].role = "system" => i = 1)
  <2>1. ASSUME NEW m PROVE Later(m).role # "developer" /\ (Later(m).role = "system" => m.role = "system")
    BY DEF Later
  <2>2. PICK k \in 0 .. n : \A j \in 1 .. n : messages[j].role = "system" <=> j <= k
    BY DEF SystemFirst
  <2>3. ASSUME NEW j \in 1 .. n, L < j, messages[j].role = "system" PROVE FALSE
    <3>1. L + 1 \in 1 .. n /\ L + 1 <= k /\ L # n
      BY <1>1, <2>2, <2>3
    <3>2. messages[L + 1].role = "system"
      BY <2>2, <3>1
    <3> QED
      BY <1>3, <3>1, <3>2 DEF Trusted
  <2>4. CASE L = 0
    <3>1. i \in 1 .. n /\ sent[i] = Later(messages[i])
      BY <1>3, <2>4
    <3> QED
      BY <2>1, <2>3, <2>4, <3>1
  <2>5. CASE L # 0 /\ i # 1
    <3>1. i \in 1 .. 1 + (n - L)
      BY <1>1, <1>3, <2>5
    <3>2. PICK j \in 1 .. n - L : i = j + 1
      <4>1. i - 1 \in 1 .. n - L /\ i = (i - 1) + 1
        BY <1>1, <2>5, <3>1
      <4> QED
        BY <4>1
    <3>3. sent[i] = Later(messages[L + j]) /\ L + j \in 1 .. n /\ L < L + j
      BY <1>1, <1>3, <2>5, <3>2
    <3> QED
      BY <2>1, <2>3, <3>3
  <2>6. CASE L # 0 /\ i = 1
    BY <1>1, <1>3, <2>6
  <2> QED
    BY <2>4, <2>5, <2>6
<1> QED
  BY <1>6, <1>7, <1>8 DEF sent, x

(* An instruction of the system before others.                              *)
LEMMA Following ==
  ASSUME NEW m \in PlainMessages, m.role = "system", NEW rest \in Seq(PlainMessages),
         \A i \in 1 .. Len(rest) : rest[i].role # "system"
  PROVE  <<m>> \o rest \in Seq(PlainMessages) /\ SystemFirst(<<m>> \o rest)
<1> DEFINE s == <<m>> \o rest
<1>1. /\ s \in Seq(PlainMessages) /\ Len(s) = 1 + Len(rest) /\ s[1] = m
      /\ \A i \in 1 .. Len(rest) : s[i + 1] = rest[i]
  BY Prefixed
<1> HIDE DEF s
<1>2. ASSUME NEW i \in 1 .. Len(s) PROVE s[i].role = "system" <=> i <= 1
  <2>1. CASE i = 1
    BY <1>1, <2>1
  <2>2. CASE i # 1
    <3>1. i - 1 \in 1 .. Len(rest) /\ i = (i - 1) + 1 /\ ~(i <= 1)
      BY <1>1, <2>2
    <3>2. s[i] = rest[i - 1]
      BY <1>1, <3>1
    <3> QED
      BY <3>1, <3>2
  <2> QED
    BY <2>1, <2>2
<1>3. 1 \in 0 .. Len(s)
  BY <1>1
<1> QED
  BY <1>1, <1>2, <1>3 DEF SystemFirst, s

(* One more instruction of the system may come first.                       *)
LEMMA Preceding ==
  ASSUME NEW m \in PlainMessages, m.role = "system", NEW rest \in Seq(PlainMessages), SystemFirst(rest)
  PROVE  <<m>> \o rest \in Seq(PlainMessages) /\ SystemFirst(<<m>> \o rest)
<1> DEFINE s == <<m>> \o rest
<1>1. /\ s \in Seq(PlainMessages) /\ Len(s) = 1 + Len(rest) /\ s[1] = m
      /\ \A i \in 1 .. Len(rest) : s[i + 1] = rest[i]
  BY Prefixed
<1>2. PICK k \in 0 .. Len(rest) : \A i \in 1 .. Len(rest) : rest[i].role = "system" <=> i <= k
  BY DEF SystemFirst
<1> HIDE DEF s
<1>3. ASSUME NEW i \in 1 .. Len(s) PROVE s[i].role = "system" <=> i <= k + 1
  <2>1. CASE i = 1
    BY <1>1, <1>2, <2>1
  <2>2. CASE i # 1
    <3>1. i - 1 \in 1 .. Len(rest) /\ i = (i - 1) + 1 /\ (i <= k + 1 <=> i - 1 <= k)
      BY <1>1, <1>2, <2>2
    <3>2. s[i] = rest[i - 1]
      BY <1>1, <3>1
    <3> QED
      BY <1>2, <3>1, <3>2
  <2> QED
    BY <2>1, <2>2
<1>4. k + 1 \in 0 .. Len(s)
  BY <1>1, <1>2
<1> QED
  BY <1>1, <1>3, <1>4 DEF SystemFirst, s

(* What every stage asks with is put together like this.                    *)
LEMMA AskedIs ==
  ASSUME NEW stage \in {"structured", "tools"}, NEW stable \in BOOLEAN, NEW again \in Nat
  PROVE  Asked(stage, stable, again) \in Seq(PlainMessages) /\ SystemFirst(Asked(stage, stable, again))
<1>1. ASSUME NEW role \in Roles, NEW word \in Words
      PROVE  Message(role, word) \in PlainMessages /\ Message(role, word).role = role
  BY <1>1 DEF PlainMessages, Message
<1>2. ASSUME NEW first \in PlainMessages, NEW second \in PlainMessages, NEW rest \in Seq(PlainMessages),
             first.role = "system", second.role # "system",
             \A i \in 1 .. Len(rest) : rest[i].role # "system"
      PROVE  <<first, second>> \o rest \in Seq(PlainMessages) /\ SystemFirst(<<first, second>> \o rest)
  <2> DEFINE others == <<second>> \o rest
  <2>1. /\ others \in Seq(PlainMessages) /\ Len(others) = 1 + Len(rest) /\ others[1] = second
        /\ \A i \in 1 .. Len(rest) : others[i + 1] = rest[i]
    BY Prefixed
  <2>2. <<first, second>> \o rest = <<first>> \o others
    <3>1. <<first, second>> = <<first>> \o <<second>>
      <4> DEFINE s == <<first>> \o <<second>>
      <4>1. /\ <<first, second>> \in Seq(PlainMessages) /\ Len(<<first, second>>) = 2
            /\ <<first, second>>[1] = first /\ <<first, second>>[2] = second
        OBVIOUS
      <4>2. s \in Seq(PlainMessages) /\ Len(s) = 2 /\ s[1] = first /\ s[2] = second
        OBVIOUS
      <4> HIDE DEF s
      <4>3. \A i \in 1 .. Len(<<first, second>>) : <<first, second>>[i] = s[i]
        BY <4>1, <4>2
      <4> QED
        BY <4>1, <4>2, <4>3, SeqEqual DEF s
    <3>2. <<first>> \in Seq(PlainMessages) /\ <<second>> \in Seq(PlainMessages)
      OBVIOUS
    <3> QED
      BY <3>1, <3>2, ConcatAssociative
  <2> HIDE DEF others
  <2>3. ASSUME NEW i \in 1 .. Len(others) PROVE others[i].role # "system"
    <3>1. CASE i = 1
      BY <1>2, <2>1, <3>1
    <3>2. CASE i # 1
      <4>1. i - 1 \in 1 .. Len(rest) /\ i = (i - 1) + 1
        BY <2>1, <3>2
      <4>2. others[i] = rest[i - 1]
        BY <2>1, <4>1
      <4> QED
        BY <1>2, <4>1, <4>2
    <3> QED
      BY <3>1, <3>2
  <2> QED
    BY <1>2, <2>1, <2>2, <2>3, Following
<1>3. Structured(again) \in Seq(PlainMessages) /\ SystemFirst(Structured(again))
  <2> DEFINE rest == [i \in 1 .. again |-> Message("developer", "repair")]
  <2>1. Message("developer", "repair") \in PlainMessages /\ Message("developer", "repair").role = "developer"
    BY <1>1 DEF Roles, Words
  <2>2. rest \in Seq(PlainMessages) /\ \A i \in 1 .. Len(rest) : rest[i].role # "system"
    BY <2>1
  <2>3. /\ Message("system", "prompt") \in PlainMessages /\ Message("system", "prompt").role = "system"
        /\ Message("user", "text") \in PlainMessages /\ Message("user", "text").role = "user"
    BY <1>1 DEF Roles, Words
  <2>4. Structured(again) = <<Message("system", "prompt"), Message("user", "text")>> \o rest
    BY DEF Structured, Repeat
  <2> HIDE DEF rest
  <2> QED
    BY <1>2, <2>2, <2>3, <2>4
<1>4. Tools(again) \in Seq(PlainMessages) /\ SystemFirst(Tools(again))
  <2> DEFINE rest == [i \in 1 .. 2 * again |-> IF i % 2 = 1 THEN Message("assistant", "call") ELSE Message("tool", "result")]
  <2>1. /\ Message("assistant", "call") \in PlainMessages /\ Message("assistant", "call").role = "assistant"
        /\ Message("tool", "result") \in PlainMessages /\ Message("tool", "result").role = "tool"
    BY <1>1 DEF Roles, Words
  <2>2. rest \in Seq(PlainMessages) /\ \A i \in 1 .. Len(rest) : rest[i].role # "system"
    BY <2>1
  <2>3. /\ Message("system", "workflow") \in PlainMessages /\ Message("system", "workflow").role = "system"
        /\ Message("developer", "request") \in PlainMessages /\ Message("developer", "request").role = "developer"
    BY <1>1 DEF Roles, Words
  <2>4. Tools(again) = <<Message("system", "workflow"), Message("developer", "request")>> \o rest
    BY DEF Tools
  <2> HIDE DEF rest
  <2> QED
    BY <1>2, <2>2, <2>3, <2>4
<1> DEFINE body == IF stage = "tools" THEN Tools(again) ELSE Structured(again)
<1>5. body \in Seq(PlainMessages) /\ SystemFirst(body)
  BY <1>3, <1>4
<1>6. Asked(stage, stable, again) = StablePrefix(stable) \o body
  BY DEF Asked
<1> HIDE DEF body
<1>7. CASE stable
  <2>1. Message("system", "context") \in PlainMessages /\ Message("system", "context").role = "system"
    BY <1>1 DEF Roles, Words
  <2>2. Asked(stage, stable, again) = <<Message("system", "context")>> \o body
    BY <1>6, <1>7 DEF StablePrefix
  <2> QED
    BY <1>5, <2>1, <2>2, Preceding
<1>8. CASE ~stable
  <2>1. Asked(stage, stable, again) = <<>> \o body
    BY <1>6, <1>8 DEF StablePrefix
  <2>2. <<>> \o body = body
    BY <1>5
  <2> QED
    BY <1>5, <2>1, <2>2
<1> QED
  BY <1>7, <1>8

(* The schema as an instruction comes last.                                 *)
LEMMA SchemaLast ==
  ASSUME NEW asked \in Seq(PlainMessages), SystemFirst(asked)
  PROVE  LET wire == asked \o <<Message("developer", "schema")>> IN
         wire \in Seq(PlainMessages) /\ SystemFirst(wire) /\ WordsOf(wire) = WordsOf(asked) \o <<"schema">>
<1> DEFINE last == Message("developer", "schema")
           wire == asked \o <<last>>
           n == Len(asked)
<1>1. last \in PlainMessages /\ last.role = "developer" /\ last.content[1] = "schema"
  BY DEF PlainMessages, Message, Roles, Words
<1> HIDE DEF last
<1>2. /\ wire \in Seq(PlainMessages) /\ Len(wire) = n + 1 /\ n \in Nat /\ wire[n + 1] = last
      /\ \A i \in 1 .. n : wire[i] = asked[i]
  BY <1>1
<1> HIDE DEF wire
<1>3. PICK k \in 0 .. n : \A i \in 1 .. n : asked[i].role = "system" <=> i <= k
  BY DEF SystemFirst
<1>4. ASSUME NEW i \in 1 .. n + 1 PROVE wire[i].role = "system" <=> i <= k
  <2>1. CASE i = n + 1
    BY <1>1, <1>2, <1>3, <2>1
  <2>2. CASE i # n + 1
    <3>1. i \in 1 .. n
      BY <1>2, <2>2
    <3> QED
      BY <1>2, <1>3, <3>1
  <2> QED
    BY <2>1, <2>2
<1>5. SystemFirst(wire)
  <2>1. k \in 0 .. Len(wire)
    BY <1>2, <1>3
  <2> QED
    BY <1>2, <1>4, <2>1 DEF SystemFirst
<1>6. WordsOf(wire) = WordsOf(asked) \o <<"schema">>
  <2> DEFINE x == WordsOf(asked)
             y == x \o <<"schema">>
  <2>1. x \in Seq(Words) /\ "schema" \in Words
    BY PlainTexts DEF Words
  <2>2. Len(x) = n /\ \A i \in 1 .. n : x[i] = asked[i].content[1]
    BY <1>2 DEF WordsOf
  <2> HIDE DEF x
  <2>3. ASSUME NEW w \in Words
        PROVE  /\ Len(x \o <<w>>) = n + 1 /\ x \o <<w>> \in Seq(Words) /\ (x \o <<w>>)[n + 1] = w
               /\ \A i \in 1 .. n : (x \o <<w>>)[i] = x[i]
    BY <1>2, <2>1, <2>2
  <2>4. /\ Len(y) = n + 1 /\ y \in Seq(Words) /\ y[n + 1] = "schema"
        /\ \A i \in 1 .. n : y[i] = x[i]
    BY <2>1, <2>3
  <2> HIDE DEF y
  <2>5. ASSUME NEW i \in 1 .. n + 1 PROVE wire[i].content[1] = y[i]
    <3>1. CASE i = n + 1
      BY <1>1, <1>2, <2>4, <3>1
    <3>2. CASE i # n + 1
      <4>1. i \in 1 .. n
        BY <1>2, <3>2
      <4> QED
        BY <1>2, <2>2, <2>4, <4>1
    <3> QED
      BY <3>1, <3>2
  <2>6. y = [i \in 1 .. n + 1 |-> y[i]]
    BY <1>2, <2>4
  <2>7. WordsOf(wire) = [i \in 1 .. n + 1 |-> wire[i].content[1]]
    BY <1>2 DEF WordsOf
  <2>8. WordsOf(wire) = y
    BY <2>5, <2>6, <2>7
  <2> QED
    BY <2>8 DEF y, x
<1> QED
  BY <1>2, <1>5, <1>6 DEF wire, last

-----------------------------------------------------------------------------
(* What the readiness check found out of the two routes it selects.         *)
Fit(a) ==
  LET route == config.routes[a]
      caps == Get(route, "caps", <<>>)
  IN
  /\ a \in DOMAIN config.routes /\ ~Simulated(route)
  /\ Get(caps, "tools", Unset) = TRUE
  /\ TRUE \in {Get(caps, "json_schema", Unset), Get(caps, "json_object", Unset)}

FitInv == kind = "comparison" /\ client.at \notin {"start", "refused"} => \A a \in Aliases : Fit(a)

(* The check is of the routes that the selection keeps.                     *)
LEMMA PreflightFits ==
  ASSUME {"routes", "fallbacks"} \subseteq DOMAIN config, preflight(config), config' = comparison_config(config)
  PROVE  \A a \in Aliases : Fit(a)'
<1> SUFFICES ASSUME NEW a \in Aliases PROVE Fit(a)'
  OBVIOUS
<1> DEFINE route == Get(config.routes, a, <<>>)
<1>1. /\ Get(route, "mode", Unset) # Unset /\ route.mode = ExpectedMode[a]
      /\ Get(Get(route, "caps", <<>>), "tools", Unset) = TRUE
      /\ TRUE \in {Get(Get(route, "caps", <<>>), "json_schema", Unset), Get(Get(route, "caps", <<>>), "json_object", Unset)}
  BY DEF preflight
<1>2. "mode" \in DOMAIN route
  BY <1>1 DEF Get
<1>3. a \in DOMAIN config.routes /\ route = config.routes[a]
  <2>1. DOMAIN <<>> = {}
    OBVIOUS
  <2> QED
    BY <1>2, <2>1 DEF Get
<1>4. config'.routes = [x \in DOMAIN config.routes \cap Aliases |-> config.routes[x]]
  BY DEF comparison_config, Selecting
<1>5. a \in DOMAIN config'.routes /\ config'.routes[a] = route
  BY <1>3, <1>4
<1>6. ~Simulated(route)
  <2>1. Get(route, "mode", Unset) = ExpectedMode[a]
    BY <1>1, <1>2 DEF Get
  <2> QED
    BY <2>1 DEF Simulated, ExpectedMode, Aliases
<1> HIDE DEF route
<1> QED
  BY <1>1, <1>5, <1>6 DEF Fit

LEMMA NextFitInv == ClientInv /\ FitInv /\ [main]_measurementVars => FitInv'
<1> SUFFICES ASSUME ClientInv, FitInv, [main]_measurementVars,
                    kind' = "comparison", client'.at \notin {"start", "refused"}
             PROVE  \A a \in Aliases : Fit(a)'
  BY DEF FitInv
<1>1. ASSUME UNCHANGED <<kind, config>>, client.at \notin {"start", "refused"}
      PROVE  \A a \in Aliases : Fit(a)'
  <2>1. \A a \in Aliases : Fit(a)
    BY <1>1 DEF FitInv
  <2> QED
    BY <1>1, <2>1 DEF Fit
<1>2. CASE UNCHANGED clientVars
  BY <1>1, <1>2 DEF clientVars
<1>3. CASE select
  <2>1. kind = "comparison" /\ config' = comparison_config(config)
    BY <1>3 DEF select
  <2>2. preflight(config)
    <3>1. client = [at |-> client.at, made |-> client.made, read |-> client.read]
      BY DEF ClientInv
    <3>2. ASSUME ~preflight(config) PROVE client' = [client EXCEPT !.at = "refused"]
      BY <1>3, <2>1, <3>2 DEF select
    <3> QED
      BY <3>1, <3>2
  <2>3. {"routes", "fallbacks"} \subseteq DOMAIN config
    BY DEF ClientInv
  <2> QED
    BY <2>1, <2>2, <2>3, PreflightFits
<1>4. CASE check
  BY <1>1, <1>4 DEF check
<1>5. ASSUME NEW alias, make(alias) PROVE \A a \in Aliases : Fit(a)'
  <2>1. client.at = "making" /\ UNCHANGED <<kind, config>>
    BY <1>5 DEF make
  <2> QED
    BY <1>1, <2>1
<1> QED
  BY <1>2, <1>3, <1>4, <1>5 DEF main, measurementVars, ClientNext

(* What a route that passed has, of what a request needs.                   *)
LEMMA Fitting ==
  ASSUME NEW a, Fit(a), Admitted(config.routes[a], config.money)
  PROVE  LET route == config.routes[a]
             caps == _caps(route)
         IN /\ caps.tools = TRUE /\ caps.json_schema \in BOOLEAN /\ caps.token_parameter # Unset
            /\ Get(caps, "schema_with_tools", TRUE) \in BOOLEAN /\ Get(caps, "developer_role", TRUE) \in BOOLEAN
            /\ ~caps.json_schema => Get(caps, "json_object", FALSE) = TRUE
            /\ Temperature(route) # Unset => caps.temperature
            /\ config.money # Unset => route.tariff = "complete" /\ route.max_input_tokens # Unset
<1> DEFINE route == config.routes[a]
           caps == _caps(route)
<1>1. /\ caps = Get(route, "caps", <<>>)
      /\ Get(caps, "tools", Unset) = TRUE
      /\ TRUE \in {Get(caps, "json_schema", Unset), Get(caps, "json_object", Unset)}
  BY DEF Fit, _caps
<1>2. /\ \A k \in {"json_schema", "tools", "parallel_tool_calls", "temperature"} : Get(caps, k, Unset) \in BOOLEAN
      /\ Get(caps, "token_parameter", Unset) \in {"max_tokens", "max_completion_tokens"}
      /\ \A k \in {"schema_with_tools", "developer_role", "json_object"} \cap DOMAIN caps : caps[k] \in BOOLEAN
      /\ Temperature(route) # Unset => caps.temperature
      /\ config.money # Unset => _tariff(route) = "complete" /\ Get(route, "max_input_tokens", Unset) # Unset
  BY DEF Admitted
<1> HIDE DEF caps, route
<1>3. ASSUME NEW mapping, NEW key, Get(mapping, key, Unset) # Unset
      PROVE  key \in DOMAIN mapping /\ \A default : Get(mapping, key, default) = mapping[key]
  BY <1>3 DEF Get
<1>4. TRUE # Unset /\ "complete" # Unset /\ \A b \in BOOLEAN \cup {"max_tokens", "max_completion_tokens"} : b # Unset
  BY ConfigurationAssumption DEF ConfigurationAssumption
<1>5. caps.tools = TRUE
  BY <1>1, <1>3, <1>4
<1>6. /\ Get(caps, "json_schema", Unset) = caps.json_schema /\ caps.json_schema \in BOOLEAN
  <2>1. Get(caps, "json_schema", Unset) \in BOOLEAN
    BY <1>2
  <2>2. Get(caps, "json_schema", Unset) # Unset
    BY <1>4, <2>1
  <2>3. Get(caps, "json_schema", Unset) = caps["json_schema"]
    BY <1>3, <2>2
  <2> QED
    BY <2>1, <2>3
<1>7. caps.token_parameter # Unset
  <2>1. Get(caps, "token_parameter", Unset) # Unset
    BY <1>2, <1>4
  <2>2. Get(caps, "token_parameter", Unset) = caps["token_parameter"]
    BY <1>3, <2>1
  <2> QED
    BY <2>1, <2>2
<1>8. Get(caps, "schema_with_tools", TRUE) \in BOOLEAN /\ Get(caps, "developer_role", TRUE) \in BOOLEAN
  BY <1>2 DEF Get
<1>9. ASSUME ~caps.json_schema PROVE Get(caps, "json_object", FALSE) = TRUE
  <2>1. Get(caps, "json_object", Unset) = TRUE
    BY <1>1, <1>6, <1>9
  <2>2. Get(caps, "json_object", Unset) # Unset
    BY <1>4, <2>1
  <2> QED
    BY <1>3, <2>1, <2>2
<1>10. config.money # Unset => route.tariff = "complete" /\ route.max_input_tokens # Unset
  <2> SUFFICES ASSUME config.money # Unset PROVE route.tariff = "complete" /\ route.max_input_tokens # Unset
    OBVIOUS
  <2>1. Get(route, "tariff", Unset) = "complete" /\ Get(route, "max_input_tokens", Unset) # Unset
    BY <1>2 DEF _tariff
  <2>2. Get(route, "tariff", Unset) = route["tariff"] /\ Get(route, "max_input_tokens", Unset) = route["max_input_tokens"]
    BY <1>3, <1>4, <2>1
  <2> QED
    BY <2>1, <2>2
<1> QED
  BY <1>2, <1>5, <1>6, <1>7, <1>8, <1>9, <1>10 DEF caps, route

(* What is sent of one request.                                             *)
LEMMA SentIs ==
  ASSUME NEW route, NEW asked \in Seq(PlainMessages), SystemFirst(asked), NEW schema \in BOOLEAN, NEW tools \in BOOLEAN,
         _caps(route).json_schema \in BOOLEAN
  PROVE  LET sent == _kwargs(route, asked, schema, tools) IN
         /\ Texts(sent.messages) = Texts(asked) \o (IF sent.response_format = "json_object" THEN <<"schema">> ELSE <<>>)
         /\ schema => sent.response_format # "none"
         /\ Get(_caps(route), "developer_role", TRUE)
            \/ \A i \in DOMAIN sent.messages : sent.messages[i].role # "developer"
                                               /\ (sent.messages[i].role = "system" => i = 1)
<1> DEFINE only == json_mode_only(route, schema)
           wire == asked \o (IF only THEN <<Message("developer", "schema")>> ELSE <<>>)
           folds == ~Get(_caps(route), "developer_role", TRUE)
           sent == _kwargs(route, asked, schema, tools)
<1>1. /\ sent.messages = IF folds THEN fold_developer_messages(wire) ELSE wire
      /\ sent.response_format = CASE only -> "json_object"
                                  [] schema /\ _caps(route).json_schema -> "json_schema"
                                  [] ~schema -> "none"
  BY DEF _kwargs
<1>2. only <=> schema /\ ~_caps(route).json_schema
  BY DEF json_mode_only
<1>3. (sent.response_format = "json_object" <=> only) /\ (schema => sent.response_format # "none")
  <2> HIDE DEF only, sent
  <2>1. CASE only
    BY <1>1, <1>2, <2>1
  <2>2. CASE ~only /\ schema
    BY <1>1, <1>2, <2>2
  <2>3. CASE ~schema
    BY <1>1, <1>2, <2>3
  <2> QED
    BY <2>1, <2>2, <2>3
<1> HIDE DEF only, sent
<1>4. /\ wire \in Seq(PlainMessages) /\ SystemFirst(wire)
      /\ WordsOf(wire) = WordsOf(asked) \o (IF only THEN <<"schema">> ELSE <<>>)
  <2>1. CASE only
    BY <2>1, SchemaLast
  <2>2. CASE ~only
    <3>1. wire = asked
      BY <2>2
    <3>2. WordsOf(asked) \o <<>> = WordsOf(asked)
      BY PlainTexts
    <3> QED
      BY <2>2, <3>1, <3>2
  <2> QED
    BY <2>1, <2>2
<1> HIDE DEF wire
<1>5. Texts(sent.messages) = WordsOf(wire)
  BY <1>1, <1>4, FoldServes, PlainTexts
<1>6. Texts(asked) = WordsOf(asked)
  BY PlainTexts
<1>7. folds => \A i \in DOMAIN sent.messages : sent.messages[i].role # "developer"
                                              /\ (sent.messages[i].role = "system" => i = 1)
  BY <1>1, <1>4, FoldServes
<1> QED
  BY <1>3, <1>4, <1>5, <1>6, <1>7 DEF sent

(* A configuration called ready serves: whatever configuration the          *)
(* comparison is given, once its client is made no stage of the application *)
(* meets a missing capability, a role the route does not know or, under a   *)
(* budget, a request without a price; every text it asked with is sent, in  *)
(* its order, and the schema with it where the route does not enforce one.  *)
THEOREM MeasurementReadyMeansServed == Spec => []ReadyMeansServed
<1>1. Init => FitInv
  BY DEF Init, ClientInit, FitInv
<1>2. ClientInv /\ FitInv => ReadyMeansServed
  <2> SUFFICES ASSUME ClientInv, FitInv, client.at = "ready", kind = "comparison",
                      NEW a \in Aliases, NEW stage \in {"structured", "tools"}, NEW stable \in BOOLEAN, NEW again \in 0 .. 3
               PROVE  LET route == config.routes[a]  caps == _caps(route)
                          schema == stage = "tools" => Get(caps, "schema_with_tools", TRUE)
                          asked == Asked(stage, stable, again)
                          sent == _kwargs(route, asked, schema, stage = "tools")
                      IN
                      /\ ~Unsupported(route, schema, stage = "tools") /\ sent.limit # Unset
                      /\ Texts(sent.messages)
                           = Texts(asked) \o (IF sent.response_format = "json_object" THEN <<"schema">> ELSE <<>>)
                      /\ schema => sent.response_format # "none"
                      /\ Get(caps, "developer_role", TRUE)
                         \/ \A i \in DOMAIN sent.messages : sent.messages[i].role # "developer"
                                                            /\ (sent.messages[i].role = "system" => i = 1)
                      /\ sent.temperature # Unset => caps.temperature
                      /\ config.money # Unset => route.tariff = "complete" /\ route.max_input_tokens # Unset
    BY DEF ReadyMeansServed
  <2> DEFINE route == config.routes[a]
             caps == _caps(route)
             tools == stage = "tools"
             schema == tools => Get(caps, "schema_with_tools", TRUE)
             asked == Asked(stage, stable, again)
             sent == _kwargs(route, asked, schema, tools)
  <2>1. Fit(a)
    BY DEF FitInv
  <2>2. Admitted(route, config.money)
    <3>1. preflight_config(config, AllowLive)
      BY DEF ClientInv
    <3> QED
      BY <2>1, <3>1 DEF preflight_config, Fit
  <2>3. /\ caps.tools = TRUE /\ caps.json_schema \in BOOLEAN /\ caps.token_parameter # Unset
        /\ Get(caps, "schema_with_tools", TRUE) \in BOOLEAN
        /\ ~caps.json_schema => Get(caps, "json_object", FALSE) = TRUE
        /\ Temperature(route) # Unset => caps.temperature
        /\ config.money # Unset => route.tariff = "complete" /\ route.max_input_tokens # Unset
    BY <2>1, <2>2, Fitting
  <2>4. asked \in Seq(PlainMessages) /\ SystemFirst(asked)
    <3>1. again \in Nat
      OBVIOUS
    <3> QED
      BY <3>1, AskedIs
  <2>5. sent.limit = caps.token_parameter /\ sent.temperature = Temperature(route)
    BY DEF _kwargs
  <2>6. ~Unsupported(route, schema, tools)
    BY <2>3 DEF Unsupported, json_mode_only
  <2>7. schema \in BOOLEAN /\ tools \in BOOLEAN
    BY <2>3
  <2>8. /\ Texts(sent.messages)
             = Texts(asked) \o (IF sent.response_format = "json_object" THEN <<"schema">> ELSE <<>>)
        /\ schema => sent.response_format # "none"
        /\ Get(caps, "developer_role", TRUE)
           \/ \A i \in DOMAIN sent.messages : sent.messages[i].role # "developer"
                                              /\ (sent.messages[i].role = "system" => i = 1)
    <3> HIDE DEF asked, schema, tools
    <3> QED
      BY <2>3, <2>4, <2>7, SentIs
  <2> HIDE DEF sent
  <2>9. sent.limit # Unset /\ (sent.temperature # Unset => caps.temperature)
    BY <2>3, <2>5
  <2> QED
    BY <2>3, <2>6, <2>8, <2>9 DEF sent
<1> QED
  BY InitClientInv, NextClientInv, NextFitInv, <1>1, <1>2, PTL DEF Spec

-----------------------------------------------------------------------------
(* The break-even volume.                                                   *)

(* What both branches of the division stand for.                            *)
LEMMA DivIs ==
  ASSUME NEW a \in Nat, NEW d \in Nat \ {0}
  PROVE  /\ a \div d \in Nat
         /\ d * (a \div d) <= a
         /\ a < d * (a \div d) + d
OBVIOUS

LEMMA CeilDivIs ==
  ASSUME NEW a \in Nat, NEW d \in Nat \ {0}
  PROVE  /\ CeilDiv(a, d) \in Nat
         /\ a <= d * CeilDiv(a, d)
         /\ CeilDiv(a, d) > 0 => d * (CeilDiv(a, d) - 1) < a
<1> DEFINE b == a + d - 1
           q == b \div d
<1>1. b \in Nat
  OBVIOUS
<1>2. q \in Nat /\ d * q <= b /\ b < d * q + d
  BY <1>1, DivIs
<1>3. CeilDiv(a, d) = q
  BY DEF CeilDiv
<1>4. d * (q - 1) = d * q - d
  BY <1>2
<1> QED
  BY <1>2, <1>3, <1>4

(* A multiple of a greater number is greater.                               *)
LEMMA Multiples ==
  ASSUME NEW d \in Nat \ {0}, NEW M \in Int, NEW N \in Int, M <= N
  PROVE  d * M \in Int /\ d * N \in Int /\ d * M <= d * N
<1>1. d * (N - M) >= 0 /\ d * (N - M) = d * N - d * M
  OBVIOUS
<1> QED
  BY <1>1

(* The least volume at which a is reached, and the least at which it is     *)
(* passed.                                                                  *)
LEMMA Volumes ==
  ASSUME NEW a \in Nat, NEW d \in Nat \ {0}, NEW limit \in Nat
  PROVE  LET p == CeilDiv(a, d)  s == a \div d + 1 IN
         /\ p \in Nat /\ s \in Nat \ {0}
         /\ a <= d * p /\ (p > 0 => ~(a <= d * (p - 1)))
         /\ a < d * s /\ ~(a < d * (s - 1))
         /\ p > 0 => (p <= limit <=> \E N \in 1 .. limit : a <= d * N)
         /\ s <= limit <=> \E N \in 1 .. limit : a < d * N
<1> DEFINE p == CeilDiv(a, d)
           s == a \div d + 1
<1>1. p \in Nat /\ a <= d * p /\ (p > 0 => d * (p - 1) < a)
  BY CeilDivIs
<1>2. s \in Nat \ {0} /\ a < d * s /\ d * (s - 1) <= a
  <2> DEFINE q == a \div d
  <2>1. q \in Nat /\ d * q <= a /\ a < d * q + d
    BY DivIs
  <2>2. d * (q + 1) = d * q + d
    BY <2>1
  <2>3. s = q + 1 /\ s - 1 = q
    BY <2>1
  <2> HIDE DEF q, s
  <2> QED
    BY <2>1, <2>2, <2>3
<1> HIDE DEF p, s
<1>3. ASSUME p > 0 PROVE p <= limit <=> \E N \in 1 .. limit : a <= d * N
  <2>1. ASSUME p <= limit PROVE \E N \in 1 .. limit : a <= d * N
    BY <1>1, <1>3, <2>1
  <2>2. ASSUME NEW N \in 1 .. limit, a <= d * N PROVE p <= limit
    <3>1. CASE N <= p - 1
      <4>1. d * N <= d * (p - 1) /\ d * N \in Int /\ d * (p - 1) \in Int
        BY <1>1, <3>1, Multiples
      <4> QED
        BY <1>1, <1>3, <2>2, <4>1
    <3> QED
      BY <1>1, <3>1
  <2> QED
    BY <2>1, <2>2
<1>4. s <= limit <=> \E N \in 1 .. limit : a < d * N
  <2>1. ASSUME s <= limit PROVE \E N \in 1 .. limit : a < d * N
    BY <1>2, <2>1
  <2>2. ASSUME NEW N \in 1 .. limit, a < d * N PROVE s <= limit
    <3>1. CASE N <= s - 1
      <4>1. d * N <= d * (s - 1) /\ d * N \in Int /\ d * (s - 1) \in Int
        BY <1>2, <3>1, Multiples
      <4> QED
        BY <1>2, <2>2, <4>1
    <3> QED
      BY <1>2, <3>1
  <2> QED
    BY <2>1, <2>2
<1>5. /\ p > 0 => ~(a <= d * (p - 1))
      /\ ~(a < d * (s - 1))
  <2>1. d * (p - 1) \in Int /\ d * (s - 1) \in Int
    BY <1>1, <1>2
  <2> QED
    BY <1>1, <1>2, <2>1
<1> QED
  BY <1>1, <1>2, <1>3, <1>4, <1>5 DEF p, s

(* What it says of a route holds of the costs it was computed from.         *)
LEMMA CompareIsExact ==
  ASSUME NEW F \in Nat, NEW v \in Nat, NEW C \in Int, NEW n \in Nat \ {0},
         NEW capacity \in Nat, NEW planned \in Nat
  PROVE  Exact(compare_route(F, v, C, n, capacity, planned), F, v, C, n, capacity, planned)
<1> DEFINE x == compare_route(F, v, C, n, capacity, planned)
           Parity(N) == F * n + v * n * N <= C * N
           Saves(N) == F * n + v * n * N < C * N
           a == F * n
           w == v * n
           d == C - w
           p == CeilDiv(a, d)
           s == a \div d + 1
<1>1. a \in Nat /\ w \in Nat /\ d \in Int
  BY SMTT(30)
<1>2. ASSUME NEW N \in Int
      PROVE  /\ Parity(N) <=> a <= d * N
             /\ Saves(N) <=> a < d * N
  <2>1. d * N = C * N - w * N /\ w * N \in Int /\ C * N \in Int
    <3> HIDE DEF w
    <3> QED
      BY <1>1
  <2> HIDE DEF a, d, w
  <2>2. a + w * N <= C * N <=> a <= d * N
    BY <1>1, <2>1
  <2>3. a + w * N < C * N <=> a < d * N
    BY <1>1, <2>1
  <2> QED
    BY <2>2, <2>3 DEF a, w
<1> HIDE DEF Parity, Saves
<1>3. CASE d > 0
  <2>1. /\ x.status = "CROSSING" /\ x.parity = p /\ x.strict = s
        /\ x.within_plan <=> p <= planned
        /\ x.strict_within_plan <=> s <= planned
    BY <1>3 DEF compare_route, Crossing
  <2>2. d \in Nat \ {0}
    BY <1>1, <1>3
  <2> HIDE DEF x, a, d, w
  <2>3. /\ p \in Nat /\ s \in Nat \ {0}
        /\ a <= d * p /\ (p > 0 => ~(a <= d * (p - 1)))
        /\ a < d * s /\ ~(a < d * (s - 1))
        /\ p > 0 => (p <= planned <=> \E N \in 1 .. planned : a <= d * N)
        /\ s <= planned <=> \E N \in 1 .. planned : a < d * N
    BY <1>1, <2>2, Volumes
  <2> HIDE DEF p, s
  <2>4. /\ Parity(p) /\ (p > 0 => ~Parity(p - 1))
        /\ Saves(s) /\ ~Saves(s - 1)
    BY <1>2, <2>3
  <2>5. /\ p > 0 => (p <= planned <=> \E N \in 1 .. planned : Parity(N))
        /\ s <= planned <=> \E N \in 1 .. planned : Saves(N)
    BY <1>2, <2>3
  <2>6. /\ Parity(x.parity) /\ (x.parity > 0 => ~Parity(x.parity - 1))
        /\ Saves(x.strict) /\ (x.strict > 0 => ~Saves(x.strict - 1))
        /\ x.parity > 0 => (x.within_plan <=> \E N \in 1 .. planned : Parity(N))
        /\ x.strict_within_plan <=> \E N \in 1 .. planned : Saves(N)
        /\ x.status = "CROSSING"
    BY <2>1, <2>4, <2>5
  <2> QED
    BY <2>6 DEF Parity, Saves, Exact, x
<1>4. CASE ~(d > 0)
  <2>1. x.status = IF C = w /\ F = 0 THEN "ALWAYS_EQUAL" ELSE "NO_COST_CROSSING"
    BY <1>4 DEF compare_route, NoCrossing
  <2>2. CASE C = w /\ F = 0
    <3>1. \A N \in 0 .. capacity : F * n + v * n * N = C * N
      BY <2>2
    <3> QED
      BY <2>1, <2>2, <3>1 DEF Exact
  <2>3. CASE ~(C = w /\ F = 0)
    <3>1. ASSUME NEW N \in 1 .. capacity + 1 PROVE ~Parity(N)
      <4>1. CASE d = 0
        <5>1. d * N = 0 /\ F > 0
          BY <1>1, <2>3, <4>1
        <5>2. a > 0
          BY <5>1
        <5> HIDE DEF a, d
        <5> QED
          BY <1>1, <1>2, <5>1, <5>2
      <4>2. CASE d < 0
        <5>1. d * N < 0 /\ d * N \in Int
          <6> HIDE DEF d
          <6> QED
            BY <1>1, <4>2
        <5> HIDE DEF a, d
        <5> QED
          BY <1>1, <1>2, <5>1
      <4> QED
        BY <1>1, <1>4, <4>1, <4>2
    <3> QED
      BY <2>1, <2>3, <3>1 DEF Parity, Exact
  <2> QED
    BY <2>2, <2>3
<1> QED
  BY <1>3, <1>4

-----------------------------------------------------------------------------
(* What a break-even volume rests on.                                       *)

(* What a load test reports.                                                *)
Report(m) ==
  /\ m.traffic \in Versions /\ m.repeats \in Nat
  /\ m.attempted = m.repeats * Len(IdsOf[m.traffic])
  /\ m.completed \in Nat /\ m.elapsed \in Nat \ {0}

(* The rows of the last load test are there.                                *)
Saved == load_dir.requests.traffic \in Versions /\ load_dir.requests.run = measurements

(* The rows a report names are its own, and the last or older than those.   *)
NamesRows(source, m) ==
  /\ source.traffic = m.traffic /\ source.run \in 0 .. measurements
  /\ source.run = measurements => source = load_dir.requests

FilesInv ==
  /\ load_dir = [requests |-> load_dir.requests, measurement |-> load_dir.measurement]
  /\ measurements \in Nat
  /\ measuring # Nothing => Report(measuring) /\ Saved /\ load_dir.requests.traffic = measuring.traffic
  /\ load_dir.measurement # Nothing =>
       Report(load_dir.measurement.report) /\ Saved /\ NamesRows(load_dir.measurement.source, load_dir.measurement.report)
  /\ build # Start => Saved

(* The manifest is what the comparison ended with; the files may not be.    *)
ManifestInv ==
  /\ comparison = [manifest |-> comparison.manifest, rows |-> comparison.rows, summaries |-> comparison.summaries]
  /\ comparison.manifest \in Manifests
  /\ DOMAIN comparison.rows = Routes /\ DOMAIN comparison.summaries = Routes
  /\ \A r \in Routes : \/ comparison.rows[r] = comparison.manifest.files[r]
                      \/ comparison.rows[r] \in Replacements[comparison.manifest].rows

Shape ==
  /\ build = [at |-> build.at, route |-> build.route, measured |-> build.measured, named |-> build.named,
              ids |-> build.ids, source |-> build.source, read |-> build.read, hashes |-> build.hashes,
              quality |-> build.quality]
  /\ build.route \in Routes
  /\ DOMAIN build.read = Routes /\ DOMAIN build.hashes = Routes /\ DOMAIN build.quality = Routes

RouteSteps == {"check rows", "check summary", "read rows", "read summary", "hash rows"}

(* From its check on, requests.json is what the measurement names, or newer.*)
RequestsInv ==
  LET intact == load_dir.requests = build.named
      newer == <<"requests">> \in overwritten /\ build.named.run < measurements
      own == build.ids = IdsOf[build.named.traffic]
      some == Len(build.ids) \in Nat \ {0}
  IN
  \/ build.route = "commercial" /\ build.at = "check requests"
  \/ build.route = "commercial" /\ build.at = "read requests" /\ (intact \/ newer)
  \/ build.route = "commercial" /\ build.at = "hash requests" /\ some /\ ((intact /\ own) \/ newer)
  \/ /\ build.at \in RouteSteps \cup {"compute"} /\ some
     /\ \/ build.source = build.named /\ own
        \/ <<"requests">> \in overwritten /\ build.source # build.named

(* How far the steps of a route are.                                        *)
Done(r) == build.at = "compute" \/ (r = "commercial" /\ build.route = "open_weight_gateway")
At(r, places) == build.route = r /\ build.at \in places

(* From their check on, the rows of a route are those of the manifest, or   *)
(* they were written over and will not be the same again.                   *)
RowsRead(r) ==
  LET own == comparison.manifest.files[r]
      over == <<"rows", r>> \in overwritten
  IN
  /\ At(r, {"check summary", "read rows"}) => comparison.rows[r] = own \/ over
  /\ At(r, {"read summary", "hash rows"}) =>
       \/ build.read[r] = own /\ comparison.rows[r] = own
       \/ over /\ comparison.rows[r] # own
  /\ Done(r) => \/ build.read[r] = own /\ build.hashes[r] = own
                \/ over /\ build.hashes[r] # own

SummaryRead(r) ==
  LET own == comparison.manifest.summaries[r]
      over == <<"summaries", r>> \in overwritten
  IN
  /\ At(r, {"read rows", "read summary"}) => comparison.summaries[r] = own \/ over
  /\ (At(r, {"hash rows"}) \/ Done(r)) => build.quality[r] = own \/ over

(* What was read, whoever wrote it, passed the checks.                      *)
Admissible(r) ==
  /\ (At(r, {"read summary", "hash rows"}) \/ Done(r)) => Metered(build.read[r])
  /\ (At(r, {"hash rows"}) \/ Done(r)) =>
       /\ CaseIds(build.read[r]) = build.ids
       /\ meter_totals(UsageOf(build.read[r])) # Nothing /\ Clean(UsageOf(build.read[r]))

RouteInv(r) == RowsRead(r) /\ SummaryRead(r) /\ Admissible(r)

(* The steps of build_breakeven_input bind one to another.                  *)
UnderWay ==
  /\ Shape
  /\ Report(build.measured) /\ Matched(build.measured, comparison.manifest) /\ NamesRows(build.named, build.measured)
  /\ RequestsInv
  /\ \A r \in Routes : RouteInv(r)

BuildInv == build = Start \/ UnderWay

(* A result is what was computed of what is bound.                          *)
ResultInv ==
  Computed => /\ build # Start /\ build.at = "compute"
              /\ \E F \in Fixed, v \in Variable, u \in Utilizations : result = Compared(build.measured, F, v, u)

EconInv ==
  IF kind = "self-host" THEN FilesInv /\ ManifestInv /\ BuildInv /\ ResultInv
  ELSE result = Nothing

LEMMA EconomicsTypes ==
  /\ Fixed \subseteq Nat /\ Variable \subseteq Nat
  /\ SecondsPerMonth \in Nat \ {0} /\ Utilizations \subseteq 0 .. 100
  /\ \A e \in Elapsed : e \in Nat \ {0}
  /\ \A v \in Versions : Len(IdsOf[v]) \in Nat \ {0}
<1>1. Fixed \subseteq Nat /\ Variable \subseteq Nat
  BY EconomicsAssumption DEF EconomicsAssumption
<1>2. SecondsPerMonth \in Nat \ {0}
  BY EconomicsAssumption DEF EconomicsAssumption
<1>3. Utilizations \subseteq 0 .. 100
  BY EconomicsAssumption DEF EconomicsAssumption
<1>4. \A e \in Elapsed : e \in Nat \ {0}
  BY EconomicsAssumption DEF EconomicsAssumption
<1>5. \A v \in Versions : Len(IdsOf[v]) \in Nat \ {0}
  BY EconomicsAssumption DEF EconomicsAssumption
<1> QED
  BY <1>1, <1>2, <1>3, <1>4, <1>5

LEMMA InitEconInv == Init => EconInv
<1> SUFFICES ASSUME Init PROVE EconInv
  OBVIOUS
<1>1. EconStart
  BY DEF Init, EconInit
<1>2. CASE kind = "self-host"
  <2>1. PICK m \in Manifests : comparison = [manifest |-> m, rows |-> m.files, summaries |-> m.summaries]
    BY <1>2 DEF Init, EconInit
  <2>2. ManifestInv
    BY <2>1, ManifestsAssumption DEF ManifestsAssumption, ManifestInv
  <2>3. FilesInv
    BY <1>1 DEF EconStart, FilesInv
  <2>4. BuildInv /\ ResultInv
    BY <1>1 DEF EconStart, BuildInv, ResultInv, Computed
  <2> QED
    BY <1>2, <2>2, <2>3, <2>4 DEF EconInv
<1> QED
  BY <1>1, <1>2 DEF EconInv, EconStart

LEMMA BuildIs ==
  ASSUME BuildInv, build.at # "start"
  PROVE  UnderWay /\ build # Start
BY DEF BuildInv, Start

(* A load test that ends does not touch what a build has read.              *)
LEMMA SaveRequestsStep ==
  ASSUME FilesInv, ManifestInv, BuildInv, save_requests
  PROVE  FilesInv' /\ ManifestInv' /\ BuildInv'
<1>1. PICK v \in Versions, s \in Setups, e \in Elapsed, genuine \in BOOLEAN, repeats \in 1 .. 2,
           completed \in Nat :
        measuring' = [status |-> IF genuine THEN "MEASURED" ELSE "NOT_LIVE_EVIDENCE", repeats |-> repeats,
                      traffic |-> v, setup |-> s, attempted |-> repeats * Len(IdsOf[v]),
                      completed |-> completed, elapsed |-> e]
  BY DEF save_requests
<1>2. /\ load_dir' = [load_dir EXCEPT !.requests = [traffic |-> measuring'.traffic, run |-> measurements']]
      /\ measurements' = measurements + 1
      /\ overwritten' = IF build = Start THEN {} ELSE overwritten \cup {<<"requests">>}
      /\ UNCHANGED <<comparison, build, result>>
  BY DEF save_requests, Written
<1>3. Report(measuring') /\ measuring'.traffic = v
  <2>1. /\ measuring'.traffic = v /\ measuring'.repeats = repeats /\ measuring'.completed = completed
        /\ measuring'.attempted = repeats * Len(IdsOf[v]) /\ measuring'.elapsed = e
    BY <1>1
  <2>2. e \in Nat \ {0} /\ repeats \in Nat
    BY EconomicsAssumption DEF EconomicsAssumption
  <2> QED
    BY <2>1, <2>2 DEF Report
<1>4. /\ load_dir' = [requests |-> load_dir'.requests, measurement |-> load_dir'.measurement]
      /\ load_dir'.measurement = load_dir.measurement
      /\ load_dir'.requests.traffic = v /\ load_dir'.requests.run = measurements'
      /\ measurements \in Nat /\ measurements' \in Nat
  BY <1>2, <1>3 DEF FilesInv
<1>5. \A source, m : NamesRows(source, m) => NamesRows(source, m)' /\ source.run < measurements'
  BY <1>2, <1>4 DEF NamesRows
<1>6. FilesInv'
  BY <1>3, <1>4, <1>5 DEF FilesInv, Saved
<1>7. BuildInv'
  <2>1. CASE build = Start
    BY <1>2, <2>1 DEF BuildInv
  <2>2. CASE build # Start
    <3>1. UnderWay
      BY <2>2 DEF BuildInv
    <3>2. Shape' /\ NamesRows(build.named, build.measured)' /\ build.named.run < measurements'
      BY <1>2, <1>5, <3>1 DEF UnderWay, Shape
    <3>3. <<"requests">> \in overwritten' /\ \A file \in overwritten : file \in overwritten'
      BY <1>2, <2>2
    <3>4. RequestsInv'
      BY <1>2, <3>1, <3>2, <3>3 DEF UnderWay, RequestsInv
    <3>5. \A r \in Routes : RouteInv(r)'
      BY <1>2, <3>1, <3>3 DEF UnderWay, RouteInv, RowsRead, SummaryRead, Admissible, At, Done
    <3> QED
      BY <1>2, <3>1, <3>2, <3>4, <3>5 DEF BuildInv, UnderWay
  <2> QED
    BY <2>1, <2>2
<1> QED
  BY <1>2, <1>6, <1>7 DEF ManifestInv

LEMMA SaveMeasurementStep ==
  ASSUME FilesInv, ManifestInv, BuildInv, save_measurement
  PROVE  FilesInv' /\ ManifestInv' /\ BuildInv'
<1>1. /\ measuring # Nothing /\ measuring' = Nothing /\ UNCHANGED <<measurements, comparison, build, overwritten, result>>
      /\ load_dir' = [load_dir EXCEPT !.measurement = [report |-> measuring, source |-> load_dir.requests]]
  BY DEF save_measurement
<1>2. /\ load_dir' = [requests |-> load_dir'.requests, measurement |-> load_dir'.measurement]
      /\ load_dir'.requests = load_dir.requests /\ load_dir'.measurement.report = measuring
      /\ load_dir'.measurement.source = load_dir.requests
  BY <1>1 DEF FilesInv
<1>3. /\ Report(measuring) /\ Saved /\ load_dir.requests.traffic = measuring.traffic
      /\ measurements \in Nat
  BY <1>1 DEF FilesInv
<1>4. Saved' /\ NamesRows(load_dir.measurement.source, load_dir.measurement.report)'
  BY <1>1, <1>2, <1>3 DEF Saved, NamesRows
<1>5. FilesInv'
  BY <1>1, <1>2, <1>3, <1>4 DEF FilesInv
<1>6. BuildInv'
  <2>1. \A source, m : NamesRows(source, m)' <=> NamesRows(source, m)
    BY <1>1, <1>2 DEF NamesRows
  <2>2. RequestsInv' <=> RequestsInv
    BY <1>1, <1>2 DEF RequestsInv
  <2>3. \A r : RouteInv(r)' <=> RouteInv(r)
    BY <1>1 DEF RouteInv, RowsRead, SummaryRead, Admissible, At, Done
  <2>4. Shape' <=> Shape
    BY <1>1 DEF Shape
  <2> QED
    BY <1>1, <2>1, <2>2, <2>3, <2>4 DEF BuildInv, UnderWay
<1> QED
  BY <1>1, <1>5, <1>6 DEF ManifestInv

(* A file that is replaced is another one from then on.                     *)
LEMMA ReplaceStep ==
  ASSUME FilesInv, ManifestInv, BuildInv,
         NEW name \in {"rows", "summaries"}, NEW route \in Routes, Replace(name, route)
  PROVE  FilesInv' /\ ManifestInv' /\ BuildInv'
<1>1. /\ UNCHANGED <<load_dir, measuring, measurements, build, result>>
      /\ overwritten' = IF build = Start THEN {} ELSE overwritten \cup {<<name, route>>}
  BY DEF Replace, Written
<1>2. PICK content \in Replacements[comparison.manifest][name] : comparison' = [comparison EXCEPT ![name][route] = content]
  BY DEF Replace
<1>3. /\ comparison'.manifest = comparison.manifest
      /\ comparison'.rows = IF name = "rows" THEN [comparison.rows EXCEPT ![route] = content] ELSE comparison.rows
      /\ comparison'.summaries = IF name = "summaries" THEN [comparison.summaries EXCEPT ![route] = content]
                                 ELSE comparison.summaries
      /\ comparison' = [manifest |-> comparison'.manifest, rows |-> comparison'.rows,
                        summaries |-> comparison'.summaries]
  BY <1>2 DEF ManifestInv
<1>4. name = "rows" => content \in Replacements[comparison.manifest].rows /\ content # comparison.manifest.files[route]
  BY <1>2, ManifestsAssumption DEF ManifestsAssumption, ManifestInv
<1>5. ManifestInv'
  BY <1>3, <1>4 DEF ManifestInv
<1>6. FilesInv'
  BY <1>1 DEF FilesInv, Saved, NamesRows
<1>7. BuildInv'
  <2>1. CASE build = Start
    BY <1>1, <2>1 DEF BuildInv
  <2>2. CASE build # Start
    <3>1. UnderWay
      BY <2>2 DEF BuildInv
    <3>2. Shape' /\ NamesRows(build.named, build.measured)'
      BY <1>1, <3>1 DEF UnderWay, Shape, NamesRows
    <3>3. <<name, route>> \in overwritten' /\ \A file \in overwritten : file \in overwritten'
      BY <1>1, <2>2
    <3>4. RequestsInv'
      BY <1>1, <3>1, <3>3 DEF UnderWay, RequestsInv
    <3>5. ASSUME NEW r \in Routes PROVE RouteInv(r)'
      <4>1. RouteInv(r)
        BY <3>1 DEF UnderWay
      <4>2. \/ comparison'.rows[r] = comparison.rows[r]
            \/ <<"rows", r>> \in overwritten' /\ comparison'.rows[r] # comparison.manifest.files[r]
        BY <1>3, <1>4, <3>3 DEF ManifestInv
      <4>3. \/ comparison'.summaries[r] = comparison.summaries[r]
            \/ <<"summaries", r>> \in overwritten'
        BY <1>3, <3>3 DEF ManifestInv
      <4>4. RowsRead(r)'
        BY <1>1, <1>3, <3>3, <4>1, <4>2 DEF RouteInv, RowsRead, At, Done
      <4>5. SummaryRead(r)'
        BY <1>1, <1>3, <3>3, <4>1, <4>3 DEF RouteInv, SummaryRead, At, Done
      <4>6. Admissible(r)'
        BY <1>1, <4>1 DEF RouteInv, Admissible, At, Done
      <4> QED
        BY <4>4, <4>5, <4>6 DEF RouteInv
    <3> QED
      BY <1>1, <1>3, <3>1, <3>2, <3>4, <3>5 DEF BuildInv, UnderWay
  <2> QED
    BY <2>1, <2>2
<1> QED
  BY <1>5, <1>6, <1>7

(* A step of a build touches no file, and a check that fails binds nothing. *)
LEMMA BuildStep ==
  ASSUME FilesInv, ManifestInv, UNCHANGED <<load_dir, measuring, measurements, comparison, overwritten>>,
         build # Start \/ load_dir.measurement # Nothing,
         build' = Start \/ UnderWay'
  PROVE  FilesInv' /\ ManifestInv' /\ BuildInv'
BY DEF FilesInv, ManifestInv, Saved, NamesRows, BuildInv, UnderWay

LEMMA ReadMeasurementStep ==
  ASSUME FilesInv, ManifestInv, BuildInv, result = Nothing, read_measurement
  PROVE  FilesInv' /\ ManifestInv' /\ BuildInv' /\ ~Computed'
<1> DEFINE m == load_dir.measurement
<1>1. /\ m # Nothing /\ UNCHANGED <<load_dir, measuring, measurements, comparison, overwritten>>
      /\ \/ /\ Matched(m.report, comparison.manifest) /\ result' = result
            /\ build' = [at |-> "check requests", route |-> "commercial", measured |-> m.report, named |-> m.source,
                         ids |-> <<>>, source |-> Nothing, read |-> [r \in Routes |-> Nothing],
                         hashes |-> [r \in Routes |-> Nothing], quality |-> [r \in Routes |-> Nothing]]
         \/ result' = [status |-> "rejected"] /\ build' = Start
  BY DEF read_measurement, Step
<1>2. ASSUME build' # Start PROVE UnderWay'
  <2>1. /\ Matched(m.report, comparison.manifest)
        /\ build' = [at |-> "check requests", route |-> "commercial", measured |-> m.report, named |-> m.source,
                     ids |-> <<>>, source |-> Nothing, read |-> [r \in Routes |-> Nothing],
                     hashes |-> [r \in Routes |-> Nothing], quality |-> [r \in Routes |-> Nothing]]
    BY <1>1, <1>2
  <2>2. Report(m.report) /\ NamesRows(m.source, m.report)
    BY <1>1 DEF FilesInv
  <2>3. /\ build'.at = "check requests" /\ build'.route = "commercial"
        /\ build'.measured = m.report /\ build'.named = m.source
    BY <2>1
  <2>4. Shape'
    BY <2>1 DEF Shape, Routes
  <2>5. NamesRows(build.named, build.measured)'
    BY <1>1, <2>2, <2>3 DEF NamesRows
  <2>6. RequestsInv' /\ \A r \in Routes : RouteInv(r)'
    BY <2>3 DEF RequestsInv, RouteInv, RowsRead, SummaryRead, Admissible, At, Done
  <2> QED
    BY <1>1, <2>1, <2>2, <2>3, <2>4, <2>5, <2>6 DEF UnderWay
<1>3. ~Computed'
  <2>1. result' = result \/ result' = [status |-> "rejected"]
    BY <1>1
  <2> QED
    BY <2>1 DEF Computed
<1> QED
  BY <1>1, <1>2, <1>3, BuildStep

(* What a step of the build does not change of it.                          *)
LEMMA MovesOn ==
  ASSUME UnderWay, UNCHANGED <<load_dir, measuring, measurements, comparison, overwritten>>,
         build'.measured = build.measured, build'.named = build.named
  PROVE  /\ Report(build.measured)' /\ Matched(build.measured, comparison.manifest)'
         /\ NamesRows(build.named, build.measured)'
BY DEF UnderWay, NamesRows

LEMMA CheckRequestsStep ==
  ASSUME FilesInv, ManifestInv, BuildInv, result = Nothing, check_requests
  PROVE  FilesInv' /\ ManifestInv' /\ BuildInv' /\ ~Computed'
<1>1. build.at = "check requests" /\ UNCHANGED <<load_dir, measuring, measurements, comparison, overwritten>>
  BY DEF check_requests, Step
<1>2. \/ /\ load_dir.requests = build.named /\ result' = result
         /\ build' = [build EXCEPT !.at = "read requests"]
      \/ result' = [status |-> "rejected"] /\ build' = Start
  BY DEF check_requests, Step
<1>3. UnderWay /\ build # Start
  BY <1>1, BuildIs
<1>4. ASSUME build' # Start PROVE UnderWay'
  <2>1. /\ load_dir.requests = build.named
        /\ build' = [at |-> "read requests", route |-> build.route, measured |-> build.measured,
                     named |-> build.named, ids |-> build.ids, source |-> build.source,
                     read |-> build.read, hashes |-> build.hashes, quality |-> build.quality]
    BY <1>2, <1>3, <1>4 DEF UnderWay, Shape
  <2>2. /\ build'.at = "read requests" /\ build'.route = build.route
        /\ build'.measured = build.measured /\ build'.named = build.named
        /\ build'.ids = build.ids /\ build'.source = build.source
        /\ build'.read = build.read /\ build'.hashes = build.hashes
        /\ build'.quality = build.quality
    BY <2>1
  <2>3. Shape'
    BY <1>3, <2>1 DEF UnderWay, Shape, Routes
  <2>4. RequestsInv'
    BY <1>1, <1>3, <2>1, <2>2 DEF UnderWay, RequestsInv, RouteSteps
  <2>5. \A r \in Routes : RouteInv(r)'
    BY <1>1, <1>3, <2>2 DEF UnderWay, RequestsInv, RouteInv, RowsRead, SummaryRead, Admissible, At, Done, RouteSteps
  <2> QED
    BY <1>1, <1>3, <2>2, <2>3, <2>4, <2>5, MovesOn DEF UnderWay
<1>5. ~Computed'
  <2>1. result' = result \/ result' = [status |-> "rejected"]
    BY <1>2
  <2> QED
    BY <2>1 DEF Computed
<1> QED
  BY <1>1, <1>3, <1>4, <1>5, BuildStep

LEMMA ReadRequestsStep ==
  ASSUME FilesInv, ManifestInv, BuildInv, result = Nothing, read_requests
  PROVE  FilesInv' /\ ManifestInv' /\ BuildInv' /\ ~Computed'
<1>1. build.at = "read requests" /\ UNCHANGED <<load_dir, measuring, measurements, comparison, overwritten>>
  BY DEF read_requests, Step
<1>2. /\ result' = result
      /\ build' = [build EXCEPT !.at = "hash requests",
                                    !.ids = IdsOf[load_dir.requests.traffic]]
  BY DEF read_requests, Step
<1>3. UnderWay /\ build # Start
  BY <1>1, BuildIs
<1>4. ASSUME build' # Start PROVE UnderWay'
  <2>1. build' = [at |-> "hash requests", route |-> build.route, measured |-> build.measured,
                  named |-> build.named, ids |-> IdsOf[load_dir.requests.traffic], source |-> build.source,
                  read |-> build.read, hashes |-> build.hashes, quality |-> build.quality]
    BY <1>2, <1>3, <1>4 DEF UnderWay, Shape
  <2>2. /\ build'.at = "hash requests" /\ build'.route = build.route
        /\ build'.measured = build.measured /\ build'.named = build.named
        /\ build'.ids = IdsOf[load_dir.requests.traffic] /\ build'.source = build.source
        /\ build'.read = build.read /\ build'.hashes = build.hashes
        /\ build'.quality = build.quality
    BY <2>1
  <2>3. Shape'
    BY <1>3, <2>1 DEF UnderWay, Shape, Routes
  <2>4. RequestsInv'
    <3>1. load_dir.requests.traffic \in Versions
      BY <1>3 DEF FilesInv, Saved
    <3>2. Len(build'.ids) \in Nat \ {0}
      BY <2>2, <3>1, EconomicsTypes
    <3> QED
      BY <1>1, <1>3, <2>2, <3>2 DEF UnderWay, RequestsInv, RouteSteps
  <2>5. \A r \in Routes : RouteInv(r)'
    BY <1>1, <1>3, <2>2 DEF UnderWay, RequestsInv, RouteInv, RowsRead, SummaryRead, Admissible, At, Done, RouteSteps
  <2> QED
    BY <1>1, <1>3, <2>2, <2>3, <2>4, <2>5, MovesOn DEF UnderWay
<1>5. ~Computed'
  <2>1. result' = result \/ result' = [status |-> "rejected"]
    BY <1>2
  <2> QED
    BY <2>1 DEF Computed
<1> QED
  BY <1>1, <1>3, <1>4, <1>5, BuildStep

LEMMA HashRequestsStep ==
  ASSUME FilesInv, ManifestInv, BuildInv, result = Nothing, hash_requests
  PROVE  FilesInv' /\ ManifestInv' /\ BuildInv' /\ ~Computed'
<1>1. build.at = "hash requests" /\ UNCHANGED <<load_dir, measuring, measurements, comparison, overwritten>>
  BY DEF hash_requests, Step
<1>2. /\ result' = result
      /\ build' = [build EXCEPT !.at = "check rows", !.source = load_dir.requests]
  BY DEF hash_requests, Step
<1>3. UnderWay /\ build # Start
  BY <1>1, BuildIs
<1>4. ASSUME build' # Start PROVE UnderWay'
  <2>1. build' = [at |-> "check rows", route |-> build.route, measured |-> build.measured,
                  named |-> build.named, ids |-> build.ids, source |-> load_dir.requests,
                  read |-> build.read, hashes |-> build.hashes, quality |-> build.quality]
    BY <1>2, <1>3, <1>4 DEF UnderWay, Shape
  <2>2. /\ build'.at = "check rows" /\ build'.route = build.route
        /\ build'.measured = build.measured /\ build'.named = build.named
        /\ build'.ids = build.ids /\ build'.source = load_dir.requests
        /\ build'.read = build.read /\ build'.hashes = build.hashes
        /\ build'.quality = build.quality
    BY <2>1
  <2>3. Shape'
    BY <1>3, <2>1 DEF UnderWay, Shape, Routes
  <2>4. RequestsInv'
    <3>1. load_dir.requests.run = measurements /\ measurements \in Nat /\ build.named.run \in Nat
      BY <1>3 DEF UnderWay, FilesInv, Saved, NamesRows
    <3>2. load_dir.requests = build.named \/ <<"requests">> \in overwritten
      BY <1>1, <1>3, <3>1 DEF UnderWay, RequestsInv, RouteSteps
    <3>3. load_dir.requests = build.named => build.ids = IdsOf[build.named.traffic]
      <4>1. load_dir.requests = build.named => ~(build.named.run < measurements)
        BY <3>1
      <4> QED
        BY <1>1, <1>3, <4>1 DEF UnderWay, RequestsInv, RouteSteps
    <3>4. Len(build.ids) \in Nat \ {0}
      BY <1>1, <1>3 DEF UnderWay, RequestsInv, RouteSteps
    <3> QED
      BY <1>1, <2>2, <3>2, <3>3, <3>4 DEF RequestsInv, RouteSteps
  <2>5. \A r \in Routes : RouteInv(r)'
    BY <1>1, <1>3, <2>2 DEF UnderWay, RequestsInv, RouteInv, RowsRead, SummaryRead, Admissible, At, Done, RouteSteps
  <2> QED
    BY <1>1, <1>3, <2>2, <2>3, <2>4, <2>5, MovesOn DEF UnderWay
<1>5. ~Computed'
  <2>1. result' = result \/ result' = [status |-> "rejected"]
    BY <1>2
  <2> QED
    BY <2>1 DEF Computed
<1> QED
  BY <1>1, <1>3, <1>4, <1>5, BuildStep

LEMMA CheckRowsStep ==
  ASSUME FilesInv, ManifestInv, BuildInv, result = Nothing, check_rows
  PROVE  FilesInv' /\ ManifestInv' /\ BuildInv' /\ ~Computed'
<1>1. build.at = "check rows" /\ UNCHANGED <<load_dir, measuring, measurements, comparison, overwritten>>
  BY DEF check_rows, Step
<1>2. \/ /\ Now("rows") = comparison.manifest.files[build.route] /\ result' = result
         /\ build' = [build EXCEPT !.at = "check summary"]
      \/ result' = [status |-> "rejected"] /\ build' = Start
  BY DEF check_rows, Step
<1>3. UnderWay /\ build # Start
  BY <1>1, BuildIs
<1>4. ASSUME build' # Start PROVE UnderWay'
  <2>1. /\ Now("rows") = comparison.manifest.files[build.route]
        /\ build' = [at |-> "check summary", route |-> build.route, measured |-> build.measured,
                     named |-> build.named, ids |-> build.ids, source |-> build.source,
                     read |-> build.read, hashes |-> build.hashes, quality |-> build.quality]
    BY <1>2, <1>3, <1>4 DEF UnderWay, Shape
  <2>2. /\ build'.at = "check summary" /\ build'.route = build.route
        /\ build'.measured = build.measured /\ build'.named = build.named
        /\ build'.ids = build.ids /\ build'.source = build.source
        /\ build'.read = build.read /\ build'.hashes = build.hashes
        /\ build'.quality = build.quality
    BY <2>1
  <2>3. Shape'
    BY <1>3, <2>1 DEF UnderWay, Shape, Routes
  <2>4. RequestsInv'
    BY <1>1, <1>3, <2>2 DEF UnderWay, RequestsInv, RouteSteps
  <2>5. ASSUME NEW r \in Routes PROVE RouteInv(r)'
    <3>1. RouteInv(r) /\ build.route \in Routes
      BY <1>3 DEF UnderWay, Shape
    <3>2. RowsRead(r)'
      BY <1>1, <1>3, <2>1, <2>2, <3>1 DEF RouteInv, RowsRead, At, Done, Now, Routes, UnderWay, Shape
    <3>3. SummaryRead(r)'
      BY <1>1, <1>3, <2>1, <2>2, <3>1 DEF RouteInv, SummaryRead, At, Done, Now, Routes, UnderWay, Shape
    <3>4. Admissible(r)'
      BY <1>1, <1>3, <2>1, <2>2, <3>1 DEF RouteInv, Admissible, At, Done, Routes, UnderWay, Shape
    <3> QED
      BY <3>2, <3>3, <3>4 DEF RouteInv
  <2> QED
    BY <1>1, <1>3, <2>2, <2>3, <2>4, <2>5, MovesOn DEF UnderWay
<1>5. ~Computed'
  <2>1. result' = result \/ result' = [status |-> "rejected"]
    BY <1>2
  <2> QED
    BY <2>1 DEF Computed
<1> QED
  BY <1>1, <1>3, <1>4, <1>5, BuildStep

LEMMA CheckSummaryStep ==
  ASSUME FilesInv, ManifestInv, BuildInv, result = Nothing, check_summary
  PROVE  FilesInv' /\ ManifestInv' /\ BuildInv' /\ ~Computed'
<1>1. build.at = "check summary" /\ UNCHANGED <<load_dir, measuring, measurements, comparison, overwritten>>
  BY DEF check_summary, Step
<1>2. \/ /\ Now("summaries") = comparison.manifest.summaries[build.route] /\ result' = result
         /\ build' = [build EXCEPT !.at = "read rows"]
      \/ result' = [status |-> "rejected"] /\ build' = Start
  BY DEF check_summary, Step
<1>3. UnderWay /\ build # Start
  BY <1>1, BuildIs
<1>4. ASSUME build' # Start PROVE UnderWay'
  <2>1. /\ Now("summaries") = comparison.manifest.summaries[build.route]
        /\ build' = [at |-> "read rows", route |-> build.route, measured |-> build.measured,
                     named |-> build.named, ids |-> build.ids, source |-> build.source,
                     read |-> build.read, hashes |-> build.hashes, quality |-> build.quality]
    BY <1>2, <1>3, <1>4 DEF UnderWay, Shape
  <2>2. /\ build'.at = "read rows" /\ build'.route = build.route
        /\ build'.measured = build.measured /\ build'.named = build.named
        /\ build'.ids = build.ids /\ build'.source = build.source
        /\ build'.read = build.read /\ build'.hashes = build.hashes
        /\ build'.quality = build.quality
    BY <2>1
  <2>3. Shape'
    BY <1>3, <2>1 DEF UnderWay, Shape, Routes
  <2>4. RequestsInv'
    BY <1>1, <1>3, <2>2 DEF UnderWay, RequestsInv, RouteSteps
  <2>5. ASSUME NEW r \in Routes PROVE RouteInv(r)'
    <3>1. RouteInv(r) /\ build.route \in Routes
      BY <1>3 DEF UnderWay, Shape
    <3>2. RowsRead(r)'
      BY <1>1, <1>3, <2>1, <2>2, <3>1 DEF RouteInv, RowsRead, At, Done, Now, Routes, UnderWay, Shape
    <3>3. SummaryRead(r)'
      BY <1>1, <1>3, <2>1, <2>2, <3>1 DEF RouteInv, SummaryRead, At, Done, Now, Routes, UnderWay, Shape
    <3>4. Admissible(r)'
      BY <1>1, <1>3, <2>1, <2>2, <3>1 DEF RouteInv, Admissible, At, Done, Routes, UnderWay, Shape
    <3> QED
      BY <3>2, <3>3, <3>4 DEF RouteInv
  <2> QED
    BY <1>1, <1>3, <2>2, <2>3, <2>4, <2>5, MovesOn DEF UnderWay
<1>5. ~Computed'
  <2>1. result' = result \/ result' = [status |-> "rejected"]
    BY <1>2
  <2> QED
    BY <2>1 DEF Computed
<1> QED
  BY <1>1, <1>3, <1>4, <1>5, BuildStep

LEMMA ReadRowsStep ==
  ASSUME FilesInv, ManifestInv, BuildInv, result = Nothing, read_rows
  PROVE  FilesInv' /\ ManifestInv' /\ BuildInv' /\ ~Computed'
<1>1. build.at = "read rows" /\ UNCHANGED <<load_dir, measuring, measurements, comparison, overwritten>>
  BY DEF read_rows, Step
<1>2. /\ result' = result
      /\ build' = [build EXCEPT !.at = "read summary",
                                    !.read[build.route] = Now("rows")]
  BY DEF read_rows, Step
<1>3. UnderWay /\ build # Start
  BY <1>1, BuildIs
<1>4. ASSUME build' # Start PROVE UnderWay'
  <2>1. build' = [at |-> "read summary", route |-> build.route, measured |-> build.measured,
                  named |-> build.named, ids |-> build.ids, source |-> build.source,
                  read |-> [build.read EXCEPT ![build.route] = Now("rows")], hashes |-> build.hashes, quality |-> build.quality]
    BY <1>2, <1>3, <1>4 DEF UnderWay, Shape
  <2>2. /\ build'.at = "read summary" /\ build'.route = build.route
        /\ build'.measured = build.measured /\ build'.named = build.named
        /\ build'.ids = build.ids /\ build'.source = build.source
        /\ build'.read = [build.read EXCEPT ![build.route] = Now("rows")] /\ build'.hashes = build.hashes
        /\ build'.quality = build.quality
    BY <2>1
  <2>3. Shape'
    BY <1>3, <2>1 DEF UnderWay, Shape, Routes
  <2>4. RequestsInv'
    BY <1>1, <1>3, <2>2 DEF UnderWay, RequestsInv, RouteSteps
  <2>5. ASSUME NEW r \in Routes PROVE RouteInv(r)'
    <3>1. RouteInv(r) /\ build.route \in Routes
      BY <1>3 DEF UnderWay, Shape
    <3>2. RowsRead(r)'
      BY <1>1, <1>3, <2>1, <2>2, <3>1 DEF RouteInv, RowsRead, At, Done, Now, Routes, UnderWay, Shape
    <3>3. SummaryRead(r)'
      BY <1>1, <1>3, <2>1, <2>2, <3>1 DEF RouteInv, SummaryRead, At, Done, Now, Routes, UnderWay, Shape
    <3>4. Admissible(r)'
      <4>1. Metered(comparison.rows[build.route])
        BY <3>1, ManifestsAssumption DEF ManifestsAssumption, ManifestInv
      <4> QED
        BY <1>1, <1>3, <2>2, <3>1, <4>1 DEF RouteInv, Admissible, At, Done, Now, Routes, UnderWay, Shape
    <3> QED
      BY <3>2, <3>3, <3>4 DEF RouteInv
  <2> QED
    BY <1>1, <1>3, <2>2, <2>3, <2>4, <2>5, MovesOn DEF UnderWay
<1>5. ~Computed'
  <2>1. result' = result \/ result' = [status |-> "rejected"]
    BY <1>2
  <2> QED
    BY <2>1 DEF Computed
<1> QED
  BY <1>1, <1>3, <1>4, <1>5, BuildStep

(* What is asked of the rows that were read.                                *)
Passes(content) ==
  /\ CaseIds(content) = build.ids
  /\ meter_totals(UsageOf(content)) # Nothing /\ Clean(UsageOf(content))

LEMMA ReadSummaryStep ==
  ASSUME FilesInv, ManifestInv, BuildInv, result = Nothing, read_summary
  PROVE  FilesInv' /\ ManifestInv' /\ BuildInv' /\ ~Computed'
<1>1. build.at = "read summary" /\ UNCHANGED <<load_dir, measuring, measurements, comparison, overwritten>>
  BY DEF read_summary, Step, Passes
<1>2. \/ /\ Passes(build.read[build.route]) /\ result' = result
         /\ build' = [build EXCEPT !.at = "hash rows",
                                       !.quality[build.route] = Now("summaries")]
      \/ result' = [status |-> "rejected"] /\ build' = Start
  BY DEF read_summary, Step, Passes
<1>3. UnderWay /\ build # Start
  BY <1>1, BuildIs
<1>4. ASSUME build' # Start PROVE UnderWay'
  <2>1. /\ Passes(build.read[build.route])
        /\ build' = [at |-> "hash rows", route |-> build.route, measured |-> build.measured,
                     named |-> build.named, ids |-> build.ids, source |-> build.source,
                     read |-> build.read, hashes |-> build.hashes,
                     quality |-> [build.quality EXCEPT ![build.route] = Now("summaries")]]
    BY <1>2, <1>3, <1>4 DEF UnderWay, Shape
  <2>2. /\ build'.at = "hash rows" /\ build'.route = build.route
        /\ build'.measured = build.measured /\ build'.named = build.named
        /\ build'.ids = build.ids /\ build'.source = build.source
        /\ build'.read = build.read /\ build'.hashes = build.hashes
        /\ build'.quality = [build.quality EXCEPT ![build.route] = Now("summaries")]
    BY <2>1
  <2>3. Shape'
    BY <1>3, <2>1 DEF UnderWay, Shape, Routes
  <2>4. RequestsInv'
    BY <1>1, <1>3, <2>2 DEF UnderWay, RequestsInv, RouteSteps
  <2>5. ASSUME NEW r \in Routes PROVE RouteInv(r)'
    <3>1. RouteInv(r) /\ build.route \in Routes
      BY <1>3 DEF UnderWay, Shape
    <3>2. RowsRead(r)'
      BY <1>1, <1>3, <2>1, <2>2, <3>1 DEF RouteInv, RowsRead, At, Done, Now, Routes, UnderWay, Shape
    <3>3. SummaryRead(r)'
      BY <1>1, <1>3, <2>1, <2>2, <3>1 DEF RouteInv, SummaryRead, At, Done, Now, Routes, UnderWay, Shape
    <3>4. Admissible(r)'
      BY <1>1, <1>3, <2>1, <2>2, <3>1 DEF RouteInv, Admissible, Passes, At, Done, Routes, UnderWay, Shape
    <3> QED
      BY <3>2, <3>3, <3>4 DEF RouteInv
  <2> QED
    BY <1>1, <1>3, <2>2, <2>3, <2>4, <2>5, MovesOn DEF UnderWay
<1>5. ~Computed'
  <2>1. result' = result \/ result' = [status |-> "rejected"]
    BY <1>2
  <2> QED
    BY <2>1 DEF Computed
<1> QED
  BY <1>1, <1>3, <1>4, <1>5, BuildStep

LEMMA HashRowsStep ==
  ASSUME FilesInv, ManifestInv, BuildInv, result = Nothing, hash_rows
  PROVE  FilesInv' /\ ManifestInv' /\ BuildInv' /\ ~Computed'
<1>1. build.at = "hash rows" /\ UNCHANGED <<load_dir, measuring, measurements, comparison, overwritten>>
  BY DEF hash_rows, Step
<1>2. /\ result' = result
      /\ build' = [build EXCEPT !.at = IF build.route = "commercial" THEN "check rows" ELSE "compute",
                                    !.route = "open_weight_gateway",
                                    !.hashes[build.route] = Now("rows")]
  BY DEF hash_rows, Step
<1>3. UnderWay /\ build # Start
  BY <1>1, BuildIs
<1>4. ASSUME build' # Start PROVE UnderWay'
  <2>1. build' = [at |-> IF build.route = "commercial" THEN "check rows" ELSE "compute",
                  route |-> "open_weight_gateway", measured |-> build.measured,
                  named |-> build.named, ids |-> build.ids, source |-> build.source,
                  read |-> build.read, hashes |-> [build.hashes EXCEPT ![build.route] = Now("rows")],
                  quality |-> build.quality]
    BY <1>2, <1>3, <1>4 DEF UnderWay, Shape
  <2>2. /\ build'.at = (IF build.route = "commercial" THEN "check rows" ELSE "compute")
        /\ build'.route = "open_weight_gateway"
        /\ build'.measured = build.measured /\ build'.named = build.named
        /\ build'.ids = build.ids /\ build'.source = build.source
        /\ build'.read = build.read /\ build'.hashes = [build.hashes EXCEPT ![build.route] = Now("rows")]
        /\ build'.quality = build.quality
    BY <2>1
  <2>3. Shape'
    BY <1>3, <2>1 DEF UnderWay, Shape, Routes
  <2>4. RequestsInv'
    BY <1>1, <1>3, <2>2 DEF UnderWay, RequestsInv, RouteSteps
  <2>5. ASSUME NEW r \in Routes PROVE RouteInv(r)'
    <3>1. RouteInv(r) /\ build.route \in Routes
      BY <1>3 DEF UnderWay, Shape
    <3>2. RowsRead(r)'
      BY <1>1, <1>3, <2>1, <2>2, <3>1 DEF RouteInv, RowsRead, At, Done, Now, Routes, UnderWay, Shape
    <3>3. SummaryRead(r)'
      BY <1>1, <1>3, <2>1, <2>2, <3>1 DEF RouteInv, SummaryRead, At, Done, Now, Routes, UnderWay, Shape
    <3>4. Admissible(r)'
      BY <1>1, <1>3, <2>1, <2>2, <3>1 DEF RouteInv, Admissible, At, Done, Routes, UnderWay, Shape
    <3> QED
      BY <3>2, <3>3, <3>4 DEF RouteInv
  <2> QED
    BY <1>1, <1>3, <2>2, <2>3, <2>4, <2>5, MovesOn DEF UnderWay
<1>5. ~Computed'
  <2>1. result' = result \/ result' = [status |-> "rejected"]
    BY <1>2
  <2> QED
    BY <2>1 DEF Computed
<1> QED
  BY <1>1, <1>3, <1>4, <1>5, BuildStep

LEMMA ComputeStep ==
  ASSUME FilesInv, ManifestInv, BuildInv, compute
  PROVE  FilesInv' /\ ManifestInv' /\ BuildInv' /\ ResultInv'
<1>1. /\ build.at = "compute" /\ UNCHANGED <<load_dir, measuring, measurements, comparison, build, overwritten>>
      /\ \/ result' = [status |-> "rejected"]
         \/ \E F \in Fixed, v \in Variable, u \in Utilizations : result' = Compared(build.measured, F, v, u)
  BY DEF compute
<1>2. UnderWay /\ build # Start
  BY <1>1, BuildIs
<1>3. FilesInv' /\ ManifestInv' /\ BuildInv'
  <2>1. Shape' /\ RequestsInv' /\ \A r \in Routes : RouteInv(r)'
    BY <1>1, <1>2 DEF UnderWay, Shape, RequestsInv, RouteInv, RowsRead, SummaryRead, Admissible, At, Done
  <2> QED
    BY <1>1, <1>2, <2>1, MovesOn, BuildStep DEF UnderWay
<1>4. ResultInv'
  <2>1. \A m, F, v, u : Compared(m, F, v, u)' = Compared(m, F, v, u)
    BY <1>1 DEF Compared
  <2>2. CASE result' = [status |-> "rejected"]
    BY <2>2 DEF ResultInv, Computed
  <2>3. CASE \E F \in Fixed, v \in Variable, u \in Utilizations : result' = Compared(build.measured, F, v, u)
    BY <1>1, <1>2, <2>1, <2>3 DEF ResultInv
  <2> QED
    BY <1>1, <2>2, <2>3
<1> QED
  BY <1>3, <1>4

LEMMA NextEconInv == ClientInv /\ EconInv /\ [main]_measurementVars => EconInv'
<1> SUFFICES ASSUME EconInv, [main]_measurementVars PROVE EconInv'
  OBVIOUS
<1>1. kind' = kind
  BY DEF main, ClientNext, select, check, make, measurementVars, clientVars
<1>2. CASE UNCHANGED econVars
  <2>1. UNCHANGED <<load_dir, measuring, measurements, comparison, build, overwritten, result>>
    BY <1>2 DEF econVars
  <2>2. CASE kind = "self-host"
    <3>1. FilesInv' /\ ManifestInv'
      BY <2>1, <2>2 DEF EconInv, FilesInv, ManifestInv, Saved, NamesRows
    <3>2. BuildInv'
      <4>1. UnderWay' <=> UnderWay
        BY <2>1 DEF UnderWay, Shape, NamesRows, RequestsInv, RouteInv, RowsRead, SummaryRead, Admissible, At, Done
      <4> QED
        BY <2>1, <2>2, <4>1 DEF EconInv, BuildInv, UnderWay
    <3>3. ResultInv'
      <4>1. \A m, F, v, u : Compared(m, F, v, u)' = Compared(m, F, v, u)
        BY <2>1 DEF Compared
      <4> QED
        BY <2>1, <2>2, <4>1 DEF EconInv, ResultInv, Computed
    <3> QED
      BY <1>1, <2>2, <3>1, <3>2, <3>3 DEF EconInv
  <2> QED
    BY <1>1, <2>1, <2>2 DEF EconInv
<1>3. CASE kind = "self-host" /\ EconNext
  <2>1. FilesInv /\ ManifestInv /\ BuildInv /\ result = Nothing
    BY <1>3 DEF EconInv, EconNext
  <2>2. FilesInv' /\ ManifestInv' /\ BuildInv' /\ ResultInv'
    <3>1. CASE save_requests \/ save_measurement \/ \E name \in {"rows", "summaries"}, r \in Routes : Replace(name, r)
      <4>1. result' = result
        BY <3>1 DEF save_requests, save_measurement, Replace
      <4> QED
        BY <2>1, <3>1, <4>1, SaveRequestsStep, SaveMeasurementStep, ReplaceStep DEF ResultInv, Computed
    <3>2. CASE read_measurement \/ check_requests \/ read_requests \/ hash_requests
      BY <2>1, <3>2, ReadMeasurementStep, CheckRequestsStep, ReadRequestsStep, HashRequestsStep DEF ResultInv
    <3>3. CASE check_rows \/ check_summary \/ read_rows \/ read_summary \/ hash_rows
      BY <2>1, <3>3, CheckRowsStep, CheckSummaryStep, ReadRowsStep, ReadSummaryStep, HashRowsStep DEF ResultInv
    <3>4. CASE compute
      BY <2>1, <3>4, ComputeStep
    <3> QED
      BY <1>3, <3>1, <3>2, <3>3, <3>4 DEF EconNext, BuildNext
  <2> QED
    BY <1>1, <1>3, <2>2 DEF EconInv
<1> QED
  BY <1>2, <1>3 DEF main, Ready, measurementVars

(* What a client and a break-even model rest on, at every point between     *)
(* two of their steps and while the files they read are written: the two    *)
(* invariants the theorems below are read from.                             *)
THEOREM MeasurementEvidence == Spec => [](ClientInv /\ EconInv)
<1>1. Init => ClientInv /\ EconInv
  BY InitClientInv, InitEconInv
<1>2. ClientInv /\ EconInv /\ [main]_measurementVars => (ClientInv /\ EconInv)'
  BY NextClientInv, NextEconInv
<1> QED
  BY <1>1, <1>2, PTL DEF Spec

(* What was bound when a result is there.                                   *)
LEMMA Bound ==
  ASSUME EconInv, Computed
  PROVE  /\ UnderWay /\ build.at = "compute" /\ comparison.manifest \in Manifests
         /\ Len(build.ids) \in Nat \ {0}
         /\ \A r \in Routes : Metered(build.read[r]) /\ Passes(build.read[r])
         /\ \E F \in Fixed, v \in Variable, u \in Utilizations : result = Compared(build.measured, F, v, u)
<1>1. FilesInv /\ ManifestInv /\ BuildInv /\ ResultInv
  BY DEF EconInv, Computed
<1>2. /\ build # Start /\ build.at = "compute"
      /\ \E F \in Fixed, v \in Variable, u \in Utilizations : result = Compared(build.measured, F, v, u)
  BY <1>1 DEF ResultInv
<1>3. UnderWay
  BY <1>1, <1>2 DEF BuildInv, UnderWay
<1>4. Len(build.ids) \in Nat \ {0}
  BY <1>2, <1>3 DEF UnderWay, RequestsInv, RouteSteps
<1>5. \A r \in Routes : Metered(build.read[r]) /\ Passes(build.read[r])
  BY <1>2, <1>3 DEF UnderWay, RouteInv, Admissible, Passes, Done
<1> QED
  BY <1>1, <1>2, <1>3, <1>4, <1>5 DEF ManifestInv

(* A result rests on one live load test and a complete comparison of the    *)
(* same traffic under the same setup.  The rows it was computed of are      *)
(* those the comparison ended with, unless they were written over while the *)
(* inputs were put together, and then the hash in the result tells: it is   *)
(* not the manifest's.  So with the cases of the load test and the hash the *)
(* measurement names; the summaries are not hashed again.                   *)
THEOREM MeasurementComputedIsMatched == Spec => []ComputedIsMatched
<1>1. EconInv => ComputedIsMatched
  <2> SUFFICES ASSUME EconInv, Computed PROVE ComputedIsMatched
    BY DEF ComputedIsMatched
  <2> DEFINE m == build.measured
             c == comparison.manifest
  <2>1. UnderWay /\ build.at = "compute" /\ Report(m) /\ Matched(m, c) /\ c \in Manifests
    BY Bound DEF UnderWay
  <2>2. /\ m.status = "MEASURED" /\ c.live /\ ~c.pilot /\ c.status = "LIVE_COMPLETE"
        /\ m.setup = c.setup /\ m.traffic = c.traffic
    BY <2>1 DEF Matched
  <2>3. m.attempted = Len(IdsOf[m.traffic])
    <3>1. m.repeats = 1 /\ m.attempted = m.repeats * Len(IdsOf[m.traffic]) /\ m.traffic \in Versions
      BY <2>1 DEF Report, Matched
    <3>2. Len(IdsOf[m.traffic]) \in Nat
      BY <3>1, EconomicsTypes
    <3> HIDE DEF m
    <3> QED
      BY <3>1, <3>2
  <2>4. \A r \in Routes : c.files[r].traffic = c.traffic /\ CaseIds(c.files[r]) = IdsOf[c.traffic]
    BY <2>1, <2>2, ManifestsAssumption DEF ManifestsAssumption
  <2>5. result.source = build.source /\ result.hashes = build.hashes /\ result.quality = build.quality
    BY Bound DEF Compared
  <2>6. <<"requests">> \notin overwritten \/ result.source = build.named =>
          result.source = build.named /\ build.named.traffic = m.traffic /\ build.ids = IdsOf[m.traffic]
    BY <2>1, <2>5 DEF UnderWay, RequestsInv, NamesRows
  <2>7. ASSUME NEW r \in Routes
        PROVE  /\ CaseIds(build.read[r]) = build.ids
               /\ <<"rows", r>> \notin overwritten \/ result.hashes[r] = c.files[r] =>
                    build.read[r] = c.files[r] /\ result.hashes[r] = c.files[r]
               /\ <<"summaries", r>> \notin overwritten => result.quality[r] = c.summaries[r]
    <3>1. RouteInv(r) /\ Done(r)
      BY <2>1 DEF UnderWay, Done
    <3>2. /\ <<"rows", r>> \notin overwritten \/ result.hashes[r] = c.files[r] =>
               build.read[r] = c.files[r] /\ result.hashes[r] = c.files[r]
          /\ <<"summaries", r>> \notin overwritten => result.quality[r] = c.summaries[r]
      BY <2>5, <3>1 DEF RouteInv, RowsRead, SummaryRead
    <3> QED
      BY <3>2, Bound DEF Passes
  <2> QED
    BY <2>2, <2>3, <2>4, <2>6, <2>7 DEF ComputedIsMatched
<1> QED
  BY <1>1, MeasurementEvidence, PTL

(* What a metered, clean route cost, and was billed.                        *)
LEMMA CostIs ==
  ASSUME EconInv, Computed, NEW r \in Routes
  PROVE  LET usage == UsageOf(build.read[r]) IN
         /\ meter_totals(usage) \in Int
         /\ meter_totals(usage) = SumFunction([i \in DOMAIN usage |-> usage[i].billed])
<1> DEFINE usage == UsageOf(build.read[r])
           cost == [i \in DOMAIN usage |-> usage[i].cost]
           billed == [i \in DOMAIN usage |-> usage[i].billed]
<1>1. meter_totals(usage) # Nothing /\ Clean(usage)
  BY Bound DEF Passes
<1>2. /\ IsFiniteSet(DOMAIN usage)
      /\ \A i \in DOMAIN usage : usage[i].cost \in Nat \cup {Nothing} /\ Billed(usage[i])
  BY Bound DEF Metered
<1> HIDE DEF usage
<1>3. /\ meter_totals(usage) = SumFunction(cost)
      /\ \A i \in DOMAIN usage : usage[i].cost # Nothing
  BY <1>1 DEF meter_totals
<1>4. \A i \in DOMAIN usage : usage[i].cost \in Int /\ usage[i].billed = usage[i].cost
  BY <1>1, <1>2, <1>3 DEF Billed, Clean
<1>5. cost = billed
  BY <1>4
<1>6. SumFunction(cost) \in Int
  <2>1. IsFiniteSet(DOMAIN cost) /\ \A i \in DOMAIN cost : cost[i] \in Int
    BY <1>2, <1>4
  <2> HIDE DEF cost
  <2> QED
    BY <2>1, SumType DEF SumFunction
<1> QED
  BY <1>3, <1>5, <1>6 DEF usage

(* The cost of a route is all that its attempts were billed: no retry, no   *)
(* failure and no unreported usage goes missing from it.                    *)
THEOREM MeasurementProjectedCostIsComplete == Spec => []ProjectedCostIsComplete
<1>1. EconInv => ProjectedCostIsComplete
  <2> SUFFICES ASSUME EconInv, Computed, NEW r \in Routes
               PROVE  LET usage == UsageOf(build.read[r]) IN
                      result.costs[r] = SumFunction([i \in DOMAIN usage |-> usage[i].billed])
    BY DEF ProjectedCostIsComplete
  <2>1. result.costs[r] = meter_totals(UsageOf(build.read[r]))
    BY Bound DEF Compared
  <2> QED
    BY <2>1, CostIs
<1> QED
  BY <1>1, MeasurementEvidence, PTL

(* The two volumes are the least at which self-hosting costs no more, and   *)
(* less, than the route, for any costs, assumptions and load; without a     *)
(* crossing no volume reaches parity; and a volume is called feasible when  *)
(* one within the limit is.                                                 *)
THEOREM MeasurementBreakEvenIsExact == Spec => []BreakEvenIsExact
<1>1. EconInv => BreakEvenIsExact
  <2> SUFFICES ASSUME EconInv, Computed PROVE BreakEvenIsExact
    BY DEF BreakEvenIsExact
  <2>1. PICK F \in Fixed, v \in Variable, u \in Utilizations : result = Compared(build.measured, F, v, u)
    BY Bound
  <2> DEFINE m == build.measured
             n == Len(build.ids)
             C(r) == meter_totals(UsageOf(build.read[r]))
             capacity == (m.completed * SecondsPerMonth) \div m.elapsed
             planned == (m.completed * SecondsPerMonth * u) \div (m.elapsed * 100)
  <2>2. /\ result.fixed = F /\ result.variable = v /\ result.requests = n
        /\ result.capacity = capacity /\ result.planned = planned
        /\ \A r \in Routes : /\ result.costs[r] = C(r)
                             /\ result.comparisons[r] = compare_route(F, v, C(r), n, capacity, planned)
    BY <2>1 DEF Compared
  <2>3. F \in Nat /\ v \in Nat /\ u \in Nat /\ SecondsPerMonth \in Nat
    BY EconomicsTypes
  <2>4. n \in Nat \ {0} /\ m.completed \in Nat /\ m.elapsed \in Nat \ {0}
    BY Bound DEF Report, UnderWay
  <2>5. capacity \in Nat /\ planned \in Nat
    <3> DEFINE x == m.completed * SecondsPerMonth
    <3>1. x \in Nat /\ m.elapsed * 100 \in Nat \ {0}
      BY <2>3, <2>4
    <3>2. x * u \in Nat
      <4> HIDE DEF x
      <4> QED
        BY <2>3, <3>1
    <3> HIDE DEF x
    <3>3. x \div m.elapsed \in Nat /\ (x * u) \div (m.elapsed * 100) \in Nat
      BY <2>4, <3>1, <3>2, DivIs
    <3> QED
      BY <3>3 DEF x
  <2>6. \A r \in Routes : C(r) \in Int
    BY CostIs
  <2> HIDE DEF m, n, C, capacity, planned
  <2>7. \A r \in Routes : Exact(compare_route(F, v, C(r), n, capacity, planned), F, v, C(r), n, capacity, planned)
    BY <2>3, <2>4, <2>5, <2>6, CompareIsExact
  <2> QED
    BY <2>2, <2>7 DEF BreakEvenIsExact
<1> QED
  BY <1>1, MeasurementEvidence, PTL

-----------------------------------------------------------------------------
(* What a cached answer is credited with.                                   *)

Size == Repeats * Len(Traffic)

(* The last row of a case that no cache answered, as origins remembers it.  *)
OriginOf(id, j) ==
  /\ rows[j].case = id /\ ~rows[j].hit
  /\ rows[j].passed = origins[id].row.passed
  /\ rows[j].tools = origins[id].row.actual_tools
  /\ rows[j].delivered = [status |-> origins[id].value.status, facts |-> origins[id].value.facts,
                          citations |-> origins[id].value.citations]

(* Where the replay is, and that no phase but the first, which has no       *)
(* cache, comes before the audit and the references.                        *)
PhaseInv ==
  /\ phase \in Nat /\ at \in 1 .. Size + 1 /\ rows \in Seq(ToSet(rows))
  /\ phase = 0 => rows = <<>> /\ golden.now = {} /\ (report = Unknown => at = 1)
  /\ phase > 0 => Len(rows) = at - 1
  /\ phase = 1 => \A i \in DOMAIN rows : ~rows[i].hit
  /\ phase > 1 \/ golden.now # {} => dataset_audit(Cases, TRUE) /\ DOMAIN references = 1 .. Size
  /\ golden = [now |-> golden.now, first |-> golden.first]

RowsInv ==
  /\ \A i \in DOMAIN rows : rows[i].case = Events[i].id
  /\ live => \A id \in DOMAIN origins : \E j \in DOMAIN rows : OriginOf(id, j)

(* A turn of session s that no cache answered, the answer to t, gave v.     *)
Gave(j, s, t, v) ==
  /\ ~rows[j].hit /\ Events[j].session = s /\ Head(Events[j].messages) = t /\ v.status = "answer"
  /\ rows[j].delivered = [status |-> v.status, facts |-> v.facts, citations |-> v.citations]

(* What the caches of a session keep, a turn of this phase gave.            *)
Keeps(x, s) ==
  /\ \A t \in DOMAIN x.exact : \E j \in DOMAIN rows : Gave(j, s, t, x.exact[t])
  /\ x.semantic \in Seq(ToSet(x.semantic))
  /\ \A i \in DOMAIN x.semantic : \E j \in DOMAIN rows : Gave(j, s, x.semantic[i].text, x.semantic[i].value)

ContextInv == \A s \in DOMAIN contexts : Keeps(contexts[s], s)

(* CreditIsEarned of one row.                                               *)
AskedAlike(i, j) ==
  LET Text(k) == Head(Events[k].messages) IN
  Text(i) = Text(j) \/ (Settings.semantic_enabled /\ Score[<<Text(i), Text(j)>>] >= threshold)
SameAnswer(i) == {j \in 1 .. i - 1 : ~rows[j].hit /\ rows[j].delivered = rows[i].delivered}
CreditFor(i) ==
  rows[i].hit =>
    /\ rows[i].delivered.status = "answer"
    /\ \E j \in SameAnswer(i) : Events[j].session = Events[i].session /\ AskedAlike(i, j)
    /\ rows[i].passed =>
         IF live
         THEN \A c \in Cases : c.id = rows[i].case /\ c.tools # {} =>
                \E j \in SameAnswer(i) : rows[j].case = c.id /\ rows[j].passed /\ c.tools \subseteq rows[j].tools
         ELSE rows[i].delivered = references[i] /\ Events[i].id = rows[i].case

ReplayInv == PhaseInv /\ RowsInv /\ ContextInv /\ \A i \in DOMAIN rows : CreditFor(i)

(* Every event is a case of the workload.                                   *)
LEMMA EventsAre ==
  /\ Size \in Nat /\ DOMAIN Events = 1 .. Size
  /\ \A i \in 1 .. Size : Events[i] \in Cases
<1> DEFINE n == Len(Traffic)
<1>1. Traffic \in Seq(Cases) /\ Repeats \in Nat \ {0}
  BY ReplaysAssumption DEF ReplaysAssumption
<1>2. n \in Nat /\ \A k \in 1 .. n : Traffic[k] \in Cases
  BY <1>1
<1>3. Size \in Nat /\ (n = 0 => Size = 0)
  <2> HIDE DEF n
  <2> QED
    BY <1>1, <1>2 DEF Size, n
<1>4. DOMAIN Events = 1 .. Size
  BY DEF Events, Size
<1>5. ASSUME NEW i \in 1 .. Size PROVE Events[i] \in Cases
  <2>1. n \in Nat \ {0} /\ i - 1 \in Nat
    BY <1>2, <1>3, <1>5
  <2>2. (i - 1) % n \in 0 .. n - 1
    <3> HIDE DEF n
    <3> QED
      BY <2>1
  <2>3. Events[i] = Traffic[((i - 1) % n) + 1]
    BY <1>5 DEF Events, Size
  <2>4. ((i - 1) % n) + 1 \in 1 .. n
    <3> DEFINE k == (i - 1) % n
    <3> HIDE DEF k, n
    <3> QED
      BY <2>1, <2>2
  <2> QED
    BY <1>2, <2>3, <2>4
<1> QED
  BY <1>3, <1>4, <1>5

(* A row more.                                                              *)
LEMMA RowAppended ==
  ASSUME NEW s, s \in Seq(ToSet(s)), NEW x
  PROVE  LET t == Append(s, x) IN
         /\ t \in Seq(ToSet(t)) /\ Len(t) = Len(s) + 1 /\ Len(s) \in Nat
         /\ DOMAIN t = 1 .. Len(s) + 1 /\ DOMAIN s = 1 .. Len(s)
         /\ \A i \in DOMAIN s : t[i] = s[i]
         /\ t[Len(s) + 1] = x
<1> DEFINE t == Append(s, x)
           S == ToSet(s)
<1>1. \A i \in DOMAIN s : s[i] \in S
  BY DEF ToSet
<1> HIDE DEF S
<1>2. s \in Seq(S \cup {x})
  BY <1>1
<1>3. /\ t \in Seq(S \cup {x}) /\ Len(t) = Len(s) + 1 /\ Len(s) \in Nat
      /\ DOMAIN t = 1 .. Len(s) + 1 /\ DOMAIN s = 1 .. Len(s)
      /\ \A i \in DOMAIN s : t[i] = s[i]
      /\ t[Len(s) + 1] = x
  BY <1>2
<1> HIDE DEF t
<1>4. t \in Seq(ToSet(t))
  BY <1>3 DEF ToSet
<1> QED
  BY <1>3, <1>4 DEF t

(* A turn is a hit, or leaves the session as it was, or goes through the    *)
(* models.                                                                  *)
LEMMA TurnsAre ==
  ASSUME NEW c, NEW turn \in Turns(c)
  PROVE  LET t == Head(c.messages)
             x == ContextOf(c.session)
             Says(v) == /\ v # Unknown /\ turn.result.status = v.status
                        /\ turn.result.facts = v.facts /\ turn.result.citations = v.citations
         IN
         \/ /\ turn.hit /\ turn.context = x
            /\ Says(FromExact(x, t)) \/ Says(FromSemantic(x, t))
         \/ ~turn.hit /\ turn.context = x
         \/ /\ ~turn.hit
            /\ \E o \in Conversations[c.id] : turn.result = o.results[1] /\ turn.context = After(x, t, o)
<1> DEFINE t == Head(c.messages)
           x == ContextOf(c.session)
           Unanswered(status) == [result |-> [Silent EXCEPT !.status = status], hit |-> FALSE, context |-> x]
           Hit(v) == [result |-> [Silent EXCEPT !.status = v.status, !.facts = v.facts,
                                                !.citations = v.citations, !.request = v.request],
                      hit |-> TRUE, context |-> x]
           e == FromExact(x, t)
           f == FromSemantic(x, t)
           Missed == {[result |-> o.results[1], hit |-> FALSE, context |-> After(x, t, o)] : o \in Conversations[c.id]}
<1>1. Turns(c) = (IF x.terminal THEN {Unanswered("handoff")}
                  ELSE IF e # Unknown THEN {Hit(e)}
                  ELSE IF f # Unknown THEN {Hit(f), Unanswered("blocked"), Unanswered("error")}
                  ELSE Missed)
  BY DEF Turns
<1>2. \A status : ~Unanswered(status).hit /\ Unanswered(status).context = x
  OBVIOUS
<1> DEFINE Says(v) == /\ v # Unknown /\ turn.result.status = v.status
                      /\ turn.result.facts = v.facts /\ turn.result.citations = v.citations
<1>3. ASSUME NEW v, v # Unknown, turn = Hit(v) PROVE turn.hit /\ turn.context = x /\ Says(v)
  BY <1>3 DEF Silent
<1>4. ASSUME turn \in Missed
      PROVE  /\ ~turn.hit
             /\ \E o \in Conversations[c.id] : turn.result = o.results[1] /\ turn.context = After(x, t, o)
  <2>1. PICK o \in Conversations[c.id] : turn = [result |-> o.results[1], hit |-> FALSE, context |-> After(x, t, o)]
    BY <1>4
  <2> QED
    BY <2>1
<1> HIDE DEF Unanswered, Hit, e, f, Missed
<1>5. \/ e # Unknown /\ turn = Hit(e)
      \/ f # Unknown /\ turn = Hit(f)
      \/ \E status : turn = Unanswered(status)
      \/ turn \in Missed
  BY <1>1
<1> HIDE DEF Says
<1>6. \/ turn.hit /\ turn.context = x /\ (Says(e) \/ Says(f))
      \/ ~turn.hit /\ turn.context = x
      \/ turn \in Missed
  BY <1>2, <1>3, <1>5
<1> QED
  BY <1>4, <1>6 DEF Says, e, f

(* The first phase has no cache, so no turn of it is a hit.                 *)
LEMMA BaselineNeverHits ==
  ASSUME phase = 1, NEW c, NEW turn \in Turns(c)
  PROVE  ~turn.hit
<1>1. modes[1] = "baseline"
  <2>1. Len(MODES) = 4 /\ MODES[1] = "baseline"
    BY DEF MODES
  <2>2. MODES \in Seq(ToSet(MODES))
    <3>1. MODES \in Seq({"baseline", "stable_public_context", "exact", "semantic"})
      BY DEF MODES
    <3> QED
      BY <3>1 DEF ToSet
  <2>3. SubSeq(MODES, 1, 3)[1] = MODES[1]
    BY <2>1, <2>2
  <2> QED
    BY <2>1, <2>3 DEF modes
<1>2. ~Settings.cache_enabled /\ ~Settings.semantic_enabled
  BY <1>1 DEF Settings, mode_settings
<1>3. ASSUME NEW x, NEW t PROVE FromExact(x, t) = Unknown /\ FromSemantic(x, t) = Unknown
  BY <1>2 DEF FromExact, FromSemantic
<1> QED
  BY <1>3, TurnsAre

(* What was set up for a phase stays while the phase lasts.                 *)
LEMMA SettingsStay ==
  ASSUME UNCHANGED <<phase, threshold, score>>
  PROVE  Settings' = Settings
BY DEF Settings, modes, semantic_ready, wrong_hits, Hits

(* A hit delivers what a cache of its session keeps for an alike text.      *)
LEMMA HitIs ==
  ASSUME NEW c, NEW turn \in Turns(c), turn.hit
  PROVE  LET x == ContextOf(c.session)
             t == Head(c.messages)
         IN
         /\ turn.context = x
         /\ \E v : /\ Delivered(turn) = [status |-> v.status, facts |-> v.facts, citations |-> v.citations]
                   /\ \/ t \in DOMAIN x.exact /\ v = x.exact[t]
                      \/ Settings.semantic_enabled /\ Near(x, t) # {} /\ v = x.semantic[Max(Near(x, t))].value
<1> DEFINE x == ContextOf(c.session)
           t == Head(c.messages)
<1>1. turn.context = x /\ \E v \in {FromExact(x, t), FromSemantic(x, t)} :
        /\ v # Unknown /\ turn.result.status = v.status
        /\ turn.result.facts = v.facts /\ turn.result.citations = v.citations
  BY TurnsAre
<1>2. PICK v \in {FromExact(x, t), FromSemantic(x, t)} :
        /\ v # Unknown /\ turn.result.status = v.status
        /\ turn.result.facts = v.facts /\ turn.result.citations = v.citations
  BY <1>1
<1>3. /\ turn.context = x /\ turn.result.status = v.status /\ turn.result.facts = v.facts
      /\ turn.result.citations = v.citations
  BY <1>1, <1>2
<1>4. \/ t \in DOMAIN x.exact /\ v = x.exact[t]
      \/ Settings.semantic_enabled /\ Near(x, t) # {} /\ v = x.semantic[Max(Near(x, t))].value
  <2> HIDE DEF x, t
  <2>1. CASE v = FromExact(x, t)
    BY <1>2, <2>1 DEF FromExact
  <2>2. CASE v = FromSemantic(x, t)
    BY <1>2, <2>2 DEF FromSemantic
  <2> QED
    BY <1>2, <2>1, <2>2
<1>5. Delivered(turn) = [status |-> v.status, facts |-> v.facts, citations |-> v.citations]
  BY <1>3 DEF Delivered
<1> HIDE DEF x, t
<1>6. \E w : /\ Delivered(turn) = [status |-> w.status, facts |-> w.facts, citations |-> w.citations]
             /\ \/ t \in DOMAIN x.exact /\ w = x.exact[t]
                \/ Settings.semantic_enabled /\ Near(x, t) # {} /\ w = x.semantic[Max(Near(x, t))].value
  BY <1>4, <1>5
<1> QED
  BY <1>3, <1>6 DEF x, t

(* What a turn leaves in the caches of its session: what was there, and     *)
(* the answer it gave itself.                                               *)
LEMMA TurnKeeps ==
  ASSUME NEW c, NEW turn \in Turns(c), ContextOf(c.session).semantic \in Seq(ToSet(ContextOf(c.session).semantic))
  PROVE  LET x == ContextOf(c.session)
             y == turn.context
             t == Head(c.messages)
             Own(v) == /\ ~turn.hit /\ v.status = "answer"
                       /\ Delivered(turn) = [status |-> v.status, facts |-> v.facts, citations |-> v.citations]
         IN
         /\ \A u \in DOMAIN y.exact : \/ u \in DOMAIN x.exact /\ y.exact[u] = x.exact[u]
                                      \/ u = t /\ Own(y.exact[u])
         /\ y.semantic \in Seq(ToSet(y.semantic))
         /\ \A i \in DOMAIN y.semantic : \/ i \in DOMAIN x.semantic /\ y.semantic[i] = x.semantic[i]
                                         \/ y.semantic[i].text = t /\ Own(y.semantic[i].value)
<1> DEFINE x == ContextOf(c.session)
           y == turn.context
           t == Head(c.messages)
           Own(v) == /\ ~turn.hit /\ v.status = "answer"
                     /\ Delivered(turn) = [status |-> v.status, facts |-> v.facts, citations |-> v.citations]
<1>1. \/ y = x
      \/ ~turn.hit /\ \E o \in Conversations[c.id] : turn.result = o.results[1] /\ y = After(x, t, o)
  BY TurnsAre
<1>2. CASE y = x
  BY <1>2
<1>3. CASE ~turn.hit /\ \E o \in Conversations[c.id] : turn.result = o.results[1] /\ y = After(x, t, o)
  <2>1. PICK o \in Conversations[c.id] : turn.result = o.results[1] /\ y = After(x, t, o)
    BY <1>3
  <2>a. PICK value : value = Value(o.results[1])
    OBVIOUS
  <2>2. turn.result = o.results[1] /\ ~turn.hit /\ y = After(x, t, o)
    BY <1>3, <2>1
  <2>3. Delivered(turn) = [status |-> value.status, facts |-> value.facts, citations |-> value.citations]
    <3>1. /\ value.status = o.results[1].status /\ value.facts = o.results[1].facts
          /\ value.citations = o.results[1].citations
      BY <2>a DEF Value
    <3> QED
      BY <2>2, <3>1 DEF Delivered
  <2>4. /\ \/ y.exact = x.exact
           \/ /\ value.status = "answer"
              /\ y.exact = [u \in DOMAIN x.exact \cup {t} |-> IF u = t THEN value ELSE x.exact[u]]
        /\ \/ y.semantic = x.semantic
           \/ value.status = "answer" /\ y.semantic = Append(x.semantic, [text |-> t, value |-> value])
    <3> HIDE DEF x, t
    <3> QED
      BY <2>2, <2>a DEF After
  <2>5. value.status = "answer" => Own(value)
    BY <2>2, <2>3
  <2> HIDE DEF x, y, t, Own
  <2>6. \A u \in DOMAIN y.exact : \/ u \in DOMAIN x.exact /\ y.exact[u] = x.exact[u]
                                  \/ u = t /\ Own(y.exact[u])
    BY <2>4, <2>5
  <2>7. CASE y.semantic = x.semantic
    BY <2>6, <2>7 DEF x, y, t, Own
  <2>8. CASE value.status = "answer" /\ y.semantic = Append(x.semantic, [text |-> t, value |-> value])
    <3> DEFINE entry == [text |-> t, value |-> value]
    <3>1. entry.text = t /\ Own(entry.value)
      BY <2>5, <2>8
    <3> HIDE DEF entry
    <3>2. /\ y.semantic \in Seq(ToSet(y.semantic))
          /\ DOMAIN y.semantic = 1 .. Len(x.semantic) + 1 /\ DOMAIN x.semantic = 1 .. Len(x.semantic)
          /\ \A i \in DOMAIN x.semantic : y.semantic[i] = x.semantic[i]
          /\ y.semantic[Len(x.semantic) + 1] = entry
      <4>1. y.semantic = Append(x.semantic, entry)
        BY <2>8 DEF entry
      <4>2. x.semantic \in Seq(ToSet(x.semantic))
        BY DEF x
      <4> QED
        BY <4>1, <4>2, RowAppended
    <3>3. Len(x.semantic) \in Nat
      BY DEF x
    <3>4. \A i \in DOMAIN y.semantic : i \in DOMAIN x.semantic \/ i = Len(x.semantic) + 1
      BY <3>2, <3>3
    <3>5. \A i \in DOMAIN y.semantic : \/ i \in DOMAIN x.semantic /\ y.semantic[i] = x.semantic[i]
                                       \/ y.semantic[i].text = t /\ Own(y.semantic[i].value)
      BY <3>1, <3>2, <3>4
    <3> QED
      BY <2>6, <3>2, <3>5 DEF x, y, t, Own
  <2> QED
    BY <2>4, <2>7, <2>8
<1> QED
  BY <1>1, <1>2, <1>3

(* The session of a turn keeps what turns of this phase gave, be it new.    *)
LEMMA ContextKept ==
  ASSUME ContextInv, NEW s
  PROVE  Keeps(ContextOf(s), s)
<1>1. CASE s \in DOMAIN contexts
  BY <1>1 DEF ContextOf, ContextInv
<1>2. CASE s \notin DOMAIN contexts
  <2>1. /\ ContextOf(s).exact = Empty /\ ContextOf(s).semantic = <<>>
        /\ DOMAIN Empty = {} /\ DOMAIN <<>> = {} /\ <<>> \in Seq(ToSet(<<>>))
    BY <1>2 DEF ContextOf, NewContext, Empty
  <2> QED
    BY <2>1 DEF Keeps
<1> QED
  BY <1>1, <1>2

(* So a hit has an earlier turn to thank for its answer.                    *)
LEMMA HitHasOrigin ==
  ASSUME ContextInv, NEW c, NEW turn \in Turns(c), turn.hit
  PROVE  LET t == Head(c.messages)
             Text(j) == Head(Events[j].messages)
         IN
         /\ Delivered(turn).status = "answer"
         /\ \E j \in DOMAIN rows :
              /\ ~rows[j].hit /\ rows[j].delivered = Delivered(turn) /\ Events[j].session = c.session
              /\ t = Text(j) \/ (Settings.semantic_enabled /\ Score[<<t, Text(j)>>] >= threshold)
<1> DEFINE t == Head(c.messages)
           Text(j) == Head(Events[j].messages)
           Origin(j) == /\ ~rows[j].hit /\ rows[j].delivered = Delivered(turn) /\ Events[j].session = c.session
                        /\ t = Text(j) \/ (Settings.semantic_enabled /\ Score[<<t, Text(j)>>] >= threshold)
<1>a. PICK x : x = ContextOf(c.session)
  OBVIOUS
<1>1. Keeps(x, c.session)
  BY <1>a, ContextKept
<1>2. PICK v : /\ Delivered(turn) = [status |-> v.status, facts |-> v.facts, citations |-> v.citations]
               /\ \/ t \in DOMAIN x.exact /\ v = x.exact[t]
                  \/ Settings.semantic_enabled /\ Near(x, t) # {} /\ v = x.semantic[Max(Near(x, t))].value
  BY <1>a, HitIs
<1>3. CASE t \in DOMAIN x.exact /\ v = x.exact[t]
  <2>1. PICK j \in DOMAIN rows : Gave(j, c.session, t, v)
    BY <1>1, <1>3 DEF Keeps
  <2>2. Origin(j)
    BY <1>2, <2>1 DEF Gave
  <2>3. Delivered(turn).status = "answer"
    BY <1>2, <2>1 DEF Gave
  <2> QED
    BY <2>2, <2>3
<1>4. CASE Settings.semantic_enabled /\ Near(x, t) # {} /\ v = x.semantic[Max(Near(x, t))].value
  <2>a. PICK i : i = Max(Near(x, t))
    OBVIOUS
  <2>1. i \in Near(x, t)
    <3> DEFINE T == Near(x, t)
               n == Len(x.semantic)
    <3>1. n \in Nat /\ T \subseteq 1 .. n
      BY <1>1 DEF Keeps, Near
    <3>2. T # {}
      BY <1>4
    <3> HIDE DEF T, n
    <3>3. \E y \in T : \A z \in T : z <= y
      BY <3>1, <3>2, GreatestOf
    <3>4. \A y, z \in T : z <= y <=> y >= z
      BY <3>1
    <3>5. \E y \in T : \A z \in T : y >= z
      BY <3>3, <3>4
    <3>6. Max(T) \in T
      BY <3>5 DEF Max
    <3> QED
      BY <2>a, <3>6 DEF T
  <2>2. i \in DOMAIN x.semantic /\ Score[<<t, x.semantic[i].text>>] >= threshold /\ v = x.semantic[i].value
    BY <1>4, <2>a, <2>1 DEF Near
  <2>3. PICK j \in DOMAIN rows : Gave(j, c.session, x.semantic[i].text, v)
    BY <1>1, <2>2 DEF Keeps
  <2>4. Origin(j)
    BY <1>2, <1>4, <2>2, <2>3 DEF Gave
  <2>5. Delivered(turn).status = "answer"
    BY <1>2, <2>3 DEF Gave
  <2> QED
    BY <2>4, <2>5
<1> QED
  BY <1>2, <1>3, <1>4

(* A row is credited as before when no row up to it has changed.            *)
LEMMA CreditStays ==
  ASSUME NEW i, i \in Nat, CreditFor(i), \A j \in 1 .. i : rows'[j] = rows[j],
         UNCHANGED <<live, references>>, Settings' = Settings, threshold' = threshold, i > 0
  PROVE  CreditFor(i)'
<1>1. rows'[i] = rows[i] /\ Events' = Events
  BY DEF Events
<1>2. \A j \in 1 .. i - 1 : rows'[j] = rows[j]
  OBVIOUS
<1>3. SameAnswer(i)' = SameAnswer(i) /\ \A j \in SameAnswer(i) : rows'[j] = rows[j]
  BY <1>1, <1>2 DEF SameAnswer
<1>4. \A j : AskedAlike(i, j)' = AskedAlike(i, j)
  BY <1>1 DEF AskedAlike
<1> QED
  BY <1>1, <1>3, <1>4 DEF CreditFor

(* What is kept stays given, when rows are only added.                      *)
LEMMA StaysGiven ==
  ASSUME \A j \in DOMAIN rows : j \in DOMAIN rows' /\ rows'[j] = rows[j]
  PROVE  \A x, s : Keeps(x, s) => Keeps(x, s)'
<1>1. Events' = Events
  BY DEF Events
<1>2. ASSUME NEW s, NEW t, NEW v, \E j \in DOMAIN rows : Gave(j, s, t, v)
      PROVE  \E j \in DOMAIN rows' : Gave(j, s, t, v)'
  <2>1. PICK j \in DOMAIN rows : Gave(j, s, t, v)
    BY <1>2
  <2>2. Gave(j, s, t, v)'
    BY <1>1, <2>1 DEF Gave
  <2> QED
    BY <2>1, <2>2
<1> QED
  BY <1>2 DEF Keeps

(* What a row says of the lookups behind it, and what a passing hit had to  *)
(* be credited with.                                                        *)
LEMMA RowIs ==
  ASSUME NEW c, NEW turn
  PROVE  LET row == Replayed(c, turn) IN
         /\ row.actual_tools = turn.result.tools
         /\ turn.hit /\ c.tools # {} /\ row.passed =>
              /\ c.id \in DOMAIN origins /\ origins[c.id].row.passed
              /\ c.tools \subseteq origins[c.id].row.actual_tools
              /\ Value(turn.result) = origins[c.id].value
<1> DEFINE checked == check_case(c, <<turn.result>>, turn.context.actions, turn.context.terminal)
<1>1. /\ checked.actual_tools = UNION {r.tools : r \in ToSet(<<turn.result>>)}
      /\ checked = [id |-> checked.id, intent |-> checked.intent, language |-> checked.language,
                    difficulty |-> checked.difficulty, risk |-> checked.risk, failures |-> checked.failures,
                    passed |-> checked.passed, actual_tools |-> checked.actual_tools,
                    safety_case |-> checked.safety_case]
  BY DEF check_case
<1>2. UNION {r.tools : r \in ToSet(<<turn.result>>)} = turn.result.tools
  <2>1. ToSet(<<turn.result>>) = {turn.result}
    BY DEF ToSet
  <2> QED
    BY <2>1
<1> DEFINE earned == /\ c.id \in DOMAIN origins
                     /\ origins[c.id].row.passed
                     /\ c.tools \subseteq origins[c.id].row.actual_tools
                     /\ Value(turn.result) = origins[c.id].value
           failures == IF turn.hit /\ c.tools # {}
                       THEN (checked.failures \ {"tools"}) \cup {f \in {"tools"} : ~earned}
                       ELSE checked.failures
<1>3. Replayed(c, turn) = [checked EXCEPT !.failures = failures, !.passed = failures = {}]
  BY DEF Replayed
<1> HIDE DEF checked
<1>4. Replayed(c, turn).passed <=> failures = {}
  BY <1>1, <1>3
<1>5. Replayed(c, turn).actual_tools = checked.actual_tools
  BY <1>1, <1>3
<1>6. turn.hit /\ c.tools # {} /\ failures = {} => earned
  OBVIOUS
<1> QED
  BY <1>1, <1>2, <1>4, <1>5, <1>6

(* With the audit passed, a case is known by its id.                        *)
LEMMA IdsAreDistinct ==
  ASSUME dataset_audit(Cases, TRUE), NEW c \in Cases, NEW d \in Cases, c.id = d.id
  PROVE  c = d
BY DEF dataset_audit

LEMMA CalibrateStep ==
  ASSUME ReplayInv, calibrate
  PROVE  ReplayInv'
<1>1. /\ phase = 0 /\ report = Unknown /\ phase' \in {0, 1}
      /\ phase' = 0 => report' \in {"BLOCK", "SEMANTIC_DISABLED"}
      /\ UNCHANGED <<live, at, contexts, origins, references, rows, golden>>
  BY DEF calibrate
<1>2. /\ rows = <<>> /\ golden.now = {} /\ at = 1
      /\ phase' # 0 \/ report' # Unknown
  BY <1>1, ReplaysAssumption DEF ReplayInv, PhaseInv, ReplaysAssumption, Reports
<1>3. rows' = <<>> /\ DOMAIN rows' = {} /\ Len(rows') = 0
  BY <1>1, <1>2 DEF ReplayInv, PhaseInv
<1>4. PhaseInv'
  <2>1. /\ Size' = Size /\ at' \in 1 .. Size + 1 /\ phase' \in Nat /\ golden' = golden
        /\ golden = [now |-> golden.now, first |-> golden.first]
        /\ rows' \in Seq(ToSet(rows'))
    BY <1>1, <1>2 DEF Size, ReplayInv, PhaseInv
  <2>2. /\ phase' = 0 => at' = 1 /\ rows' = <<>> /\ golden'.now = {} /\ report' # Unknown
        /\ phase' > 0 => Len(rows') = at' - 1
        /\ phase' \in {0, 1}
    BY <1>1, <1>2, <1>3
  <2>3. ~(phase' > 1) /\ golden'.now = {} /\ (phase' = 1 => \A i \in DOMAIN rows' : ~rows'[i].hit)
    BY <1>2, <1>3, <2>1, <2>2
  <2>4. golden' = [now |-> golden'.now, first |-> golden'.first]
    BY <2>1
  <2> QED
    BY <2>1, <2>2, <2>3, <2>4 DEF PhaseInv
<1>5. RowsInv'
  BY <1>1, <1>3 DEF ReplayInv, RowsInv, OriginOf
<1>6. ContextInv'
  BY <1>1, StaysGiven DEF ReplayInv, ContextInv
<1>7. \A i \in DOMAIN rows' : CreditFor(i)'
  BY <1>3
<1> QED
  BY <1>4, <1>5, <1>6, <1>7 DEF ReplayInv

LEMMA EventStep ==
  ASSUME ReplayInv, event
  PROVE  ReplayInv'
<1> DEFINE c == Events[at]
           New(turn) ==
             [case |-> c.id, hit |-> turn.hit, delivered |-> Delivered(turn), tools |-> turn.result.tools,
              passed |-> IF live THEN Replayed(c, turn).passed
                         ELSE /\ turn.result.status = "answer" /\ turn.context.actions = 0
                                 /\ ~turn.result.leaks
                              /\ Equivalent(turn)]
<1>1. /\ phase > 0 /\ at \in DOMAIN Events /\ at' = at + 1
      /\ UNCHANGED <<live, score, threshold, phase, references, golden, report>>
  BY DEF event
<1>2. PICK turn \in Turns(c) :
        /\ origins' = IF live /\ ~turn.hit
                      THEN [i \in DOMAIN origins \cup {c.id} |->
                              IF i = c.id THEN [row |-> Replayed(c, turn), value |-> Value(turn.result)] ELSE origins[i]]
                      ELSE origins
        /\ contexts' = [s \in DOMAIN contexts \cup {c.session} |-> IF s = c.session THEN turn.context ELSE contexts[s]]
        /\ rows' = Append(rows, New(turn))
  BY DEF event
<1>a. PICK n : n = Len(rows)
  OBVIOUS
<1>b. PICK row : row = New(turn)
  OBVIOUS
<1>3. /\ phase \in Nat /\ at \in 1 .. Size /\ Size \in Nat /\ rows \in Seq(ToSet(rows)) /\ n = at - 1
      /\ phase > 1 => dataset_audit(Cases, TRUE) /\ DOMAIN references = 1 .. Size
      /\ golden.now # {} => dataset_audit(Cases, TRUE) /\ DOMAIN references = 1 .. Size
      /\ phase = 1 => \A i \in DOMAIN rows : ~rows[i].hit
      /\ golden = [now |-> golden.now, first |-> golden.first]
  BY <1>1, <1>a, EventsAre DEF ReplayInv, PhaseInv
<1>c. rows' = Append(rows, row)
  BY <1>2, <1>b
<1>4. /\ rows' \in Seq(ToSet(rows')) /\ Len(rows') = n + 1 /\ n \in Nat
      /\ DOMAIN rows' = 1 .. n + 1 /\ DOMAIN rows = 1 .. n
      /\ \A i \in DOMAIN rows : rows'[i] = rows[i]
      /\ rows'[n + 1] = row
  BY <1>3, <1>a, <1>c, RowAppended
<1>5. /\ row.case = c.id /\ row.hit = turn.hit /\ row.delivered = Delivered(turn)
      /\ row.tools = turn.result.tools
      /\ live => row.passed = Replayed(c, turn).passed
      /\ ~live /\ row.passed => Equivalent(turn)
  BY <1>b
<1>6. /\ phase = 1 => ~turn.hit
      /\ turn.hit => dataset_audit(Cases, TRUE) /\ DOMAIN references = 1 .. Size
  <2>1. phase = 1 => ~turn.hit
    BY BaselineNeverHits
  <2>2. phase # 1 => phase > 1
    BY <1>1, <1>3
  <2> QED
    BY <1>3, <2>1, <2>2
<1>d. PICK k : k = n + 1
  OBVIOUS
<1> HIDE DEF New
<1>7. PhaseInv'
  <2>1. phase' > 0 /\ at' \in 1 .. Size + 1 /\ Len(rows') = at' - 1
    BY <1>1, <1>3, <1>4
  <2>2. phase' = 1 => \A i \in DOMAIN rows' : ~rows'[i].hit
    BY <1>1, <1>3, <1>4, <1>5, <1>6
  <2>3. Size' = Size
    BY DEF Size
  <2>4. phase' > 1 \/ golden'.now # {} => dataset_audit(Cases, TRUE)' /\ DOMAIN references' = 1 .. Size
    BY <1>1, <1>3
  <2>5. golden' = [now |-> golden'.now, first |-> golden'.first]
    BY <1>1, <1>3
  <2>6. phase' \in Nat /\ phase' # 0
    BY <1>1, <1>3
  <2> QED
    BY <1>4, <2>1, <2>2, <2>3, <2>4, <2>5, <2>6 DEF PhaseInv
<1>8. RowsInv'
  <2>1. \A i \in DOMAIN rows' : rows'[i].case = Events[i].id
    BY <1>3, <1>4, <1>5 DEF ReplayInv, RowsInv
  <2>2. ASSUME live, NEW id \in DOMAIN origins' PROVE \E j \in DOMAIN rows' : OriginOf(id, j)'
    <3>1. CASE ~turn.hit /\ id = c.id
      <4>1. origins'[id] = [row |-> Replayed(c, turn), value |-> Value(turn.result)]
        BY <1>2, <2>2, <3>1
      <4>2. Replayed(c, turn).actual_tools = turn.result.tools
        BY RowIs
      <4>3. row.delivered = [status |-> Value(turn.result).status, facts |-> Value(turn.result).facts,
                             citations |-> Value(turn.result).citations]
        BY <1>5 DEF Delivered, Value
      <4>4. OriginOf(id, k)'
        <5>1. rows'[k] = row
          BY <1>4, <1>d
        <5>2. row.case = id /\ ~row.hit
          BY <1>5, <3>1
        <5>3. /\ row.passed = origins'[id].row.passed
              /\ row.tools = origins'[id].row.actual_tools
              /\ row.delivered = [status |-> origins'[id].value.status, facts |-> origins'[id].value.facts,
                                  citations |-> origins'[id].value.citations]
          BY <1>5, <2>2, <4>1, <4>2, <4>3
        <5> QED
          BY <5>1, <5>2, <5>3 DEF OriginOf
      <4> QED
        BY <1>4, <1>d, <4>4
    <3>2. CASE turn.hit \/ id # c.id
      <4>1. id \in DOMAIN origins /\ origins'[id] = origins[id]
        BY <1>2, <2>2, <3>2
      <4>2. PICK j \in DOMAIN rows : OriginOf(id, j)
        BY <2>2, <4>1 DEF ReplayInv, RowsInv
      <4>3. rows'[j] = rows[j] /\ j \in DOMAIN rows'
        BY <1>4, <4>2
      <4>4. OriginOf(id, j)'
        BY <4>1, <4>2, <4>3 DEF OriginOf
      <4> QED
        BY <4>3, <4>4
    <3> QED
      BY <3>1, <3>2
  <2>3. /\ live' => \A id \in DOMAIN origins' : \E j \in DOMAIN rows' : OriginOf(id, j)'
        /\ Events' = Events
    BY <1>1, <2>2 DEF Events
  <2> QED
    BY <2>1, <2>3 DEF RowsInv
<1>9. ContextInv'
  <2>1. \A x, s : Keeps(x, s) => Keeps(x, s)'
    BY <1>4, StaysGiven
  <2>a. PICK session, t : session = c.session /\ t = Head(c.messages)
    OBVIOUS
  <2>2. ASSUME NEW v, ~turn.hit, v.status = "answer",
               Delivered(turn) = [status |-> v.status, facts |-> v.facts, citations |-> v.citations]
        PROVE  k \in DOMAIN rows' /\ Gave(k, session, t, v)'
    <3>1. rows'[k] = row /\ k \in DOMAIN rows' /\ k = at /\ Events' = Events
      BY <1>3, <1>4, <1>d DEF Events
    <3> QED
      BY <1>5, <2>2, <2>a, <3>1 DEF Gave
  <2>3. Keeps(turn.context, session)'
    <3> DEFINE y == turn.context
               Own(v) == /\ ~turn.hit /\ v.status = "answer"
                         /\ Delivered(turn) = [status |-> v.status, facts |-> v.facts, citations |-> v.citations]
    <3>a. PICK x : x = ContextOf(session)
      OBVIOUS
    <3>1. Keeps(x, session) /\ Keeps(x, session)'
      BY <2>1, <3>a, ContextKept DEF ReplayInv
    <3>2. /\ \A u \in DOMAIN y.exact : \/ u \in DOMAIN x.exact /\ y.exact[u] = x.exact[u]
                                       \/ u = t /\ Own(y.exact[u])
          /\ y.semantic \in Seq(ToSet(y.semantic))
          /\ \A i \in DOMAIN y.semantic : \/ i \in DOMAIN x.semantic /\ y.semantic[i] = x.semantic[i]
                                          \/ y.semantic[i].text = t /\ Own(y.semantic[i].value)
      <4> HIDE DEF c
      <4> QED
        BY <2>a, <3>1, <3>a, TurnKeeps DEF Keeps
    <3>3. /\ \A u \in DOMAIN x.exact : \E j \in DOMAIN rows' : Gave(j, session, u, x.exact[u])'
          /\ \A i \in DOMAIN x.semantic :
               \E j \in DOMAIN rows' : Gave(j, session, x.semantic[i].text, x.semantic[i].value)'
      BY <3>1 DEF Keeps
    <3>4. \A v : Own(v) => k \in DOMAIN rows' /\ Gave(k, session, t, v)'
      BY <2>2
    <3> HIDE DEF y, Own, c
    <3>5. ASSUME NEW u \in DOMAIN y.exact PROVE \E j \in DOMAIN rows' : Gave(j, session, u, y.exact[u])'
      BY <3>2, <3>3, <3>4, <3>5
    <3>6. ASSUME NEW i \in DOMAIN y.semantic
          PROVE  \E j \in DOMAIN rows' : Gave(j, session, y.semantic[i].text, y.semantic[i].value)'
      BY <3>2, <3>3, <3>4, <3>6
    <3>7. Keeps(y, session)'
      BY <3>2, <3>5, <3>6 DEF Keeps
    <3> QED
      BY <3>7 DEF y
  <2>4. ASSUME NEW s \in DOMAIN contexts' PROVE Keeps(contexts[s], s)'
    <3>a. PICK z : z = contexts'[s]
      OBVIOUS
    <3>1. CASE s = session
      <4>1. z = turn.context
        BY <1>2, <2>4, <2>a, <3>1, <3>a
      <4> QED
        BY <2>3, <3>1, <3>a, <4>1
    <3>2. CASE s # session
      <4>1. s \in DOMAIN contexts /\ z = contexts[s]
        BY <1>2, <2>4, <2>a, <3>2, <3>a
      <4>2. Keeps(z, s)
        BY <4>1 DEF ReplayInv, ContextInv
      <4> QED
        BY <2>1, <3>a, <4>2
    <3> QED
      BY <3>1, <3>2
  <2> QED
    BY <2>4 DEF ContextInv
<1>e. Settings' = Settings /\ Events' = Events
  BY <1>1, SettingsStay DEF Events
<1>10. ASSUME NEW i \in DOMAIN rows PROVE CreditFor(i)'
  <2>1. i \in Nat /\ i > 0 /\ \A j \in 1 .. i : rows'[j] = rows[j]
    BY <1>4, <1>10
  <2>2. CreditFor(i)
    BY <1>10 DEF ReplayInv
  <2> QED
    BY <1>1, <1>e, <2>1, <2>2, CreditStays
<1>11. CreditFor(k)'
  <2>1. k = at /\ k - 1 = n /\ rows'[k] = row /\ Events[k] = c
    BY <1>3, <1>4, <1>d
  <2>2. SameAnswer(k)' = {j \in 1 .. n : ~rows[j].hit /\ rows[j].delivered = row.delivered}
    <3>1. \A j \in 1 .. n : rows'[j] = rows[j]
      BY <1>4
    <3> QED
      BY <2>1, <3>1 DEF SameAnswer
  <2>3. ASSUME row.hit
        PROVE  /\ row.delivered.status = "answer"
               /\ \E j \in SameAnswer(k)' : Events[j].session = c.session /\ AskedAlike(k, j)'
    <3> DEFINE t == Head(c.messages)
               Text(j) == Head(Events[j].messages)
    <3>1. /\ Delivered(turn).status = "answer"
          /\ \E j \in DOMAIN rows :
               /\ ~rows[j].hit /\ rows[j].delivered = Delivered(turn) /\ Events[j].session = c.session
               /\ t = Text(j) \/ (Settings.semantic_enabled /\ Score[<<t, Text(j)>>] >= threshold)
      <4>1. ContextInv /\ turn.hit
        BY <1>5, <2>3 DEF ReplayInv
      <4> HIDE DEF c
      <4> QED
        BY <4>1, HitHasOrigin
    <3>2. PICK j \in DOMAIN rows :
            /\ ~rows[j].hit /\ rows[j].delivered = Delivered(turn) /\ Events[j].session = c.session
            /\ t = Text(j) \/ (Settings.semantic_enabled /\ Score[<<t, Text(j)>>] >= threshold)
      BY <3>1
    <3>3. j \in SameAnswer(k)'
      BY <1>4, <1>5, <2>2, <3>2
    <3>4. AskedAlike(k, j)'
      BY <1>1, <1>e, <2>1, <3>2 DEF AskedAlike
    <3> QED
      BY <1>5, <3>1, <3>2, <3>3, <3>4
  <2>4. ASSUME live, row.hit, row.passed, NEW d \in Cases, d.id = row.case, d.tools # {}
        PROVE  \E j \in SameAnswer(k)' : rows'[j].case = d.id /\ rows'[j].passed /\ d.tools \subseteq rows'[j].tools
    <3>1. d = c
      <4>1. c \in Cases /\ c.id = d.id
        BY <1>3, <1>5, <2>4, EventsAre
      <4>2. dataset_audit(Cases, TRUE)
        BY <1>5, <1>6, <2>4
      <4> HIDE DEF c
      <4> QED
        BY <4>1, <4>2, IdsAreDistinct
    <3>2. /\ c.id \in DOMAIN origins /\ origins[c.id].row.passed
          /\ c.tools \subseteq origins[c.id].row.actual_tools
          /\ Value(turn.result) = origins[c.id].value
      BY <1>5, <2>4, <3>1, RowIs
    <3>3. PICK j \in DOMAIN rows : OriginOf(c.id, j)
      BY <2>4, <3>2 DEF ReplayInv, RowsInv
    <3>4. rows[j].delivered = Delivered(turn)
      BY <3>2, <3>3 DEF OriginOf, Delivered, Value
    <3>5. j \in 1 .. n /\ rows'[j] = rows[j]
      BY <1>4, <3>3
    <3>6. j \in SameAnswer(k)'
      BY <1>5, <2>2, <3>3, <3>4, <3>5 DEF OriginOf
    <3> QED
      BY <3>1, <3>2, <3>3, <3>5, <3>6 DEF OriginOf
  <2>5. ASSUME ~live, row.hit, row.passed
        PROVE  row.delivered = references[k] /\ Events[k].id = row.case
    <3>1. DOMAIN references = 1 .. Size
      BY <1>5, <1>6, <2>5
    <3>2. references # <<>>
      <4>1. 1 \in DOMAIN references
        <5>1. 1 \in 1 .. Size
          BY <1>3
        <5> QED
          BY <3>1, <5>1
      <4> QED
        BY <4>1
    <3> QED
      BY <1>5, <2>1, <2>5, <3>2 DEF Equivalent
  <2> HIDE DEF c
  <2> QED
    BY <1>1, <1>e, <2>1, <2>3, <2>4, <2>5 DEF CreditFor
<1>12. \A i \in DOMAIN rows' : i \in DOMAIN rows \/ i = k
  BY <1>4, <1>d
<1>13. \A i \in DOMAIN rows' : CreditFor(i)'
  BY <1>10, <1>11, <1>12
<1> QED
  BY <1>7, <1>8, <1>9, <1>13 DEF ReplayInv

LEMMA EvaluateStep ==
  ASSUME ReplayInv, evaluate
  PROVE  ReplayInv'
<1>1. /\ phase > 0 /\ at \notin DOMAIN Events /\ dataset_audit(Cases, TRUE)
      /\ references' = IF phase = 1 THEN [i \in DOMAIN rows |-> rows[i].delivered] ELSE references
      /\ UNCHANGED <<live, score, threshold, phase, at, contexts, origins, rows, report>>
  BY DEF evaluate
<1>2. \E e \in Evaluations : golden' = [now |-> e, first |-> IF phase = 1 THEN e ELSE golden.first]
  BY DEF evaluate
<1>3. golden' = [now |-> golden'.now, first |-> golden'.first]
  BY <1>2
<1>4. /\ phase \in Nat /\ at = Size + 1 /\ rows \in Seq(ToSet(rows)) /\ Len(rows) = Size
      /\ phase = 1 => \A i \in DOMAIN rows : ~rows[i].hit
      /\ phase # 1 => DOMAIN references = 1 .. Size
  <2>1. phase \in Nat /\ at \in 1 .. Size + 1 /\ rows \in Seq(ToSet(rows)) /\ Len(rows) = at - 1
    BY <1>1 DEF ReplayInv, PhaseInv
  <2>2. at = Size + 1
    BY <1>1, <2>1, EventsAre
  <2>3. Len(rows) = Size
    BY <2>1, <2>2, EventsAre
  <2>4. phase # 1 => phase > 1
    BY <1>1, <2>1
  <2> QED
    BY <2>1, <2>2, <2>3, <2>4 DEF ReplayInv, PhaseInv
<1>5. DOMAIN references' = 1 .. Size
  BY <1>1, <1>4
<1>6. Size' = Size /\ Events' = Events
  BY DEF Size, Events
<1>7. PhaseInv'
  <2>1. at' \in 1 .. Size + 1 /\ Len(rows') = at' - 1 /\ phase' > 0
    BY <1>1, <1>4, EventsAre
  <2>2. phase' = 1 => \A i \in DOMAIN rows' : ~rows'[i].hit
    BY <1>1, <1>4
  <2>3. phase' \in Nat /\ phase' # 0 /\ rows' = rows
    BY <1>1, <1>4
  <2>4. rows' \in Seq(ToSet(rows'))
    BY <1>4, <2>3
  <2>5. dataset_audit(Cases, TRUE) /\ DOMAIN references' = 1 .. Size
    BY <1>1, <1>5
  <2> QED
    BY <1>3, <1>6, <2>1, <2>2, <2>3, <2>4, <2>5 DEF PhaseInv
<1>8. RowsInv'
  BY <1>1, <1>6 DEF ReplayInv, RowsInv, OriginOf
<1>9. ContextInv'
  BY <1>1, StaysGiven DEF ReplayInv, ContextInv
<1>10. ASSUME NEW i \in DOMAIN rows' PROVE CreditFor(i)'
  <2>1. i \in DOMAIN rows /\ rows'[i] = rows[i]
    BY <1>1
  <2>2. CASE phase = 1
    BY <1>4, <2>1, <2>2 DEF CreditFor
  <2>3. CASE phase # 1
    <3>1. CreditFor(i) /\ i \in Nat /\ i > 0
      BY <1>4, <2>1 DEF ReplayInv
    <3>2. Settings' = Settings
      BY <1>1, SettingsStay
    <3>3. UNCHANGED <<live, references, threshold>> /\ \A j \in 1 .. i : rows'[j] = rows[j]
      BY <1>1, <2>3
    <3> QED
      BY <3>1, <3>2, <3>3, CreditStays
  <2> QED
    BY <2>2, <2>3
<1> QED
  BY <1>7, <1>8, <1>9, <1>10 DEF ReplayInv

LEMMA EndPhaseStep ==
  ASSUME ReplayInv, end_phase
  PROVE  ReplayInv'
<1>1. /\ golden.now # {} /\ rows' = <<>> /\ golden' = [golden EXCEPT !.now = {}]
      /\ origins' = Empty /\ contexts' = Empty /\ UNCHANGED <<live, references>>
      /\ \/ phase' = phase + 1 /\ at' = 1
         \/ phase' = 0 /\ at' = at /\ \E identified, targets \in BOOLEAN : report' = Reported(steps', identified, targets)
  BY DEF end_phase
<1>2. /\ phase \in Nat \ {0} /\ at \in 1 .. Size + 1 /\ dataset_audit(Cases, TRUE) /\ DOMAIN references = 1 .. Size
      /\ golden = [now |-> golden.now, first |-> golden.first]
  BY <1>1 DEF ReplayInv, PhaseInv
<1>3. golden' = [now |-> {}, first |-> golden.first]
  BY <1>1, <1>2
<1>4. phase' = 0 => report' # Unknown
  BY <1>1, <1>2, ReplaysAssumption DEF ReplaysAssumption, Reports, Reported
<1>5. Len(rows') = 0 /\ DOMAIN rows' = {} /\ rows' \in Seq(ToSet(rows'))
  BY <1>1
<1>6. Size' = Size /\ 1 \in 1 .. Size + 1
  BY EventsAre DEF Size
<1>7. PhaseInv'
  <2>1. phase' \in Nat /\ at' \in 1 .. Size + 1 /\ golden'.now = {}
    BY <1>1, <1>2, <1>3, <1>6
  <2>2. phase' > 0 => Len(rows') = at' - 1
    BY <1>1, <1>5
  <2>3. dataset_audit(Cases, TRUE) /\ DOMAIN references' = 1 .. Size
    BY <1>1, <1>2
  <2> QED
    BY <1>1, <1>3, <1>4, <1>5, <1>6, <2>1, <2>2, <2>3 DEF PhaseInv
<1>8. RowsInv'
  BY <1>1, <1>5 DEF RowsInv, Empty
<1>9. ContextInv' /\ \A i \in DOMAIN rows' : CreditFor(i)'
  BY <1>1, <1>5 DEF ContextInv, Empty
<1> QED
  BY <1>7, <1>8, <1>9 DEF ReplayInv

LEMMA InitReplayInv == Init => ReplayInv
<1> SUFFICES ASSUME Init PROVE ReplayInv
  OBVIOUS
<1>1. ReplayStart
  BY DEF Init, ReplayInit
<1>2. rows = <<>> /\ phase = 0 /\ at = 1 /\ golden = [now |-> {}, first |-> {}]
      /\ origins = Empty /\ contexts = Empty
  BY <1>1 DEF ReplayStart
<1>3. Len(rows) = 0 /\ DOMAIN rows = {} /\ rows \in Seq(ToSet(rows)) /\ DOMAIN origins = {} /\ DOMAIN contexts = {}
  BY <1>2 DEF Empty
<1> QED
  BY <1>2, <1>3, EventsAre DEF ReplayInv, PhaseInv, RowsInv, ContextInv

LEMMA NextReplayInv == ReplayInv /\ [main]_measurementVars => ReplayInv'
<1> SUFFICES ASSUME ReplayInv, [main]_measurementVars PROVE ReplayInv'
  OBVIOUS
<1>1. CASE UNCHANGED replayVars
  <2>1. UNCHANGED <<live, score, threshold, phase, at, contexts, origins, references, rows, golden, report>>
    BY <1>1 DEF replayVars
  <2>2. Size' = Size /\ Events' = Events
    BY DEF Size, Events
  <2>3. PhaseInv'
    BY <2>1, <2>2 DEF ReplayInv, PhaseInv
  <2>4. RowsInv'
    BY <2>1, <2>2 DEF ReplayInv, RowsInv, OriginOf
  <2>5. ContextInv'
    BY <2>1, StaysGiven DEF ReplayInv, ContextInv
  <2>6. ASSUME NEW i \in DOMAIN rows' PROVE CreditFor(i)'
    <3>1. CreditFor(i) /\ i \in Nat /\ i > 0 /\ Settings' = Settings
      BY <2>1, SettingsStay DEF ReplayInv, PhaseInv
    <3> QED
      BY <2>1, <3>1, CreditStays
  <2> QED
    BY <2>3, <2>4, <2>5, <2>6 DEF ReplayInv
<1>2. CASE ReplayNext
  BY <1>2, CalibrateStep, EventStep, EvaluateStep, EndPhaseStep DEF ReplayNext
<1> QED
  BY <1>1, <1>2 DEF main, measurementVars

(* "Require the earlier successful lookup and identical cached facts":      *)
(* whatever a model says and whatever its caches are given to keep, what a  *)
(* hit delivers was given before in its session, with no cache, to the same *)
(* or an alike text; and one that passes live, of a case that requires      *)
(* lookups, has an earlier row of its own case that made them.              *)
THEOREM MeasurementCreditIsEarned == Spec => []CreditIsEarned
<1>1. ReplayInv => CreditIsEarned
  <2> SUFFICES ASSUME ReplayInv, NEW i \in DOMAIN rows PROVE CreditFor(i)
    BY DEF CreditIsEarned, CreditFor, SameAnswer, AskedAlike
  <2> QED
    BY DEF ReplayInv
<1> QED
  BY InitReplayInv, NextReplayInv, <1>1, PTL DEF Spec

-----------------------------------------------------------------------------
(* What the gate sees.                                                      *)

(* One row of each case, and what it has of its case.                       *)
OneOfEach(e, row) ==
  /\ e = {row[c] : c \in Cases}
  /\ \A c \in Cases : row[c].id = c.id /\ \A d \in Dimensions : row[c][d] = c[d]

(* The ids of some cases, and the rows with these ids.                      *)
Ids(A) == {c.id : c \in A}
Of(e, A) == {r \in e : r.id \in Ids(A)}

LEMMA CaseOfRow ==
  ASSUME NEW c, NEW results, NEW actions, NEW terminal
  PROVE  LET row == check_case(c, results, actions, terminal) IN
         row.id = c.id /\ \A d \in Dimensions : row[d] = c[d]
<1> DEFINE row == check_case(c, results, actions, terminal)
<1>1. row = [id |-> c.id, intent |-> c.intent, language |-> c.language, difficulty |-> c.difficulty, risk |-> c.risk,
             failures |-> row.failures, passed |-> row.passed, actual_tools |-> row.actual_tools,
             safety_case |-> row.safety_case]
  BY DEF check_case
<1> HIDE DEF row
<1>2. /\ row.id = c.id /\ row.intent = c.intent /\ row.language = c.language
      /\ row.difficulty = c.difficulty /\ row.risk = c.risk
  BY <1>1
<1> QED
  BY <1>2 DEF Dimensions, row

LEMMA EvaluationIs ==
  ASSUME NEW e \in Evaluations
  PROVE  \E row : OneOfEach(e, row)
<1>1. PICK ways \in SUBSET Ways : /\ e = {RowOf(w) : w \in ways}
                                  /\ \A c \in Cases : \E w \in ways : {v \in ways : v.case = c} = {w}
  BY DEF Evaluations
<1>2. \A w \in ways : w.case \in Cases
  BY DEF Ways
<1> DEFINE W(c) == CHOOSE w \in ways : w.case = c
           row == [c \in Cases |-> RowOf(W(c))]
<1>3. ASSUME NEW c \in Cases PROVE W(c) \in ways /\ W(c).case = c /\ (\A v \in ways : v.case = c => v = W(c))
  <2>1. PICK w \in ways : {v \in ways : v.case = c} = {w}
    BY <1>1
  <2>2. w.case = c /\ \A v \in ways : v.case = c => v = w
    BY <2>1
  <2> QED
    BY <2>2
<1>4. e = {row[c] : c \in Cases}
  <2>1. ASSUME NEW r \in e PROVE \E c \in Cases : r = row[c]
    <3>1. PICK w \in ways : r = RowOf(w)
      BY <1>1
    <3>2. w.case \in Cases /\ W(w.case) = w
      BY <1>2, <1>3
    <3> QED
      BY <3>1, <3>2
  <2>2. ASSUME NEW c \in Cases PROVE row[c] \in e
    <3>1. W(c) \in ways
      BY <1>3
    <3> HIDE DEF W
    <3> QED
      BY <1>1, <3>1
  <2> HIDE DEF row
  <2> QED
    BY <2>1, <2>2
<1>5. ASSUME NEW c \in Cases PROVE row[c].id = c.id /\ \A d \in Dimensions : row[c][d] = c[d]
  <2>1. row[c] = RowOf(W(c)) /\ W(c).case = c
    BY <1>3
  <2> HIDE DEF W, row
  <2> QED
    BY <2>1, CaseOfRow DEF RowOf
<1> HIDE DEF row
<1> QED
  BY <1>4, <1>5 DEF OneOfEach

(* What a one-to-one function makes of a finite set is as large.            *)
LEMMA SameSize ==
  ASSUME NEW S, IsFiniteSet(S), NEW T, NEW f \in [S -> T],
         \A x, y \in S : f[x] = f[y] => x = y, \A t \in T : \E x \in S : f[x] = t
  PROVE  IsFiniteSet(T) /\ Cardinality(T) = Cardinality(S)
<1>1. f \in Bijection(S, T)
  BY DEF Bijection, Injection, Surjection, IsInjective
<1> QED
  BY <1>1, FS_Bijection DEF ExistsBijection

(* So many rows as cases, as ids.                                           *)
LEMMA AsManyRows ==
  ASSUME dataset_audit(Cases, TRUE), NEW e, NEW row, OneOfEach(e, row), NEW A \in SUBSET Cases
  PROVE  /\ IsFiniteSet(Of(e, A)) /\ Cardinality(Of(e, A)) = Cardinality(A)
         /\ Cardinality(Ids(A)) = Cardinality(A) /\ Cardinality(A) \in Nat
         /\ A # {} => Cardinality(A) # 0
<1>1. IsFiniteSet(A)
  BY EvaluationAssumption, FS_Subset DEF EvaluationAssumption
<1>2. \A c, d \in A : c.id = d.id => c = d
  BY IdsAreDistinct
<1>3. Cardinality(Ids(A)) = Cardinality(A)
  <2> DEFINE f == [c \in A |-> c.id]
  <2>1. /\ f \in [A -> Ids(A)]
        /\ \A c, d \in A : f[c] = f[d] => c = d
        /\ \A t \in Ids(A) : \E c \in A : f[c] = t
    BY <1>2 DEF Ids
  <2> HIDE DEF f
  <2> QED
    BY <1>1, <2>1, SameSize
<1>4. IsFiniteSet(Of(e, A)) /\ Cardinality(Of(e, A)) = Cardinality(A)
  <2> DEFINE f == [c \in A |-> row[c]]
  <2>1. \A c \in A : row[c] \in Of(e, A) /\ row[c].id = c.id
    BY DEF OneOfEach, Of, Ids
  <2>2. \A t \in Of(e, A) : \E c \in A : row[c] = t
    <3> SUFFICES ASSUME NEW t \in Of(e, A) PROVE \E c \in A : row[c] = t
      OBVIOUS
    <3>1. PICK c \in Cases : t = row[c] /\ t.id = c.id
      BY DEF Of, OneOfEach
    <3>2. PICK d \in A : t.id = d.id
      BY DEF Of, Ids
    <3>3. c = d
      BY <3>1, <3>2, IdsAreDistinct
    <3> QED
      BY <3>1, <3>2, <3>3
  <2>3. /\ f \in [A -> Of(e, A)]
        /\ \A c, d \in A : f[c] = f[d] => c = d
        /\ \A t \in Of(e, A) : \E c \in A : f[c] = t
    BY <1>2, <2>1, <2>2
  <2> HIDE DEF f
  <2> QED
    BY <1>1, <2>3, SameSize
<1> QED
  BY <1>1, <1>3, <1>4, FS_CardinalityType, FS_EmptySet

(* A slice of the rows is the rows of that slice of the cases.              *)
LEMMA SlicesAre ==
  ASSUME dataset_audit(Cases, TRUE), NEW e, NEW row, OneOfEach(e, row)
  PROVE  /\ Of(e, Cases) = e
         /\ Strata(e) = Strata(Cases)
         /\ \A s \in Strata(Cases) : /\ InStratum(e, s) = Of(e, InStratum(Cases, s))
                                     /\ InStratum(Cases, s) # {}
<1>1. \A r \in e : \E c \in Cases : r = row[c]
  BY DEF OneOfEach
<1>2. \A c \in Cases : row[c] \in e /\ row[c].id = c.id /\ \A d \in Dimensions : row[c][d] = c[d]
  BY DEF OneOfEach
<1>3. Of(e, Cases) = e
  BY <1>1, <1>2 DEF Of, Ids
<1>4. ASSUME NEW d \in Dimensions PROVE {<<d, r[d]>> : r \in e} = {<<d, c[d]>> : c \in Cases}
  <2>1. ASSUME NEW r \in e PROVE \E c \in Cases : <<d, r[d]>> = <<d, c[d]>>
    BY <1>1, <1>2
  <2>2. ASSUME NEW c \in Cases PROVE \E r \in e : <<d, c[d]>> = <<d, r[d]>>
    BY <1>2
  <2> QED
    BY <2>1, <2>2
<1>5. Strata(e) = Strata(Cases)
  BY <1>4 DEF Strata
<1>6. ASSUME NEW s \in Strata(Cases)
      PROVE  InStratum(e, s) = Of(e, InStratum(Cases, s)) /\ InStratum(Cases, s) # {}
  <2>1. PICK d \in Dimensions, x \in Cases : s = <<d, x[d]>>
    BY DEF Strata
  <2>2. s[1] = d /\ s[2] = x[d]
    BY <2>1
  <2>3. ASSUME NEW r \in e PROVE r[d] = x[d] <=> \E c \in Cases : c[d] = x[d] /\ r.id = c.id
    <3>1. PICK c \in Cases : r = row[c]
      BY <1>1
    <3>2. r.id = c.id /\ r[d] = c[d]
      BY <1>2, <3>1
    <3>3. \A b \in Cases : r.id = b.id => b = c
      BY <3>2, IdsAreDistinct
    <3> QED
      BY <3>2, <3>3
  <2>4. InStratum(e, s) = Of(e, InStratum(Cases, s))
    BY <2>2, <2>3 DEF InStratum, Of, Ids
  <2> QED
    BY <2>2, <2>4 DEF InStratum
<1> QED
  BY <1>3, <1>5, <1>6

(* Of groups of one size, the rates differ by more than the margin when the *)
(* numbers that passed differ by more than the margin of that size.         *)
LEMMA Margin ==
  ASSUME NEW p \in Nat, NEW q \in Nat, NEW n \in Nat \ {0}, NEW m \in Nat
  PROVE  100 * p * n + m * n * n < 100 * q * n <=> ~(100 * (q - p) <= m * n)
<1> DEFINE w == m * n
           X == 100 * p + w
           Y == 100 * q
<1>1. w \in Nat
  OBVIOUS
<1>2. 100 * p * n + w * n = n * X /\ 100 * q * n = n * Y
  <2> HIDE DEF w
  <2> QED
    BY <1>1
<1>3. X \in Int /\ Y \in Int
  <2> HIDE DEF w
  <2> QED
    BY <1>1
<1>4. n * X < n * Y <=> X < Y
  <2> HIDE DEF X, Y
  <2>1. ASSUME Y <= X PROVE ~(n * X < n * Y)
    <3>1. n * Y \in Int /\ n * X \in Int /\ n * Y <= n * X
      BY <1>3, <2>1, Multiples
    <3> QED
      BY <3>1
  <2>2. ASSUME X < Y PROVE n * X < n * Y
    <3>1. X + 1 <= Y /\ X + 1 \in Int
      BY <1>3, <2>2
    <3>2. n * (X + 1) \in Int /\ n * Y \in Int /\ n * (X + 1) <= n * Y
      BY <1>3, <3>1, Multiples
    <3>3. n * (X + 1) = n * X + n /\ n * X \in Int
      BY <1>3
    <3> QED
      BY <3>2, <3>3
  <2> QED
    BY <1>3, <2>1, <2>2
<1>5. X < Y <=> ~(100 * (q - p) <= w)
  <2> HIDE DEF w
  <2> QED
    BY <1>1
<1> HIDE DEF X, Y
<1> QED
  BY <1>2, <1>4, <1>5

(* What some cases passed less than in the first run.                       *)
LostOf(first, now, A) ==
  Cardinality({r \in first : r.passed /\ r.id \in Ids(A)}) - Cardinality({r \in now : r.passed /\ r.id \in Ids(A)})

LEMMA DroppedIs ==
  ASSUME dataset_audit(Cases, TRUE), NEW first, NEW row1, OneOfEach(first, row1),
         NEW now, NEW row2, OneOfEach(now, row2), NEW A \in SUBSET Cases, A # {}
  PROVE  Dropped(metrics(Of(now, A)), metrics(Of(first, A)))
           <=> ~(100 * LostOf(first, now, A) <= max_drop * Cardinality(Ids(A)))
<1> DEFINE n == Cardinality(A)
           Passed(e) == Cardinality({r \in Of(e, A) : r.passed})
<1>1. n \in Nat \ {0} /\ Cardinality(Ids(A)) = n
  BY AsManyRows
<1>2. Cardinality(Of(now, A)) = n /\ Cardinality(Of(first, A)) = n
  BY AsManyRows
<1>3. Passed(now) \in Nat /\ Passed(first) \in Nat
  <2>1. IsFiniteSet(Of(now, A)) /\ IsFiniteSet(Of(first, A))
    BY AsManyRows
  <2>2. /\ IsFiniteSet({r \in Of(now, A) : r.passed})
        /\ IsFiniteSet({r \in Of(first, A) : r.passed})
    BY <2>1, FS_Subset
  <2> QED
    BY <2>2, FS_CardinalityType
<1>4. LostOf(first, now, A) = Passed(first) - Passed(now)
  <2>1. ASSUME NEW e PROVE {r \in Of(e, A) : r.passed} = {r \in e : r.passed /\ r.id \in Ids(A)}
    BY DEF Of
  <2> QED
    BY <2>1 DEF LostOf
<1>5. /\ metrics(Of(now, A)).n = n /\ metrics(Of(now, A)).passed = Passed(now)
      /\ metrics(Of(first, A)).n = n /\ metrics(Of(first, A)).passed = Passed(first)
  BY <1>2 DEF metrics
<1>6. max_drop \in Nat
  BY EvaluationAssumption DEF EvaluationAssumption
<1> HIDE DEF n, Passed
<1>7. Dropped(metrics(Of(now, A)), metrics(Of(first, A)))
        <=> 100 * Passed(now) * n + max_drop * n * n < 100 * Passed(first) * n
  BY <1>1, <1>5 DEF Dropped
<1> QED
  BY <1>1, <1>3, <1>4, <1>6, <1>7, Margin

(* The gate of two runs over the golden set.                                *)
LEMMA GateIs ==
  ASSUME dataset_audit(Cases, TRUE), NEW first, NEW row1, OneOfEach(first, row1),
         NEW now, NEW row2, OneOfEach(now, row2)
  PROVE  LET safety == {r \in now : r.safety_case} IN
         regression_gate(summarize("golden", now), summarize("golden", first)) = {}
           <=> /\ safety # {} /\ \A r \in safety : r.passed
               /\ ~Dropped(metrics(Of(now, Cases)), metrics(Of(first, Cases)))
               /\ \A s \in Strata(Cases) :
                    ~Dropped(metrics(Of(now, InStratum(Cases, s))), metrics(Of(first, InStratum(Cases, s))))
<1> DEFINE safety == {r \in now : r.safety_case}
           failed == {r \in safety : ~r.passed}
           x == summarize("golden", now)
           y == summarize("golden", first)
<1>1. /\ Of(now, Cases) = now /\ Of(first, Cases) = first
      /\ Strata(now) = Strata(Cases) /\ Strata(first) = Strata(Cases)
      /\ \A s \in Strata(Cases) : /\ InStratum(now, s) = Of(now, InStratum(Cases, s))
                                  /\ InStratum(first, s) = Of(first, InStratum(Cases, s))
  BY SlicesAre
<1>2. (Cardinality(safety) = 0 <=> safety = {}) /\ (Cardinality(failed) = 0 <=> failed = {})
  <2>1. IsFiniteSet(now)
    BY <1>1, AsManyRows
  <2>2. IsFiniteSet(safety)
    BY <2>1, FS_Subset
  <2>3. IsFiniteSet(failed)
    BY <2>2, FS_Subset
  <2> HIDE DEF safety, failed
  <2> QED
    BY <2>2, <2>3, FS_EmptySet
<1>3. /\ x.dataset = y.dataset
      /\ x.safety.n = Cardinality(safety) /\ x.safety.failed = Cardinality(failed)
      /\ x.overall = metrics(now) /\ y.overall = metrics(first)
      /\ DOMAIN x.slices = Strata(Cases) /\ DOMAIN y.slices = Strata(Cases)
  BY <1>1 DEF summarize
<1>4. \A s \in Strata(Cases) : /\ x.slices[s] = metrics(InStratum(now, s))
                               /\ y.slices[s] = metrics(InStratum(first, s))
  BY <1>1 DEF summarize
<1> HIDE DEF x, y
<1>5. regression_gate(x, y) = {}
        <=> /\ ~(x.safety.failed # 0 \/ x.safety.n = 0)
            /\ ~Dropped(x.overall, y.overall)
            /\ \A s \in Strata(Cases) : ~Dropped(x.slices[s], y.slices[s])
  <2>1. {f \in {<<"dataset_sha256">>} : x.dataset # y.dataset} = {}
    BY <1>3
  <2>2. {f \in {<<"safety">>} : x.safety.failed # 0 \/ x.safety.n = 0} = {}
          <=> ~(x.safety.failed # 0 \/ x.safety.n = 0)
    OBVIOUS
  <2>3. {f \in {<<"overall">>} : Dropped(x.overall, y.overall)} = {} <=> ~Dropped(x.overall, y.overall)
    OBVIOUS
  <2>4. {s \in DOMAIN y.slices : s \notin DOMAIN x.slices \/ Dropped(x.slices[s], y.slices[s])} = {}
          <=> \A s \in Strata(Cases) : ~Dropped(x.slices[s], y.slices[s])
    BY <1>3
  <2> QED
    BY <2>1, <2>2, <2>3, <2>4 DEF regression_gate
<1>6. failed = {} <=> \A r \in safety : r.passed
  OBVIOUS
<1> HIDE DEF safety, failed
<1>7. \A s \in Strata(Cases) :
        Dropped(x.slices[s], y.slices[s])
          <=> Dropped(metrics(Of(now, InStratum(Cases, s))), metrics(Of(first, InStratum(Cases, s))))
  BY <1>1, <1>4
<1>8. Dropped(x.overall, y.overall) <=> Dropped(metrics(Of(now, Cases)), metrics(Of(first, Cases)))
  BY <1>1, <1>3
<1> QED
  BY <1>2, <1>3, <1>5, <1>6, <1>7, <1>8 DEF x, y, safety

(* What is compared is a run over the golden set, and the first one.        *)
GoldenInv ==
  /\ golden.now # {} => golden.now \in Evaluations /\ golden.first \in Evaluations
  /\ phase > 1 => golden.first \in Evaluations

LEMMA InitGoldenInv == Init => GoldenInv
BY DEF Init, ReplayInit, ReplayStart, GoldenInv

LEMMA NextGoldenInv == ReplayInv /\ GoldenInv /\ [main]_measurementVars => GoldenInv'
<1> SUFFICES ASSUME ReplayInv, GoldenInv, [main]_measurementVars PROVE GoldenInv'
  OBVIOUS
<1>1. phase \in Nat /\ golden = [now |-> golden.now, first |-> golden.first]
      /\ (phase = 0 => golden.now = {})
  BY DEF ReplayInv, PhaseInv
<1>2. CASE UNCHANGED replayVars
  BY <1>2 DEF replayVars, GoldenInv
<1>3. CASE calibrate
  <2>1. phase = 0 /\ phase' \in {0, 1} /\ golden' = golden
    BY <1>3 DEF calibrate
  <2> QED
    BY <1>1, <2>1 DEF GoldenInv
<1>4. CASE event
  BY <1>4 DEF event, GoldenInv
<1>5. CASE evaluate
  <2>1. /\ phase > 0 /\ phase' = phase
        /\ \E e \in Evaluations : golden' = [now |-> e, first |-> IF phase = 1 THEN e ELSE golden.first]
    BY <1>5 DEF evaluate
  <2>2. phase # 1 => golden.first \in Evaluations
    BY <1>1, <2>1 DEF GoldenInv
  <2>3. golden'.now \in Evaluations /\ golden'.first \in Evaluations
    BY <2>1, <2>2
  <2>4. Evaluations' = Evaluations
    BY DEF Evaluations, Ways, RowOf
  <2> QED
    BY <2>3, <2>4 DEF GoldenInv
<1>6. CASE end_phase
  <2>1. golden.now # {} /\ golden' = [golden EXCEPT !.now = {}]
    BY <1>6 DEF end_phase
  <2>2. golden'.now = {} /\ golden'.first = golden.first
    BY <1>1, <2>1
  <2> QED
    BY <2>1, <2>2 DEF GoldenInv
<1> QED
  BY <1>2, <1>3, <1>4, <1>5, <1>6 DEF main, measurementVars, ReplayNext

(* "Deterministic safety is a hard stop; every named marginal slice is      *)
(* compared": for any golden set that passes its audit, and whatever the    *)
(* models did, the gate passes exactly the runs that lose no safety case    *)
(* and no more than the margin of any slice's own cases.                    *)
THEOREM MeasurementGateSeesEverySlice == Spec => []GateSeesEverySlice
<1>1. ReplayInv /\ GoldenInv => GateSeesEverySlice
  <2> SUFFICES ASSUME ReplayInv, GoldenInv, golden.now # {} PROVE GateSeesEverySlice
    BY DEF GateSeesEverySlice
  <2> DEFINE first == golden.first
             now == golden.now
             safety == {r \in now : r.safety_case}
             Lost(group) == Cardinality({r \in first : r.passed /\ r.id \in group})
                            - Cardinality({r \in now : r.passed /\ r.id \in group})
             Groups == {{c.id : c \in Cases}} \cup {{c.id : c \in InStratum(Cases, s)} : s \in Strata(Cases)}
             Kept(g) == 100 * Lost(g) <= max_drop * Cardinality(g)
  <2>1. dataset_audit(Cases, TRUE) /\ now \in Evaluations /\ first \in Evaluations
    BY DEF ReplayInv, PhaseInv, GoldenInv
  <2>2. PICK row1, row2 : OneOfEach(first, row1) /\ OneOfEach(now, row2)
    BY <2>1, EvaluationIs
  <2>3. Cases # {}
    BY <2>1 DEF dataset_audit
  <2> DEFINE Worse(A) == Dropped(metrics(Of(now, A)), metrics(Of(first, A)))
  <2>4. ASSUME NEW A \in SUBSET Cases, A # {} PROVE Worse(A) <=> ~Kept(Ids(A))
    <3>1. Worse(A) <=> ~(100 * LostOf(first, now, A) <= max_drop * Cardinality(Ids(A)))
      <4> HIDE DEF first, now
      <4> QED
        BY <2>1, <2>2, <2>4, DroppedIs
    <3>2. LostOf(first, now, A) = Lost(Ids(A))
      BY DEF LostOf
    <3> HIDE DEF Worse, Lost
    <3> QED
      BY <3>1, <3>2
  <2>5. Verdict <=> /\ safety # {} /\ \A r \in safety : r.passed
                    /\ ~Worse(Cases)
                    /\ \A s \in Strata(Cases) : ~Worse(InStratum(Cases, s))
    <3> HIDE DEF first, now
    <3>1. Verdict <=> regression_gate(summarize("golden", now), summarize("golden", first)) = {}
      BY DEF Verdict, now, first
    <3> QED
      BY <2>1, <2>2, <3>1, GateIs
  <2>6. \A s \in Strata(Cases) : InStratum(Cases, s) \in SUBSET Cases /\ InStratum(Cases, s) # {}
    <3>1. \A s \in Strata(Cases) : InStratum(Cases, s) # {}
      BY <2>1, <2>2, SlicesAre
    <3> QED
      BY <3>1 DEF InStratum
  <2> HIDE DEF Worse, Kept
  <2>7. (\A g \in Groups : Kept(g))
          <=> ~Worse(Cases) /\ \A s \in Strata(Cases) : ~Worse(InStratum(Cases, s))
    <3>1. Groups = {Ids(Cases)} \cup {Ids(InStratum(Cases, s)) : s \in Strata(Cases)}
      BY DEF Ids
    <3> HIDE DEF Groups
    <3>2. (\A g \in Groups : Kept(g)) <=> Kept(Ids(Cases)) /\ \A s \in Strata(Cases) : Kept(Ids(InStratum(Cases, s)))
      BY <3>1
    <3> QED
      BY <2>3, <2>4, <2>6, <3>2
  <2>8. Verdict <=> /\ safety # {} /\ \A r \in safety : r.passed
                    /\ \A g \in Groups : Kept(g)
    BY <2>5, <2>7
  <2> QED
    BY <2>8 DEF GateSeesEverySlice, Kept
<1> QED
  BY InitReplayInv, NextReplayInv, InitGoldenInv, NextGoldenInv, <1>1, PTL DEF Spec

=============================================================================
