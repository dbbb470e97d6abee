SPECIFICATION FairSpec
CONSTANTS
  t1 = t1
  t2 = t2
  t3 = t3
  rA = rA
  rB = rB
  rX = rX
  Unset = Unset
  Threads = {t1, t2}
  Routes = {rA, rB, rX}
  Requests = {"a", "b", "x"}
  Chain <- Fallback
  Capable <- OnlySecond
  TooLong <- SecondTooLong
  Misdirected = {rX}
  FullRate = {rB}
  Reserve <- ReserveTwo
  Charges = {1, 2, 3}
  MaxCalls = 4
  Cap = 5
  max_attempts = 2
  MaxRequests = 1
INVARIANTS CapHolds HeldReconciles FallbackInOrder ResponseEndsCall CallsCounted
PROPERTIES StopIsFinal CallsEnd
CHECK_DEADLOCK FALSE
