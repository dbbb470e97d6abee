SPECIFICATION Spec
CONSTANTS
  t1 = t1
  t2 = t2
  t3 = t3
  rA = rA
  rB = rB
  rX = rX
  Unset = Unset
  Threads = {t1, t2, t3}
  Routes = {rA, rX}
  Requests = {"a", "x"}
  Chain <- GoodOrBad
  Capable <- AllCapable
  TooLong <- NoneTooLong
  Misdirected = {rX}
  FullRate = {}
  Reserve <- ReserveTwo
  Charges = {1}
  MaxCalls = Unset
  Cap = Unset
  max_attempts = 1
  MaxRequests = 1
INVARIANTS WireCallsUnique
CHECK_DEADLOCK FALSE
