SPECIFICATION Spec
CONSTANTS
  cA = cA
  cB = cB
  oA = oA
  oB = oB
  oOld = oOld
  p1 = p1
  p2 = p2
  t1 = t1
  s1 = s1
  s2 = s2
  s3 = s3
  k1 = k1
  k2 = k2
  Customers = {cA, cB}
  Orders = {oA, oB}
  Products = {p1}
  Slots = {t1}
  Reasons = {"r"}
  NoId = NoId
  Owner <- MCOwner
  Sku <- MCSku
  Price <- MCPrice
  Eligible = {oA, oB}
  FutureSlots = {t1}
  InitStock <- OneLeft
  Capacity <- CapacityTwo
  Sessions = {s1, s2}
  Connections = {k1, k2}
  ConnOf <- SeparateStores
  CustomerOf <- TwoCustomers
  CanAct = {s1, s2}
  NoSession = NoSession
  NoConn = NoConn
  NoProposal = NoProposal
  NoArgs = NoArgs
  MaxTurns = 3
INVARIANTS TypeOK StoreConsistent ExecutesWhatWasShown ConstraintsNeverFire
PROPERTIES UnrelatedCommitKeepsProposal LedgerSpec
CHECK_DEADLOCK FALSE
