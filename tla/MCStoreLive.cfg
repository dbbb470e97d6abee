SPECIFICATION FairSpec
CONSTANTS
  cA = cA
  cB = cB
  oA = oA
  oB = oB
  oOld = oOld
  p1 = p1
  p2 = p2
  t1 = t1
  s1 = s1
  s2 = s2
  s3 = s3
  k1 = k1
  k2 = k2
  Customers = {cA, cB}
  Orders = {oA}
  Products = {p1}
  Slots = {}
  Reasons = {"r"}
  NoId = NoId
  Owner <- MCOwner
  Sku <- MCSku
  Price <- MCPrice
  Eligible = {oA}
  FutureSlots = {}
  InitStock <- TwoLeft
  Capacity <- NoCapacity
  Sessions = {s1, s2, s3}
  Connections = {k1, k2}
  ConnOf <- SharedAndSeparate
  CustomerOf <- OneCustomerOneVisitor
  CanAct = {s1, s2, s3}
  NoSession = NoSession
  NoConn = NoConn
  NoProposal = NoProposal
  NoArgs = NoArgs
  MaxTurns = 2
INVARIANTS AuthorityRequired ReceiptIsDurable TransactionsExclude
PROPERTIES CallsReturn
CHECK_DEADLOCK FALSE
