SPECIFICATION Spec
CONSTANTS
  cA = cA
  cB = cB
  oA = oA
  oB = oB
  p1 = p1
  p2 = p2
  s1 = s1
  s2 = s2
  confirm = confirm
  price = price
  cost = cost
  attack = attack
  Customers = {cA, cB}
  Orders = {oA}
  Products = {p1, p2}
  Slots = {}
  Reasons = {"r"}
  NoId = NoId
  Owner <- MCOwner
  Sku <- MCSku
  Price <- MCPrice
  Eligible = {oA}
  FutureSlots = {}
  InitStock <- TwoLeft
  Capacity <- NoCapacity
  Sessions = {s1, s2}
  CustomerOf <- TwoCustomers
  CanAct = {s1, s2}
  Texts = {price, cost}
  Confirm = confirm
  Injections = {}
  AsksForProducts = {}
  Similar <- AskedAgain
  Requests <- Questions
  FlaggedReview = {}
  FlaggedResult = {}
  CacheEnabled = TRUE
  SemanticEnabled = TRUE
  RowLimit = 2
  MaxRounds = 2
  MaxToolCalls = 1
  Edits = {}
  OtherActions <- NobodyCompetes
  NoProposal = NoProposal
  NoText = NoText
  NoArgs = NoArgs
  NoStock = NoStock
  NoKey = NoKey
  MaxTurns <- TwoAndOne
INVARIANTS OrdersStayPrivate CachesHoldAnswers
CHECK_DEADLOCK FALSE
