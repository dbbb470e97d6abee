SPECIFICATION Spec
CONSTANTS
  cA = cA
  cB = cB
  oA = oA
  oB = oB
  p1 = p1
  p2 = p2
  s1 = s1
  s2 = s2
  confirm = confirm
  price = price
  cost = cost
  attack = attack
  Customers = {cA, cB}
  Orders = {oA, oB}
  Products = {p1, p2}
  Slots = {}
  Reasons = {"r"}
  NoId = NoId
  Owner <- MCOwner
  Sku <- MCSku
  Price <- MCPrice
  Eligible = {oA, oB}
  FutureSlots = {}
  InitStock <- TwoLeft
  Capacity <- NoCapacity
  Sessions = {s1}
  CustomerOf <- OneCustomer
  CanAct = {s1}
  Texts = {confirm, price, cost}
  Confirm = confirm
  Injections = {}
  AsksForProducts = {price}
  Similar <- AskedAgain
  Requests <- Questions
  FlaggedReview = {}
  FlaggedResult = {}
  CacheEnabled = TRUE
  SemanticEnabled = TRUE
  RowLimit = 2
  MaxRounds = 1
  MaxToolCalls = 1
  Edits = {}
  OtherActions <- OneCompetes
  NoProposal = NoProposal
  NoText = NoText
  NoArgs = NoArgs
  NoStock = NoStock
  NoKey = NoKey
  MaxTurns <- TwoMessages
INVARIANTS SemanticIsCurrent
CHECK_DEADLOCK FALSE
