SPECIFICATION Spec
CONSTANTS
  cA = cA
  cB = cB
  oA = oA
  oB = oB
  p1 = p1
  p2 = p2
  s1 = s1
  s2 = s2
  confirm = confirm
  price = price
  cost = cost
  attack = attack
  Customers = {cA, cB}
  Orders = {oA, oB}
  Products = {p1, p2}
  Slots = {}
  Reasons = {"r", "bad", "worse"}
  NoId = NoId
  Owner <- MCOwner
  Sku <- MCSku
  Price <- MCPrice
  Eligible = {oA, oB}
  FutureSlots = {}
  InitStock <- TwoLeft
  Capacity <- NoCapacity
  Sessions = {s1}
  CustomerOf <- OneCustomer
  CanAct = {s1}
  Texts = {confirm, price, attack}
  Confirm = confirm
  Injections = {attack}
  AsksForProducts = {price}
  Similar = {}
  Requests <- EveryRequest
  FlaggedReview <- RefusedReviews
  FlaggedResult <- RefusedResults
  CacheEnabled = TRUE
  SemanticEnabled = FALSE
  RowLimit = 2
  MaxRounds = 2
  MaxToolCalls = 1
  Edits <- OneEdit
  OtherActions <- BothCompete
  NoProposal = NoProposal
  NoText = NoText
  NoArgs = NoArgs
  NoStock = NoStock
  NoKey = NoKey
  MaxTurns <- ThreeMessages
INVARIANTS ConfirmableIsShown ReceiptForEveryWrite CacheIsCurrent
PROPERTIES WritesWhatWasConfirmed
CHECK_DEADLOCK FALSE
