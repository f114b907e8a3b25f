\* Three requests at once for intents and confirmations, two for commands.
SPECIFICATION AllSpec
CONSTANTS
  r1 = r1
  r2 = r2
  r3 = r3
  k1 = k1
  k2 = k2
  Requests <- MCRequests
  Keys <- MCKeys
  MaxSnapshot = 1
  MaxNow = 1
  MaxQuantity = 3
  Controlled = {"paper", "sandbox"}
  Askers = {"a", "b"}
  Exposure = 2
  Stop = 1
  MaxStop = 2
  Confirmers <- MCRequests
  Previews = {"p", "q"}
  Callers <- MCKeys
  Orders = {"create"}
  Cancels = {"cancel"}
  MaxNonce = 3
SYMMETRY MCSymmetry
INVARIANTS
  CommandsTypeOK
  OverrideBacksOneIntent
  AnswersStand
  CountIsSuppressedRetries
  OneCommandByIdea
  OneConfirmation
  OneTransactionPerAction
  NoBlindResend
CHECK_DEADLOCK FALSE
