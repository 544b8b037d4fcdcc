SPECIFICATION LlmSpec
CONSTANTS
  op1 = op1
  op2 = op2
  content = content
  event = event
  purchase = purchase
  payer = payer
  Procs <- MCProcs
  Refs <- MCRefs
  GrantAmounts <- MCGrantAmounts
  ChargeAmounts <- MCChargeAmounts
  Ops = {op1, content, event}
  Others = {payer}
  Kind <- MCKind
  Chunks <- MCChunks
  Estimate <- MCEstimate
  Costs <- MCCosts
  CreditLimit = 1000
  MaxEntries = 1
\* Every execution ends.
CHECK_DEADLOCK FALSE
INVARIANTS
  AnswersAreCharged
  ChargeIsConsumption
PROPERTY AccountSpec
