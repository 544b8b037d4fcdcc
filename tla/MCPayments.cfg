SPECIFICATION PayFairSpec
CONSTANTS
  Procs <- MCProcs
  Refs <- MCRefs
  GrantAmounts <- MCGrantAmounts
  ChargeAmounts <- MCChargeAmounts
  Price = 2
  Credits = 400
  RefundAmounts <- MCRefundAmounts
  Intents = {i1}
  Deliveries = {d1, d2}
  Refunders = {f1, f2}
  MaxDuplicates = 1
INVARIANTS
  LedgerChain
  GrantsWithinOverlap
  AckedImpliesGranted
  GrantsArePaid
  RefundsAreBacked
PROPERTIES
  PaidIsGranted
\* Nothing has to happen once the customers are done.
CHECK_DEADLOCK FALSE
