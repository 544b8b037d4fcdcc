SPECIFICATION SubSpec
CONSTANTS
  Sub = sub
  Procs <- MCProcs
  Refs <- MCRefs
  GrantAmounts <- MCGrantAmounts
  ChargeAmounts <- MCChargeAmounts
  MonthlyCredits = 300
  Deliveries = {d1}
  MaxPeriod = 1
  Answers = {"active"}
  Cancels = {c1}
  MaxDuplicates = 0
\* The subscription may end, and then nothing has to happen.
CHECK_DEADLOCK FALSE
INVARIANT RenewalsAreGranted
