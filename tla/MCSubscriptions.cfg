SPECIFICATION SubSpec
CONSTANTS
  Sub = sub
  Procs <- MCProcs
  Refs <- MCRefs
  GrantAmounts <- MCGrantAmounts
  ChargeAmounts <- MCChargeAmounts
  MonthlyCredits = 300
  Deliveries = {d1, d2}
  MaxPeriod = 2
  Answers = {"active", "trialing", "incomplete"}
  Cancels = {c1, c2}
  MaxDuplicates = 0
SYMMETRY MCSymmetry
CONSTRAINT MCBound
INVARIANTS
  GrantsWithinRenewals
  RowFollowsStripe
  GrantsFollowRenewal
\* The subscription may end, and then nothing has to happen.
CHECK_DEADLOCK FALSE
