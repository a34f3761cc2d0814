SPECIFICATION FairSpec
CONSTANTS
    Request = {r1, r2}
    Workers = {r1}
    Wanted = {"none", "STANDARD"}
    NModels = 2
    TierOf <- MCTierOf
    Narrow = {1}
    Estimate <- MCEstimate
    Price <- MCPrice
    MaxPrice = 1
    Budgets <- MCBudgets
    Threshold = 2
    Cooldown = 1
    MaxRetries = 1
    MaxFallbacks = 1
    MaxFaults = 4
    MaxSpend = 1
INVARIANTS TypeOK OvershootBounded
PROPERTIES BreakersSound RouterRecovers
