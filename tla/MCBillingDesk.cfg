SPECIFICATION Spec
CONSTANTS
    a1 = a1
    a2 = a2
    g1 = g1
    g2 = g2
    Nobody = Nobody
    Admins <- MCAdmins
    Runs <- MCRuns
    Prices <- MCPrices
    MaxRows = 2
    MaxDay = 0
    MaxOpened = 1
    PeriodDays = 1
    Calm = FALSE
SYMMETRY Both
INVARIANTS TypeOK NeverPlanless OneLivePlan CreditsBalance
\* the last day may be reached with everything billed and paid
CHECK_DEADLOCK FALSE
