SPECIFICATION FairSpec
CONSTANTS
    a1 = a1
    a2 = a2
    g1 = g1
    g2 = g2
    Nobody = Nobody
    Admins <- MCAdmin
    Runs <- MCRun
    Prices <- MCPrices
    MaxRows = 3
    MaxDay = 2
    MaxOpened = 0
    PeriodDays = 2
    Calm = TRUE
INVARIANTS   CreditBacked
PROPERTIES FigureStands 
\* the last day may be reached with everything billed and paid
CHECK_DEADLOCK FALSE
