SPECIFICATION FairSpec
CONSTANTS
    p1 = p1  p2 = p2  m1 = m1
    None = None
    Processes = {p1, p2}
    Scripts = {m1}
    Interval = 5
    Skew = 1
    MinHold = 2
    MaxRun = 7
    MaxFaults = 1
INVARIANTS RunsAlone IInv
PROPERTIES OncePerTick TickNotSwallowed JobKeepsRunning
