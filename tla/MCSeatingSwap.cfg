SPECIFICATION Spec
CONSTANTS
    s1 = s1  s2 = s2  s3 = s3
    r1 = r1  r2 = r2  r3 = r3  r4 = r4
    q1 = q1  q2 = q2  q3 = q3
    w1 = w1  w2 = w2
    ag = ag  v1 = v1  v2 = v2
    Shifts = {s1, s2, s3}
    Persons = {1}
    Agencies = {ag}
    RowIds = {r1, r2}
    SwapIds = {w1}
    Buckets = {"tier"}
    NoBucket = "other"
    None = None
    Reqs = {q1, q2}
    Venues = {v1, v2}
    Lanes = {"create", "swap", "edit", "leave", "finish", "delete"}
    WholeRetimes = TRUE
    Grade <- MCGrade
    Slots <- MCSlots
    Days = {1}
    DayLength = 24
    VenueOf <- MCVenueOf
    Bodies <- MCSwapBodies
    StartTime <- MCSwapTime
    StartQuantity <- MCStartQuantity
    StartMix <- MCStartMix
INVARIANTS IInv
PROPERTIES DecidesAtomically
SYMMETRY Symmetry
CHECK_DEADLOCK FALSE
