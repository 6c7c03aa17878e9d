SPECIFICATION Spec
CONSTANTS
    r1 = r1
    r2 = r2
    tips = tips
    drinks = drinks
    low = low
    high = high
    None = None
    Reqs <- MCReqs
    Claims <- MCClaims
    Figures <- MCFigures
SYMMETRY Symmetry
INVARIANTS IInv
PROPERTIES EachPaymentBacked AgreedIsLocked
\* a deleted voucher is the end of its story
CHECK_DEADLOCK FALSE
