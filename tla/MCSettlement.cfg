SPECIFICATION FairSpec
CONSTANTS
    s1 = s1
    m1 = m1
    b1 = b1
    b2 = b2
    c1 = c1
    Card = Card
    Sessions <- MCSession
    Marks <- MCMarks
    Backends <- MCBackends
    Clerks <- MCClerk
    Apart = TRUE
INVARIANTS SettledTogether ChargedOnce VoidNeverCharged IInv
PROPERTIES AnswerMeansBooked KeepsBooks GatewayIsAnswered
\* a void bill nobody asks about again is the end of its story
CHECK_DEADLOCK FALSE
