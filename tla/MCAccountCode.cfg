SPECIFICATION Spec
CONSTANTS
    u1 = u1  u2 = u2  c1 = c1  c2 = c2  q1 = q1  q2 = q2  x1 = x1  x2 = x2
    Users = {u1, u2}
    Codes = {c1, c2}
    Reqs = {q1, q2}
    Kind = "email"
    Lines = {x1, x2}
    Spellings = {"stored"}
    Stored = "stored"
    Purposes = {"contact", "reset"}
    MaxAttempts = 2
    None = None
INVARIANTS NoSharedContact GuessesCapped IInv
 
SYMMETRY Alike
\* codes run out, and so do accounts to open
CHECK_DEADLOCK FALSE
