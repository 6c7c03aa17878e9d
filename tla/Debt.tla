---- MODULE Debt ----
(***************************************************************************)
(* What the billing of one subscription period promises: the bill is owed, *)
(* paid or withdrawn, and every payment that reaches the books has a place *)
(* there. At most one settles the bill; any other is owed back until it is *)
(* returned. Every change is one atomic step.                              *)
(***************************************************************************)
CONSTANT Payments

VARIABLES
    bill,       \* "unpaid", "paid" or "void"
    place       \* [Payments -> Places]

Places == {"none", "settled", "withdrawn", "owed", "returned"}

Init ==
    /\ bill = "unpaid"
    /\ place = [p \in Payments |-> "none"]

\* Money pays the bill.
Settle(p) ==
    /\ bill = "unpaid" /\ place[p] \in {"none", "withdrawn"}
    /\ bill' = "paid"
    /\ place' = [place EXCEPT ![p] = "settled"]

\* The assertion that it was paid is taken back; the payment stays on record.
Withdraw ==
    /\ bill' = "unpaid" /\ bill # "void"
    /\ place' = [p \in Payments |-> IF place[p] = "settled" THEN "withdrawn" ELSE place[p]]

\* The bill is taken back.
Void ==
    /\ bill = "unpaid"
    /\ bill' = "void"
    /\ UNCHANGED place

\* Money that cannot pay the bill: somebody else's did, or nothing is owed.
Owe(p) ==
    /\ bill # "unpaid" /\ place[p] \in {"none", "withdrawn"}
    /\ place' = [place EXCEPT ![p] = "owed"]
    /\ UNCHANGED bill

Return(p) ==
    /\ place[p] = "owed"
    /\ place' = [place EXCEPT ![p] = "returned"]
    /\ UNCHANGED bill

\* A decline arrives for a payment whose settlement was taken back.
Forget(p) ==
    /\ place[p] = "withdrawn"
    /\ place' = [place EXCEPT ![p] = "none"]
    /\ UNCHANGED bill

Next ==
    \/ Withdraw \/ Void
    \/ \E p \in Payments : Settle(p) \/ Owe(p) \/ Return(p) \/ Forget(p)

Spec == Init /\ [][Next]_<<bill, place>>
====
