---- MODULE MCSeating ----
(***************************************************************************)
(* Small instances of Seating. Three times: t1 and t2 overlap, t3 is later *)
(* the same day and meets neither. PR 1 is Tier I, PR 2 is not named. The  *)
(* first shift is at a venue of its own, so edits of it and of another run *)
(* side by side.                                                           *)
(***************************************************************************)
EXTENDS SeatingInv, TLC

CONSTANTS s1, s2, s3, r1, r2, r3, r4, q1, q2, q3, w1, w2, ag, v1, v2

Slot(from, to) == [timed |-> TRUE, from |-> from, to |-> to]
early == Slot(10, 14)
midday == Slot(12, 16)
late == Slot(16, 20)
At(day, slot) == [day |-> day, slot |-> slot]
t1 == At(1, early)
t2 == At(1, midday)
t3 == At(1, late)

MCSlots == {early, midday, late}
MCGrade == [m \in Agencies \X Persons |-> IF m[2] = 1 THEN "tier" ELSE NoBucket]
MCVenueOf == [s \in Shifts |-> IF s = s1 THEN v1 ELSE v2]

NoMix == [b \in Buckets |-> 0]
OneTier == [b \in Buckets |-> 1]

Keep == [day |-> None, slot |-> None, quantity |-> None, mix |-> None,
         status |-> None]
Retime(t) == [Keep EXCEPT !.day = t.day, !.slot = t.slot]
Remix(n, m) == [Keep EXCEPT !.quantity = n, !.mix = m]

\* Two shifts at overlapping times, one seat each; edits drag one onto t3 or
\* back, and close or widen a headcount.
MCBodies == {Retime(t3), Remix(1, OneTier)}
MCStartTime == [s \in Shifts |-> IF s = s1 THEN t1 ELSE t2]
MCStartQuantity == [s \in Shifts |-> 1]
MCStartMix == [s \in Shifts |-> NoMix]

\* Two seats on each of two shifts hours apart: two edits can hold two PRs each.
MCOrderTime == [s \in Shifts |-> IF s = s1 THEN t1 ELSE At(2, early)]
MCOrderBodies == {Retime(At(1, late))}
MCTwoSeats == [s \in Shifts |-> 2]

\* Three shifts of one day: s2 and s3 overlap, s1 meets neither.
MCSwapTime == [s \in Shifts |-> IF s = s1 THEN t3 ELSE IF s = s2 THEN t1 ELSE t2]
MCSwapBodies == {[Retime(t3) EXCEPT !.status = "shut"]}

Symmetry == Permutations(RowIds) \cup Permutations(SwapIds) \cup Permutations(Reqs)
====
