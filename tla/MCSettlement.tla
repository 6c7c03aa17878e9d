---- MODULE MCSettlement ----
(* One bill for TLC. *)
EXTENDS Settlement

CONSTANTS s1, m1, b1, b2, c1

MCSession == {s1}
MCMarks == {m1}
MCBackends == {b1, b2}
MCClerk == {c1}
====
