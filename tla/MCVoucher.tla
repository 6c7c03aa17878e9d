---- MODULE MCVoucher ----
(* One voucher for TLC. *)
EXTENDS Voucher, TLC

CONSTANTS r1, r2, drinks, tips, low, high

MCReqs == {r1, r2}
MCClaims == {drinks, tips}
MCFigures == {low, high}
Symmetry == Permutations(MCReqs) \cup Permutations(MCFigures)
====
