---- MODULE MCPayout ----
(***************************************************************************)
(* Small instances of Payout: one voucher, two runs to put it in and two   *)
(* desks at once; the same voucher with one run and one desk.              *)
(***************************************************************************)
EXTENDS Payout, TLC

CONSTANTS v1, v2, p1, p2, d1, d2

Alike == Permutations(Vouchers) \cup Permutations(Runs) \cup Permutations(Desks)
====
