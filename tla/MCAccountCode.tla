---- MODULE MCAccountCode ----
(* Small instances of AccountCode: two accounts, two inboxes, two codes, two requests at once. *)
EXTENDS AccountCode, TLC

CONSTANTS u1, u2, c1, c2, q1, q2, x1, x2

Alike == Permutations(Users) \cup Permutations(Codes) \cup Permutations(Reqs)
         \cup Permutations(Lines)
====
