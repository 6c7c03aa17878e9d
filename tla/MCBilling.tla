---- MODULE MCBilling ----
(***************************************************************************)
(* One organisation's plan lane for TLC: two admins and two billing runs   *)
(* on one day, and one admin and one run over two periods.                 *)
(***************************************************************************)
EXTENDS BillingInv, TLC

CONSTANTS a1, a2, g1, g2

MCAdmin == {a1}
MCAdmins == {a1, a2}
MCRun == {g1}
MCRuns == {g1, g2}
MCPrices == {2, 6}
Both == Permutations({a1, a2}) \cup Permutations({g1, g2})
====
