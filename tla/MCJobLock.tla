---- MODULE MCJobLock ----
(***************************************************************************)
(* Small instances of JobLock: two backends and one script. The deadline   *)
(* is longer than an interval, as 30 minutes are for a 15-minute job, and  *)
(* the hold shorter, as 45 seconds are.                                    *)
(***************************************************************************)
EXTENDS JobLock

CONSTANTS p1, p2, m1
====
