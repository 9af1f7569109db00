----------------------------- MODULE MCScheduler -----------------------------
(***************************************************************************)
(* Scheduler for TLC: three jobs, the first and the last of one name.      *)
(***************************************************************************)
EXTENDS Scheduler

CONSTANTS a, b

TwoNames == [j \in Jobs |-> IF j = 2 THEN b ELSE a]

=============================================================================
