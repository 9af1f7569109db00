------------------------------- MODULE JobRun -------------------------------
(***************************************************************************)
(* What a script promises to whoever schedules it and reads its results,   *)
(* with no worker, goroutine, probe or cleanup in sight: runs are numbered *)
(* one after another; in a run every task reports exactly one outcome, a   *)
(* task only after every task of the earlier groups has reported; and the  *)
(* verdict published for run n is the conjunction of the outcomes of run n.*)
(* Script.tla implements this module.                                      *)
(***************************************************************************)
EXTENDS Naturals

CONSTANTS Tasks,     \* the tasks of the script
          GroupOf    \* the position of each task's concurrent group

VARIABLES run,       \* how many runs have begun
          running,   \* is a run under way
          outcome,   \* what each task has reported in the current run
          verdict    \* the published verdict: [counter, success]

vars == <<run, running, outcome, verdict>>

Outcomes == {"none", "ok", "failed"}

Init == /\ run = 0
        /\ running = FALSE
        /\ outcome = [t \in Tasks |-> "none"]
        /\ verdict = [counter |-> 0, success |-> FALSE]

Begin == /\ ~running
         /\ running' = TRUE
         /\ run' = run + 1
         /\ outcome' = [t \in Tasks |-> "none"]
         /\ UNCHANGED verdict

Report(t, o) ==
    /\ running
    /\ outcome[t] = "none"
    /\ \A u \in Tasks : GroupOf[u] < GroupOf[t] => outcome[u] # "none"
    /\ outcome' = [outcome EXCEPT ![t] = o]
    /\ UNCHANGED <<run, running, verdict>>

Publish == /\ running
           /\ \A t \in Tasks : outcome[t] # "none"
           /\ running' = FALSE
           /\ verdict' = [counter |-> run, success |-> \A t \in Tasks : outcome[t] = "ok"]
           /\ UNCHANGED <<run, outcome>>

Progress == Publish \/ \E t \in Tasks, o \in {"ok", "failed"} : Report(t, o)

Next == Begin \/ Progress

Safety == Init /\ [][Next]_vars
Spec == Safety /\ WF_vars(Progress)

=============================================================================
