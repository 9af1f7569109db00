------------------------------ MODULE Reports ------------------------------
(***************************************************************************)
(* A client of the scheduler's GET /job while the script runs.  httpJob    *)
(* calls Script.ResultFinished, which copies the published result of the   *)
(* script, then for each task in order that of the task and that of its    *)
(* probe.  Each copy is made under the mutex of its own worker and no lock *)
(* is held from one to the next, so the script may take any number of      *)
(* steps in between.  One client is enough: clients share nothing.         *)
(*                                                                         *)
(* Of a response only the results are kept.  The status fields say whether *)
(* a result is Completed(), which here is a counter other than 0.          *)
(***************************************************************************)
EXTENDS Script

VARIABLES
    at,        \* the client's next lock: "none", "script", "task", "probe"
    next,      \* the task the loop of ResultFinished has reached
    answer,    \* the response being put together
    served     \* the last response that was sent

reader == <<at, next, answer, served>>

Blank == [script |-> NoResult,
          task |-> [t \in Task |-> NoResult],
          probe |-> [t \in Task |-> NoResult]]

ReportInit == /\ Init
              /\ at = "none"
              /\ next = 1
              /\ answer = Blank
              /\ served = Blank

Request ==
    /\ at = "none"
    /\ at' = "script"
    /\ UNCHANGED <<vars, next, answer, served>>

ReadScript ==
    /\ at = "script"
    /\ answer' = [answer EXCEPT !.script = script.prev]
    /\ at' = "task"
    /\ UNCHANGED <<vars, next, served>>

(* Mutant: the result of the run under way is taken.                       *)
ReadTaskCurrent ==
    /\ at = "task"
    /\ next \in Task
    /\ answer' = [answer EXCEPT !.task[next] = task[next].cur]
    /\ at' = "probe"
    /\ UNCHANGED <<vars, next, served>>

ReadTask ==
    /\ at = "task"
    /\ next \in Task
    /\ answer' = [answer EXCEPT !.task[next] = task[next].prev]
    /\ at' = "probe"
    /\ UNCHANGED <<vars, next, served>>

ReadProbe ==
    /\ at = "probe"
    /\ answer' = [answer EXCEPT !.probe[next] = probe[next].last]
    /\ next' = next + 1
    /\ at' = "task"
    /\ UNCHANGED <<vars, served>>

Respond ==
    /\ at = "task"
    /\ next = NumTasks + 1
    /\ served' = answer
    /\ answer' = Blank
    /\ next' = 1
    /\ at' = "none"
    /\ UNCHANGED vars

Read == Request \/ ReadScript \/ ReadTask \/ ReadProbe \/ Respond

ReportNext == Read \/ (Next /\ UNCHANGED reader)

ReportSpec == ReportInit /\ [][ReportNext]_<<vars, reader>>

-----------------------------------------------------------------------------
(* A response may mix runs, but only one way: reading the script first, a  *)
(* task before its probe, no part is older than the part it stands under.  *)
NoStalePart ==
    \A t \in Task : /\ served.script.counter <= served.task[t].counter
                    /\ served.task[t].counter <= served.probe[t].counter

(* A response whose parts are all of one run is that run's result: the     *)
(* script's verdict is the conjunction of its tasks' and each task's is    *)
(* its probe's, whatever happened between the reads.                       *)
OneRun(r) == \A t \in Task : {r.task[t].counter, r.probe[t].counter} = {r.script.counter}

WholeIfOneRun ==
    OneRun(served) =>
        /\ \A t \in Task : served.task[t] = served.probe[t]
        /\ served.script.success =
             (served.script.counter > 0 /\ \A t \in Task : served.task[t].success)

(* Successive responses never go back to an earlier run in any part.       *)
NeverBack ==
    [][/\ served.script.counter <= served'.script.counter
       /\ \A t \in Task : /\ served.task[t].counter <= served'.task[t].counter
                          /\ served.probe[t].counter <= served'.probe[t].counter
      ]_<<vars, reader>>

=============================================================================
