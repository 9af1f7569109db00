------------------------------- MODULE Worker -------------------------------
(***************************************************************************)
(* model.Worker and model.Result: the status machine with run counters     *)
(* that Script, CGroup, Task and ProbeHandler embed.  Pure operations on a *)
(* record; each runs under the worker's own mutex, so each is one step of  *)
(* the modules that use it.                                                *)
(*                                                                         *)
(* Of a Result only RunCounter and Success are kept: StartedAt, Runtime    *)
(* and RuntimeMs are clock readings no decision but Completed() looks at,  *)
(* and Completed() says of a published result that its counter is not 0.   *)
(***************************************************************************)
EXTENDS Naturals

Results == [counter : Nat, success : BOOLEAN]
NoResult == [counter |-> 0, success |-> FALSE]

PrepareToStart(r) == [counter |-> r.counter + 1, success |-> FALSE]
End(r, succ) == [r EXCEPT !.success = succ]

Statuses == {"new", "running", "finished"}
Workers == [status : Statuses, cur : Results, prev : Results]
NewWorker == [status |-> "new", cur |-> NoResult, prev |-> NoResult]

(* EStatusRun and EStatusFinish return an error, and change nothing, when  *)
(* the status forbids the switch: CanRun and IsRunning are those tests.    *)
CanRun(w) == w.status # "running"
IsRunning(w) == w.status = "running"

(* Mutants: the result that is about to be overwritten is published; the   *)
(* published result is forgotten.                                          *)
EStatusRunPublishes(w) ==
    IF CanRun(w)
    THEN [w EXCEPT !.status = "running", !.cur = PrepareToStart(w.cur),
                   !.prev = PrepareToStart(w.cur)]
    ELSE w

EStatusRunForgets(w) ==
    IF CanRun(w)
    THEN [status |-> "running", cur |-> PrepareToStart(w.cur), prev |-> NoResult]
    ELSE w

EStatusRun(w) ==
    IF CanRun(w)
    THEN [w EXCEPT !.status = "running", !.cur = PrepareToStart(w.cur)]
    ELSE w

EStatusFinish(w, succ) ==
    IF IsRunning(w)
    THEN [status |-> "finished", cur |-> End(w.cur, succ), prev |-> End(w.cur, succ)]
    ELSE w

=============================================================================
