------------------------------- MODULE Script -------------------------------
(***************************************************************************)
(* model.Script: one script, run again and again by the scheduler.  A run  *)
(* starts the concurrent groups one after another, each task of a group in *)
(* a goroutine of its own; publishes a verdict; then finishes the probes   *)
(* whose process stayed alive in background.                               *)
(*                                                                         *)
(* The processes are Script.Run (control point pc), a goroutine per task   *)
(* of the current group (gpc) and, for each background process that was    *)
(* started, a watcher goroutine that reads its output until the process    *)
(* ends and then finishes the probe, whichever run is then under way.      *)
(* A probe is what its task sees of it: the embedded Worker's status, the  *)
(* current and the published result, the sticky error and the handle of    *)
(* its process (c.cmd # nil).  Finishing a probe takes two steps, dropping *)
(* the handle and ending the worker; what is within the first, and the     *)
(* processes themselves, are BackgroundProbe's subject.                    *)
(***************************************************************************)
EXTENDS Worker, Runners, Sequences

CONSTANTS
    NumTasks,    \* tasks in script order
    NumGroups,   \* concurrent groups in script order
    GroupOf,     \* GroupOf[t]: the group AddTask put task t in
    Kind,        \* Kind[t]: how the probe of task t ends, see Kinds
    MaxRuns      \* bound: the scheduler starts at most this many runs

Task == 1..NumTasks
Group == 1..NumGroups
Members(g) == {t \in Task : GroupOf[t] = g}

(* "plain": web, ping and traceroute, which have no finisher; "cmd", "vpn":*)
(* a cmd or an openvpn probe; "cmdStay", "vpnStay": the same with the      *)
(* option StayBackground.                                                  *)
Kinds == {"plain", "cmd", "cmdStay", "vpn", "vpnStay"}
Stays(t) == Kind[t] \in {"cmdStay", "vpnStay"}

ASSUME ScriptAssumption ==
    /\ NumTasks \in Nat
    /\ NumGroups \in Nat
    /\ GroupOf \in [Task -> Group]
    /\ Kind \in [Task -> Kinds]
    /\ MaxRuns \in Nat

VARIABLES
    pc,        \* Script.Run: "idle", "groups", "waiting" or "cleanup"
    grp,       \* the group the loop of Run has reached
    script,    \* the Worker of the script
    cgroup,    \* the Worker of each group
    task,      \* the Worker of each task
    probe,     \* each task's ProbeHandler
    handle,    \* c.cmd # nil, for each task's probe
    watchers,  \* watcher goroutines of each probe that have not fired
    ending,    \* those that have dropped the handle but not ended the worker
    queue,     \* probesStayedAlive, as task numbers
    cleaned,   \* the task whose handle the cleanup has just dropped, or 0
    gpc,       \* control point of each task's goroutine
    ret        \* what Probe.Start returned to that goroutine

vars == <<pc, grp, script, cgroup, task, probe, handle, watchers, ending,
          queue, cleaned, gpc, ret>>

Probes == [status : Statuses, cur : Results, last : Results, error : BOOLEAN]
NewProbe == [status |-> "new", cur |-> NoResult, last |-> NoResult, error |-> FALSE]

Init == /\ pc = "idle"
        /\ grp = NumGroups + 1
        /\ script = NewWorker
        /\ cgroup = [g \in Group |-> NewWorker]
        /\ task = [t \in Task |-> NewWorker]
        /\ probe = [t \in Task |-> NewProbe]
        /\ handle = [t \in Task |-> FALSE]
        /\ watchers = [t \in Task |-> 0]
        /\ ending = [t \in Task |-> 0]
        /\ queue = <<>>
        /\ cleaned = 0
        /\ gpc = [t \in Task |-> "none"]
        /\ ret = [t \in Task |-> FALSE]

-----------------------------------------------------------------------------
(* Script.Run *)

(* Mutants: the verdict of the last group only; one success is enough.     *)
AllSucceededLastGroup == \A t \in Members(NumGroups) : task[t].cur.success
AllSucceededAny == \E t \in Task : task[t].cur.success

AllSucceeded == \A t \in Task : task[t].cur.success

(* Mutant: the loop begins a place early.                                  *)
StartRunEarly ==
    /\ pc = "idle"
    /\ script.cur.counter < MaxRuns
    /\ CanRun(script)
    /\ script' = EStatusRun(script)
    /\ grp' = 0
    /\ pc' = "groups"
    /\ UNCHANGED <<cgroup, task, probe, handle, watchers, ending, queue, cleaned, gpc, ret>>

(* A call that finds the script running returns at once and changes        *)
(* nothing.                                                                *)
StartRun ==
    /\ pc = "idle"
    /\ script.cur.counter < MaxRuns
    /\ CanRun(script)
    /\ script' = EStatusRun(script)
    /\ grp' = 1
    /\ pc' = "groups"
    /\ UNCHANGED <<cgroup, task, probe, handle, watchers, ending, queue, cleaned, gpc, ret>>

(* runCgroup up to wg.Wait; a group that is already running is skipped.    *)
StartGroup ==
    /\ pc = "groups"
    /\ grp \in Group
    /\ cgroup' = [cgroup EXCEPT ![grp] = EStatusRun(@)]
    /\ IF CanRun(cgroup[grp])
       THEN /\ pc' = "waiting"
            /\ gpc' = [t \in Task |-> IF t \in Members(grp) THEN "start" ELSE gpc[t]]
            /\ UNCHANGED grp
       ELSE /\ grp' = grp + 1
            /\ UNCHANGED <<pc, gpc>>
    /\ UNCHANGED <<script, task, probe, handle, watchers, ending, queue, cleaned, ret>>

(* Mutant: wg.Wait returns when the first goroutine is done.               *)
GroupFinishedAny == \E t \in Members(grp) : gpc[t] = "done"

GroupFinished == \A t \in Members(grp) : gpc[t] = "done"

(* wg.Wait returns; the group's verdict is over every task of the script.  *)
EndGroup ==
    /\ pc = "waiting"
    /\ GroupFinished
    /\ cgroup' = [cgroup EXCEPT ![grp] = EStatusFinish(@, AllSucceeded)]
    /\ gpc' = [t \in Task |-> IF t \in Members(grp) THEN "none" ELSE gpc[t]]
    /\ grp' = grp + 1
    /\ pc' = "groups"
    /\ UNCHANGED <<script, task, probe, handle, watchers, ending, queue, cleaned, ret>>

PublishVerdict ==
    /\ pc = "groups"
    /\ grp > NumGroups
    /\ script' = EStatusFinish(script, AllSucceeded)
    /\ pc' = "cleanup"
    /\ UNCHANGED <<grp, cgroup, task, probe, handle, watchers, ending, queue, cleaned, gpc, ret>>

(* ProbeHandler.Finish: the finisher stops the process and drops its       *)
(* handle; then, under a lock of its own, the worker is finished unless it *)
(* already is.  Anything may come between the two.                         *)
DropHandle(t) == handle' = [handle EXCEPT ![t] = FALSE]

(* Mutant: Finish is the finisher and no more.                             *)
EndWorkerNot(t) == UNCHANGED probe

EndWorker(t) ==
    probe' = [probe EXCEPT ![t].status = IF @ = "running" THEN "finished" ELSE @]

(* Mutants: the background probes are finished before the verdict is       *)
(* published; the cleanup loop looks at the queue without removing.        *)
FinishNextEarly ==
    /\ pc = "cleanup" \/ (pc = "groups" /\ grp > NumGroups)
    /\ queue # <<>> /\ cleaned = 0
    /\ DropHandle(Head(queue))
    /\ cleaned' = Head(queue)
    /\ queue' = Tail(queue)
    /\ UNCHANGED <<pc, grp, script, cgroup, task, probe, watchers, ending, gpc, ret>>

FinishNextPeeks ==
    /\ pc = "cleanup"
    /\ queue # <<>> /\ cleaned = 0
    /\ DropHandle(Head(queue))
    /\ cleaned' = Head(queue)
    /\ UNCHANGED <<pc, grp, script, cgroup, task, probe, watchers, ending, queue, gpc, ret>>

(* The cleanup loop takes the next probe that stayed alive and calls its   *)
(* Finish.                                                                 *)
FinishNext ==
    /\ pc = "cleanup"
    /\ queue # <<>> /\ cleaned = 0
    /\ DropHandle(Head(queue))
    /\ cleaned' = Head(queue)
    /\ queue' = Tail(queue)
    /\ UNCHANGED <<pc, grp, script, cgroup, task, probe, watchers, ending, gpc, ret>>

FinishCleaned ==
    /\ cleaned \in Task
    /\ EndWorker(cleaned)
    /\ cleaned' = 0
    /\ UNCHANGED <<pc, grp, script, cgroup, task, handle, watchers, ending, queue, gpc, ret>>

ReturnFromRun ==
    /\ pc = "cleanup"
    /\ queue = <<>> /\ cleaned = 0
    /\ pc' = "idle"
    /\ UNCHANGED <<grp, script, cgroup, task, probe, handle, watchers, ending, queue, cleaned, gpc, ret>>

-----------------------------------------------------------------------------
(* The goroutine of a task, started by runCgroup *)

(* Task.Start; a task that is already running is not started.              *)
StartTask(t) ==
    /\ gpc[t] = "start"
    /\ task' = [task EXCEPT ![t] = EStatusRun(@)]
    /\ gpc' = [gpc EXCEPT ![t] = IF CanRun(task[t]) THEN "probe" ELSE "returned"]
    /\ UNCHANGED <<pc, grp, script, cgroup, probe, handle, watchers, ending, queue, cleaned, ret>>

(* ProbeHandler.Start up to the runner's wait: a worker that is already    *)
(* running is only logged, but the cmd and openvpn runners refuse to start *)
(* a second process while they hold a handle.  The cmd runner stores the   *)
(* handle before it waits, the openvpn runner after.                       *)
StartProbe(t) ==
    /\ gpc[t] = "probe"
    /\ probe' = [probe EXCEPT
         ![t] = [@ EXCEPT !.status = "running", !.cur = PrepareToStart(probe[t].cur)]]
    /\ gpc' = [gpc EXCEPT ![t] = IF handle[t] THEN "refused" ELSE "runner"]
    /\ handle' = [handle EXCEPT ![t] = @ \/ Kind[t] \in {"cmd", "cmdStay"}]
    /\ UNCHANGED <<pc, grp, script, cgroup, task, watchers, ending, queue, cleaned, ret>>

(* The contract, see Runners, of the runner of task t.                     *)
RunnerReturn(t, r) ==
    IF gpc[t] = "refused" THEN Refused(r)
    ELSE CASE Kind[t] = "plain" -> PlainReturn(r)
           [] Kind[t] = "cmd" -> CmdReturn(handle[t], r)
           [] Kind[t] = "cmdStay" -> CmdStayReturn(handle[t], r)
           [] Kind[t] = "vpn" -> VpnReturn(r)
           [] Kind[t] = "vpnStay" -> VpnStayReturn(r)

(* The rest of ProbeHandler.Start: the worker stays running only for a     *)
(* process that stays alive and never had an error; the deferred function  *)
(* publishes the result under the lock.                                    *)
EndProbe(t) ==
    /\ gpc[t] \in {"runner", "refused"}
    /\ \E r \in Returns :
         LET error == probe[t].error \/ r.err
             stays == Stays(t) /\ r.succ /\ ~error
             result == End(probe[t].cur, r.succ)
         IN /\ RunnerReturn(t, r)
            /\ probe' = [probe EXCEPT ![t] =
                 [status |-> IF stays THEN @.status ELSE "finished",
                  cur |-> result, last |-> result, error |-> error]]
            /\ handle' = [handle EXCEPT ![t] = r.keeps]
            /\ watchers' = [watchers EXCEPT ![t] = IF r.watch THEN @ + 1 ELSE @]
            /\ ret' = [ret EXCEPT ![t] = r.succ]
    /\ gpc' = [gpc EXCEPT ![t] = "ended"]
    /\ UNCHANGED <<pc, grp, script, cgroup, task, ending, queue, cleaned>>

EndTask(t) ==
    /\ gpc[t] = "ended"
    /\ task' = [task EXCEPT ![t] = EStatusFinish(@, ret[t])]
    /\ gpc' = [gpc EXCEPT ![t] = "returned"]
    /\ UNCHANGED <<pc, grp, script, cgroup, probe, handle, watchers, ending, queue, cleaned, ret>>

(* Mutant: cmd and openvpn answer with ProbeHandler's own IsAlive.         *)
IsAliveByStatus(t) == probe[t].status = "running"

(* Prober.IsAlive, which cmd and openvpn answer from their handle.         *)
IsAlive(t) == IF Kind[t] = "plain" THEN probe[t].status = "running" ELSE handle[t]

(* Mutant: only a probe that succeeded is queued for the cleanup.          *)
LeaveGroupIfSucceeded(t) ==
    /\ gpc[t] = "returned"
    /\ queue' = IF ret[t] /\ IsAlive(t) THEN Append(queue, t) ELSE queue
    /\ gpc' = [gpc EXCEPT ![t] = "done"]
    /\ UNCHANGED <<pc, grp, script, cgroup, task, probe, handle, watchers, ending, cleaned, ret>>

(* A probe that is still alive is queued for the cleanup; wg.Done.         *)
LeaveGroup(t) ==
    /\ gpc[t] = "returned"
    /\ queue' = IF IsAlive(t) THEN Append(queue, t) ELSE queue
    /\ gpc' = [gpc EXCEPT ![t] = "done"]
    /\ UNCHANGED <<pc, grp, script, cgroup, task, probe, handle, watchers, ending, cleaned, ret>>

-----------------------------------------------------------------------------
(* The watcher of a background process: its process has ended, by itself   *)
(* or stopped, and the output channels are closed.  It may be late.        *)
WatcherFinish(t) ==
    /\ watchers[t] > 0
    /\ watchers' = [watchers EXCEPT ![t] = @ - 1]
    /\ ending' = [ending EXCEPT ![t] = @ + 1]
    /\ DropHandle(t)
    /\ UNCHANGED <<pc, grp, script, cgroup, task, probe, queue, cleaned, gpc, ret>>

WatcherEnd(t) ==
    /\ ending[t] > 0
    /\ ending' = [ending EXCEPT ![t] = @ - 1]
    /\ EndWorker(t)
    /\ UNCHANGED <<pc, grp, script, cgroup, task, handle, watchers, queue, cleaned, gpc, ret>>

(* Between two runs the scheduler may wait for any time.                   *)
WaitForSchedule == pc = "idle" /\ UNCHANGED vars

-----------------------------------------------------------------------------
RunStep == \/ StartGroup \/ EndGroup \/ PublishVerdict
           \/ FinishNext \/ FinishCleaned \/ ReturnFromRun
TaskStep(t) == StartTask(t) \/ StartProbe(t) \/ EndProbe(t) \/ EndTask(t) \/ LeaveGroup(t)

Next == \/ StartRun
        \/ RunStep
        \/ \E t \in Task : TaskStep(t) \/ WatcherFinish(t) \/ WatcherEnd(t)
        \/ WaitForSchedule

(* Goroutines are scheduled fairly and every runner returns: each waits    *)
(* under the probe's timeout, which a web probe is assumed to have (see    *)
(* WebProbe: for http.Client a timeout of 0 is none).  No run need ever be *)
(* started and no process need ever end by itself, so those two have no    *)
(* fairness.                                                               *)
Fairness == WF_vars(RunStep) /\ \A t \in Task : WF_vars(TaskStep(t))

Spec == Init /\ [][Next]_vars /\ Fairness

-----------------------------------------------------------------------------
(* Every variable has the values the code can give it.                     *)
TypeOK ==
    /\ pc \in {"idle", "groups", "waiting", "cleanup"}
    /\ grp \in 1..(NumGroups + 1)
    /\ script \in Workers
    /\ cgroup \in [Group -> Workers]
    /\ task \in [Task -> Workers]
    /\ probe \in [Task -> Probes]
    /\ handle \in [Task -> BOOLEAN]
    /\ watchers \in [Task -> Nat]
    /\ ending \in [Task -> Nat]
    /\ queue \in Seq(Task)
    /\ cleaned \in Task \cup {0}
    /\ gpc \in [Task -> {"none", "start", "probe", "runner", "refused",
                         "ended", "returned", "done"}]
    /\ ret \in [Task -> BOOLEAN]

(* While a task's goroutine lives, every task of the earlier groups has    *)
(* finished in this same run and no task of a later group has begun it:    *)
(* groups are sequential whatever the goroutines of a group do.            *)
GroupsInOrder ==
    \A t, u \in Task : gpc[t] # "none" /\ GroupOf[u] # GroupOf[t] =>
        IF GroupOf[u] < GroupOf[t]
        THEN task[u].status = "finished" /\ task[u].cur.counter = script.cur.counter
        ELSE task[u].status # "running" /\ task[u].cur.counter < script.cur.counter

(* Once a run is over, until the next one starts, the published verdict is *)
(* that of the same run of every task and of every probe, and it is the    *)
(* conjunction of what the probes themselves published.                    *)
VerdictSound ==
    script.status = "finished" =>
        /\ \A t \in Task :
             /\ task[t].status = "finished"
             /\ task[t].prev.counter = script.prev.counter
             /\ probe[t].last = task[t].prev
        /\ script.prev.success = \A t \in Task : probe[t].last.success

(* The published counters never contradict each other: a probe publishes   *)
(* before its task and a task before its script, and all are within the    *)
(* run under way, which is at most one ahead of what is published.         *)
PublishOrder ==
    \A t \in Task :
        /\ script.prev.counter <= task[t].prev.counter
        /\ task[t].prev.counter <= probe[t].last.counter
        /\ probe[t].last.counter <= script.cur.counter
        /\ script.cur.counter <= script.prev.counter + 1

(* When Run has returned no probe holds a process, whatever order runners, *)
(* watchers and the cleanup came in, and only one whose watcher is about   *)
(* to end its worker is still marked running.                              *)
CleanSlate ==
    pc = "idle" => \A t \in Task : ~handle[t] /\ (probe[t].status = "running" => ending[t] > 0)

(* None of the "already running" refusals ever happens to a scheduled run: *)
(* no group or task is still busy when its turn comes, no runner finds a   *)
(* process left, and a probe's worker is refused, which only is logged, in *)
(* no other case than that of a watcher which has yet to end it.           *)
NeverRefused ==
    /\ pc = "idle" => CanRun(script)
    /\ pc = "groups" /\ grp \in Group => CanRun(cgroup[grp])
    /\ \A t \in Task :
         /\ gpc[t] = "start" => CanRun(task[t])
         /\ gpc[t] = "probe" => probe[t].status # "running" \/ ending[t] > 0
         /\ gpc[t] # "refused"

(* probe.go: a finisher is called by the cleanup code at the script end.   *)
(* Apart from its runner and its watchers, nothing takes a process from a  *)
(* probe before the verdict of the run is published.                       *)
FinishedAtScriptEnd ==
    [][\A t \in Task :
          handle[t] /\ ~handle'[t] /\ gpc[t] # "runner" /\ watchers'[t] = watchers[t]
          => script.status = "finished" /\ script.prev = script.cur]_vars

(* Every run that was started comes to its end, cleanup included.          *)
RunEnds == pc = "groups" ~> pc = "idle"

(* Script implements JobRun: an outcome is what a task's worker says of    *)
(* the current run, the verdict what the script's worker published.        *)
Outcome(t) ==
    CASE task[t].cur.counter # script.cur.counter \/ task[t].status # "finished" -> "none"
      [] OTHER -> IF task[t].cur.success THEN "ok" ELSE "failed"

Abstract == INSTANCE JobRun WITH
    Tasks <- Task,
    run <- script.cur.counter,
    running <- script.status = "running",
    outcome <- [t \in Task |-> Outcome(t)],
    verdict <- script.prev

ImplementsJobRun == Abstract!Spec

=============================================================================
