---------------------------- MODULE ScriptProofs ----------------------------
(***************************************************************************)
(* Theorems about Script and about what a client of /job is told while it  *)
(* runs (Reports), for any number of tasks, groups and runs.               *)
(***************************************************************************)
EXTENDS Reports, SequenceTheorems, TLAPS

-----------------------------------------------------------------------------
(* The operations of a result and of a worker stay within their type.      *)
LEMMA ResultType ==
    ASSUME NEW r \in Results, NEW succ \in BOOLEAN
    PROVE  /\ PrepareToStart(r) \in Results
           /\ PrepareToStart(r).counter = r.counter + 1
           /\ End(r, succ) \in Results
           /\ End(r, succ).counter = r.counter
           /\ End(r, succ).success = succ
  BY DEF PrepareToStart, End, Results

(* A new worker, and a worker after EStatusRun or EStatusFinish, is a      *)
(* worker.                                                                 *)
LEMMA WorkerType ==
    ASSUME NEW w \in Workers, NEW succ \in BOOLEAN
    PROVE  /\ EStatusRun(w) \in Workers
           /\ EStatusFinish(w, succ) \in Workers
<1>1. PrepareToStart(w.cur) \in Results /\ End(w.cur, succ) \in Results
  BY ResultType DEF Workers
<1>2. EStatusRun(w) \in Workers
  BY <1>1 DEF Workers, EStatusRun, Statuses
<1>3. EStatusFinish(w, succ) \in Workers
  BY <1>1 DEF Workers, EStatusFinish, Statuses
<1> QED BY <1>2, <1>3

-----------------------------------------------------------------------------
(* Every step keeps every variable in its range.                           *)
LEMMA TypeInit == Init => TypeOK
  BY ScriptAssumption
  DEF Init, TypeOK, NewWorker, NoResult, Workers, Statuses, Results, NewProbe, Probes

(* ProbeHandler.Finish keeps probes and handles in their types.            *)
LEMMA FinishTypes ==
    ASSUME NEW t \in Task, TypeOK
    PROVE  /\ DropHandle(t) => handle' \in [Task -> BOOLEAN]
           /\ EndWorker(t) => probe' \in [Task -> Probes]
<1>1. DropHandle(t) => handle' \in [Task -> BOOLEAN]
  BY DEF DropHandle, TypeOK
<1>2. EndWorker(t) => probe' \in [Task -> Probes]
  <2>1. [probe[t] EXCEPT !.status = IF @ = "running" THEN "finished" ELSE @] \in Probes
    BY DEF TypeOK, Probes, Statuses
  <2> QED BY <2>1 DEF EndWorker, TypeOK
<1> QED BY <1>1, <1>2

(* Every step of a run, a goroutine or a watcher keeps every variable in   *)
(* its type.                                                               *)
LEMMA TypeStep == TypeOK /\ [Next]_vars => TypeOK'
<1> SUFFICES ASSUME TypeOK, [Next]_vars PROVE TypeOK'
  OBVIOUS
<1>0. AllSucceeded \in BOOLEAN
  BY DEF AllSucceeded
<1>1. CASE StartRun
  <2>1. script' \in Workers
    BY <1>1, WorkerType DEF StartRun, TypeOK
  <2> QED BY <1>1, <2>1, ScriptAssumption DEF StartRun, TypeOK
<1>2. CASE StartGroup
  <2>1. cgroup' \in [Group -> Workers]
    BY <1>2, WorkerType DEF StartGroup, TypeOK
  <2> QED BY <1>2, <2>1, ScriptAssumption DEF StartGroup, TypeOK, Group
<1>3. CASE EndGroup
  <2>1. cgroup' \in [Group -> Workers]
    BY <1>0, <1>3, WorkerType DEF EndGroup, TypeOK
  <2> QED BY <1>3, <2>1, ScriptAssumption DEF EndGroup, TypeOK, Group
<1>4. CASE PublishVerdict
  <2>1. script' \in Workers
    BY <1>0, <1>4, WorkerType DEF PublishVerdict, TypeOK
  <2> QED BY <1>4, <2>1 DEF PublishVerdict, TypeOK
<1>5. CASE FinishNext
  <2>1. Head(queue) \in Task /\ Tail(queue) \in Seq(Task)
    BY <1>5 DEF FinishNext, TypeOK
  <2> QED BY <1>5, <2>1, FinishTypes DEF FinishNext, TypeOK
<1>6. CASE FinishCleaned \/ ReturnFromRun
  BY <1>6, FinishTypes DEF FinishCleaned, ReturnFromRun, TypeOK
<1>7. ASSUME NEW t \in Task, StartTask(t) PROVE TypeOK'
  <2>1. task' \in [Task -> Workers]
    BY <1>7, WorkerType DEF StartTask, TypeOK
  <2> QED BY <1>7, <2>1 DEF StartTask, TypeOK
<1>8. ASSUME NEW t \in Task, StartProbe(t) PROVE TypeOK'
  <2>1. PrepareToStart(probe[t].cur) \in Results
    BY ResultType DEF TypeOK, Probes
  <2>2. probe' \in [Task -> Probes]
    <3>1. [probe[t] EXCEPT !.status = "running", !.cur = PrepareToStart(probe[t].cur)]
             \in Probes
      BY <2>1 DEF TypeOK, Probes, Statuses
    <3> QED BY <1>8, <3>1 DEF StartProbe, TypeOK
  <2>3. handle' \in [Task -> BOOLEAN]
    BY <1>8 DEF StartProbe, TypeOK
  <2> QED BY <1>8, <2>2, <2>3 DEF StartProbe, TypeOK
<1>9. ASSUME NEW t \in Task, EndProbe(t) PROVE TypeOK'
  <2>1. PICK r \in Returns :
          /\ probe' = [probe EXCEPT ![t] =
               [status |-> IF Stays(t) /\ r.succ /\ ~(probe[t].error \/ r.err)
                           THEN @.status ELSE "finished",
                cur |-> End(probe[t].cur, r.succ), last |-> End(probe[t].cur, r.succ),
                error |-> probe[t].error \/ r.err]]
          /\ handle' = [handle EXCEPT ![t] = r.keeps]
          /\ watchers' = [watchers EXCEPT ![t] = IF r.watch THEN @ + 1 ELSE @]
          /\ ret' = [ret EXCEPT ![t] = r.succ]
    BY <1>9 DEF EndProbe
  <2>2. End(probe[t].cur, r.succ) \in Results
    BY ResultType DEF TypeOK, Probes, Returns
  <2>3. probe' \in [Task -> Probes]
    BY <2>1, <2>2 DEF TypeOK, Probes, Statuses
  <2>4. handle' \in [Task -> BOOLEAN] /\ ret' \in [Task -> BOOLEAN]
    BY <2>1 DEF TypeOK, Returns
  <2>5. watchers' \in [Task -> Nat]
    BY <2>1 DEF TypeOK
  <2> QED BY <1>9, <2>3, <2>4, <2>5 DEF EndProbe, TypeOK
<1>10. ASSUME NEW t \in Task, EndTask(t) PROVE TypeOK'
  <2>1. task' \in [Task -> Workers]
    BY <1>10, WorkerType DEF EndTask, TypeOK
  <2> QED BY <1>10, <2>1 DEF EndTask, TypeOK
<1>11. ASSUME NEW t \in Task, LeaveGroup(t) PROVE TypeOK'
  <2>1. queue' \in Seq(Task)
    BY <1>11 DEF LeaveGroup, TypeOK
  <2> QED BY <1>11, <2>1 DEF LeaveGroup, TypeOK
<1>12. ASSUME NEW t \in Task, WatcherFinish(t) PROVE TypeOK'
  <2>1. watchers' \in [Task -> Nat] /\ ending' \in [Task -> Nat]
    BY <1>12 DEF WatcherFinish, TypeOK
  <2> QED BY <1>12, <2>1, FinishTypes DEF WatcherFinish, TypeOK
<1>14. ASSUME NEW t \in Task, WatcherEnd(t) PROVE TypeOK'
  <2>1. ending' \in [Task -> Nat]
    BY <1>14 DEF WatcherEnd, TypeOK
  <2> QED BY <1>14, <2>1, FinishTypes DEF WatcherEnd, TypeOK
<1>13. CASE UNCHANGED vars
  BY <1>13 DEF vars, TypeOK
<1> QED
  BY <1>1, <1>2, <1>3, <1>4, <1>5, <1>6, <1>7, <1>8, <1>9, <1>10, <1>11, <1>12, <1>13, <1>14
  DEF Next, RunStep, TaskStep, WaitForSchedule

(* Type correctness.                                                       *)
THEOREM TypeCorrect == Spec => []TypeOK
<1>1. Init => TypeOK
  BY TypeInit
<1>2. TypeOK /\ [Next]_vars => TypeOK'
  BY TypeStep
<1> QED BY <1>1, <1>2, PTL DEF Spec

-----------------------------------------------------------------------------
(* The inductive invariant.  Run's loop counter divides the tasks: those   *)
(* of earlier groups have completed the run under way, those of later ones *)
(* still show the run before it, and a task of the group being run shows   *)
(* what its goroutine's control point says.                                *)
InQueue(t) == \E i \in 1..Len(queue) : queue[i] = t

Completed(t, n) ==
    /\ task[t].cur = task[t].prev
    /\ task[t].prev.counter = n
    /\ probe[t].last = task[t].prev
    /\ probe[t].cur.counter = n
    /\ task[t].status = IF n = 0 THEN "new" ELSE "finished"

Begun(t) ==
    /\ task[t].status = "running"
    /\ task[t].cur.counter = script.cur.counter
    /\ task[t].prev.counter = script.prev.counter

Inside(t) ==
    \/ gpc[t] = "start" /\ Completed(t, script.prev.counter)
    \/ /\ gpc[t] = "probe" /\ Begun(t)
       /\ probe[t].cur.counter = script.prev.counter
       /\ probe[t].last = task[t].prev
    \/ /\ gpc[t] = "runner" /\ Begun(t)
       /\ probe[t].cur.counter = script.cur.counter
       /\ probe[t].last = task[t].prev
    \/ /\ gpc[t] = "ended" /\ Begun(t)
       /\ probe[t].cur.counter = script.cur.counter
       /\ probe[t].last.counter = script.cur.counter
       /\ probe[t].last.success = ret[t]
    \/ gpc[t] \in {"returned", "done"} /\ Completed(t, script.cur.counter)

InPlace(t) ==
    /\ GroupOf[t] < grp => gpc[t] = "none" /\ Completed(t, script.cur.counter)
    /\ GroupOf[t] > grp => gpc[t] = "none" /\ Completed(t, script.prev.counter)
    /\ GroupOf[t] = grp =>
         IF pc = "waiting" THEN Inside(t)
         ELSE gpc[t] = "none" /\ Completed(t, script.prev.counter)

TaskInv == \A t \in Task : InPlace(t)

ControlInv ==
    /\ pc \in {"idle", "cleanup"} => grp = NumGroups + 1
    /\ pc = "waiting" => grp \in Group
    /\ pc \in {"groups", "waiting"} =>
         script.status = "running" /\ script.cur.counter = script.prev.counter + 1
    /\ pc \in {"idle", "cleanup"} =>
         /\ script.cur = script.prev
         /\ script.status = IF script.cur.counter = 0 THEN "new" ELSE "finished"
    /\ pc = "cleanup" => script.status = "finished"
    /\ script.status = "finished" => (script.prev.success <=> AllSucceeded)
    /\ \A g \in Group : cgroup[g].status = "running" <=> (pc = "waiting" /\ grp = g)
    /\ cleaned # 0 => pc = "cleanup"

(* A process is held by the task's goroutine or its probe is queued, and a *)
(* probe is marked running until whoever drops its handle ends its worker. *)
Held(t) ==
    /\ Kind[t] = "plain" => ~handle[t]
    /\ InQueue(t) => GroupOf[t] < grp \/ gpc[t] = "done"
    /\ handle[t] => gpc[t] \in {"runner", "ended", "returned"} \/ InQueue(t)
    /\ probe[t].status = "running" =>
         gpc[t] = "runner" \/ handle[t] \/ ending[t] > 0 \/ cleaned = t

ProbeInv ==
    /\ pc = "idle" => queue = <<>>
    /\ \A t \in Task : Held(t)

IndInv == TypeOK /\ ControlInv /\ TaskInv /\ ProbeInv

(* What EStatusRun and EStatusFinish do to a worker that allows the        *)
(* switch.                                                                 *)
LEMMA WorkerSwitch ==
    ASSUME NEW w \in Workers, NEW succ \in BOOLEAN
    PROVE  /\ CanRun(w) =>
                /\ EStatusRun(w).status = "running"
                /\ EStatusRun(w).cur.counter = w.cur.counter + 1
                /\ EStatusRun(w).prev = w.prev
           /\ IsRunning(w) =>
                /\ EStatusFinish(w, succ).status = "finished"
                /\ EStatusFinish(w, succ).cur = EStatusFinish(w, succ).prev
                /\ EStatusFinish(w, succ).prev.counter = w.cur.counter
                /\ EStatusFinish(w, succ).prev.success = succ
<1>1. w.cur \in Results
  BY DEF Workers
<1>2. ASSUME CanRun(w)
      PROVE  /\ EStatusRun(w).status = "running"
             /\ EStatusRun(w).cur = PrepareToStart(w.cur)
             /\ EStatusRun(w).prev = w.prev
  BY <1>2 DEF EStatusRun, Workers
<1>3. ASSUME IsRunning(w)
      PROVE  EStatusFinish(w, succ) =
        [status |-> "finished", cur |-> End(w.cur, succ), prev |-> End(w.cur, succ)]
  BY <1>3 DEF EStatusFinish
<1> QED BY <1>1, <1>2, <1>3, ResultType

(* A goroutine lives only inside the group that Run is waiting for.        *)
LEMMA Living ==
    ASSUME IndInv, NEW t \in Task, gpc[t] # "none"
    PROVE  /\ pc = "waiting" /\ GroupOf[t] = grp /\ Inside(t)
           /\ script.status = "running"
           /\ script.cur.counter = script.prev.counter + 1
  BY ScriptAssumption DEF IndInv, ControlInv, TaskInv, InPlace, TypeOK, Group

(* The inductive invariant holds before the first run.                     *)
LEMMA InvInit == Init => IndInv
<1> SUFFICES ASSUME Init PROVE IndInv
  OBVIOUS
<1>1. TypeOK
  BY TypeInit
<1>2. ControlInv
  BY ScriptAssumption DEF Init, ControlInv, Group, NewWorker, NoResult, AllSucceeded
<1>3. TaskInv
  BY ScriptAssumption DEF Init, TaskInv, InPlace, Completed, NewWorker, NewProbe, NoResult, Group
<1>4. ProbeInv
  BY DEF Init, ProbeInv, Held, InQueue, NewProbe
<1> QED BY <1>1, <1>2, <1>3, <1>4 DEF IndInv

(* The steps of Run's loop counter and of the workers it drives.           *)
LEMMA ControlStep == IndInv /\ [Next]_vars => ControlInv'
<1> SUFFICES ASSUME IndInv, [Next]_vars PROVE ControlInv'
  OBVIOUS
<1> USE ScriptAssumption DEF IndInv
<1>0. AllSucceeded \in BOOLEAN
  BY DEF AllSucceeded
<1>1. CASE StartRun
  <2>1. /\ script'.status = "running"
        /\ script'.cur.counter = script.cur.counter + 1
        /\ script'.prev = script.prev
    BY <1>1, WorkerSwitch DEF StartRun, TypeOK
  <2>2. script.cur = script.prev
    BY <1>1 DEF StartRun, ControlInv
  <2> QED BY <1>1, <2>1, <2>2 DEF StartRun, ControlInv
<1>2. CASE StartGroup
  <2>1. CanRun(cgroup[grp])
    BY <1>2 DEF StartGroup, ControlInv, CanRun
  <2>2. EStatusRun(cgroup[grp]).status = "running"
    BY <1>2, <2>1, WorkerSwitch DEF StartGroup, TypeOK
  <2> QED BY <1>2, <2>1, <2>2 DEF StartGroup, ControlInv, TypeOK, AllSucceeded
<1>3. CASE EndGroup
  <2>1. IsRunning(cgroup[grp]) /\ grp \in Group
    BY <1>3 DEF EndGroup, ControlInv, IsRunning
  <2>2. EStatusFinish(cgroup[grp], AllSucceeded).status = "finished"
    BY <1>0, <2>1, WorkerSwitch DEF TypeOK
  <2>3. /\ grp' = grp + 1 /\ pc' = "groups" /\ pc = "waiting"
        /\ UNCHANGED <<script, task, cleaned>>
        /\ \A g \in Group : cgroup'[g].status # "running"
    BY <1>3, <2>1, <2>2 DEF EndGroup, ControlInv, TypeOK
  <2> QED BY <1>3, <2>1, <2>3 DEF EndGroup, ControlInv, AllSucceeded
<1>4. CASE PublishVerdict
  <2>1. IsRunning(script)
    BY <1>4 DEF PublishVerdict, ControlInv, IsRunning
  <2>2. grp = NumGroups + 1
    BY <1>4 DEF PublishVerdict, TypeOK
  <2>3. /\ script'.status = "finished"
        /\ script'.cur = script'.prev
        /\ script'.prev.counter = script.cur.counter
        /\ script'.prev.success = AllSucceeded
    BY <1>0, <1>4, <2>1, WorkerSwitch DEF PublishVerdict, TypeOK
  <2>4. script.cur.counter # 0
    BY <1>4 DEF PublishVerdict, ControlInv, TypeOK, Workers, Results
  <2> QED BY <1>4, <2>2, <2>3, <2>4 DEF PublishVerdict, ControlInv, AllSucceeded
<1>5. CASE FinishNext \/ FinishCleaned \/ ReturnFromRun
  BY <1>5 DEF FinishNext, FinishCleaned, ReturnFromRun, ControlInv, AllSucceeded
<1>6. ASSUME NEW t \in Task, TaskStep(t) PROVE ControlInv'
  <2>1. gpc[t] # "none"
    BY <1>6 DEF TaskStep, StartTask, StartProbe, EndProbe, EndTask, LeaveGroup
  <2>2. pc = "waiting" /\ script.status = "running"
    BY <2>1, Living
  <2>3. UNCHANGED <<pc, grp, script, cgroup, cleaned>>
    BY <1>6 DEF TaskStep, StartTask, StartProbe, EndProbe, EndTask, LeaveGroup
  <2> QED BY <2>2, <2>3 DEF ControlInv
<1>7. ASSUME NEW t \in Task, WatcherFinish(t) \/ WatcherEnd(t) PROVE ControlInv'
  BY <1>7 DEF WatcherFinish, WatcherEnd, ControlInv, AllSucceeded
<1>8. CASE UNCHANGED vars
  BY <1>8 DEF vars, ControlInv, AllSucceeded
<1> QED
  BY <1>1, <1>2, <1>3, <1>4, <1>5, <1>6, <1>7, <1>8 DEF Next, RunStep, WaitForSchedule

(* What a step leaves alone about a task it also leaves in its place.      *)
LEMMA Frame ==
    ASSUME NEW t \in Task, InPlace(t),
           UNCHANGED <<pc, grp, script>>,
           gpc'[t] = gpc[t], task'[t] = task[t], ret'[t] = ret[t],
           probe'[t].cur = probe[t].cur, probe'[t].last = probe[t].last
    PROVE  InPlace(t)'
  BY DEF InPlace, Inside, Begun, Completed

(* Dropping a probe's handle touches no other.                             *)
LEMMA DropHandleKeeps ==
    ASSUME TypeOK, NEW t \in Task, DropHandle(t), NEW u \in Task
    PROVE  handle'[u] <=> handle[u] /\ u # t
  BY DEF DropHandle, TypeOK

(* Ending a probe's worker touches no published result and no other probe, *)
(* and leaves its own not running.                                         *)
LEMMA EndWorkerKeeps ==
    ASSUME TypeOK, NEW t \in Task, EndWorker(t), NEW u \in Task
    PROVE  /\ probe'[u].cur = probe[u].cur
           /\ probe'[u].last = probe[u].last
           /\ probe'[u].status = "running" => probe[u].status = "running" /\ u # t
<1>1. probe'[u] = IF u = t
                  THEN [probe[t] EXCEPT !.status = IF @ = "running" THEN "finished" ELSE @]
                  ELSE probe[u]
  BY DEF EndWorker, TypeOK
<1>2. probe[u] \in Probes
  BY DEF TypeOK
<1> QED BY <1>1, <1>2 DEF Probes

(* Every step keeps what is known of each task's worker, result and        *)
(* goroutine.                                                              *)
LEMMA TaskInvStep == IndInv /\ [Next]_vars => TaskInv'
<1> SUFFICES ASSUME IndInv, [Next]_vars PROVE TaskInv'
  OBVIOUS
<1> USE ScriptAssumption
<1>0. TypeOK /\ ControlInv /\ TaskInv
  BY DEF IndInv
<1>a. \A t \in Task : GroupOf[t] \in 1..NumGroups
  BY DEF Group
<1>b. AllSucceeded \in BOOLEAN
  BY DEF AllSucceeded
<1>1. CASE StartRun
  <2>1. script'.prev = script.prev /\ script.cur = script.prev /\ grp = NumGroups + 1
    BY <1>0, <1>1, WorkerSwitch DEF StartRun, TypeOK, ControlInv
  <2>2. ASSUME NEW t \in Task PROVE gpc'[t] = "none" /\ Completed(t, script.prev.counter)'
    BY <1>0, <1>a, <1>1, <2>1 DEF StartRun, TaskInv, InPlace, Completed
  <2>3. grp' = 1 /\ pc' = "groups"
    BY <1>1 DEF StartRun
  <2>4. ASSUME NEW t \in Task PROVE InPlace(t)'
    BY <1>a, <2>2, <2>3 DEF InPlace
  <2> QED BY <2>4 DEF TaskInv
<1>2. CASE StartGroup
  <2>1. CanRun(cgroup[grp])
    BY <1>0, <1>2 DEF StartGroup, ControlInv, CanRun
  <2>2. /\ pc = "groups" /\ pc' = "waiting" /\ grp' = grp
        /\ UNCHANGED <<script, task, probe, ret>>
        /\ gpc' = [t \in Task |-> IF t \in Members(grp) THEN "start" ELSE gpc[t]]
    BY <1>2, <2>1 DEF StartGroup
  <2>3. ASSUME NEW t \in Task, GroupOf[t] = grp PROVE InPlace(t)'
    <3>1. gpc'[t] = "start" /\ Completed(t, script.prev.counter)
      BY <1>0, <2>2, <2>3 DEF Members, TaskInv, InPlace
    <3>2. Inside(t)'
      BY <2>2, <3>1 DEF Inside, Completed
    <3> QED BY <1>0, <2>2, <2>3, <3>2 DEF InPlace, TypeOK
  <2>4. ASSUME NEW t \in Task, GroupOf[t] # grp PROVE InPlace(t)'
    <3>1. gpc'[t] = gpc[t] /\ InPlace(t)
      BY <1>0, <2>2, <2>4 DEF Members, TaskInv
    <3>2. gpc'[t] = "none"
      BY <1>0, <1>a, <2>4, <3>1 DEF InPlace, TypeOK
    <3>3. GroupOf[t] < grp => Completed(t, script.cur.counter)'
      BY <2>2, <3>1 DEF InPlace, Completed
    <3>4. GroupOf[t] > grp => Completed(t, script.prev.counter)'
      BY <2>2, <3>1 DEF InPlace, Completed
    <3> QED BY <2>2, <2>4, <3>2, <3>3, <3>4 DEF InPlace
  <2> QED BY <2>3, <2>4 DEF TaskInv
<1>3. CASE EndGroup
  <2>1. ASSUME NEW t \in Task, GroupOf[t] = grp
        PROVE  gpc'[t] = "none" /\ Completed(t, script.cur.counter)'
    BY <1>0, <1>3, <2>1
    DEF EndGroup, GroupFinished, Members, TypeOK, TaskInv, InPlace, Inside, Completed
  <2>2. ASSUME NEW t \in Task, GroupOf[t] # grp
        PROVE  /\ gpc'[t] = "none"
               /\ GroupOf[t] < grp => Completed(t, script.cur.counter)'
               /\ GroupOf[t] > grp => Completed(t, script.prev.counter)'
    BY <1>0, <1>a, <1>3, <2>2
    DEF EndGroup, Members, TypeOK, TaskInv, InPlace, Completed
  <2> QED BY <1>0, <1>a, <1>3, <2>1, <2>2 DEF EndGroup, TaskInv, InPlace, TypeOK
<1>4. CASE PublishVerdict
  <2>1. IsRunning(script) /\ grp = NumGroups + 1
    BY <1>0, <1>4 DEF PublishVerdict, ControlInv, IsRunning, TypeOK
  <2>2. script'.cur = script'.prev /\ script'.prev.counter = script.cur.counter
    BY <1>0, <1>b, <1>4, <2>1, WorkerSwitch DEF PublishVerdict, TypeOK
  <2>3. script'.cur.counter = script.cur.counter
    BY <2>2
  <2>4. ASSUME NEW t \in Task PROVE InPlace(t)'
    <3>1. GroupOf[t] < grp /\ GroupOf[t] # grp /\ ~(GroupOf[t] > grp)
      BY <1>0, <1>a, <2>1 DEF TypeOK
    <3>2. gpc[t] = "none" /\ Completed(t, script.cur.counter)
      BY <1>0, <3>1 DEF TaskInv, InPlace
    <3>3. UNCHANGED <<grp, gpc, task, probe>>
      BY <1>4 DEF PublishVerdict
    <3> QED BY <2>3, <3>1, <3>2, <3>3 DEF InPlace, Completed
  <2> QED BY <2>4 DEF TaskInv
<1>5. CASE FinishNext
  BY <1>0, <1>5, Frame DEF FinishNext, TaskInv
<1>10. CASE FinishCleaned
  BY <1>0, <1>10, EndWorkerKeeps, Frame DEF FinishCleaned, TaskInv
<1>6. CASE ReturnFromRun
  BY <1>0, <1>6 DEF ReturnFromRun, TaskInv, InPlace, ControlInv, Inside, Completed, TypeOK
<1>7. ASSUME NEW t \in Task, TaskStep(t) PROVE TaskInv'
  <2>1. gpc[t] # "none"
    BY <1>7 DEF TaskStep, StartTask, StartProbe, EndProbe, EndTask, LeaveGroup
  <2>2. /\ pc = "waiting" /\ GroupOf[t] = grp /\ Inside(t)
        /\ script.cur.counter = script.prev.counter + 1
    BY <2>1, Living
  <2>3. UNCHANGED <<pc, grp, script>>
    BY <1>7 DEF TaskStep, StartTask, StartProbe, EndProbe, EndTask, LeaveGroup
  <2>4. ASSUME NEW u \in Task, u # t PROVE InPlace(u)'
    <3>1. /\ gpc'[u] = gpc[u] /\ task'[u] = task[u]
          /\ ret'[u] = ret[u] /\ probe'[u] = probe[u]
      BY <1>0, <1>7, <2>4 DEF TaskStep, StartTask, StartProbe, EndProbe, EndTask, LeaveGroup, TypeOK
    <3> QED BY <1>0, <2>3, <3>1, Frame DEF TaskInv
  <2>5. ASSUME StartTask(t) PROVE Inside(t)'
    <3>1. gpc[t] = "start" /\ Completed(t, script.prev.counter)
      BY <2>2, <2>5 DEF StartTask, Inside
    <3>2. CanRun(task[t]) /\ task[t] \in Workers
      BY <1>0, <3>1 DEF Completed, CanRun, TypeOK
    <3>3. /\ task'[t].status = "running"
          /\ task'[t].cur.counter = task[t].cur.counter + 1
          /\ task'[t].prev = task[t].prev
      BY <1>0, <2>5, <3>2, WorkerSwitch DEF StartTask, TypeOK
    <3>4. gpc'[t] = "probe" /\ probe' = probe
      BY <1>0, <2>5, <3>2 DEF StartTask, TypeOK
    <3> QED BY <2>2, <2>3, <3>1, <3>3, <3>4 DEF Inside, Begun, Completed
  <2>6. ASSUME StartProbe(t) PROVE Inside(t)'
    <3>1. /\ gpc[t] = "probe" /\ Begun(t)
          /\ probe[t].cur.counter = script.prev.counter
          /\ probe[t].last = task[t].prev
      BY <2>2, <2>6 DEF StartProbe, Inside
    <3>2. gpc'[t] \in {"runner", "refused"} /\ task' = task
      BY <1>0, <2>6 DEF StartProbe, TypeOK
    <3>3. ~handle[t]
      <4>1. ~(GroupOf[t] < grp)
        BY <1>0, <2>2 DEF TypeOK
      <4> QED BY <3>1, <4>1 DEF IndInv, ProbeInv, Held
    <3>4. gpc'[t] = "runner"
      BY <1>0, <2>6, <3>3 DEF StartProbe, TypeOK
    <3>5. /\ probe'[t].cur = PrepareToStart(probe[t].cur)
          /\ probe'[t].last = probe[t].last
      BY <1>0, <2>6 DEF StartProbe, TypeOK, Probes
    <3>6. probe'[t].cur.counter = probe[t].cur.counter + 1
      BY <1>0, <3>5, ResultType DEF TypeOK, Probes
    <3> QED BY <2>2, <2>3, <3>1, <3>2, <3>4, <3>5, <3>6 DEF Inside, Begun
  <2>7. ASSUME EndProbe(t) PROVE Inside(t)'
    <3>1. /\ gpc[t] = "runner" /\ Begun(t)
          /\ probe[t].cur.counter = script.cur.counter
      BY <2>2, <2>7 DEF EndProbe, Inside
    <3>2. gpc'[t] = "ended" /\ task' = task
      BY <1>0, <2>7 DEF EndProbe, TypeOK
    <3>3. PICK succ \in BOOLEAN :
            /\ probe'[t].cur = End(probe[t].cur, succ)
            /\ probe'[t].last = End(probe[t].cur, succ)
            /\ ret'[t] = succ
      BY <1>0, <2>7 DEF EndProbe, TypeOK, Returns
    <3>4. /\ End(probe[t].cur, succ).counter = probe[t].cur.counter
          /\ End(probe[t].cur, succ).success = succ
      <4>1. probe[t].cur \in Results
        BY <1>0 DEF TypeOK, Probes
      <4> QED BY <4>1, ResultType
    <3> QED BY <2>3, <3>1, <3>2, <3>3, <3>4 DEF Inside, Begun
  <2>8. ASSUME EndTask(t) PROVE Inside(t)'
    <3>1. /\ gpc[t] = "ended" /\ Begun(t)
          /\ probe[t].cur.counter = script.cur.counter
          /\ probe[t].last.counter = script.cur.counter
          /\ probe[t].last.success = ret[t]
      BY <2>2, <2>8 DEF EndTask, Inside
    <3>2. gpc'[t] = "returned" /\ probe' = probe
      BY <1>0, <2>8 DEF EndTask, TypeOK
    <3>3. task'[t] = EStatusFinish(task[t], ret[t])
      BY <1>0, <2>8 DEF EndTask, TypeOK
    <3>4. /\ task'[t].status = "finished"
          /\ task'[t].cur = task'[t].prev
          /\ task'[t].prev.counter = task[t].cur.counter
          /\ task'[t].prev.success = ret[t]
      BY <1>0, <3>1, <3>3, WorkerSwitch DEF TypeOK, Begun, IsRunning
    <3>5. probe[t].last = task'[t].prev
      <4>1. probe[t].last \in Results /\ task'[t].prev \in Results
        BY <1>0, TypeStep DEF TypeOK, Probes, Workers
      <4> QED BY <3>1, <3>4, <4>1 DEF Results, Begun
    <3>6. script.cur.counter # 0
      BY <1>0, <2>2 DEF TypeOK, Workers, Results
    <3> QED BY <2>3, <3>1, <3>2, <3>4, <3>5, <3>6 DEF Inside, Begun, Completed
  <2>9. ASSUME LeaveGroup(t) PROVE Inside(t)'
    <3>1. gpc[t] = "returned" /\ Completed(t, script.cur.counter)
      BY <2>2, <2>9 DEF LeaveGroup, Inside
    <3>2. gpc'[t] = "done" /\ UNCHANGED <<task, probe>>
      BY <1>0, <2>9 DEF LeaveGroup, TypeOK
    <3> QED BY <2>3, <3>1, <3>2 DEF Inside, Completed
  <2>10. Inside(t)'
    BY <1>7, <2>5, <2>6, <2>7, <2>8, <2>9 DEF TaskStep
  <2>11. InPlace(t)'
    BY <1>0, <2>2, <2>3, <2>10 DEF InPlace, TypeOK
  <2> QED BY <2>4, <2>11 DEF TaskInv
<1>8. ASSUME NEW t \in Task, WatcherFinish(t) PROVE TaskInv'
  BY <1>0, <1>8, Frame DEF WatcherFinish, TaskInv
<1>11. ASSUME NEW t \in Task, WatcherEnd(t) PROVE TaskInv'
  BY <1>0, <1>11, EndWorkerKeeps, Frame DEF WatcherEnd, TaskInv
<1>9. CASE UNCHANGED vars
  BY <1>0, <1>9, Frame DEF vars, TaskInv
<1> QED
  BY <1>1, <1>2, <1>3, <1>4, <1>5, <1>6, <1>7, <1>8, <1>9, <1>10, <1>11
  DEF Next, RunStep, WaitForSchedule

(* Membership in the FIFO when its head leaves and when a probe joins.     *)
LEMMA QueueTail ==
    ASSUME TypeOK, queue # <<>>, queue' = Tail(queue), NEW t \in Task
    PROVE  /\ InQueue(t)' => InQueue(t)
           /\ InQueue(t) /\ t # Head(queue) => InQueue(t)'
<1>1. /\ Len(queue') = Len(queue) - 1
      /\ \A i \in 1..Len(queue') : queue'[i] = queue[i + 1]
      /\ Head(queue) = queue[1]
      /\ Len(queue) \in Nat
  BY HeadTailProperties DEF TypeOK
<1>2. InQueue(t)' => InQueue(t)
  <2>1. SUFFICES ASSUME NEW i \in 1..Len(queue'), queue'[i] = t PROVE InQueue(t)
    BY DEF InQueue
  <2> QED BY <1>1, <2>1 DEF InQueue
<1>3. InQueue(t) /\ t # Head(queue) => InQueue(t)'
  <2>1. SUFFICES ASSUME NEW i \in 1..Len(queue), queue[i] = t, i # 1 PROVE InQueue(t)'
    BY <1>1 DEF InQueue
  <2>2. i - 1 \in 1..Len(queue') /\ queue'[i - 1] = t
    BY <1>1, <2>1
  <2> QED BY <2>2 DEF InQueue
<1> QED BY <1>2, <1>3

(* A probe that joins the queue is in it, and so is every probe that was.  *)
LEMMA QueueAppend ==
    ASSUME TypeOK, NEW u \in Task, queue' = Append(queue, u), NEW t \in Task
    PROVE  InQueue(t)' <=> InQueue(t) \/ t = u
<1>1. /\ Len(queue') = Len(queue) + 1
      /\ \A i \in 1..Len(queue) : queue'[i] = queue[i]
      /\ queue'[Len(queue) + 1] = u
      /\ Len(queue) \in Nat
  BY DEF TypeOK
<1>2. InQueue(t)' => InQueue(t) \/ t = u
  <2>1. SUFFICES ASSUME NEW i \in 1..Len(queue'), queue'[i] = t, t # u PROVE InQueue(t)
    BY DEF InQueue
  <2> QED BY <1>1, <2>1 DEF InQueue
<1>3. InQueue(t) => InQueue(t)'
  BY <1>1 DEF InQueue
<1>4. t = u => InQueue(t)'
  BY <1>1 DEF InQueue
<1> QED BY <1>2, <1>3, <1>4

(* Every step keeps what is known of each probe: one that is busy is in    *)
(* its goroutine's hands or in the queue.                                  *)
LEMMA ProbeInvStep == IndInv /\ [Next]_vars => ProbeInv'
<1> SUFFICES ASSUME IndInv, [Next]_vars PROVE ProbeInv'
  OBVIOUS
<1>0. TypeOK /\ ControlInv /\ TaskInv /\ ProbeInv
  BY DEF IndInv
<1>a. \A t \in Task : GroupOf[t] \in 1..NumGroups
  BY ScriptAssumption DEF Group
<1>b. grp \in 1..(NumGroups + 1) /\ NumGroups \in Nat
  BY <1>0, ScriptAssumption DEF TypeOK
<1>1. CASE StartRun
  <2>1. pc' # "idle" /\ UNCHANGED <<queue, gpc, handle, probe, ending, cleaned>>
    BY <1>1 DEF StartRun
  <2>2. \A t \in Task : ~InQueue(t)
    BY <1>0, <1>1 DEF StartRun, ProbeInv, InQueue
  <2> QED BY <1>0, <2>1, <2>2 DEF ProbeInv, Held, InQueue
<1>2. CASE StartGroup
  <2>1. CanRun(cgroup[grp])
    BY <1>0, <1>2 DEF StartGroup, ControlInv, CanRun
  <2>2. /\ pc = "groups" /\ pc' = "waiting" /\ UNCHANGED <<grp, queue, handle, probe, ending, cleaned>>
        /\ gpc' = [t \in Task |-> IF t \in Members(grp) THEN "start" ELSE gpc[t]]
    BY <1>2, <2>1 DEF StartGroup
  <2>3. ASSUME NEW t \in Task PROVE Held(t)'
    <3>1. Held(t) /\ InPlace(t)
      BY <1>0 DEF ProbeInv, TaskInv
    <3>2. CASE GroupOf[t] = grp
      <4>1. gpc[t] = "none" /\ ~InQueue(t)
        BY <1>b, <2>2, <3>1, <3>2 DEF InPlace, Held
      <4> QED BY <2>2, <3>1, <4>1 DEF Held, InQueue
    <3>3. CASE GroupOf[t] # grp
      BY <2>2, <3>1, <3>3 DEF Held, InQueue, Members
    <3> QED BY <3>2, <3>3
  <2> QED BY <2>2, <2>3 DEF ProbeInv
<1>3. CASE EndGroup
  <2>1. /\ pc' = "groups" /\ grp' = grp + 1
        /\ UNCHANGED <<queue, handle, probe, ending, cleaned>>
        /\ gpc' = [t \in Task |-> IF t \in Members(grp) THEN "none" ELSE gpc[t]]
        /\ \A t \in Task : GroupOf[t] = grp => gpc[t] = "done"
    BY <1>3 DEF EndGroup, GroupFinished, Members
  <2>2. ASSUME NEW t \in Task PROVE Held(t)'
    <3>1. Held(t)
      BY <1>0 DEF ProbeInv
    <3>2. CASE GroupOf[t] = grp
      <4>1. gpc'[t] = "none" /\ gpc[t] = "done" /\ GroupOf[t] < grp'
        BY <1>b, <2>1, <3>2 DEF Members
      <4> QED BY <2>1, <3>1, <4>1 DEF Held, InQueue
    <3>3. CASE GroupOf[t] # grp
      <4>1. gpc'[t] = gpc[t] /\ (GroupOf[t] < grp => GroupOf[t] < grp')
        BY <1>a, <1>b, <2>1, <3>3 DEF Members
      <4> QED BY <2>1, <3>1, <4>1 DEF Held, InQueue
    <3> QED BY <3>2, <3>3
  <2> QED BY <2>1, <2>2 DEF ProbeInv
<1>4. CASE PublishVerdict
  BY <1>0, <1>4 DEF PublishVerdict, ProbeInv, Held, InQueue
<1>5. CASE FinishNext
  <2>1. Head(queue) \in Task /\ queue # <<>> /\ queue' = Tail(queue)
    BY <1>0, <1>5 DEF FinishNext, TypeOK
  <2>2. /\ DropHandle(Head(queue)) /\ UNCHANGED <<pc, grp, gpc, probe, ending>>
        /\ pc # "idle" /\ cleaned = 0 /\ cleaned' = Head(queue)
    BY <1>5 DEF FinishNext
  <2>3. ASSUME NEW t \in Task PROVE Held(t)'
    <3>1. Held(t) /\ cleaned # t
      BY <1>0, <2>2 DEF ProbeInv, Task
    <3>2. handle'[t] <=> handle[t] /\ t # Head(queue)
      BY <1>0, <2>1, <2>2, DropHandleKeeps
    <3> QED BY <1>0, <2>1, <2>2, <3>1, <3>2, QueueTail DEF Held
  <2> QED BY <2>2, <2>3 DEF ProbeInv
<1>6. CASE ReturnFromRun
  BY <1>0, <1>6 DEF ReturnFromRun, ProbeInv, Held, InQueue
<1>10. CASE FinishCleaned
  <2>1. /\ cleaned \in Task /\ EndWorker(cleaned)
        /\ UNCHANGED <<pc, grp, gpc, handle, ending, queue>>
    BY <1>10 DEF FinishCleaned
  <2>2. ASSUME NEW t \in Task PROVE Held(t)'
    <3>1. Held(t)
      BY <1>0 DEF ProbeInv
    <3>2. probe'[t].status = "running" => probe[t].status = "running" /\ t # cleaned
      BY <1>0, <2>1, EndWorkerKeeps
    <3> QED BY <2>1, <3>1, <3>2 DEF Held, InQueue
  <2> QED BY <1>0, <2>1, <2>2 DEF ProbeInv
<1>7. ASSUME NEW t \in Task, TaskStep(t) PROVE ProbeInv'
  <2>1. gpc[t] # "none"
    BY <1>7 DEF TaskStep, StartTask, StartProbe, EndProbe, EndTask, LeaveGroup
  <2>2. pc = "waiting" /\ GroupOf[t] = grp /\ Inside(t)
    BY <2>1, Living
  <2>3. UNCHANGED <<pc, grp, ending, cleaned>>
    BY <1>7 DEF TaskStep, StartTask, StartProbe, EndProbe, EndTask, LeaveGroup
  <2>4. Held(t) /\ ~(GroupOf[t] < grp)
    BY <1>0, <1>b, <2>2 DEF ProbeInv
  <2>5. ASSUME NEW u \in Task, u # t PROVE Held(u)'
    <3>1. gpc'[u] = gpc[u] /\ probe'[u] = probe[u] /\ handle'[u] = handle[u]
      BY <1>0, <1>7, <2>5 DEF TaskStep, StartTask, StartProbe, EndProbe, EndTask, LeaveGroup, TypeOK
    <3>2. queue' = queue \/ queue' = Append(queue, t)
      BY <1>7 DEF TaskStep, StartTask, StartProbe, EndProbe, EndTask, LeaveGroup
    <3>3. InQueue(u)' <=> InQueue(u)
      BY <1>0, <2>5, <3>2, QueueAppend DEF InQueue
    <3>4. Held(u)
      BY <1>0 DEF ProbeInv
    <3> QED BY <2>3, <3>1, <3>3, <3>4 DEF Held
  <2>6. ASSUME StartTask(t) PROVE Held(t)'
    <3>1. /\ gpc[t] = "start" /\ gpc'[t] \in {"probe", "returned"}
          /\ UNCHANGED <<probe, handle, queue>>
      BY <1>0, <2>6 DEF StartTask, TypeOK
    <3> QED BY <2>3, <2>4, <3>1 DEF Held, InQueue
  <2>7. ASSUME StartProbe(t) PROVE Held(t)'
    <3>1. /\ gpc[t] = "probe" /\ queue' = queue
          /\ gpc'[t] = IF handle[t] THEN "refused" ELSE "runner"
          /\ handle'[t] = (handle[t] \/ Kind[t] \in {"cmd", "cmdStay"})
      BY <1>0, <2>7 DEF StartProbe, TypeOK
    <3>2. ~InQueue(t) /\ ~handle[t]
      BY <2>4, <3>1 DEF Held
    <3> QED BY <2>3, <2>4, <3>1, <3>2 DEF Held, InQueue
  <2>8. ASSUME EndProbe(t) PROVE Held(t)'
    <3>1. gpc[t] = "runner" /\ gpc'[t] = "ended" /\ queue' = queue
      BY <1>0, <2>2, <2>8 DEF EndProbe, Inside, TypeOK
    <3>2. PICK r \in Returns :
            /\ RunnerReturn(t, r)
            /\ handle'[t] = r.keeps
            /\ probe'[t].status = "running" => Stays(t) /\ r.succ
      BY <1>0, <2>8 DEF EndProbe, TypeOK
    <3>3. Kind[t] = "plain" => ~r.keeps
      BY <3>1, <3>2 DEF RunnerReturn, PlainReturn
    <3>4. Stays(t) /\ r.succ => r.keeps
      BY <3>1, <3>2 DEF RunnerReturn, Stays, CmdStayReturn, VpnStayReturn
    <3> QED BY <2>3, <2>4, <3>1, <3>2, <3>3, <3>4 DEF Held, InQueue
  <2>9. ASSUME EndTask(t) PROVE Held(t)'
    <3>1. /\ gpc[t] = "ended" /\ gpc'[t] = "returned"
          /\ UNCHANGED <<probe, handle, queue>>
      BY <1>0, <2>9 DEF EndTask, TypeOK
    <3> QED BY <2>3, <2>4, <3>1 DEF Held, InQueue
  <2>10. ASSUME LeaveGroup(t) PROVE Held(t)'
    <3>1. /\ gpc[t] = "returned" /\ gpc'[t] = "done"
          /\ UNCHANGED <<probe, handle>>
          /\ queue' = IF IsAlive(t) THEN Append(queue, t) ELSE queue
      BY <1>0, <2>10 DEF LeaveGroup, TypeOK
    <3>2. handle[t] => InQueue(t)'
      BY <1>0, <2>4, <3>1, QueueAppend DEF IsAlive, Held
    <3> QED BY <2>3, <2>4, <3>1, <3>2 DEF Held
  <2>11. Held(t)'
    BY <1>7, <2>6, <2>7, <2>8, <2>9, <2>10 DEF TaskStep
  <2> QED BY <2>2, <2>3, <2>5, <2>11 DEF ProbeInv
<1>8. ASSUME NEW t \in Task, WatcherFinish(t) PROVE ProbeInv'
  <2>1. DropHandle(t) /\ UNCHANGED <<pc, grp, gpc, queue, probe, cleaned>>
    BY <1>8 DEF WatcherFinish
  <2>2. ASSUME NEW u \in Task PROVE Held(u)'
    <3>1. Held(u)
      BY <1>0 DEF ProbeInv
    <3>2. handle'[u] <=> handle[u] /\ u # t
      BY <1>0, <2>1, DropHandleKeeps
    <3>3. IF u = t THEN ending'[u] > 0 ELSE ending'[u] = ending[u]
      BY <1>0, <1>8 DEF WatcherFinish, TypeOK
    <3> QED BY <2>1, <3>1, <3>2, <3>3 DEF Held, InQueue
  <2> QED BY <1>0, <2>1, <2>2 DEF ProbeInv
<1>11. ASSUME NEW t \in Task, WatcherEnd(t) PROVE ProbeInv'
  <2>1. EndWorker(t) /\ UNCHANGED <<pc, grp, gpc, handle, queue, cleaned>>
    BY <1>11 DEF WatcherEnd
  <2>2. ASSUME NEW u \in Task PROVE Held(u)'
    <3>1. Held(u)
      BY <1>0 DEF ProbeInv
    <3>2. probe'[u].status = "running" => probe[u].status = "running" /\ u # t
      BY <1>0, <2>1, EndWorkerKeeps
    <3>3. u # t => ending'[u] = ending[u]
      BY <1>0, <1>11 DEF WatcherEnd, TypeOK
    <3> QED BY <2>1, <3>1, <3>2, <3>3 DEF Held, InQueue
  <2> QED BY <1>0, <2>1, <2>2 DEF ProbeInv
<1>9. CASE UNCHANGED vars
  BY <1>0, <1>9 DEF vars, ProbeInv, Held, InQueue
<1> QED
  BY <1>1, <1>2, <1>3, <1>4, <1>5, <1>6, <1>7, <1>8, <1>9, <1>10, <1>11
  DEF Next, RunStep, WaitForSchedule

(* The inductive invariant holds in every reachable state.                 *)
THEOREM Invariance == Spec => []IndInv
<1>1. Init => IndInv
  BY InvInit
<1>2. IndInv /\ [Next]_vars => IndInv'
  BY TypeStep, ControlStep, TaskInvStep, ProbeInvStep DEF IndInv
<1> QED BY <1>1, <1>2, PTL DEF Spec

-----------------------------------------------------------------------------
(* What the inductive invariant means.                                     *)

(* Groups are run one after another: no task of a later group is begun and *)
(* none of an earlier one is unfinished while a goroutine lives.           *)
THEOREM GroupsAreSequential == Spec => []GroupsInOrder
<1>1. IndInv => GroupsInOrder
  <2> SUFFICES ASSUME IndInv,
                      NEW t \in Task, NEW u \in Task, gpc[t] # "none", GroupOf[u] # GroupOf[t]
               PROVE  IF GroupOf[u] < GroupOf[t]
                      THEN task[u].status = "finished" /\ task[u].cur.counter = script.cur.counter
                      ELSE task[u].status # "running" /\ task[u].cur.counter < script.cur.counter
    BY DEF GroupsInOrder
  <2>1. GroupOf[t] = grp /\ script.cur.counter = script.prev.counter + 1
    BY Living
  <2>2. script.prev.counter \in Nat /\ GroupOf[u] \in Int /\ grp \in Int
    BY ScriptAssumption DEF IndInv, TypeOK, Workers, Results, Group
  <2>3. InPlace(u)
    BY DEF IndInv, TaskInv
  <2>4. CASE GroupOf[u] < grp
    BY <2>1, <2>2, <2>3, <2>4 DEF InPlace, Completed
  <2>5. CASE GroupOf[u] > grp
    BY <2>1, <2>2, <2>3, <2>5 DEF InPlace, Completed
  <2> QED BY <2>1, <2>2, <2>4, <2>5
<1> QED BY <1>1, Invariance, PTL

(* A published verdict is the conjunction of the results the probes        *)
(* published in the same run.                                              *)
THEOREM VerdictIsSound == Spec => []VerdictSound
<1>1. IndInv => VerdictSound
  <2> SUFFICES ASSUME IndInv, script.status = "finished" PROVE VerdictSound
    BY DEF VerdictSound
  <2>1. /\ pc \in {"idle", "cleanup"} /\ grp = NumGroups + 1
        /\ script.cur = script.prev /\ script.cur.counter # 0
        /\ script.prev.success <=> AllSucceeded
    BY DEF IndInv, ControlInv, TypeOK
  <2>2. ASSUME NEW t \in Task PROVE Completed(t, script.cur.counter)
    <3>1. GroupOf[t] < grp
      BY <2>1, ScriptAssumption DEF Group
    <3> QED BY <3>1 DEF IndInv, TaskInv, InPlace
  <2>3. ASSUME NEW t \in Task
        PROVE  /\ task[t].status = "finished"
               /\ task[t].prev.counter = script.prev.counter
               /\ probe[t].last = task[t].prev
               /\ task[t].cur = probe[t].last
    BY <2>1, <2>2 DEF Completed
  <2>4. AllSucceeded <=> \A t \in Task : probe[t].last.success
    BY <2>3 DEF AllSucceeded
  <2>5. script.prev.success \in BOOLEAN
    BY DEF IndInv, TypeOK, Workers, Results
  <2>6. script.prev.success = \A t \in Task : probe[t].last.success
    BY <2>1, <2>4, <2>5
  <2> QED BY <2>3, <2>6 DEF VerdictSound
<1> QED BY <1>1, Invariance, PTL

(* Published counters never get ahead of what they are computed from.      *)
LEMMA CountersInOrder == IndInv => PublishOrder
<1> SUFFICES ASSUME IndInv, NEW t \in Task
             PROVE  /\ script.prev.counter <= task[t].prev.counter
                    /\ task[t].prev.counter <= probe[t].last.counter
                    /\ probe[t].last.counter <= script.cur.counter
                    /\ script.cur.counter <= script.prev.counter + 1
  BY DEF PublishOrder
<1>1. /\ script.prev.counter \in Nat /\ script.cur.counter \in Nat
      /\ script.cur.counter \in {script.prev.counter, script.prev.counter + 1}
  BY DEF IndInv, ControlInv, TypeOK, Workers, Results
<1>2. GroupOf[t] \in Int /\ grp \in Int
  BY ScriptAssumption DEF IndInv, TypeOK, Group
<1>3. InPlace(t)
  BY DEF IndInv, TaskInv
<1>4. CASE gpc[t] = "none"
  <2>1. Completed(t, script.prev.counter) \/ Completed(t, script.cur.counter)
    BY <1>2, <1>3, <1>4 DEF InPlace, Inside
  <2> QED BY <1>1, <2>1 DEF Completed
<1>5. CASE gpc[t] # "none"
  <2>1. Inside(t)
    BY <1>5, Living
  <2> QED BY <1>1, <2>1 DEF Inside, Begun, Completed
<1> QED BY <1>4, <1>5

(* What a report shows of a script never comes before what it rests on.    *)
THEOREM PublishInOrder == Spec => []PublishOrder
BY CountersInOrder, Invariance, PTL

(* When Run has returned, no probe holds a process, and only one whose     *)
(* watcher is about to end its worker is still marked running.             *)
THEOREM RunsEndClean == Spec => []CleanSlate
<1>1. IndInv => CleanSlate
  <2> SUFFICES ASSUME IndInv, pc = "idle", NEW t \in Task
               PROVE  ~handle[t] /\ (probe[t].status = "running" => ending[t] > 0)
    BY DEF CleanSlate
  <2>1. gpc[t] = "none"
    BY Living
  <2>3. cleaned # t
    BY DEF IndInv, ControlInv, Task
  <2>2. ~InQueue(t)
    BY DEF IndInv, ProbeInv, InQueue
  <2> QED BY <2>1, <2>2, <2>3 DEF IndInv, ProbeInv, Held
<1> QED BY <1>1, Invariance, PTL

(* No guard against overlapping starts ever refuses a scheduled run, but   *)
(* for the worker of a probe whose watcher has yet to end it.              *)
THEOREM RunsAreNeverRefused == Spec => []NeverRefused
<1>1. IndInv => NeverRefused
  <2> SUFFICES ASSUME IndInv PROVE NeverRefused
    OBVIOUS
  <2>1. pc = "idle" => CanRun(script)
    BY DEF IndInv, ControlInv, CanRun
  <2>2. pc = "groups" /\ grp \in Group => CanRun(cgroup[grp])
    BY DEF IndInv, ControlInv, CanRun
  <2>3. ASSUME NEW t \in Task, gpc[t] # "none"
        PROVE  /\ gpc[t] = "start" => CanRun(task[t])
               /\ gpc[t] = "probe" => probe[t].status # "running" \/ ending[t] > 0
               /\ gpc[t] # "refused"
    <3>1. Inside(t) /\ GroupOf[t] = grp /\ pc = "waiting"
      BY <2>3, Living
    <3>2. gpc[t] # "refused" /\ (gpc[t] = "start" => CanRun(task[t]))
      BY <3>1 DEF Inside, Completed, CanRun
    <3>3. ~(GroupOf[t] < grp)
      BY <3>1 DEF IndInv, TypeOK
    <3>4. cleaned # t
      BY <3>1 DEF IndInv, ControlInv, Task
    <3> QED BY <3>2, <3>3, <3>4 DEF IndInv, ProbeInv, Held
  <2> QED BY <2>1, <2>2, <2>3 DEF NeverRefused
<1> QED BY <1>1, Invariance, PTL

(* Only a probe's runner or watcher takes its process from it before the   *)
(* verdict of the run is published.                                        *)
THEOREM FinishersRunAtScriptEnd == Spec => FinishedAtScriptEnd
<1>1. IndInv /\ [Next]_vars =>
        \A t \in Task :
          handle[t] /\ ~handle'[t] /\ gpc[t] # "runner" /\ watchers'[t] = watchers[t]
          => script.status = "finished" /\ script.prev = script.cur
  <2> SUFFICES ASSUME IndInv, [Next]_vars, NEW t \in Task,
                      handle[t], ~handle'[t], gpc[t] # "runner", watchers'[t] = watchers[t]
               PROVE  script.status = "finished" /\ script.prev = script.cur
    OBVIOUS
  <2>0. TypeOK
    BY DEF IndInv
  <2>1. CASE FinishNext
    BY <2>1 DEF FinishNext, IndInv, ControlInv
  <2>2. ASSUME NEW u \in Task, TaskStep(u) PROVE FALSE
    <3>1. gpc[u] # "refused"
      <4>1. CASE gpc[u] = "none"
        BY <4>1
      <4>2. CASE gpc[u] # "none"
        BY <4>2, Living DEF Inside
      <4> QED BY <4>1, <4>2
    <3>2. CASE EndProbe(u)
      <4>1. gpc[u] = "runner" /\ u # t
        BY <3>1, <3>2 DEF EndProbe
      <4> QED BY <2>0, <3>2, <4>1 DEF EndProbe, TypeOK
    <3>3. CASE StartProbe(u)
      BY <2>0, <3>3 DEF StartProbe, TypeOK
    <3>4. CASE handle' = handle
      BY <3>4
    <3> QED
      BY <2>2, <3>2, <3>3, <3>4 DEF TaskStep, StartTask, EndTask, LeaveGroup
  <2>3. ASSUME NEW u \in Task, WatcherFinish(u) PROVE FALSE
    <3>1. u = t
      BY <2>0, <2>3, DropHandleKeeps DEF WatcherFinish
    <3> QED BY <2>0, <2>3, <3>1 DEF WatcherFinish, TypeOK
  <2>4. CASE handle' = handle
    BY <2>4
  <2> QED
    BY <2>1, <2>2, <2>3, <2>4
    DEF Next, RunStep, StartRun, StartGroup, EndGroup, PublishVerdict, FinishCleaned,
        ReturnFromRun, WatcherEnd, WaitForSchedule, vars
<1> QED BY <1>1, Invariance, PTL DEF Spec, FinishedAtScriptEnd

-----------------------------------------------------------------------------
(* Script implements JobRun, fairness aside: a run begins with StartRun, a *)
(* task reports when EndTask finishes its worker, PublishVerdict publishes *)
(* and every other step is a stutter of the abstract variables.            *)
LEMMA SameOutcomes ==
    ASSUME script' = script, task' = task
    PROVE  UNCHANGED <<script.cur.counter, script.status = "running",
                       [t \in Task |-> Outcome(t)], script.prev>>
  BY DEF Outcome

(* The initial states of Script are initial states of JobRun.              *)
LEMMA AbstractInit == Init => Abstract!Init
  BY DEF Init, Abstract!Init, Outcome, NewWorker, NoResult

(* Every step of Script is a step or a stutter of JobRun.                  *)
LEMMA AbstractStep == IndInv /\ IndInv' /\ [Next]_vars => [Abstract!Next]_(Abstract!vars)
<1> SUFFICES ASSUME IndInv, IndInv', [Next]_vars
             PROVE  Abstract!Next \/ UNCHANGED Abstract!vars
  OBVIOUS
<1>0. TypeOK /\ ControlInv /\ TaskInv
  BY DEF IndInv
<1>a. \A t \in Task : GroupOf[t] \in 1..NumGroups
  BY ScriptAssumption DEF Group
<1>b. AllSucceeded \in BOOLEAN
  BY DEF AllSucceeded
<1>1. CASE StartRun
  <2>1. /\ script.status # "running" /\ script'.status = "running"
        /\ script'.cur.counter = script.cur.counter + 1
        /\ script'.prev = script.prev
    BY <1>0, <1>1, WorkerSwitch DEF StartRun, TypeOK, CanRun
  <2>2. ASSUME NEW t \in Task PROVE Outcome(t)' = "none"
    <3>1. GroupOf[t] < grp
      BY <1>0, <1>a, <1>1, ScriptAssumption DEF StartRun, ControlInv, TypeOK
    <3>2. task'[t].cur.counter = script.cur.counter /\ script.cur.counter \in Nat
      BY <1>0, <1>1, <3>1 DEF StartRun, TaskInv, InPlace, Completed, TypeOK, Workers, Results
    <3> QED BY <2>1, <3>2 DEF Outcome
  <2> QED BY <2>1, <2>2 DEF Abstract!Next, Abstract!Begin
<1>2. CASE PublishVerdict
  <2>1. script.status = "running" /\ IsRunning(script) /\ grp = NumGroups + 1
    BY <1>0, <1>2, ScriptAssumption DEF PublishVerdict, ControlInv, IsRunning, TypeOK
  <2>2. script' = EStatusFinish(script, AllSucceeded) /\ UNCHANGED task
    BY <1>2 DEF PublishVerdict
  <2>3. /\ script'.status = "finished" /\ script'.cur = script'.prev
        /\ script'.prev.counter = script.cur.counter
        /\ script'.prev.success = AllSucceeded
    BY <1>0, <1>b, <2>1, <2>2, WorkerSwitch DEF TypeOK
  <2>4. ASSUME NEW t \in Task
        PROVE  /\ Outcome(t) = IF task[t].cur.success THEN "ok" ELSE "failed"
               /\ Outcome(t)' = Outcome(t)
    <3>1. GroupOf[t] < grp
      BY <1>a, <1>0, <2>1, ScriptAssumption DEF TypeOK
    <3>2. /\ task[t].cur.counter = script.cur.counter
          /\ task[t].status = "finished"
      BY <1>0, <1>2, <3>1
      DEF PublishVerdict, TaskInv, InPlace, Completed, ControlInv, TypeOK, Workers, Results
    <3> QED BY <2>2, <2>3, <3>2 DEF Outcome
  <2>5. script'.prev = [counter |-> script.cur.counter,
                        success |-> \A t \in Task : Outcome(t) = "ok"]
    <3>1. AllSucceeded <=> \A t \in Task : Outcome(t) = "ok"
      BY <2>4 DEF AllSucceeded
    <3>2. script'.prev \in Results
      BY DEF IndInv, TypeOK, Workers
    <3> QED BY <1>b, <2>3, <3>1, <3>2 DEF Results
  <2> QED BY <2>1, <2>3, <2>4, <2>5 DEF Abstract!Next, Abstract!Progress, Abstract!Publish
<1>3. ASSUME NEW t \in Task, EndTask(t) PROVE Abstract!Next
  <2>1. gpc[t] = "ended" /\ script' = script
    BY <1>3 DEF EndTask
  <2>2. /\ GroupOf[t] = grp /\ pc = "waiting" /\ Inside(t) /\ script.status = "running"
        /\ script.cur.counter = script.prev.counter + 1
    BY <2>1, Living
  <2>3. task[t].status = "running" /\ task[t].cur.counter = script.cur.counter
    BY <2>1, <2>2 DEF Inside, Begun
  <2>4. Outcome(t) = "none"
    BY <2>3 DEF Outcome
  <2>5. /\ task'[t].status = "finished" /\ task'[t].cur.counter = script.cur.counter
    <3>1. task'[t] = EStatusFinish(task[t], ret[t])
      BY <1>0, <1>3 DEF EndTask, TypeOK
    <3>2. task[t] \in Workers /\ ret[t] \in BOOLEAN
      BY <1>0 DEF TypeOK
    <3>3. /\ EStatusFinish(task[t], ret[t]).cur = EStatusFinish(task[t], ret[t]).prev
          /\ EStatusFinish(task[t], ret[t]).prev.counter = task[t].cur.counter
          /\ EStatusFinish(task[t], ret[t]).status = "finished"
      BY <2>3, <3>2, WorkerSwitch DEF IsRunning
    <3> QED BY <2>3, <3>1, <3>3
  <2>6. PICK o \in {"ok", "failed"} : Outcome(t)' = o
    BY <2>1, <2>5 DEF Outcome
  <2>7. ASSUME NEW u \in Task, u # t PROVE Outcome(u)' = Outcome(u)
    BY <1>0, <1>3, <2>1, <2>7 DEF EndTask, TypeOK, Outcome
  <2>8. ASSUME NEW u \in Task, GroupOf[u] < GroupOf[t] PROVE Outcome(u) # "none"
    BY <1>0, <2>2, <2>8 DEF TaskInv, InPlace, Completed, Outcome, TypeOK, Workers, Results
  <2>9. [v \in Task |-> Outcome(v)]' = [[v \in Task |-> Outcome(v)] EXCEPT ![t] = o]
    BY <2>6, <2>7
  <2>10. Abstract!Report(t, o)
    BY <2>1, <2>2, <2>4, <2>8, <2>9 DEF Abstract!Report
  <2> QED BY <2>10 DEF Abstract!Next, Abstract!Progress
<1>4. ASSUME NEW t \in Task, StartTask(t) PROVE UNCHANGED Abstract!vars
  <2>1. gpc[t] = "start" /\ script' = script
    BY <1>4 DEF StartTask
  <2>2. Completed(t, script.prev.counter) /\ script.cur.counter = script.prev.counter + 1
    BY <2>1, Living DEF Inside
  <2>3. Outcome(t) = "none"
    BY <1>0, <2>2 DEF Completed, Outcome, TypeOK, Workers, Results
  <2>4. Outcome(t)' = "none"
    <3>1. task'[t].status = "running"
      BY <1>0, <1>4, <2>2, WorkerSwitch DEF StartTask, TypeOK, Completed, CanRun
    <3> QED BY <3>1 DEF Outcome
  <2>5. ASSUME NEW u \in Task, u # t PROVE Outcome(u)' = Outcome(u)
    BY <1>0, <1>4, <2>1, <2>5 DEF StartTask, TypeOK, Outcome
  <2>6. [v \in Task |-> Outcome(v)]' = [v \in Task |-> Outcome(v)]
    BY <2>3, <2>4, <2>5
  <2> QED BY <2>1, <2>6 DEF Abstract!vars
<1>5. CASE script' = script /\ task' = task
  BY <1>5, SameOutcomes DEF Abstract!vars
<1> QED
  BY <1>1, <1>2, <1>3, <1>4, <1>5
  DEF Next, RunStep, TaskStep, StartGroup, EndGroup, FinishNext, FinishCleaned, ReturnFromRun,
      StartProbe, EndProbe, LeaveGroup, WatcherFinish, WatcherEnd, WaitForSchedule, vars

(* Script implements JobRun: runs, outcomes and verdicts come in the order *)
(* JobRun allows. Liveness is left to TLC.                                 *)
THEOREM ImplementsJobRunSafely == Spec => Abstract!Safety
<1>1. Init => Abstract!Init
  BY AbstractInit
<1>2. IndInv /\ IndInv' /\ [Next]_vars => [Abstract!Next]_(Abstract!vars)
  BY AbstractStep
<1> QED BY <1>1, <1>2, Invariance, PTL DEF Spec, Abstract!Safety

-----------------------------------------------------------------------------
(* What a client is told.                                                  *)

(* What may still be asked of a script that is over: if no task has gone   *)
(* on to a later run, the published verdict is that of their results.      *)
Agrees ==
    (\A t \in Task : task[t].prev.counter = script.prev.counter) =>
        script.prev.success = (script.prev.counter > 0 /\ \A t \in Task : task[t].prev.success)

ScriptInv == IndInv /\ Agrees

-----------------------------------------------------------------------------
(* The parts of the response that have been read.                          *)
ScriptRead == at \in {"task", "probe"}
TaskRead(t) == ScriptRead /\ (t < next \/ (t = next /\ at = "probe"))
ProbeRead(t) == ScriptRead /\ t < next

Responses == [script : Results, task : [Task -> Results], probe : [Task -> Results]]

ReaderTypeInv ==
    /\ at \in {"none", "script", "task", "probe"}
    /\ next \in 1..(NumTasks + 1)
    /\ at = "probe" => next \in Task
    /\ ~ScriptRead => next = 1
    /\ answer \in Responses
    /\ served \in Responses

(* No part of a response is ahead of what is published, or, once read,     *)
(* behind the same part of the response before.                            *)
WithinPublished(r) ==
    /\ r.script.counter <= script.prev.counter
    /\ \A t \in Task : /\ r.task[t].counter <= task[t].prev.counter
                       /\ r.probe[t].counter <= probe[t].last.counter

AheadOfServed ==
    /\ ScriptRead => served.script.counter <= answer.script.counter
    /\ \A t \in Task :
         /\ TaskRead(t) => served.task[t].counter <= answer.task[t].counter
         /\ ProbeRead(t) => served.probe[t].counter <= answer.probe[t].counter

(* Of the task whose probe is read next, and of those before it, the       *)
(* result agrees with that of the probe if both are of one run.            *)
PartsInOrder ==
    \A t \in Task :
        /\ TaskRead(t) =>
             /\ answer.script.counter <= answer.task[t].counter
             /\ answer.task[t].counter = probe[t].last.counter => answer.task[t] = probe[t].last
        /\ ProbeRead(t) =>
             /\ answer.task[t].counter <= answer.probe[t].counter
             /\ answer.task[t].counter = answer.probe[t].counter => answer.task[t] = answer.probe[t]

(* What the response will show of a task if the script stands still: then  *)
(* it will be whole.                                                       *)
View(t) == IF TaskRead(t) THEN answer.task[t] ELSE task[t].prev

Whole ==
    ScriptRead /\ (\A t \in Task : View(t).counter = answer.script.counter) =>
        answer.script.success = (answer.script.counter > 0 /\ \A t \in Task : View(t).success)

ReaderInv ==
    /\ ReaderTypeInv
    /\ WithinPublished(answer) /\ WithinPublished(served)
    /\ AheadOfServed
    /\ PartsInOrder
    /\ Whole
    /\ NoStalePart
    /\ WholeIfOneRun

ReportInv == ScriptInv /\ ReaderInv

-----------------------------------------------------------------------------
(* The steps of the script.                                                *)

(* Before its group's verdict a task and its probe may be of two runs; if  *)
(* they are of one they agree.                                             *)
LEMMA PartsAgree ==
    ASSUME IndInv, NEW t \in Task
    PROVE  task[t].prev.counter = probe[t].last.counter => task[t].prev = probe[t].last
<1>1. InPlace(t) /\ GroupOf[t] \in Int /\ grp \in Int
  BY ScriptAssumption DEF IndInv, TaskInv, TypeOK, Group
<1>2. CASE gpc[t] = "none"
  <2>1. Completed(t, script.prev.counter) \/ Completed(t, script.cur.counter)
    BY <1>1, <1>2 DEF InPlace, Inside
  <2> QED BY <2>1 DEF Completed
<1>3. CASE gpc[t] # "none"
  <2>1. Inside(t) /\ script.cur.counter = script.prev.counter + 1 /\ script.prev.counter \in Nat
    BY <1>3, Living DEF IndInv, TypeOK, Workers, Results
  <2> QED BY <2>1 DEF Inside, Begun, Completed
<1> QED BY <1>2, <1>3

(* A task publishes for the run after the one the script has published.    *)
Advances(t) ==
    /\ script' = script
    /\ task[t].prev.counter = script.prev.counter
    /\ task'[t].prev.counter = script.prev.counter + 1

(* Every published result stays as it is or is followed by that of a later *)
(* run.                                                                    *)
PublishedGrow ==
    /\ script'.prev = script.prev \/ PublishVerdict
    /\ script.prev.counter <= script'.prev.counter
    /\ \A t \in Task :
         /\ task'[t].prev = task[t].prev \/ Advances(t)
         /\ probe'[t].last = probe[t].last \/ probe[t].last.counter < probe'[t].last.counter

LEMMA PublishedGrowStep == IndInv /\ [Next]_vars => PublishedGrow
<1> SUFFICES ASSUME IndInv, [Next]_vars PROVE PublishedGrow
  OBVIOUS
<1>0. TypeOK /\ ControlInv /\ script.prev.counter \in Nat /\ AllSucceeded \in BOOLEAN
  BY DEF IndInv, TypeOK, Workers, Results, AllSucceeded
<1>1. CASE StartRun
  <2>1. script'.prev = script.prev
    BY <1>0, <1>1, WorkerSwitch DEF StartRun, TypeOK
  <2> QED BY <1>0, <1>1, <2>1 DEF StartRun, PublishedGrow
<1>2. CASE PublishVerdict
  <2>1. script'.prev.counter = script.prev.counter + 1
    BY <1>0, <1>2, WorkerSwitch DEF PublishVerdict, ControlInv, IsRunning, TypeOK
  <2> QED BY <1>0, <1>2, <2>1 DEF PublishVerdict, PublishedGrow
<1>3. ASSUME NEW t \in Task, StartTask(t) PROVE PublishedGrow
  <2>1. CanRun(task[t])
    BY <1>3, Living DEF StartTask, Inside, Completed, CanRun
  <2>2. task'[t].prev = task[t].prev
    BY <1>0, <1>3, <2>1, WorkerSwitch DEF StartTask, TypeOK
  <2>3. \A u \in Task : task'[u].prev = task[u].prev
    BY <1>0, <1>3, <2>2 DEF StartTask, TypeOK
  <2> QED BY <1>0, <1>3, <2>3 DEF StartTask, PublishedGrow
<1>4. ASSUME NEW t \in Task, EndTask(t) PROVE PublishedGrow
  <2>1. /\ Begun(t) /\ script.cur.counter = script.prev.counter + 1
    BY <1>4, Living DEF EndTask, Inside
  <2>2. task'[t].prev.counter = script.cur.counter
    BY <1>0, <1>4, <2>1, WorkerSwitch DEF EndTask, TypeOK, Begun, IsRunning
  <2>3. Advances(t)
    BY <1>4, <2>1, <2>2 DEF EndTask, Begun, Advances
  <2>4. \A u \in Task : u # t => task'[u] = task[u]
    BY <1>0, <1>4 DEF EndTask, TypeOK
  <2> QED BY <1>0, <1>4, <2>3, <2>4 DEF EndTask, PublishedGrow
<1>5. ASSUME NEW t \in Task, StartProbe(t) PROVE PublishedGrow
  <2>1. \A u \in Task : probe'[u].last = probe[u].last
    BY <1>0, <1>5 DEF StartProbe, TypeOK, Probes
  <2> QED BY <1>0, <1>5, <2>1 DEF StartProbe, PublishedGrow
<1>6. ASSUME NEW t \in Task, EndProbe(t) PROVE PublishedGrow
  <2>1. /\ gpc[t] = "runner" /\ Begun(t) /\ script.cur.counter = script.prev.counter + 1
        /\ probe[t].cur.counter = script.cur.counter /\ probe[t].last = task[t].prev
    BY <1>6, Living DEF EndProbe, Inside
  <2>2. probe'[t].last.counter = probe[t].cur.counter
    BY <1>0, <1>6, ResultType DEF EndProbe, TypeOK, Probes, Returns
  <2>3. probe[t].last.counter < probe'[t].last.counter
    BY <1>0, <2>1, <2>2 DEF Begun
  <2>4. \A u \in Task : u # t => probe'[u] = probe[u]
    BY <1>0, <1>6 DEF EndProbe, TypeOK
  <2> QED BY <1>0, <1>6, <2>3, <2>4 DEF EndProbe, PublishedGrow
<1>7. ASSUME NEW t \in Task, EndWorker(t), UNCHANGED <<script, task>> PROVE PublishedGrow
  BY <1>0, <1>7, EndWorkerKeeps DEF PublishedGrow
<1>8. CASE FinishCleaned
  BY <1>7, <1>8 DEF FinishCleaned
<1>9. CASE UNCHANGED <<script, task, probe>>
  BY <1>0, <1>9 DEF PublishedGrow
<1> QED
  BY <1>1, <1>2, <1>3, <1>4, <1>5, <1>6, <1>7, <1>8, <1>9
  DEF Next, RunStep, TaskStep, StartGroup, EndGroup, FinishNext, ReturnFromRun, LeaveGroup,
      WatcherFinish, WatcherEnd, WaitForSchedule, vars

LEMMA AgreesStep == IndInv /\ Agrees /\ [Next]_vars => Agrees'
<1> SUFFICES ASSUME IndInv, Agrees, [Next]_vars,
                    \A t \in Task : task'[t].prev.counter = script'.prev.counter
             PROVE  script'.prev.success =
                      (script'.prev.counter > 0 /\ \A t \in Task : task'[t].prev.success)
  BY DEF Agrees
<1>0. TypeOK /\ ControlInv /\ TaskInv /\ script.prev.counter \in Nat
  BY DEF IndInv, TypeOK, Workers, Results
<1>1. CASE PublishVerdict
  <2>1. script.cur.counter = script.prev.counter + 1 /\ IsRunning(script) /\ task' = task
    BY <1>0, <1>1 DEF PublishVerdict, ControlInv, IsRunning
  <2>2. AllSucceeded \in BOOLEAN
    BY DEF AllSucceeded
  <2>3. script'.prev.counter = script.cur.counter /\ script'.prev.success = AllSucceeded
    BY <1>0, <1>1, <2>1, <2>2, WorkerSwitch DEF PublishVerdict, TypeOK
  <2>4. ASSUME NEW t \in Task PROVE task[t].cur = task[t].prev
    <3>1. GroupOf[t] < grp
      BY <1>0, <1>1, ScriptAssumption DEF PublishVerdict, TypeOK, Group
    <3> QED BY <1>0, <3>1 DEF TaskInv, InPlace, Completed
  <2>5. AllSucceeded <=> \A t \in Task : task[t].prev.success
    BY <2>4 DEF AllSucceeded
  <2> QED BY <1>0, <2>1, <2>2, <2>3, <2>5
<1>2. CASE script'.prev = script.prev
  <2>1. \A t \in Task : task'[t].prev = task[t].prev
    BY <1>0, <1>2, PublishedGrowStep DEF PublishedGrow, Advances
  <2> QED BY <1>2, <2>1 DEF Agrees
<1> QED BY <1>1, <1>2, PublishedGrowStep DEF PublishedGrow

-----------------------------------------------------------------------------
(* What is published, as the reader sees it.                               *)
LEMMA Published ==
    ASSUME IndInv, NEW t \in Task
    PROVE  /\ script.prev \in Results /\ task[t].prev \in Results /\ probe[t].last \in Results
           /\ script.prev.counter <= task[t].prev.counter
           /\ task[t].prev.counter <= probe[t].last.counter
           /\ task[t].prev.counter = probe[t].last.counter => task[t].prev = probe[t].last
<1>1. script.prev \in Results /\ task[t].prev \in Results /\ probe[t].last \in Results
  BY DEF IndInv, TypeOK, Workers, Probes
<1>2. PublishOrder
  BY CountersInOrder
<1> QED BY <1>1, <1>2, PartsAgree DEF PublishOrder

LEMMA Counters ==
    ASSUME ReaderTypeInv, NEW t \in Task
    PROVE  /\ answer.script.counter \in Nat /\ served.script.counter \in Nat
           /\ answer.task[t].counter \in Nat /\ served.task[t].counter \in Nat
           /\ answer.probe[t].counter \in Nat /\ served.probe[t].counter \in Nat
  BY DEF ReaderTypeInv, Responses, Results

LEMMA BlankResponse ==
    /\ Blank \in Responses
    /\ Blank.script.counter = 0 /\ Blank.script = NoResult
    /\ \A t \in Task : Blank.task[t] = NoResult /\ Blank.probe[t] = NoResult
  BY DEF Blank, NoResult, Responses, Results

(* The script runs on while the reader waits for its next lock.            *)
LEMMA ScriptStepKeepsReader ==
    ASSUME IndInv, ReaderInv, [Next]_vars, UNCHANGED reader
    PROVE  ReaderInv'
<1>0. PublishedGrow /\ at' = at /\ next' = next /\ answer' = answer /\ served' = served
  BY PublishedGrowStep DEF reader
<1>1. ReaderTypeInv'
  BY <1>0 DEF ReaderInv, ReaderTypeInv, ScriptRead
<1>2. /\ script.prev.counter \in Nat /\ script'.prev.counter \in Nat
      /\ script.prev.counter <= script'.prev.counter
  <2>1. TypeOK /\ TypeOK'
    BY TypeStep DEF IndInv
  <2> QED BY <1>0, <2>1 DEF PublishedGrow, TypeOK, Workers, Results
<1>3. ASSUME NEW t \in Task
      PROVE  /\ task[t].prev.counter \in Nat /\ task'[t].prev.counter \in Nat
             /\ probe[t].last.counter \in Nat /\ probe'[t].last.counter \in Nat
             /\ task[t].prev.counter <= task'[t].prev.counter
             /\ probe[t].last.counter <= probe'[t].last.counter
  <2>1. TypeOK /\ TypeOK'
    BY TypeStep DEF IndInv
  <2>2. /\ task[t].prev \in Results /\ task'[t].prev \in Results
        /\ probe[t].last \in Results /\ probe'[t].last \in Results
    BY <2>1 DEF TypeOK, Workers, Probes
  <2> QED BY <1>0, <1>2, <2>2 DEF PublishedGrow, Advances, Results
<1>4. WithinPublished(answer)' /\ WithinPublished(served)'
  <2>1. answer.script.counter \in Nat /\ served.script.counter \in Nat
    BY DEF ReaderInv, ReaderTypeInv, Responses, Results
  <2> QED BY <1>0, <1>2, <1>3, <2>1, Counters DEF ReaderInv, WithinPublished
<1>5. AheadOfServed'
  BY <1>0 DEF ReaderInv, AheadOfServed, ScriptRead, TaskRead, ProbeRead
<1>6. PartsInOrder'
  <2> SUFFICES ASSUME NEW t \in Task, TaskRead(t)
               PROVE  answer.task[t].counter = probe'[t].last.counter
                        => answer.task[t] = probe'[t].last
    BY <1>0 DEF ReaderInv, PartsInOrder, ScriptRead, TaskRead, ProbeRead
  <2>1. answer.task[t].counter <= task[t].prev.counter /\ task[t].prev.counter <= probe[t].last.counter
    BY Published DEF ReaderInv, WithinPublished
  <2>2. answer.task[t].counter \in Nat
    BY Counters DEF ReaderInv
  <2>3. CASE probe'[t].last = probe[t].last
    BY <2>3 DEF ReaderInv, PartsInOrder
  <2>4. CASE probe[t].last.counter < probe'[t].last.counter
    BY <1>3, <2>1, <2>2, <2>4
  <2> QED BY <1>0, <2>3, <2>4 DEF PublishedGrow
<1>7. Whole'
  <2> SUFFICES ASSUME ScriptRead, \A t \in Task : View(t)'.counter = answer.script.counter
               PROVE  answer.script.success =
                        (answer.script.counter > 0 /\ \A t \in Task : View(t)'.success)
    BY <1>0 DEF Whole, ScriptRead
  <2>1. ASSUME NEW t \in Task PROVE View(t)' = View(t)
    <3>1. CASE TaskRead(t)
      BY <1>0, <3>1 DEF View, TaskRead, ScriptRead
    <3>2. CASE ~TaskRead(t)
      <4>1. View(t)' = task'[t].prev /\ View(t) = task[t].prev
        BY <1>0, <3>2 DEF View, TaskRead, ScriptRead
      <4>2. answer.script.counter \in Nat /\ answer.script.counter <= script.prev.counter
        BY DEF ReaderInv, ReaderTypeInv, Responses, Results, WithinPublished
      <4>3. ~Advances(t)
        BY <1>2, <4>1, <4>2 DEF Advances
      <4> QED BY <1>0, <4>1, <4>3 DEF PublishedGrow
    <3> QED BY <3>1, <3>2
  <2> QED BY <2>1 DEF ReaderInv, Whole
<1>8. NoStalePart' /\ WholeIfOneRun'
  BY <1>0 DEF ReaderInv, NoStalePart, WholeIfOneRun, OneRun
<1> QED BY <1>1, <1>4, <1>5, <1>6, <1>7, <1>8 DEF ReaderInv

(* The reader's own steps.                                                 *)
LEMMA ReadStep == ScriptInv /\ ReaderInv /\ Read => ReaderInv'
<1> SUFFICES ASSUME ScriptInv, ReaderInv, Read PROVE ReaderInv'
  OBVIOUS
<1>0. /\ IndInv /\ Agrees
      /\ ReaderTypeInv
      /\ NumTasks \in Nat
      /\ UNCHANGED <<script, task, probe>>
  BY ScriptAssumption
  DEF ScriptInv, ReaderInv, Read, Request, ReadScript, ReadTask, ReadProbe, Respond, vars
<1>a. script.prev \in Results
  BY <1>0 DEF IndInv, TypeOK, Workers
<1>1. CASE Request
  <2>1. ~ScriptRead /\ ~ScriptRead' /\ UNCHANGED <<next, answer, served>>
    BY <1>1 DEF Request, ScriptRead
  <2> QED BY <1>0, <1>1, <2>1
    DEF Request, ReaderInv, ReaderTypeInv, WithinPublished, AheadOfServed, PartsInOrder, Whole,
        TaskRead, ProbeRead, NoStalePart, WholeIfOneRun, OneRun
<1>2. CASE ReadScript
  <2>1. /\ at = "script" /\ at' = "task" /\ next' = next /\ next = 1 /\ served' = served
        /\ answer' = [answer EXCEPT !.script = script.prev]
    BY <1>0, <1>2 DEF ReadScript, ReaderTypeInv, ScriptRead
  <2>2. /\ answer'.script = script.prev /\ answer'.task = answer.task
        /\ answer'.probe = answer.probe /\ answer' \in Responses
    BY <1>0, <1>a, <2>1 DEF ReaderTypeInv, Responses
  <2>3. ScriptRead' /\ \A t \in Task : ~TaskRead(t)' /\ ~ProbeRead(t)'
    BY <2>1 DEF ScriptRead, TaskRead, ProbeRead, Task
  <2>4. ReaderTypeInv'
    BY <1>0, <2>1, <2>2, <2>3 DEF ReaderTypeInv
  <2>5. WithinPublished(answer)' /\ WithinPublished(served)'
    BY <1>0, <1>a, <2>1, <2>2 DEF ReaderInv, WithinPublished, Results
  <2>6. AheadOfServed' /\ PartsInOrder'
    BY <1>0, <2>1, <2>2, <2>3 DEF ReaderInv, AheadOfServed, PartsInOrder, WithinPublished
  <2>7. Whole'
    <3>1. \A t \in Task : View(t)' = task[t].prev
      BY <1>0, <2>3 DEF View
    <3> QED BY <1>0, <2>2, <3>1 DEF Whole, Agrees
  <2> QED BY <2>1, <2>4, <2>5, <2>6, <2>7 DEF ReaderInv, NoStalePart, WholeIfOneRun, OneRun
<1>3. CASE ReadTask
  <2>1. /\ at = "task" /\ at' = "probe" /\ next' = next /\ next \in Task /\ served' = served
        /\ answer' = [answer EXCEPT !.task[next] = task[next].prev]
    BY <1>3 DEF ReadTask
  <2>2. /\ answer'.script = answer.script /\ answer'.probe = answer.probe
        /\ answer'.task = [answer.task EXCEPT ![next] = task[next].prev]
        /\ answer' \in Responses
    BY <1>0, <2>1, Published DEF ReaderTypeInv, Responses
  <2>3. /\ answer'.task[next] = task[next].prev
        /\ \A t \in Task : t # next => answer'.task[t] = answer.task[t]
    BY <1>0, <2>1, <2>2 DEF ReaderTypeInv, Responses
  <2>4. /\ ScriptRead /\ ScriptRead' /\ TaskRead(next)' /\ ~TaskRead(next)
        /\ \A t \in Task : t # next => (TaskRead(t)' <=> TaskRead(t))
        /\ \A t \in Task : (ProbeRead(t)' <=> ProbeRead(t)) /\ (ProbeRead(t) => t # next)
    BY <2>1 DEF ScriptRead, TaskRead, ProbeRead, Task
  <2>5. ReaderTypeInv'
    BY <1>0, <2>1, <2>2, <2>4 DEF ReaderTypeInv
  <2>6. WithinPublished(answer)' /\ WithinPublished(served)'
    <3>1. task[next].prev.counter \in Nat
      BY <1>0, <2>1, Published DEF Results
    <3> QED BY <1>0, <2>1, <2>2, <2>3, <3>1 DEF ReaderInv, WithinPublished
  <2>7. AheadOfServed'
    BY <1>0, <2>1, <2>2, <2>3, <2>4 DEF ReaderInv, AheadOfServed, WithinPublished
  <2>8. PartsInOrder'
    <3>1. /\ answer.script.counter <= task[next].prev.counter
          /\ task[next].prev.counter = probe[next].last.counter => task[next].prev = probe[next].last
      <4>1. answer.script.counter \in Nat /\ script.prev.counter \in Nat /\ task[next].prev.counter \in Nat
        BY <1>0, <2>1, Counters, Published DEF Results
      <4> QED BY <1>0, <2>1, <4>1, Published DEF ReaderInv, WithinPublished
    <3> QED BY <1>0, <2>1, <2>2, <2>3, <2>4, <3>1 DEF ReaderInv, PartsInOrder
  <2>9. Whole'
    <3>1. \A t \in Task : View(t)' = View(t)
      BY <1>0, <2>1, <2>3, <2>4 DEF View
    <3> QED BY <2>2, <2>4, <3>1 DEF ReaderInv, Whole
  <2> QED BY <2>1, <2>5, <2>6, <2>7, <2>8, <2>9 DEF ReaderInv, NoStalePart, WholeIfOneRun, OneRun
<1>4. CASE ReadProbe
  <2>1. /\ at = "probe" /\ at' = "task" /\ next' = next + 1 /\ next \in Task /\ served' = served
        /\ answer' = [answer EXCEPT !.probe[next] = probe[next].last]
    BY <1>0, <1>4 DEF ReadProbe, ReaderTypeInv
  <2>2. /\ answer'.script = answer.script /\ answer'.task = answer.task
        /\ answer'.probe = [answer.probe EXCEPT ![next] = probe[next].last]
        /\ answer' \in Responses
    BY <1>0, <2>1, Published DEF ReaderTypeInv, Responses
  <2>3. /\ answer'.probe[next] = probe[next].last
        /\ \A t \in Task : t # next => answer'.probe[t] = answer.probe[t]
    BY <1>0, <2>1, <2>2 DEF ReaderTypeInv, Responses
  <2>4. /\ ScriptRead /\ ScriptRead' /\ TaskRead(next)
        /\ \A t \in Task : TaskRead(t)' <=> TaskRead(t)
        /\ \A t \in Task : IF t = next THEN ProbeRead(t)' ELSE ProbeRead(t)' <=> ProbeRead(t)
    <3>1. \A t \in Task : /\ t < next' <=> t < next \/ t = next
                          /\ t # next => (t < next' <=> t < next)
      BY <1>0, <2>1 DEF Task
    <3>2. next < next'
      BY <1>0, <2>1 DEF Task
    <3>3. ScriptRead /\ ScriptRead' /\ at # "task" /\ at' # "probe"
      BY <2>1 DEF ScriptRead
    <3>4. \A t \in Task : /\ TaskRead(t)' <=> t < next'
                          /\ TaskRead(t) <=> t < next \/ t = next
                          /\ ProbeRead(t)' <=> t < next'
                          /\ ProbeRead(t) <=> t < next
      BY <2>1, <3>3 DEF TaskRead, ProbeRead
    <3>5. TaskRead(next)
      BY <2>1, <3>4
    <3>6. \A t \in Task : TaskRead(t)' <=> TaskRead(t)
      BY <3>1, <3>4
    <3>7. \A t \in Task : IF t = next THEN ProbeRead(t)' ELSE ProbeRead(t)' <=> ProbeRead(t)
      BY <3>1, <3>2, <3>4
    <3> QED BY <3>3, <3>5, <3>6, <3>7
  <2>5. ReaderTypeInv'
    BY <1>0, <2>1, <2>2, <2>4 DEF ReaderTypeInv, Task
  <2>6. WithinPublished(answer)' /\ WithinPublished(served)'
    <3>1. probe[next].last.counter \in Nat
      BY <1>0, <2>1, Published DEF Results
    <3> QED BY <1>0, <2>1, <2>2, <2>3, <3>1 DEF ReaderInv, WithinPublished
  <2>7. AheadOfServed'
    BY <1>0, <2>1, <2>2, <2>3, <2>4 DEF ReaderInv, AheadOfServed, WithinPublished
  <2>8. PartsInOrder'
    <3>1. /\ answer.task[next].counter <= probe[next].last.counter
          /\ answer.task[next].counter = probe[next].last.counter
               => answer.task[next] = probe[next].last
      <4>1. /\ answer.task[next].counter \in Nat /\ task[next].prev.counter \in Nat
            /\ probe[next].last.counter \in Nat
        BY <1>0, <2>1, Counters, Published DEF Results
      <4> QED BY <1>0, <2>1, <2>4, <4>1, Published DEF ReaderInv, WithinPublished, PartsInOrder
    <3> QED BY <1>0, <2>1, <2>2, <2>3, <2>4, <3>1 DEF ReaderInv, PartsInOrder
  <2>9. Whole'
    <3>1. \A t \in Task : View(t)' = View(t)
      BY <1>0, <2>2, <2>4 DEF View
    <3> QED BY <2>2, <2>4, <3>1 DEF ReaderInv, Whole
  <2> QED BY <2>1, <2>5, <2>6, <2>7, <2>8, <2>9 DEF ReaderInv, NoStalePart, WholeIfOneRun, OneRun
<1>5. CASE Respond
  <2>1. /\ at = "task" /\ at' = "none" /\ next = NumTasks + 1 /\ next' = 1
        /\ served' = answer /\ answer' = Blank
    BY <1>5 DEF Respond
  <2>2. /\ ScriptRead /\ ~ScriptRead'
        /\ \A t \in Task : TaskRead(t) /\ ProbeRead(t) /\ View(t) = answer.task[t]
    BY <1>0, <2>1 DEF ScriptRead, TaskRead, ProbeRead, View, Task
  <2>3. ReaderTypeInv'
    BY <1>0, <2>1, <2>2, BlankResponse DEF ReaderTypeInv, Task
  <2>4. WithinPublished(answer)'
    <3>1. script.prev.counter \in Nat
      BY <1>a DEF Results
    <3>2. \A t \in Task : task[t].prev.counter \in Nat /\ probe[t].last.counter \in Nat
      BY <1>0, Published DEF Results
    <3> QED BY <1>0, <2>1, <3>1, <3>2, BlankResponse DEF WithinPublished, NoResult
  <2>5. WithinPublished(served)'
    BY <1>0, <2>1 DEF ReaderInv, WithinPublished
  <2>6. AheadOfServed' /\ PartsInOrder' /\ Whole'
    BY <2>2 DEF AheadOfServed, PartsInOrder, Whole, TaskRead, ProbeRead
  <2>7. NoStalePart'
    BY <2>1, <2>2 DEF ReaderInv, PartsInOrder, NoStalePart
  <2>8. WholeIfOneRun'
    <3> SUFFICES ASSUME OneRun(answer)
                 PROVE  /\ \A t \in Task : answer.task[t] = answer.probe[t]
                        /\ answer.script.success =
                             (answer.script.counter > 0 /\ \A t \in Task : answer.task[t].success)
      BY <2>1 DEF WholeIfOneRun, OneRun
    <3>1. \A t \in Task : /\ answer.task[t].counter = answer.script.counter
                          /\ answer.probe[t].counter = answer.script.counter
      BY DEF OneRun
    <3>2. \A t \in Task : answer.task[t] = answer.probe[t]
      BY <2>2, <3>1 DEF ReaderInv, PartsInOrder
    <3> QED BY <2>2, <3>1, <3>2 DEF ReaderInv, Whole
  <2> QED BY <2>3, <2>4, <2>5, <2>6, <2>7, <2>8 DEF ReaderInv
<1> QED BY <1>1, <1>2, <1>3, <1>4, <1>5 DEF Read

-----------------------------------------------------------------------------
LEMMA ReportInvInit == ReportInit => ReportInv
<1> SUFFICES ASSUME ReportInit PROVE ReportInv
  OBVIOUS
<1>1. IndInv
  BY InvInit DEF ReportInit
<1>2. script.prev = NoResult /\ \A t \in Task : task[t].prev = NoResult /\ probe[t].last = NoResult
  BY DEF ReportInit, Init, NewWorker, NewProbe
<1>3. Agrees
  <2>1. script.prev.success = FALSE /\ ~(script.prev.counter > 0)
    BY <1>2 DEF NoResult
  <2> QED BY <2>1 DEF Agrees
<1>4. /\ at = "none" /\ next = 1 /\ answer = Blank /\ served = Blank /\ ~ScriptRead
  BY DEF ReportInit, ScriptRead
<1>5. ReaderTypeInv
  BY <1>4, BlankResponse, ScriptAssumption DEF ReaderTypeInv
<1>6. WithinPublished(answer) /\ WithinPublished(served) /\ NoStalePart
  BY <1>2, <1>4, BlankResponse DEF WithinPublished, NoStalePart, NoResult
<1>7. AheadOfServed /\ PartsInOrder /\ Whole
  BY <1>4 DEF AheadOfServed, PartsInOrder, Whole, TaskRead, ProbeRead
<1>8. WholeIfOneRun
  <2>1. served.script.success = FALSE /\ ~(served.script.counter > 0)
    BY <1>4, BlankResponse DEF NoResult
  <2>2. \A t \in Task : served.task[t] = served.probe[t]
    BY <1>4, BlankResponse
  <2> QED BY <2>1, <2>2 DEF WholeIfOneRun
<1> QED BY <1>1, <1>3, <1>5, <1>6, <1>7, <1>8 DEF ReportInv, ScriptInv, ReaderInv

LEMMA ReportInvStep == ReportInv /\ [ReportNext]_<<vars, reader>> => ReportInv'
<1> SUFFICES ASSUME ReportInv, [ReportNext]_<<vars, reader>> PROVE ReportInv'
  OBVIOUS
<1>1. CASE [Next]_vars /\ UNCHANGED reader
  <2>1. IndInv'
    BY <1>1, TypeStep, ControlStep, TaskInvStep, ProbeInvStep DEF IndInv, ReportInv, ScriptInv
  <2> QED BY <1>1, <2>1, AgreesStep, ScriptStepKeepsReader DEF ReportInv, ScriptInv
<1>2. CASE Read
  <2>1. UNCHANGED vars
    BY <1>2 DEF Read, Request, ReadScript, ReadTask, ReadProbe, Respond
  <2>2. IndInv' /\ Agrees'
    BY <2>1, TypeStep, ControlStep, TaskInvStep, ProbeInvStep, AgreesStep
    DEF IndInv, ReportInv, ScriptInv
  <2> QED BY <1>2, <2>2, ReadStep DEF ReportInv, ScriptInv
<1> QED BY <1>1, <1>2 DEF ReportNext

LEMMA ReportInvariance == ReportSpec => []ReportInv
BY ReportInvInit, ReportInvStep, PTL DEF ReportSpec

(* No part of a response is older than the part it stands under, whatever  *)
(* the script does between the reads (script.go: ResultFinished).          *)
THEOREM ResponsesAreFresh == ReportSpec => []NoStalePart
BY ReportInvariance, PTL DEF ReportInv, ReaderInv

(* A response whose parts are all of one run is the result of that run.    *)
THEOREM ResponsesOfOneRunAreWhole == ReportSpec => []WholeIfOneRun
BY ReportInvariance, PTL DEF ReportInv, ReaderInv

(* Successive responses never go back to an earlier run in any part.       *)
THEOREM ResponsesNeverGoBack == ReportSpec => NeverBack
<1>1. ReportInv /\ [ReportNext]_<<vars, reader>> =>
        /\ served.script.counter <= served'.script.counter
        /\ \A t \in Task : /\ served.task[t].counter <= served'.task[t].counter
                           /\ served.probe[t].counter <= served'.probe[t].counter
  <2> SUFFICES ASSUME ReportInv, [ReportNext]_<<vars, reader>>
               PROVE  /\ served.script.counter <= served'.script.counter
                      /\ \A t \in Task : /\ served.task[t].counter <= served'.task[t].counter
                                         /\ served.probe[t].counter <= served'.probe[t].counter
    OBVIOUS
  <2>1. CASE Respond
    <3>1. ScriptRead /\ served' = answer /\ \A t \in Task : TaskRead(t) /\ ProbeRead(t)
      BY <2>1, ScriptAssumption DEF Respond, ScriptRead, TaskRead, ProbeRead, Task
    <3> QED BY <3>1 DEF ReportInv, ReaderInv, AheadOfServed
  <2>2. CASE served' = served
    <3>1. served.script.counter \in Nat
      BY DEF ReportInv, ReaderInv, ReaderTypeInv, Responses, Results
    <3> QED BY <2>2, <3>1, Counters DEF ReportInv, ReaderInv
  <2> QED
    BY <2>1, <2>2 DEF ReportNext, Read, Request, ReadScript, ReadTask, ReadProbe, reader
<1> QED BY <1>1, ReportInvariance, PTL DEF ReportSpec, NeverBack

=============================================================================
