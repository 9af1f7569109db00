--------------------------- MODULE BackgroundProofs ---------------------------
(***************************************************************************)
(* Proofs about BackgroundProbe, for both probes and any number of runs.   *)
(***************************************************************************)
EXTENDS BackgroundProbe, TLAPS

Places == {"idle", "check", "launch", "wait", "assign", "watch", "report", "others",
           "finish", "clear"}
Processes == {"none", "starting", "unstarted", "alive", "stopping", "dead"}

BackgroundTypeInv ==
    /\ kind \in {"cmd", "openvpn"}
    /\ quiet \in BOOLEAN
    /\ run \in Handle
    /\ pc \in Places
    /\ cmd \in Handle
    /\ proc \in [Run -> Processes]
    /\ ok \in BOOLEAN
    /\ queued \in BOOLEAN
    /\ wpc \in [Run -> {"none", "reading", "clear", "done"}]
    /\ wobj \in [Run -> Handle]
    /\ pc # "idle" => run # 0

(* Whoever drops the handle, a run sets it only after its check, and does  *)
(* not forget one: at its end the handle is dropped or the probe queued.   *)
HandleInv ==
    /\ pc \in {"idle", "check"} => cmd = 0
    /\ pc = "others" /\ ~queued => cmd = 0

(* The verdict and the watcher of the run under way at each place of it;   *)
(* a later run has no watcher yet.                                         *)
ReturnInv ==
    /\ \A n \in Run : n > run => wpc[n] = "none"
    /\ pc \in {"check", "launch", "wait", "assign", "watch"} => wpc[run] = "none"
    /\ pc \in {"check", "launch", "wait"} => ~ok
    /\ pc = "watch" => ok
    /\ pc = "assign" => kind = "openvpn"

(* The process runs, or is going to.                                       *)
Runs(n) == proc[n] \in {"starting", "alive"}

(* With quiet, the run under way is the only one with a watcher, the       *)
(* handle is its own, and a process that an earlier run has left running   *)
(* is one whose Stop was lost.                                             *)
Alone ==
    /\ cmd \in {0, run}
    /\ \A n \in Run : n # run => wpc[n] \in {"none", "done"}
    /\ \A n \in Run : n # run /\ Runs(n) => n \in lost
    /\ \A n \in Run : n > run => proc[n] = "none" /\ wpc[n] = "none"

(* The process of that run at each place of the run: it runs only while a  *)
(* later place stops it, or when stopping it came too early.               *)
ProcessInPlace ==
    run # 0 =>
        /\ pc \in {"check", "launch"} => proc[run] = "none"
        /\ pc \in {"idle", "clear"} /\ Runs(run) => run \in lost
        /\ pc \in {"report", "others", "finish"} /\ Runs(run) => cmd = run
        /\ pc = "assign" => kind = "openvpn"
        /\ pc \in {"launch", "wait"} /\ kind = "cmd" => cmd = run
        /\ pc = "watch" => cmd = run

(* Its watcher comes late enough: it has the process of the run at hand,   *)
(* and has finished reading only when that process has ended.              *)
WatcherInPlace ==
    run # 0 =>
        /\ pc \in {"check", "launch", "wait", "assign", "watch"} => wpc[run] = "none"
        /\ wpc[run] # "none" => wobj[run] = run
        /\ wpc[run] \in {"clear", "done"} => Over(run)

QuietInv == Alone /\ ProcessInPlace /\ WatcherInPlace /\ ~crashed

BackgroundInv == BackgroundTypeInv /\ HandleInv /\ ReturnInv /\ (quiet => QuietInv)

-----------------------------------------------------------------------------
(* Stop makes no process alive and changes no other process; one that is   *)
(* alive later was not there yet.                                          *)
LEMMA StopOnly ==
    ASSUME BackgroundTypeInv, NEW n \in Run, Stop(n)
    PROVE  /\ proc' \in [Run -> Processes]
           /\ proc'[n] = IF proc[n] = "alive" THEN "stopping" ELSE proc[n]
           /\ \A m \in Run : m # n => proc'[m] = proc[m] /\ (m \in lost' <=> m \in lost)
           /\ Runs(n)' => n \in lost'
  BY DEF BackgroundTypeInv, Stop, Processes, Runs

(* Every step keeps every variable in its range.                           *)
LEMMA TypeInit == Init => BackgroundTypeInv
<1>1. 0 \in Handle
  BY BackgroundAssumption DEF Handle
<1> QED BY <1>1 DEF Init, BackgroundTypeInv, Places, Processes

LEMMA TypeStep == BackgroundTypeInv /\ [Next]_vars => BackgroundTypeInv'
<1> SUFFICES ASSUME BackgroundTypeInv, [Next]_vars PROVE BackgroundTypeInv'
  OBVIOUS
<1> USE BackgroundAssumption
<1>0. run # 0 => run \in Run
  BY DEF BackgroundTypeInv, Run, Handle
<1>1. CASE StartRun
  <2>1. run' \in Handle /\ run' # 0
    BY <1>1 DEF StartRun, BackgroundTypeInv, Handle
  <2> QED BY <1>1, <2>1 DEF StartRun, BackgroundTypeInv, Places
<1>2. CASE RefuseStart \/ AcceptStart \/ Launch \/ CmdTimeout \/ CmdFails \/ VpnConnected
  BY <1>2
  DEF RefuseStart, AcceptStart, Launch, CmdTimeout, CmdFails, VpnConnected,
      BackgroundTypeInv, Places, Processes
<1>3. CASE VpnFails
  BY <1>0, <1>3, StopOnly DEF VpnFails, BackgroundTypeInv, Places
<1>4. CASE VpnAssign \/ SpawnWatcher \/ ReportAlive \/ EndScript
  BY <1>0, <1>4 DEF VpnAssign, SpawnWatcher, ReportAlive, EndScript, BackgroundTypeInv, Places
<1>5. CASE CleanupStop \/ CleanupClear
  <2>1. cmd # 0 => cmd \in Run
    BY DEF BackgroundTypeInv, Run, Handle
  <2> QED BY <1>0, <1>5, <2>1, StopOnly DEF CleanupStop, CleanupClear, BackgroundTypeInv, Places, Handle
<1>6. ASSUME NEW n \in Run, WatcherStop(n) \/ WatcherClear(n) PROVE BackgroundTypeInv'
  <2>1. cmd # 0 => cmd \in Run
    BY DEF BackgroundTypeInv, Run, Handle
  <2>2. proc' \in [Run -> Processes]
    BY <1>6, <2>1, StopOnly DEF WatcherStop, WatcherClear, BackgroundTypeInv
  <2>3. wpc' \in [Run -> {"none", "reading", "clear", "done"}] /\ cmd' \in Handle
    BY <1>6 DEF WatcherStop, WatcherClear, BackgroundTypeInv, Handle
  <2> QED BY <1>6, <2>2, <2>3 DEF WatcherStop, WatcherClear, BackgroundTypeInv
<1>7. ASSUME NEW n \in Run, ProcessStep(n) PROVE BackgroundTypeInv'
  BY <1>7 DEF ProcessStep, ProcessStarts, CannotStart, ProcessExits, ProcessDies, BackgroundTypeInv,
              Processes
<1>8. CASE Cancel
  BY <1>8 DEF Cancel, BackgroundTypeInv
<1>9. CASE UNCHANGED vars
  BY <1>9 DEF vars, BackgroundTypeInv
<1> QED
  BY <1>1, <1>2, <1>3, <1>4, <1>5, <1>6, <1>7, <1>8, <1>9
  DEF Next, RunStep, RunnerStep, WatcherStep, Rest

-----------------------------------------------------------------------------
(* A run that begins finds no handle, and one that ends leaves none.       *)
LEMMA HandleStep == HandleInv /\ [Next]_vars => HandleInv'
<1> SUFFICES ASSUME HandleInv, [Next]_vars PROVE HandleInv'
  OBVIOUS
<1>1. CASE StartRun \/ RunnerStep
  BY <1>1
  DEF StartRun, RunnerStep, RefuseStart, AcceptStart, Launch, CmdTimeout, CmdFails,
      VpnConnected, VpnFails, VpnAssign, SpawnWatcher, HandleInv
<1>2. CASE ReportAlive \/ EndScript \/ CleanupStop \/ CleanupClear
  BY <1>2 DEF ReportAlive, EndScript, CleanupStop, CleanupClear, HandleInv
<1>3. ASSUME NEW n \in Run, WatcherStep(n) \/ ProcessStep(n)
      PROVE  HandleInv'
  BY <1>3 DEF WatcherStep, WatcherStop, WatcherClear, ProcessStep, ProcessStarts, CannotStart,
              ProcessExits, ProcessDies, HandleInv
<1>4. CASE Cancel \/ UNCHANGED vars
  BY <1>4 DEF Cancel, vars, HandleInv
<1> QED BY <1>1, <1>2, <1>3, <1>4 DEF Next, RunStep, Rest

-----------------------------------------------------------------------------
(* A run that begins has neither verdict nor watcher, and gets both, or    *)
(* none, before it reports.                                                *)
LEMMA ReturnStep == BackgroundTypeInv /\ ReturnInv /\ [Next]_vars => ReturnInv'
<1> SUFFICES ASSUME BackgroundTypeInv, ReturnInv, [Next]_vars PROVE ReturnInv'
  OBVIOUS
<1> USE BackgroundAssumption
<1>0. /\ run \in Nat /\ (run # 0 => run \in Run) /\ (pc # "idle" => run # 0)
      /\ Run \subseteq Nat
  BY DEF BackgroundTypeInv, Run, Handle
<1>1. CASE StartRun
  <2>1. run' = run + 1 /\ run' \in Run /\ pc' = "check" /\ ~ok' /\ wpc' = wpc
    BY <1>0, <1>1 DEF StartRun, Run
  <2> QED BY <1>0, <2>1 DEF ReturnInv
<1>2. CASE RefuseStart \/ AcceptStart \/ Launch \/ CmdTimeout \/ CmdFails \/ VpnConnected
           \/ VpnFails \/ VpnAssign \/ ReportAlive \/ EndScript \/ CleanupStop \/ CleanupClear
  <2>1. UNCHANGED <<kind, run, wpc>>
    BY <1>2
    DEF RefuseStart, AcceptStart, Launch, CmdTimeout, CmdFails, VpnConnected, VpnFails,
        VpnAssign, ReportAlive, EndScript, CleanupStop, CleanupClear
  <2> QED
    BY <1>2, <2>1
    DEF RefuseStart, AcceptStart, Launch, CmdTimeout, CmdFails, VpnConnected, VpnFails,
        VpnAssign, ReportAlive, EndScript, CleanupStop, CleanupClear, ReturnInv
<1>3. CASE SpawnWatcher
  <2>1. /\ pc' = "report" /\ run' = run
        /\ \A n \in Run : n # run => wpc'[n] = wpc[n]
    BY <1>3 DEF SpawnWatcher, BackgroundTypeInv
  <2> QED BY <1>0, <2>1 DEF ReturnInv
<1>4. ASSUME NEW n \in Run, WatcherStop(n) \/ WatcherClear(n) PROVE ReturnInv'
  <2>1. /\ wpc[n] # "none"
        /\ \A m \in Run : m # n => wpc'[m] = wpc[m]
        /\ UNCHANGED <<kind, run, pc, ok>>
    BY <1>4 DEF WatcherStop, WatcherClear, BackgroundTypeInv
  <2> QED BY <1>0, <2>1 DEF ReturnInv
<1>5. ASSUME NEW n \in Run, ProcessStep(n) PROVE ReturnInv'
  BY <1>5 DEF ProcessStep, ProcessStarts, CannotStart, ProcessExits, ProcessDies, ReturnInv
<1>6. CASE Cancel \/ UNCHANGED vars
  BY <1>6 DEF Cancel, vars, ReturnInv
<1> QED
  BY <1>1, <1>2, <1>3, <1>4, <1>5, <1>6
  DEF Next, RunStep, RunnerStep, WatcherStep, Rest

-----------------------------------------------------------------------------
(* What is left alone by a step that touches neither processes, watchers,  *)
(* handle nor run.                                                         *)
Untouched == UNCHANGED <<kind, quiet, run, cmd, proc, wpc, wobj, crashed, lost>>

LEMMA QuietInit == Init => QuietInv
  BY BackgroundAssumption
  DEF Init, QuietInv, Alone, ProcessInPlace, WatcherInPlace, Runs, Run

(* When the runs keep away from each other, every step keeps the process   *)
(* and the watcher of the run under way in their places.                   *)
LEMMA QuietStep ==
    BackgroundTypeInv /\ HandleInv /\ quiet /\ QuietInv /\ [Next]_vars => QuietInv'
<1> SUFFICES ASSUME BackgroundTypeInv, HandleInv, quiet, QuietInv, [Next]_vars
             PROVE  QuietInv'
  OBVIOUS
<1> USE BackgroundAssumption
<1>0. /\ run # 0 => run \in Run
      /\ run \in Nat /\ Run \subseteq Nat \ {0}
      /\ pc # "idle" => run # 0
      /\ cmd # 0 => cmd = run
      /\ ~crashed
  BY DEF BackgroundTypeInv, Run, Handle, QuietInv, Alone
<1>1. CASE StartRun
  <2>1. run' = run + 1 /\ run' \in Run /\ pc = "idle" /\ pc' = "check" /\ cmd = 0
    BY <1>1 DEF StartRun, BackgroundTypeInv, Handle, Run, HandleInv
  <2>2. /\ \A n \in Run : wpc[n] \in {"none", "done"}
        /\ UNCHANGED <<kind, cmd, proc, wpc, wobj, crashed, lost>>
    BY <1>1 DEF StartRun
  <2>3. \A n \in Run : n >= run' => proc[n] = "none" /\ wpc[n] = "none"
    BY <1>0, <2>1 DEF QuietInv, Alone
  <2>4. Alone'
    <3>1. \A n \in Run : Runs(n) => n \in lost
      BY <1>0, <2>1 DEF QuietInv, Alone, ProcessInPlace
    <3> QED BY <1>0, <2>1, <2>2, <2>3, <3>1 DEF Alone, Runs
  <2>5. ProcessInPlace' /\ WatcherInPlace'
    BY <1>0, <2>1, <2>2, <2>3 DEF ProcessInPlace, WatcherInPlace
  <2> QED BY <1>0, <2>2, <2>4, <2>5 DEF QuietInv
<1>2. CASE RefuseStart \/ CmdTimeout \/ CmdFails \/ VpnConnected \/ ReportAlive \/ EndScript
  <2>1. Untouched /\ run # 0
    BY <1>0, <1>2
    DEF RefuseStart, CmdTimeout, CmdFails, VpnConnected, ReportAlive, EndScript, Untouched
  <2>2. Alone'
    BY <2>1 DEF QuietInv, Alone, Runs, Untouched
  <2>3. ProcessInPlace'
    BY <1>0, <1>2, <2>1
    DEF RefuseStart, CmdTimeout, CmdFails, VpnConnected, ReportAlive, EndScript, Untouched,
        QuietInv, ProcessInPlace, HandleInv, Runs
  <2>4. WatcherInPlace'
    BY <1>0, <1>2, <2>1
    DEF RefuseStart, CmdTimeout, CmdFails, VpnConnected, ReportAlive, EndScript, Untouched,
        QuietInv, WatcherInPlace, Over
  <2> QED BY <1>0, <2>1, <2>2, <2>3, <2>4 DEF QuietInv, Untouched
<1>3. CASE AcceptStart
  <2>1. /\ pc = "check" /\ pc' = "launch" /\ cmd' \in {0, run}
        /\ kind = "cmd" => cmd' = run
        /\ UNCHANGED <<kind, quiet, run, proc, wpc, wobj, crashed, lost>>
    BY <1>3 DEF AcceptStart
  <2> QED BY <1>0, <2>1 DEF QuietInv, Alone, Runs, Over, ProcessInPlace, WatcherInPlace
<1>4. CASE Launch
  <2>1. /\ pc = "launch" /\ pc' = "wait" /\ proc'[run] = "starting" /\ run \in Run
        /\ \A n \in Run : n # run => proc'[n] = proc[n]
        /\ UNCHANGED <<kind, quiet, run, cmd, wpc, wobj, crashed, lost>>
    BY <1>0, <1>4 DEF Launch, BackgroundTypeInv
  <2> QED BY <1>0, <2>1 DEF QuietInv, Alone, Runs, Over, ProcessInPlace, WatcherInPlace
<1>5. CASE VpnFails
  <2>1. /\ pc = "wait" /\ pc' = "assign" /\ kind = "openvpn" /\ run \in Run
        /\ \A n \in Run : n # run => proc'[n] = proc[n] /\ (n \in lost' <=> n \in lost)
        /\ UNCHANGED <<kind, quiet, run, cmd, wpc, wobj, crashed>>
    BY <1>0, <1>5, StopOnly DEF VpnFails
  <2> QED BY <1>0, <2>1 DEF QuietInv, Alone, Runs, Over, ProcessInPlace, WatcherInPlace
<1>6. CASE VpnAssign
  <2>1. /\ pc = "assign" /\ pc' \in {"watch", "report"} /\ cmd' = run
        /\ UNCHANGED <<kind, quiet, run, proc, wpc, wobj, crashed, lost>>
    BY <1>6 DEF VpnAssign
  <2> QED BY <1>0, <2>1 DEF QuietInv, Alone, Runs, Over, ProcessInPlace, WatcherInPlace
<1>7. CASE SpawnWatcher
  <2>1. /\ pc = "watch" /\ pc' = "report" /\ run \in Run /\ cmd = run
        /\ wpc'[run] = "reading" /\ wobj'[run] = run /\ ~crashed'
        /\ \A n \in Run : n # run => wpc'[n] = wpc[n]
        /\ UNCHANGED <<kind, quiet, run, cmd, proc, lost>>
    BY <1>0, <1>7 DEF SpawnWatcher, BackgroundTypeInv, QuietInv, ProcessInPlace
  <2> QED BY <1>0, <2>1 DEF QuietInv, Alone, Runs, Over, ProcessInPlace, WatcherInPlace
<1>8. CASE CleanupStop
  <2>1. /\ pc = "finish" /\ run \in Run
        /\ UNCHANGED <<kind, quiet, run, cmd, wpc, wobj, crashed>>
    BY <1>0, <1>8 DEF CleanupStop
  <2>2. CASE cmd = 0
    <3>1. pc' = "idle" /\ proc' = proc /\ lost' = lost
      BY <1>8, <2>2 DEF CleanupStop
    <3> QED BY <1>0, <2>1, <2>2, <3>1 DEF QuietInv, Alone, Runs, Over, ProcessInPlace, WatcherInPlace
  <2>3. CASE cmd = run
    <3>1. /\ pc' = "clear" /\ (Runs(run)' => run \in lost')
          /\ Over(run) => proc'[run] = proc[run]
          /\ \A n \in Run : n # run => proc'[n] = proc[n] /\ (n \in lost' <=> n \in lost)
      BY <1>0, <1>8, <2>1, <2>3, StopOnly DEF CleanupStop, Over
    <3> QED BY <1>0, <2>1, <2>3, <3>1 DEF QuietInv, Alone, Runs, Over, ProcessInPlace, WatcherInPlace
  <2> QED BY <1>0, <2>2, <2>3
<1>9. CASE CleanupClear
  <2>1. /\ pc = "clear" /\ pc' = "idle" /\ cmd' = 0 /\ run \in Run
        /\ UNCHANGED <<kind, quiet, run, proc, wpc, wobj, crashed, lost>>
    BY <1>0, <1>9 DEF CleanupClear
  <2> QED BY <1>0, <2>1 DEF QuietInv, Alone, Runs, Over, ProcessInPlace, WatcherInPlace
<1>10. ASSUME NEW n \in Run, WatcherStop(n) \/ WatcherClear(n) PROVE QuietInv'
  <2>1. n = run /\ Over(run) /\ run \in Run
    BY <1>0, <1>10 DEF WatcherStop, WatcherClear, QuietInv, Alone, WatcherInPlace
  <2>2. proc' = proc /\ \A m \in Run : m # run => (m \in lost' <=> m \in lost)
    <3>1. CASE proc' = proc /\ lost' = lost
      BY <3>1
    <3>2. CASE Stop(cmd) /\ cmd = run
      <4>1. /\ proc'[run] = proc[run]
            /\ \A m \in Run : m # run => proc'[m] = proc[m] /\ (m \in lost' <=> m \in lost)
        BY <2>1, <3>2, StopOnly DEF Over
      <4>2. proc \in [Run -> Processes] /\ proc' \in [Run -> Processes]
        BY <2>1, <3>2, StopOnly DEF BackgroundTypeInv
      <4> QED BY <4>1, <4>2
    <3> QED BY <1>0, <1>10, <3>1, <3>2 DEF WatcherStop, WatcherClear
  <2>3. /\ wpc'[run] \in {"clear", "done"} /\ wobj' = wobj
        /\ wpc[run] \in {"reading", "clear"}
        /\ \A m \in Run : m # run => wpc'[m] = wpc[m]
        /\ cmd' \in {0, cmd}
        /\ UNCHANGED <<kind, quiet, run, pc, crashed>>
    BY <1>0, <1>10, <2>1 DEF WatcherStop, WatcherClear, BackgroundTypeInv
  <2>4. Alone'
    BY <1>0, <2>1, <2>2, <2>3 DEF QuietInv, Alone, Runs
  <2>5. ProcessInPlace'
    BY <1>0, <2>1, <2>2, <2>3 DEF QuietInv, ProcessInPlace, WatcherInPlace, Runs, Over
  <2>6. WatcherInPlace'
    BY <1>0, <2>1, <2>2, <2>3 DEF QuietInv, WatcherInPlace, Over
  <2> QED BY <1>0, <2>3, <2>4, <2>5, <2>6 DEF QuietInv
<1>11. ASSUME NEW n \in Run, ProcessStep(n) PROVE QuietInv'
  <2>1. /\ proc[n] \in {"starting", "alive", "stopping"}
        /\ proc'[n] \in {"alive", "unstarted", "dead"} /\ (Runs(n)' => Runs(n))
        /\ \A m \in Run : m # n => proc'[m] = proc[m]
        /\ UNCHANGED <<kind, quiet, run, pc, cmd, ok, wpc, wobj, crashed, lost>>
    BY <1>11 DEF ProcessStep, ProcessStarts, CannotStart, ProcessExits, ProcessDies,
                 BackgroundTypeInv, Runs
  <2>2. \A m \in Run : /\ Runs(m)' => Runs(m)
                       /\ Over(m) => Over(m)'
                       /\ proc[m] = "none" => proc'[m] = "none"
    BY <2>1 DEF Runs, Over
  <2>3. Alone'
    BY <2>1, <2>2 DEF QuietInv, Alone
  <2>4. ProcessInPlace' /\ WatcherInPlace'
    BY <1>0, <2>1, <2>2 DEF QuietInv, ProcessInPlace, WatcherInPlace
  <2> QED BY <1>0, <2>1, <2>3, <2>4 DEF QuietInv
<1>12. CASE Cancel \/ UNCHANGED vars
  <2>1. Untouched /\ UNCHANGED <<pc, ok>>
    BY <1>12 DEF Cancel, vars, Untouched
  <2> QED BY <2>1 DEF Untouched, QuietInv, Alone, Runs, Over, ProcessInPlace, WatcherInPlace
<1> QED
  BY <1>1, <1>2, <1>3, <1>4, <1>5, <1>6, <1>7, <1>8, <1>9, <1>10, <1>11, <1>12
  DEF Next, RunStep, RunnerStep, WatcherStep, Rest

-----------------------------------------------------------------------------
(* The schedule's assumption is chosen once.                               *)
LEMMA QuietFixed == [Next]_vars => quiet' = quiet
  BY DEF Next, RunStep, RunnerStep, WatcherStep, Rest, StartRun, RefuseStart, AcceptStart, Launch,
         CmdTimeout, CmdFails, VpnConnected, VpnFails, VpnAssign, SpawnWatcher, ReportAlive,
         EndScript, CleanupStop, CleanupClear, WatcherStop, WatcherClear, ProcessStep,
         ProcessStarts, CannotStart, ProcessExits, ProcessDies, Cancel, vars

LEMMA Invariance == Spec => []BackgroundInv
<1>1. Init => BackgroundInv
  BY TypeInit, QuietInit DEF BackgroundInv, HandleInv, ReturnInv, Init
<1>2. BackgroundInv /\ [Next]_vars => BackgroundInv'
  BY TypeStep, HandleStep, ReturnStep, QuietStep, QuietFixed DEF BackgroundInv
<1> QED BY <1>1, <1>2, PTL DEF Spec

(* Without any assumption on the schedule, no run finds the handle of an   *)
(* earlier one (cmd.go, openvpnConnect.go: the check that Runner begins    *)
(* with).                                                                  *)
THEOREM RunsStartWithoutHandle == Spec => []NoHandleBetweenRuns
<1>1. BackgroundInv => NoHandleBetweenRuns
  BY DEF BackgroundInv, HandleInv, NoHandleBetweenRuns
<1> QED BY <1>1, Invariance, PTL

(* When the runs keep away from each other, a process that runs or is      *)
(* going to belongs to a run that is still under way, but for one whose    *)
(* Stop came before go-cmd had started it (Finisher in cmd.go and          *)
(* openvpnConnect.go).                                                     *)
THEOREM NoProcessIsOrphaned == Spec => []NoOrphan
<1>1. BackgroundInv => NoOrphan
  <2> SUFFICES ASSUME BackgroundInv, quiet, NEW n \in Run, Runs(n), n \notin lost
               PROVE  n = run /\ pc # "idle"
    BY DEF NoOrphan, Runs
  <2>1. n = run
    BY DEF BackgroundInv, QuietInv, Alone
  <2>2. run # 0
    BY <2>1, BackgroundAssumption DEF Run
  <2> QED BY <2>1, <2>2 DEF BackgroundInv, QuietInv, ProcessInPlace
<1> QED BY <1>1, Invariance, PTL

(* When the runs keep away from each other, no watcher is handed nil.      *)
THEOREM NoWatcherCrashes == Spec => []NoCrash
<1>1. BackgroundInv => NoCrash
  BY DEF BackgroundInv, QuietInv, NoCrash
<1> QED BY <1>1, Invariance, PTL

(* When the runs keep away from each other, a process that runs is stopped *)
(* only by the cleanup of its own run, or by openvpnStart itself.          *)
THEOREM StoppedByItsOwnRun == Spec => StoppedAtScriptEnd
<1>1. BackgroundInv /\ [Next]_vars =>
        (quiet => \A n \in Run : proc[n] = "alive" /\ proc'[n] = "stopping" =>
          n = run /\ (pc = "finish" \/ (kind = "openvpn" /\ pc = "wait")))
  <2> SUFFICES ASSUME BackgroundInv, [Next]_vars, quiet, NEW n \in Run,
                      proc[n] = "alive", proc'[n] = "stopping"
               PROVE  n = run /\ (pc = "finish" \/ (kind = "openvpn" /\ pc = "wait"))
    OBVIOUS
  <2>1. /\ BackgroundTypeInv /\ cmd \in {0, run} /\ (pc # "idle" => run # 0)
        /\ (run # 0 => run \in Run)
    BY BackgroundAssumption DEF BackgroundInv, QuietInv, Alone, BackgroundTypeInv, Handle, Run
  <2>2. CASE CleanupStop \/ VpnFails
    <3>1. run \in Run /\ (proc' = proc \/ Stop(run))
          /\ (pc = "finish" \/ (kind = "openvpn" /\ pc = "wait"))
      BY <2>1, <2>2 DEF CleanupStop, VpnFails
    <3> QED BY <2>1, <3>1, StopOnly
  <2>3. ASSUME NEW m \in Run, WatcherStop(m) PROVE FALSE
    <3>1. m = run
      BY <2>3 DEF WatcherStop, BackgroundInv, QuietInv, Alone
    <3>2. Over(run) /\ (proc' = proc \/ Stop(run))
      BY <2>1, <2>3, <3>1, BackgroundAssumption
      DEF WatcherStop, BackgroundInv, QuietInv, WatcherInPlace, Run
    <3> QED BY <2>1, <3>1, <3>2, StopOnly DEF Over
  <2>4. ASSUME NEW m \in Run, ProcessStep(m) PROVE FALSE
    BY <2>1, <2>4 DEF ProcessStep, ProcessStarts, CannotStart, ProcessExits, ProcessDies,
                      BackgroundTypeInv
  <2>5. ~Launch
    BY <2>1 DEF Launch, BackgroundTypeInv
  <2>6. proc' # proc
    OBVIOUS
  <2> QED
    BY <2>2, <2>3, <2>4, <2>5, <2>6
    DEF Next, RunStep, RunnerStep, WatcherStep, WatcherClear, Rest, StartRun, RefuseStart,
        AcceptStart, CmdTimeout, CmdFails, VpnConnected, VpnAssign, SpawnWatcher, ReportAlive,
        EndScript, CleanupClear, Cancel, vars
<1> QED BY <1>1, Invariance, PTL DEF Spec, StoppedAtScriptEnd

(* However the runs meet, the runner of a background probe returns as the  *)
(* contract says that Script assumes of it (Runner of cmd.go and           *)
(* openvpnConnect.go).                                                     *)
THEOREM RunnersKeepContracts == Spec => ReturnsByContract
<1>1. BackgroundInv /\ [Next]_vars =>
        (pc # "report" /\ pc' = "report" /\ ~crashed' => \E r \in Returns :
          /\ r.succ = ok' /\ r.keeps = (cmd' # 0) /\ r.watch = (wpc'[run] # "none")
          /\ IF kind = "cmd" THEN CmdStayReturn(cmd # 0, r) ELSE VpnStayReturn(r))
  <2> SUFFICES ASSUME BackgroundInv, [Next]_vars, pc # "report", pc' = "report", ~crashed'
               PROVE  \E r \in Returns :
                        /\ r.succ = ok' /\ r.keeps = (cmd' # 0)
                        /\ r.watch = (wpc'[run] # "none")
                        /\ IF kind = "cmd" THEN CmdStayReturn(cmd # 0, r) ELSE VpnStayReturn(r)
    OBVIOUS
  <2> USE BackgroundAssumption
  <2> DEFINE r == [succ |-> ok', keeps |-> cmd' # 0, err |-> ~ok',
                   watch |-> wpc'[run] # "none"]
  <2>1. RefuseStart \/ CmdFails \/ VpnAssign \/ SpawnWatcher
    BY DEF Next, RunStep, RunnerStep, WatcherStep, Rest, StartRun, RefuseStart, AcceptStart,
           Launch, CmdTimeout, CmdFails, VpnConnected, VpnFails, VpnAssign, SpawnWatcher,
           ReportAlive, EndScript, CleanupStop, CleanupClear, WatcherStop, WatcherClear,
           ProcessStep, ProcessStarts, CannotStart, ProcessExits, ProcessDies, Cancel, vars
  <2>2. /\ BackgroundTypeInv /\ HandleInv /\ ReturnInv
        /\ pc # "idle" /\ run # 0 /\ run \in Run
    BY <2>1
    DEF BackgroundInv, BackgroundTypeInv, Handle, Run, RefuseStart, CmdFails, VpnAssign,
        SpawnWatcher
  <2>3. ok \in BOOLEAN /\ ok' = ok
    BY <2>1, <2>2
    DEF RefuseStart, CmdFails, VpnAssign, SpawnWatcher, BackgroundTypeInv
  <2>4. r \in Returns
    BY <2>3 DEF Returns
  <2>5. CASE RefuseStart \/ CmdFails
    <3>1. /\ ~ok /\ wpc'[run] = "none" /\ cmd' = cmd
          /\ kind = "openvpn" \/ pc = "wait"
      BY <2>2, <2>5 DEF RefuseStart, CmdFails, HandleInv, ReturnInv
    <3> QED BY <2>3, <2>4, <3>1 DEF CmdStayReturn, VpnStayReturn
  <2>6. CASE VpnAssign
    <3>1. ~ok /\ wpc'[run] = "none" /\ kind = "openvpn"
      BY <2>2, <2>6 DEF VpnAssign, ReturnInv
    <3> QED BY <2>3, <2>4, <3>1 DEF VpnStayReturn
  <2>7. CASE SpawnWatcher
    <3>1. ok /\ wpc'[run] = "reading" /\ cmd # 0 /\ cmd' = cmd
      BY <2>2, <2>7 DEF SpawnWatcher, ReturnInv, BackgroundTypeInv
    <3> QED BY <2>3, <2>4, <3>1 DEF CmdStayReturn, VpnStayReturn
  <2> QED BY <2>1, <2>5, <2>6, <2>7
<1> QED BY <1>1, Invariance, PTL DEF Spec, ReturnsByContract

=============================================================================
