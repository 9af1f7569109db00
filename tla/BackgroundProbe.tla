-------------------------- MODULE BackgroundProbe --------------------------
(***************************************************************************)
(* One cmd or openvpn probe with StayBackground, run by run: its operating *)
(* system processes, the field c.cmd that runner, cleanup and watchers     *)
(* share without a lock, and the watcher goroutine each successful run     *)
(* leaves behind.  Script.tla sees a probe as a status, a handle and a     *)
(* number of watchers; here every access to c.cmd that another goroutine   *)
(* can come between is a step of its own.                                  *)
(*                                                                         *)
(* Run n starts process n at most, so a run number also names the go-cmd   *)
(* object of that run; 0 is nil.  The rest of the script is the control    *)
(* point "others".  Within "c.cmd = New(); c.cmd.Start()" (cmd.go:62-64)   *)
(* and "if c.cmd != nil { c.cmd.Stop() }" (cmd.go:208-209) the compiled    *)
(* code keeps the pointer it has just stored or loaded; everywhere else    *)
(* the field is read anew.                                                 *)
(***************************************************************************)
EXTENDS Naturals, Runners

CONSTANT MaxRuns   \* bound: runs the scheduler starts

ASSUME BackgroundAssumption == MaxRuns \in Nat

Run == 1..MaxRuns
Handle == 0..MaxRuns

VARIABLES
    kind,       \* which of the two probes this is
    quiet,      \* an assumption about the schedule: a run starts only when
                \* the watchers of the earlier runs are done
    run,        \* number of the run under way or last returned
    pc,         \* control point of that run
    cmd,        \* c.cmd
    proc,       \* process of each run: "none", "starting", "unstarted" (it
                \* could not be), "alive", "stopping", "dead"
    ok,         \* what the runner of this run returns
    queued,     \* is the probe in probesStayedAlive
    wpc,        \* control point of each run's watcher
    wobj,       \* the go-cmd object that watcher reads from
    cancelled,  \* the job's context is done
    crashed,    \* a goroutine without recover dereferenced nil
    lost        \* history: runs whose last Stop came before the process

vars == <<kind, quiet, run, pc, cmd, proc, ok, queued, wpc, wobj, cancelled, crashed, lost>>

Init == /\ kind \in {"cmd", "openvpn"}
        /\ quiet \in BOOLEAN
        /\ run = 0
        /\ pc = "idle"
        /\ cmd = 0
        /\ proc = [n \in Run |-> "none"]
        /\ ok = FALSE
        /\ queued = FALSE
        /\ wpc = [n \in Run |-> "none"]
        /\ wobj = [n \in Run |-> 0]
        /\ cancelled = FALSE
        /\ crashed = FALSE
        /\ lost = {}

(* go-cmd's Stop: SIGTERM to a process that runs, else nothing; it does    *)
(* not wait.  Start only spawns the goroutine that will start the process, *)
(* and a Stop that comes before it has is an error that nobody remembers.  *)
Stop(n) ==
    /\ proc' = [proc EXCEPT ![n] = IF @ = "alive" THEN "stopping" ELSE @]
    /\ lost' = IF proc[n] = "starting" THEN lost \cup {n} ELSE lost \ {n}

Over(n) == proc[n] \in {"unstarted", "dead"}

-----------------------------------------------------------------------------
(* The run: scheduler, runner, script, cleanup *)

StartRun ==
    /\ pc = "idle"
    /\ run < MaxRuns
    /\ ~cancelled
    /\ quiet => \A n \in Run : wpc[n] \in {"none", "done"}
    /\ run' = run + 1
    /\ ok' = FALSE
    /\ pc' = "check"
    /\ UNCHANGED <<kind, quiet, cmd, proc, queued, wpc, wobj, cancelled, crashed, lost>>

(* The guard against a second process; openvpn also checks its             *)
(* configuration and its temporary file here.                              *)
RefuseStart ==
    /\ pc = "check"
    /\ cmd # 0 \/ kind = "openvpn"
    /\ pc' = "report"
    /\ UNCHANGED <<kind, quiet, run, cmd, proc, ok, queued, wpc, wobj, cancelled, crashed, lost>>

(* cmd stores the handle before it starts the process, openvpn keeps the   *)
(* process to itself until openvpnStart returns.                           *)
AcceptStart ==
    /\ pc = "check"
    /\ cmd = 0
    /\ cmd' = IF kind = "cmd" THEN run ELSE cmd
    /\ pc' = "launch"
    /\ UNCHANGED <<kind, quiet, run, proc, ok, queued, wpc, wobj, cancelled, crashed, lost>>

(* Start of go-cmd returns at once; the process comes later, or never.     *)
Launch ==
    /\ pc = "launch"
    /\ proc' = [proc EXCEPT ![run] = "starting"]
    /\ pc' = "wait"
    /\ UNCHANGED <<kind, quiet, run, cmd, ok, queued, wpc, wobj, cancelled, crashed, lost>>

(* cmd's wait loop.  A timeout is the success, whatever has become of the  *)
(* process (CmdProbe looks at that closer); an exit or a cancelled         *)
(* context fails and leaves the handle as it is; and the loop evaluates    *)
(* c.cmd.Stdout each time round, so a handle that somebody dropped is a    *)
(* panic, which ProbeHandler.Start recovers.                               *)
(*                                                                         *)
(* Mutant: an accepted process gets no watcher.                            *)
CmdTimeoutUnwatched ==
    /\ kind = "cmd" /\ pc = "wait"
    /\ ok' = TRUE
    /\ pc' = "report"
    /\ UNCHANGED <<kind, quiet, run, cmd, proc, queued, wpc, wobj, cancelled, crashed, lost>>

CmdTimeout ==
    /\ kind = "cmd" /\ pc = "wait"
    /\ ok' = TRUE
    /\ pc' = "watch"
    /\ UNCHANGED <<kind, quiet, run, cmd, proc, queued, wpc, wobj, cancelled, crashed, lost>>

CmdFails ==
    /\ kind = "cmd" /\ pc = "wait"
    /\ proc[run] = "dead" \/ cancelled \/ cmd = 0
    /\ pc' = "report"
    /\ UNCHANGED <<kind, quiet, run, cmd, proc, ok, queued, wpc, wobj, cancelled, crashed, lost>>

(* Mutant: the watcher is started before c.cmd is assigned.                *)
VpnConnectedUnassigned ==
    /\ kind = "openvpn" /\ pc = "wait"
    /\ proc[run] \notin {"starting", "unstarted"}
    /\ ok' = TRUE
    /\ pc' = "watch"
    /\ UNCHANGED <<kind, quiet, run, cmd, proc, queued, wpc, wobj, cancelled, crashed, lost>>

(* openvpnStart: the success is a line of output, read perhaps when the    *)
(* process has ended; on a timeout, a refused connection or a cancelled    *)
(* context it stops the process itself.                                    *)
VpnConnected ==
    /\ kind = "openvpn" /\ pc = "wait"
    /\ proc[run] \notin {"starting", "unstarted"}
    /\ ok' = TRUE
    /\ pc' = "assign"
    /\ UNCHANGED <<kind, quiet, run, cmd, proc, queued, wpc, wobj, cancelled, crashed, lost>>

VpnFails ==
    /\ kind = "openvpn" /\ pc = "wait"
    /\ \/ proc[run] = "dead" /\ UNCHANGED <<proc, lost>>
       \/ Stop(run)
    /\ pc' = "assign"
    /\ UNCHANGED <<kind, quiet, run, cmd, ok, queued, wpc, wobj, cancelled, crashed>>

VpnAssign ==
    /\ pc = "assign"
    /\ cmd' = run
    /\ pc' = IF ok THEN "watch" ELSE "report"
    /\ UNCHANGED <<kind, quiet, run, proc, ok, queued, wpc, wobj, cancelled, crashed, lost>>

(* The watcher is handed c.cmd as it is now; it dereferences it at once.   *)
SpawnWatcher ==
    /\ pc = "watch"
    /\ wobj' = [wobj EXCEPT ![run] = cmd]
    /\ wpc' = [wpc EXCEPT ![run] = "reading"]
    /\ crashed' = (cmd = 0)
    /\ pc' = "report"
    /\ UNCHANGED <<kind, quiet, run, cmd, proc, ok, queued, cancelled, lost>>

(* Mutant: only a failed probe is queued for the cleanup.                  *)
ReportAliveFailed ==
    /\ pc = "report"
    /\ queued' = (cmd # 0 /\ ~ok)
    /\ pc' = "others"
    /\ UNCHANGED <<kind, quiet, run, cmd, proc, ok, wpc, wobj, cancelled, crashed, lost>>

(* runCgroup queues the probe if it still is alive.                        *)
ReportAlive ==
    /\ pc = "report"
    /\ queued' = (cmd # 0)
    /\ pc' = "others"
    /\ UNCHANGED <<kind, quiet, run, cmd, proc, ok, wpc, wobj, cancelled, crashed, lost>>

(* The script's other tasks are done: cleanup finishes the queued probe.   *)
EndScript ==
    /\ pc = "others"
    /\ pc' = IF queued THEN "finish" ELSE "idle"
    /\ queued' = FALSE
    /\ UNCHANGED <<kind, quiet, run, cmd, proc, ok, wpc, wobj, cancelled, crashed, lost>>

(* Mutants: the finisher drops the handle and stops nothing; it stops the  *)
(* process and keeps the handle.                                           *)
CleanupStopNothing ==
    /\ pc = "finish"
    /\ pc' = IF cmd = 0 THEN "idle" ELSE "clear"
    /\ UNCHANGED <<kind, quiet, run, cmd, proc, ok, queued, wpc, wobj, cancelled, crashed, lost>>

CleanupClearNothing ==
    /\ pc = "clear"
    /\ pc' = "idle"
    /\ UNCHANGED <<kind, quiet, run, cmd, proc, ok, queued, wpc, wobj, cancelled, crashed, lost>>

(* Finisher: stop what c.cmd is, then set it to nil.                       *)
CleanupStop ==
    /\ pc = "finish"
    /\ IF cmd = 0 THEN pc' = "idle" /\ UNCHANGED <<proc, lost>> ELSE pc' = "clear" /\ Stop(cmd)
    /\ UNCHANGED <<kind, quiet, run, cmd, ok, queued, wpc, wobj, cancelled, crashed>>

CleanupClear ==
    /\ pc = "clear"
    /\ cmd' = 0
    /\ pc' = "idle"
    /\ UNCHANGED <<kind, quiet, run, proc, ok, queued, wpc, wobj, cancelled, crashed, lost>>

-----------------------------------------------------------------------------
(* The watcher of run n: reads until its process has ended and the output  *)
(* channels are closed, then calls the same Finisher.                      *)
(*                                                                         *)
(* Mutant: the watcher does not wait for the channels to be closed.        *)
WatcherStopEarly(n) ==
    /\ wpc[n] = "reading"
    /\ IF cmd = 0
       THEN wpc' = [wpc EXCEPT ![n] = "done"] /\ UNCHANGED <<proc, lost>>
       ELSE wpc' = [wpc EXCEPT ![n] = "clear"] /\ Stop(cmd)
    /\ UNCHANGED <<kind, quiet, run, pc, cmd, ok, queued, wobj, cancelled, crashed>>

WatcherStop(n) ==
    /\ wpc[n] = "reading"
    /\ wobj[n] # 0 /\ Over(wobj[n])
    /\ IF cmd = 0
       THEN wpc' = [wpc EXCEPT ![n] = "done"] /\ UNCHANGED <<proc, lost>>
       ELSE wpc' = [wpc EXCEPT ![n] = "clear"] /\ Stop(cmd)
    /\ UNCHANGED <<kind, quiet, run, pc, cmd, ok, queued, wobj, cancelled, crashed>>

WatcherClear(n) ==
    /\ wpc[n] = "clear"
    /\ cmd' = 0
    /\ wpc' = [wpc EXCEPT ![n] = "done"]
    /\ UNCHANGED <<kind, quiet, run, pc, proc, ok, queued, wobj, cancelled, crashed, lost>>

-----------------------------------------------------------------------------
(* The operating system and the scheduler's shutdown *)

(* The goroutine that Start spawned has started the process, or could not. *)
ProcessStarts(n) ==
    /\ proc[n] = "starting"
    /\ proc' = [proc EXCEPT ![n] = "alive"]
    /\ UNCHANGED <<kind, quiet, run, pc, cmd, ok, queued, wpc, wobj, cancelled, crashed, lost>>

CannotStart(n) ==
    /\ proc[n] = "starting"
    /\ proc' = [proc EXCEPT ![n] = "unstarted"]
    /\ UNCHANGED <<kind, quiet, run, pc, cmd, ok, queued, wpc, wobj, cancelled, crashed, lost>>

(* A process ends by itself, at any time.                                  *)
ProcessExits(n) ==
    /\ proc[n] = "alive"
    /\ proc' = [proc EXCEPT ![n] = "dead"]
    /\ UNCHANGED <<kind, quiet, run, pc, cmd, ok, queued, wpc, wobj, cancelled, crashed, lost>>

(* A process that was sent SIGTERM ends.                                   *)
ProcessDies(n) ==
    /\ proc[n] = "stopping"
    /\ proc' = [proc EXCEPT ![n] = "dead"]
    /\ UNCHANGED <<kind, quiet, run, pc, cmd, ok, queued, wpc, wobj, cancelled, crashed, lost>>

Cancel ==
    /\ ~cancelled
    /\ cancelled' = TRUE
    /\ UNCHANGED <<kind, quiet, run, pc, cmd, proc, ok, queued, wpc, wobj, crashed, lost>>

(* Nothing happens after a crash; between two runs the scheduler waits.    *)
Rest == (crashed \/ pc = "idle") /\ UNCHANGED vars

-----------------------------------------------------------------------------
RunnerStep == \/ RefuseStart \/ AcceptStart \/ Launch
              \/ CmdTimeout \/ CmdFails \/ VpnConnected \/ VpnFails \/ VpnAssign
              \/ SpawnWatcher
RunStep == ~crashed /\ (RunnerStep \/ ReportAlive \/ EndScript \/ CleanupStop \/ CleanupClear)
WatcherStep(n) == ~crashed /\ (WatcherStop(n) \/ WatcherClear(n))
ProcessStep(n) == ProcessStarts(n) \/ CannotStart(n) \/ ProcessExits(n) \/ ProcessDies(n)

Next == \/ ~crashed /\ StartRun
        \/ RunStep
        \/ \E n \in Run : WatcherStep(n) \/ ProcessStep(n)
        \/ ~crashed /\ Cancel
        \/ Rest

(* The goroutines run, go-cmd's included, the runner's timeout comes, and  *)
(* a process that was sent SIGTERM ends; none need end by itself.          *)
Fairness == /\ WF_vars(RunStep)
            /\ \A n \in Run : /\ WF_vars(WatcherStep(n))
                               /\ WF_vars(ProcessStarts(n) \/ CannotStart(n))
                               /\ WF_vars(ProcessDies(n))

Spec == Init /\ [][Next]_vars /\ Fairness

-----------------------------------------------------------------------------
(* Between two runs the probe holds no handle, whoever finished it and in  *)
(* whatever order, so the next run is not refused.                         *)
NoHandleBetweenRuns == pc \in {"idle", "check"} => cmd = 0

(* The process of a run runs, and the run is over.                         *)
Outlives(n) == proc[n] = "alive" /\ (n # run \/ pc = "idle")

(* script.go:68 finishes the background probes that stayed alive.  There   *)
(* is one way past that which needs no other run: the cleanup's Stop may   *)
(* come before go-cmd has started the process, as after a cancelled        *)
(* context; it is lost, and the handle dropped (lost).  That would be the  *)
(* only way a process outlives its run.  It is not, of runs that meet: a   *)
(* watcher that comes late drops the handle of the next run's process.     *)
OutlivesIfLost == \A n \in Run : Outlives(n) => n \in lost

(* When the runs keep away from each other there is no other way: neither  *)
(* a failed start, nor a process that ends while it is accepted, nor one   *)
(* of an earlier run that still is dying, makes the cleanup miss one that  *)
(* runs or is going to.                                                    *)
NoOrphan ==
    quiet => \A n \in Run : proc[n] \in {"starting", "alive"} =>
                 (n = run /\ pc # "idle") \/ n \in lost

(* A watcher is never handed a nil handle: nothing drops the handle while  *)
(* the runner is about to accept the process.                              *)
NoCrash == quiet => ~crashed

(* probe.go: the finisher is called by cleanup code at the script end.  A  *)
(* process that runs is stopped by the cleanup of its own run, or by       *)
(* openvpnStart before it was accepted, and by nobody else.                *)
StoppedAtScriptEnd ==
    [][quiet => \A n \in Run : proc[n] = "alive" /\ proc'[n] = "stopping" =>
          n = run /\ (pc = "finish" \/ (kind = "openvpn" /\ pc = "wait"))]_vars

(* What Script assumes of the runners of cmd and openvpn holds however the *)
(* runs meet: a run returns with the verdict, the handle and the watcher   *)
(* that the contract (Runners) puts together.  Whether the runner has set  *)
(* the probe's error is not told apart here.                               *)
ReturnsByContract ==
    [][pc # "report" /\ pc' = "report" /\ ~crashed' => \E r \in Returns :
          /\ r.succ = ok' /\ r.keeps = (cmd' # 0) /\ r.watch = (wpc'[run] # "none")
          /\ IF kind = "cmd" THEN CmdStayReturn(cmd # 0, r) ELSE VpnStayReturn(r)]_vars

(* Every background process ends, and so does every watcher, but for those *)
(* of a process that was not there when it was to be stopped.              *)
BackgroundEnds ==
    \A n \in Run : quiet /\ (proc[n] \in {"starting", "alive"} \/ wpc[n] = "reading")
                      ~> (Over(n) /\ wpc[n] \in {"none", "done"}) \/ n \in lost

=============================================================================
