----------------------------- MODULE Scheduler -----------------------------
(***************************************************************************)
(* The program.  In oneRun mode main runs one script and exits with its    *)
(* verdict.  As a daemon it starts the scheduler and the web server, adds  *)
(* the jobs of the configuration one by one, watches the files it has read *)
(* if it is asked to, waits for a signal and shuts down.  gocron runs the  *)
(* jobs from the moment each is given to it, clients ask for /job and      *)
(* /jobs from the moment the server listens.                               *)
(*                                                                         *)
(* A run of a script is reduced to its begin and its end.  What becomes of *)
(* its background processes is the subject of BackgroundProbe.             *)
(* A job of the table s.jobs is its number in the configuration; Blank is  *)
(* an element that append has made room for and not yet written.           *)
(***************************************************************************)
EXTENDS Naturals, Sequences, SequencesExt

CONSTANTS NumJobs,
          Accepted,    \* jobs whose schedule gocron accepts
          Once,        \* jobs to be run once
          NameOf,      \* the name of each job
          Watchable,   \* files the watcher can watch: 0 is the configuration
          MaxRuns      \* bound: runs of one job

Jobs == 1..NumJobs

ASSUME SchedulerAssumption == /\ NumJobs \in Nat
                              /\ Accepted \subseteq Jobs
                              /\ Once \subseteq Jobs
                              /\ MaxRuns \in Nat

Blank == 0
None == 0

VARIABLES
    pc,         \* main: where it is, or how the program ended
    next,       \* the job of config.ScheduleJobs it is at
    web,        \* the goroutine of the web server
    table,      \* s.jobs
    cron,       \* jobs given to gocron
    run,        \* is the job under way
    runs,       \* how often it began
    stopped,    \* gocron: "no", "waiting" in s.Stop(), "done"
    late,       \* ShutdownWaitingTimeout has passed
    job,        \* a request for /job
    jobs,       \* a request for /jobs
    mode,       \* StartupMode: "oneRun" or "daemon"
    watch,      \* ExitOnConfigChange
    single,     \* the run of oneRun mode
    watched,    \* files the file watcher watches
    notified    \* it has been told of a change and not yet handled it

shellVars == <<mode, watch, single, watched, notified>>
vars == <<pc, next, web, table, cron, run, runs, stopped, late, job, jobs, shellVars>>
mainVars == <<pc, next, table, cron>>
runVars == <<run, runs>>
requests == <<job, jobs>>

(* The ways the program can end: its exit codes, and a signal.             *)
Ended == {"ExitOk", "ExitFailed", "ExitErrConfig", "killed"}
Up == pc \notin Ended
AddsJobs == {"serve", "add", "append", "store"}
ShutsDown == {"stopping", "closing", "unwatching"}
StartedUp == pc \notin {"startup"} \cup AddsJobs

ConfigFile == 0
Files == {ConfigFile} \cup Jobs

Names == {NameOf[j] : j \in Jobs}

Init == /\ pc = "startup"
        /\ next = 1
        /\ web = "starting"
        /\ table = <<>>
        /\ cron = {}
        /\ run = [j \in Jobs |-> FALSE]
        /\ runs = [j \in Jobs |-> 0]
        /\ stopped = "no"
        /\ late = FALSE
        /\ job = [state |-> "none", name |-> None, found |-> None, early |-> FALSE]
        /\ jobs = [state |-> "none", len |-> 0, list |-> <<>>, early |-> FALSE]
        /\ mode \in {"oneRun", "daemon"}
        /\ watch \in BOOLEAN
        /\ single = "none"
        /\ watched = {}
        /\ notified = FALSE

serviceVars == <<web, runVars, stopped, late, requests>>

-----------------------------------------------------------------------------
(* Startup, and the oneRun mode.                                           *)

(* Wrong options, a file that cannot be read, a load that fails.           *)
RefuseConfiguration ==
    /\ pc = "startup"
    /\ pc' = "ExitErrConfig"
    /\ UNCHANGED <<next, table, cron, serviceVars, shellVars>>

StartDaemon ==
    /\ pc = "startup"
    /\ mode = "daemon"
    /\ pc' = "serve"
    /\ UNCHANGED <<next, table, cron, serviceVars, shellVars>>

StartOneRun ==
    /\ pc = "startup"
    /\ mode = "oneRun"
    /\ pc' = "oneRun"
    /\ single' = "running"
    /\ UNCHANGED <<next, table, cron, serviceVars, mode, watch, watched, notified>>

EndSingle ==
    /\ pc = "oneRun"
    /\ single = "running"
    /\ single' \in {"succeeded", "failed"}
    /\ UNCHANGED <<mainVars, serviceVars, mode, watch, watched, notified>>

(* Mutant: the exit code is read while the run is under way.               *)
ExitWithVerdictEarly ==
    /\ pc = "oneRun"
    /\ pc' = IF single = "succeeded" THEN "ExitOk" ELSE "ExitFailed"
    /\ UNCHANGED <<next, table, cron, serviceVars, shellVars>>

ExitWithVerdict ==
    /\ pc = "oneRun"
    /\ single # "running"
    /\ pc' = IF single = "succeeded" THEN "ExitOk" ELSE "ExitFailed"
    /\ UNCHANGED <<next, table, cron, serviceVars, shellVars>>

-----------------------------------------------------------------------------
(* The web server.  An error that comes before main has waited 100 ms ends *)
(* the program, a later one has no receiver.                               *)

Listen == /\ Up
          /\ pc # "startup" /\ mode = "daemon"
          /\ web = "starting"
          /\ web' = "listening"
          /\ UNCHANGED <<mainVars, runVars, stopped, late, requests, shellVars>>

ServeFails == /\ Up
              /\ pc # "startup" /\ mode = "daemon"
              /\ web \in {"starting", "listening"}
              /\ web' = "error"
              /\ UNCHANGED <<mainVars, runVars, stopped, late, requests, shellVars>>

ServeRefused == /\ pc = "serve"
                /\ web = "error"
                /\ pc' = "ExitErrConfig"
                /\ UNCHANGED <<next, table, cron, web, runVars, stopped, late, requests, shellVars>>

ServePassed == /\ pc = "serve"
               /\ pc' = "add"
               /\ UNCHANGED <<next, table, cron, web, runVars, stopped, late, requests, shellVars>>

-----------------------------------------------------------------------------
(* AddJob, for each job.  append publishes the length before the element.  *)

(* Mutant: the error of addCronJob is not returned.                        *)
AddRefusedGoesOn ==
    /\ pc = "add"
    /\ next <= NumJobs
    /\ next \notin Accepted
    /\ pc' = "append"
    /\ UNCHANGED <<next, table, cron, web, runVars, stopped, late, requests, shellVars>>

AddRefused ==
    /\ pc = "add"
    /\ next <= NumJobs
    /\ next \notin Accepted
    /\ next' = next + 1
    /\ UNCHANGED <<pc, table, cron, web, runVars, stopped, late, requests, shellVars>>

AddCronJob ==
    /\ pc = "add"
    /\ next \in Accepted
    /\ cron' = cron \cup {next}
    /\ pc' = "append"
    /\ UNCHANGED <<next, table, web, runVars, stopped, late, requests, shellVars>>

AppendBlank ==
    /\ pc = "append"
    /\ table' = Append(table, Blank)
    /\ pc' = "store"
    /\ UNCHANGED <<next, cron, web, runVars, stopped, late, requests, shellVars>>

StoreJob ==
    /\ pc = "store"
    /\ table' = [k \in DOMAIN table |-> IF table[k] = Blank THEN next ELSE table[k]]
    /\ next' = next + 1
    /\ pc' = "add"
    /\ UNCHANGED <<cron, web, runVars, stopped, late, requests, shellVars>>

AddedAll ==
    /\ pc = "add"
    /\ next > NumJobs
    /\ pc' = IF watch THEN "watch" ELSE "wait"
    /\ UNCHANGED <<next, table, cron, serviceVars, shellVars>>

-----------------------------------------------------------------------------
(* The file watcher, when the daemon is to exit on a change of its files.  *)

WatcherFails ==
    /\ pc = "watch"
    /\ pc' = "ExitErrConfig"
    /\ UNCHANGED <<next, table, cron, serviceVars, shellVars>>

WatcherStarts ==
    /\ pc = "watch"
    /\ pc' = "watching"
    /\ next' = ConfigFile
    /\ UNCHANGED <<table, cron, serviceVars, shellVars>>

(* A file that cannot be watched is only logged.                           *)
WatchFile ==
    /\ pc = "watching"
    /\ next \in Files
    /\ watched' = watched \cup ({next} \cap Watchable)
    /\ next' = next + 1
    /\ UNCHANGED <<pc, table, cron, serviceVars, mode, watch, single, notified>>

WatchedAll ==
    /\ pc = "watching"
    /\ next \notin Files
    /\ pc' = "wait"
    /\ UNCHANGED <<next, table, cron, serviceVars, shellVars>>

(* A file is written, created or removed: an event for the handler, if the *)
(* file is watched by now.                                                 *)
ChangeFile(f) ==
    /\ Up
    /\ f \in watched
    /\ notified' = TRUE
    /\ UNCHANGED <<mainVars, serviceVars, mode, watch, single, watched>>

(* A file is renamed: the watch is lost with an event the handler ignores. *)
RenameFile(f) ==
    /\ Up
    /\ f \in watched
    /\ watched' = watched \ {f}
    /\ UNCHANGED <<mainVars, serviceVars, mode, watch, single, notified>>

-----------------------------------------------------------------------------
(* Signals and shutdown.  Before finisher.Wait nothing handles a signal.   *)

Terminated ==
    /\ pc \notin ShutsDown
    /\ IF pc = "wait" THEN pc' = "stopping" /\ stopped' = "waiting"
                      ELSE pc' = "killed" /\ UNCHANGED stopped

Signal ==
    /\ Up
    /\ Terminated
    /\ UNCHANGED <<next, table, cron, web, runVars, late, requests, shellVars>>

(* Mutant: the handler only logs the change.                               *)
HandleChangeLogs ==
    /\ Up
    /\ notified
    /\ notified' = FALSE
    /\ UNCHANGED <<mainVars, serviceVars, mode, watch, single, watched>>

(* The handler sends SIGTERM to the process itself.                        *)
HandleChange ==
    /\ Up
    /\ notified
    /\ notified' = FALSE
    /\ Terminated \/ (pc \in ShutsDown /\ UNCHANGED <<pc, stopped>>)
    /\ UNCHANGED <<next, table, cron, web, runVars, late, requests, mode, watch, single, watched>>

(* gocron's Stop starts no more runs and returns when none is under way.   *)
(*                                                                         *)
(* Mutant: it does not wait.                                               *)
StopReturnsAtOnce ==
    /\ Up
    /\ stopped = "waiting"
    /\ stopped' = "done"
    /\ UNCHANGED <<mainVars, web, runVars, late, requests, shellVars>>

StopReturns ==
    /\ Up
    /\ stopped = "waiting"
    /\ \A j \in Jobs : ~run[j]
    /\ stopped' = "done"
    /\ UNCHANGED <<mainVars, web, runVars, late, requests, shellVars>>

Deadline ==
    /\ pc = "stopping"
    /\ ~late
    /\ late' = TRUE
    /\ UNCHANGED <<mainVars, web, runVars, stopped, requests, shellVars>>

(* Mutant: Shutdown does not look at its context.                          *)
ShutdownPatient ==
    /\ pc = "stopping"
    /\ stopped = "done"
    /\ pc' = "closing"
    /\ UNCHANGED <<next, table, cron, web, runVars, stopped, late, requests, shellVars>>

Shutdown ==
    /\ pc = "stopping"
    /\ stopped = "done" \/ late
    /\ pc' = "closing"
    /\ UNCHANGED <<next, table, cron, web, runVars, stopped, late, requests, shellVars>>

CloseWeb ==
    /\ pc = "closing"
    /\ web' = IF web = "error" THEN web ELSE "closed"
    /\ pc' = IF watch THEN "unwatching" ELSE "ExitOk"
    /\ UNCHANGED <<next, table, cron, runVars, stopped, late, requests, shellVars>>

CloseWatcher ==
    /\ pc = "unwatching"
    /\ watched' = {}
    /\ pc' = "ExitOk"
    /\ UNCHANGED <<next, table, cron, serviceVars, mode, watch, single, notified>>

-----------------------------------------------------------------------------
(* gocron: singleton mode, limited runs.                                   *)

BeginRun(j) ==
    /\ Up
    /\ j \in cron
    /\ stopped = "no"
    /\ ~run[j]
    /\ j \in Once => runs[j] = 0
    /\ runs[j] < MaxRuns
    /\ run' = [run EXCEPT ![j] = TRUE]
    /\ runs' = [runs EXCEPT ![j] = @ + 1]
    /\ UNCHANGED <<mainVars, web, stopped, late, requests, shellVars>>

EndRun(j) ==
    /\ Up
    /\ run[j]
    /\ run' = [run EXCEPT ![j] = FALSE]
    /\ UNCHANGED <<mainVars, web, runs, stopped, late, requests, shellVars>>

-----------------------------------------------------------------------------
(* Clients.  getJob holds the lock that addJob appends under, httpJobs     *)
(* does not.                                                               *)

Serving == Up /\ web = "listening"

Named(name) == {k \in DOMAIN table : NameOf[table[k]] = name}

(* Mutant: the last job of the name is taken.                              *)
FindLast(name) ==
    IF Named(name) = {} THEN None ELSE table[Max(Named(name))]

Find(name) ==
    IF Named(name) = {} THEN None ELSE table[Min(Named(name))]

HttpJob(name) ==
    /\ Serving
    /\ pc # "store"
    /\ job' = [state |-> "answered", name |-> name, found |-> Find(name),
               early |-> ~StartedUp]
    /\ UNCHANGED <<mainVars, web, runVars, stopped, late, jobs, shellVars>>

(* The loop takes the length of the table once, the elements later.        *)
HttpJobs ==
    /\ Serving
    /\ jobs.state = "none"
    /\ jobs' = [jobs EXCEPT !.state = "reading", !.len = Len(table), !.early = ~StartedUp]
    /\ UNCHANGED <<mainVars, web, runVars, stopped, late, job, shellVars>>

HttpJobsElement ==
    /\ Serving
    /\ jobs.state = "reading"
    /\ IF Len(jobs.list) < jobs.len
         THEN jobs' = [jobs EXCEPT !.list = Append(@, table[Len(@) + 1])]
         ELSE jobs' = [jobs EXCEPT !.state = "answered"]
    /\ UNCHANGED <<mainVars, web, runVars, stopped, late, job, shellVars>>

-----------------------------------------------------------------------------
MainStep == \/ RefuseConfiguration \/ StartDaemon
            \/ StartOneRun \/ ExitWithVerdict
            \/ ServeRefused \/ ServePassed
            \/ AddRefused \/ AddCronJob \/ AppendBlank \/ StoreJob \/ AddedAll
            \/ WatcherFails \/ WatcherStarts \/ WatchFile \/ WatchedAll
            \/ Shutdown \/ CloseWeb \/ CloseWatcher

Next == \/ MainStep
        \/ EndSingle
        \/ Listen \/ ServeFails \/ Signal \/ StopReturns \/ Deadline
        \/ \E f \in Files : ChangeFile(f) \/ RenameFile(f)
        \/ HandleChange
        \/ \E j \in Jobs : BeginRun(j) \/ EndRun(j)
        \/ \E name \in Names : HttpJob(name)
        \/ HttpJobs \/ HttpJobsElement

(* main goes on, the deadline comes and the watcher's goroutine handles    *)
(* what it is told.  No run need end, no signal come, no file change.      *)
Fairness == WF_vars(MainStep) /\ WF_vars(Deadline) /\ WF_vars(HandleChange)

Spec == Init /\ [][Next]_vars /\ Fairness

-----------------------------------------------------------------------------
(* /job answers with the first job of the configuration that has the name, *)
(* and with 404 only if there is none or the daemon still is starting up.  *)
JobAnswered ==
    job.state = "answered" =>
        LET named == {j \in Accepted : NameOf[j] = job.name} IN
        IF job.found = None THEN job.early \/ named = {}
                            ELSE job.found \in named /\ \A j \in named : job.found <= j

(* But for an element that is just being written, /jobs lists accepted     *)
(* jobs in their order without leaving one out in between, and all of them *)
(* once the daemon has started up.                                         *)
ListInOrder ==
    jobs.state = "answered" =>
        LET list == jobs.list
            written == {k \in DOMAIN list : list[k] # Blank}
        IN /\ DOMAIN list \ written \subseteq {jobs.len}
           /\ \A i, k \in written : i < k => list[i] < list[k]
           /\ \A k \in written : /\ list[k] \in Accepted
                                 /\ \A j \in Accepted : j < list[k] => \E i \in written : list[i] = j
           /\ ~jobs.early => {list[k] : k \in DOMAIN list} = Accepted

(* Once the scheduler was shut down in time no run is under way and none   *)
(* begins any more, while the rest of the program is closed.               *)
ExitsClean ==
    mode = "daemon" /\ pc \in {"closing", "unwatching", "ExitOk"} /\ ~late =>
        \A j \in Jobs : ~run[j]

(* README.md: in oneRun mode the exit code is 0 exactly for a script that  *)
(* succeeded and 1 for one that ran and failed; 2 tells of a program that  *)
(* ran nothing, unless the file watcher failed.                            *)
ExitCodes ==
    /\ mode = "oneRun" /\ pc = "ExitOk" => single = "succeeded"
    /\ pc = "ExitFailed" => mode = "oneRun" /\ single = "failed"
    /\ pc = "ExitErrConfig" => single = "none" /\ (watch \/ \A j \in Jobs : runs[j] = 0)

(* A signal to a daemon that has started up ends it, although a run hangs. *)
SignalEnds == pc = "stopping" ~> pc = "ExitOk"

(* main.go: exit.  A change of a file that is being watched ends the       *)
(* program, wherever it is, so that no run of it goes on with the          *)
(* configuration it read before.                                           *)
WatchedChangeEnds == notified ~> pc \in Ended

=============================================================================
