-------------------------- MODULE SchedulerProofs --------------------------
(***************************************************************************)
(* Theorems about Scheduler, for any jobs, schedules and names.            *)
(***************************************************************************)
EXTENDS Scheduler, WellFoundedInduction, TLAPS

(* When Stop has returned no run is left and none begins; main closes the  *)
(* web server only after that, or too late.                                *)
(* In oneRun mode gocron is given nothing, and main exits when the script  *)
(* has ended.  The exit code for a wrong configuration is left before      *)
(* anything is given to gocron, or by the file watcher.                    *)
ShutdownInv ==
    /\ run \in [Jobs -> BOOLEAN]
    /\ stopped = "done" => \A j \in Jobs : ~run[j]
    /\ mode \in {"oneRun", "daemon"}
    /\ pc \in {"closing", "unwatching"} => stopped = "done" \/ late
    /\ pc = "ExitOk" => mode = "oneRun" \/ stopped = "done" \/ late
    /\ mode = "oneRun" =>
         /\ cron = {} /\ \A j \in Jobs : ~run[j]
         /\ pc \in {"startup", "oneRun"} \cup Ended
    /\ single \in {"none", "running", "succeeded", "failed"}
    /\ single = "running" => pc \in {"oneRun", "killed"}
    /\ pc = "oneRun" => mode = "oneRun" /\ single # "none"
    /\ mode = "daemon" \/ pc = "startup" => single = "none"
    /\ pc \in {"startup", "serve"} => cron = {}
    /\ pc \in {"watch", "watching"} => watch
    /\ pc = "ExitErrConfig" => single = "none" /\ (watch \/ cron = {})
    /\ pc = "ExitFailed" => mode = "oneRun" /\ single = "failed"
    /\ pc = "ExitOk" /\ mode = "oneRun" => single = "succeeded"
    /\ runs \in [Jobs -> Nat]
    /\ cron = {} => \A j \in Jobs : runs[j] = 0

(* At the start nothing runs.                                              *)
LEMMA InvInit == Init => ShutdownInv
  BY DEF Init, ShutdownInv

(* main adds jobs and waits; it leaves the runs alone and passes Shutdown  *)
(* only when Stop has returned or the deadline has passed.                 *)
LEMMA MainKeeps ==
    ASSUME ShutdownInv, MainStep
    PROVE  ShutdownInv'
<1> USE DEF ShutdownInv, runVars, serviceVars, shellVars, Ended
<1>10. CASE RefuseConfiguration \/ StartDaemon
  BY <1>10 DEF RefuseConfiguration, StartDaemon
<1>11. CASE StartOneRun
  BY <1>11 DEF StartOneRun
<1>12. CASE ExitWithVerdict
  BY <1>12 DEF ExitWithVerdict
<1>13. CASE WatcherFails \/ WatcherStarts \/ WatchFile \/ WatchedAll
  BY <1>13 DEF WatcherFails, WatcherStarts, WatchFile, WatchedAll
<1>1. CASE ServeRefused
  BY <1>1 DEF ServeRefused
<1>2. CASE ServePassed
  BY <1>2 DEF ServePassed
<1>3. CASE AddRefused
  BY <1>3 DEF AddRefused
<1>4. CASE AddCronJob
  BY <1>4 DEF AddCronJob
<1>5. CASE AppendBlank
  BY <1>5 DEF AppendBlank
<1>6. CASE StoreJob
  BY <1>6 DEF StoreJob
<1>7. CASE AddedAll
  BY <1>7 DEF AddedAll
<1>8. CASE Shutdown
  BY <1>8 DEF Shutdown
<1>9. CASE CloseWeb \/ CloseWatcher
  BY <1>9 DEF CloseWeb, CloseWatcher
<1> QED BY <1>1, <1>2, <1>3, <1>4, <1>5, <1>6, <1>7, <1>8, <1>9,
           <1>10, <1>11, <1>12, <1>13 DEF MainStep

(* A run begins only before Stop was called.                               *)
LEMMA RunKeeps ==
    ASSUME ShutdownInv, NEW j \in Jobs, BeginRun(j) \/ EndRun(j)
    PROVE  ShutdownInv'
<1> USE DEF ShutdownInv, mainVars, shellVars, Ended
<1>1. CASE BeginRun(j)
  BY <1>1 DEF BeginRun
<1>2. CASE EndRun(j)
  BY <1>2 DEF EndRun
<1> QED BY <1>1, <1>2

(* The single run ends with a verdict.                                     *)
LEMMA SingleKeeps ==
    ASSUME ShutdownInv, EndSingle
    PROVE  ShutdownInv'
  BY DEF EndSingle, ShutdownInv, mainVars, serviceVars, runVars, Ended

(* A signal leaves the runs alone, in either mode.                         *)
LEMMA TerminatedKeeps ==
    ASSUME ShutdownInv, Terminated, pc \notin Ended,
           UNCHANGED <<cron, run, runs, late, mode, watch, single>>
    PROVE  ShutdownInv'
  BY DEF ShutdownInv, Terminated, Ended, ShutsDown

(* The web server, signals, gocron's Stop and the deadline.                *)
LEMMA OthersKeep ==
    ASSUME ShutdownInv, Listen \/ ServeFails \/ Signal \/ StopReturns \/ Deadline
    PROVE  ShutdownInv'
<1>1. CASE Listen \/ ServeFails
  BY <1>1 DEF Listen, ServeFails, ShutdownInv, mainVars, runVars, shellVars
<1>2. CASE Signal
  BY <1>2, TerminatedKeeps DEF Signal, Up, runVars, shellVars
<1>3. CASE StopReturns
  BY <1>3 DEF StopReturns, ShutdownInv, mainVars, runVars, shellVars
<1>4. CASE Deadline
  BY <1>4 DEF Deadline, ShutdownInv, mainVars, runVars, shellVars
<1> QED BY <1>1, <1>2, <1>3, <1>4

(* The file watcher's goroutine and the files it watches.                  *)
LEMMA WatcherKeeps ==
    ASSUME ShutdownInv,
           (\E f \in Files : ChangeFile(f) \/ RenameFile(f)) \/ HandleChange
    PROVE  ShutdownInv'
<1>1. CASE \E f \in Files : ChangeFile(f) \/ RenameFile(f)
  BY <1>1 DEF ChangeFile, RenameFile, ShutdownInv, mainVars, serviceVars, runVars
<1>2. CASE HandleChange /\ Terminated
  BY <1>2, TerminatedKeeps DEF HandleChange, Up, runVars
<1>3. CASE HandleChange /\ UNCHANGED <<pc, stopped>>
  BY <1>3 DEF HandleChange, ShutdownInv, runVars
<1> QED BY <1>1, <1>2, <1>3 DEF HandleChange

LEMMA Invariance == Spec => []ShutdownInv
<1>1. ShutdownInv /\ [Next]_vars => ShutdownInv'
  <2> SUFFICES ASSUME ShutdownInv, [Next]_vars
               PROVE  ShutdownInv'
    OBVIOUS
  <2>1. CASE \/ \E name \in Names : HttpJob(name)
             \/ HttpJobs \/ HttpJobsElement
    BY <2>1 DEF HttpJob, HttpJobs, HttpJobsElement, ShutdownInv, mainVars, runVars, shellVars
  <2>2. CASE UNCHANGED vars
    BY <2>2 DEF vars, shellVars, ShutdownInv
  <2> QED BY <2>1, <2>2, MainKeeps, RunKeeps, SingleKeeps, OthersKeep,
              WatcherKeeps DEF Next
<1> QED BY InvInit, <1>1, PTL DEF Spec

(* When main.go's finisher has shut the scheduler down within its timeout, *)
(* every run has ended by itself and none begins until the program exits.  *)
THEOREM ExitIsClean == Spec => []ExitsClean
<1>1. ShutdownInv => ExitsClean
  BY DEF ShutdownInv, ExitsClean, Ended
<1> QED BY <1>1, Invariance, PTL

(* In either mode the exit code tells what the program ran and how that    *)
(* ended (main.go and README.md on exit codes).                            *)
THEOREM ExitCodesTell == Spec => []ExitCodes
<1>1. ShutdownInv => ExitCodes
  BY DEF ShutdownInv, ExitCodes
<1> QED BY <1>1, Invariance, PTL

-----------------------------------------------------------------------------
(* The table and the requests.                                             *)

(* The elements of the table that are written, and the jobs they hold      *)
(* while the daemon is up: in their order, the accepted jobs that main has *)
(* passed, in the end all of them.                                         *)
Written == {k \in DOMAIN table : ~(pc = "store" /\ k = Len(table))}
Added == IF StartedUp THEN Accepted ELSE {j \in Accepted : j < next}

TableInOrder ==
    /\ \A k \in Written : table[k] \in Added
    /\ \A j \in Added : \E k \in Written : table[k] = j
    /\ \A i, k \in Written : i < k => table[i] < table[k]
    /\ pc \in {"startup", "serve"} => table = <<>> /\ next = 1
    /\ pc \in {"append", "store"} => next \in Accepted
    /\ pc = "store" => table # <<>> /\ table[Len(table)] = Blank

TableInv ==
    /\ mode \in {"oneRun", "daemon"}
    /\ mode = "oneRun" => pc \in {"startup", "oneRun"} \cup Ended
    /\ mode = "daemon" => pc # "oneRun"
    /\ web = "listening" => mode = "daemon"
    /\ table \in Seq(Jobs \cup {Blank})
    /\ next \in Nat
    /\ Up /\ mode = "daemon" => TableInOrder

(* What a request for /jobs has read is what the table holds, but for an   *)
(* element read before it was written, the last it will read.              *)
ReadInOrder ==
    /\ jobs.len <= Len(table)
    /\ \A k \in DOMAIN jobs.list :
          jobs.list[k] = table[k] \/ (jobs.list[k] = Blank /\ k = jobs.len /\ jobs.early)
    /\ jobs.state # "none" /\ ~jobs.early => StartedUp /\ jobs.len = Len(table)

RequestInv ==
    /\ jobs \in [state : {"none", "reading", "answered"}, len : Nat,
                 list : Seq(Jobs \cup {Blank}), early : BOOLEAN]
    /\ Len(jobs.list) <= jobs.len
    /\ jobs.state = "none" => jobs.len = 0
    /\ jobs.state = "answered" => Len(jobs.list) = jobs.len
    /\ Up /\ mode = "daemon" => ReadInOrder
    /\ mode = "oneRun" => jobs.state = "none"
    /\ JobAnswered
    /\ ListInOrder

LEMMA TableInit == Init => TableInv /\ RequestInv
<1> SUFFICES ASSUME Init
             PROVE  TableInv /\ RequestInv
  OBVIOUS
<1>1. /\ table = <<>> /\ next = 1 /\ pc = "startup" /\ web = "starting"
      /\ mode \in {"oneRun", "daemon"}
      /\ jobs = [state |-> "none", len |-> 0, list |-> <<>>, early |-> FALSE]
      /\ job.state = "none"
  BY DEF Init
<1>2. Written = {} /\ Added = {}
  <2>1. Written = {}
    BY <1>1 DEF Written
  <2>2. \A j \in Accepted : ~(j < 1)
    BY SchedulerAssumption DEF Jobs
  <2> QED BY <1>1, <2>1, <2>2 DEF Added, StartedUp
<1>3. TableInv
  BY <1>1, <1>2 DEF TableInv, TableInOrder, Ended
<1>4. RequestInv
  BY <1>1 DEF RequestInv, ReadInOrder, JobAnswered, ListInOrder
<1> QED BY <1>3, <1>4

(* What a step that leaves main where it is keeps.                         *)
LEMMA TableUnchanged ==
    ASSUME TableInv, UNCHANGED <<mainVars, mode>>, web' = "listening" => mode = "daemon"
    PROVE  TableInv'
  BY DEF TableInv, TableInOrder, Written, Added, StartedUp, AddsJobs, Up, Ended, mainVars

(* When the program has ended, nothing is claimed of the table.            *)
LEMMA TableEnded ==
    ASSUME TableInv, pc' \in Ended, UNCHANGED <<next, table, mode, web>>
    PROVE  TableInv'
  BY DEF TableInv, Up, Ended

(* Neither is the table touched once the daemon has started up.            *)
LEMMA TableDone ==
    ASSUME TableInv, Up, StartedUp, StartedUp', UNCHANGED <<table, mode>>,
           pc # "oneRun", pc' # "oneRun",
           web' = "listening" => web = "listening", next' \in Nat
    PROVE  TableInv'
  BY DEF TableInv, TableInOrder, Written, Added, StartedUp, AddsJobs, Up, Ended

(* main adds the jobs.                                                     *)
LEMMA TableStarts ==
    ASSUME TableInv, StartDaemon \/ StartOneRun \/ ServePassed
    PROVE  TableInv'
<1> USE DEF TableInv, TableInOrder, Written, Added, StartedUp, AddsJobs, Up, Ended,
            serviceVars, shellVars
<1>1. CASE StartDaemon
  BY <1>1 DEF StartDaemon
<1>2. CASE StartOneRun
  BY <1>2 DEF StartOneRun
<1>3. CASE ServePassed
  BY <1>3 DEF ServePassed
<1> QED BY <1>1, <1>2, <1>3

LEMMA TableAdds ==
    ASSUME TableInv, AddRefused \/ AddCronJob \/ AddedAll
    PROVE  TableInv'
<1>1. /\ pc = "add" /\ pc' \in {"add", "append", "watch", "wait"}
      /\ UNCHANGED <<web, table, mode>>
      /\ table \in Seq(Jobs \cup {Blank}) /\ next \in Nat /\ next' \in Nat
      /\ TableInOrder /\ mode = "daemon"
  BY DEF AddRefused, AddCronJob, AddedAll, serviceVars, shellVars, TableInv, Up, Ended
<1>2. pc' = "append" => next' \in Accepted
  BY <1>1 DEF AddRefused, AddCronJob, AddedAll
<1>3. Written' = Written
  BY <1>1 DEF Written
<1>4. Added' = Added
  <2> USE <1>1 DEF Added, StartedUp, AddsJobs
  <2>1. Accepted \subseteq Nat /\ \A j \in Accepted : j <= NumJobs
    BY SchedulerAssumption DEF Jobs
  <2>2. CASE AddRefused
    <3>1. next \notin Accepted /\ next' = next + 1 /\ pc' = "add"
      BY <2>2 DEF AddRefused
    <3>2. \A j \in Accepted : j < next + 1 <=> j < next
      BY <2>1, <3>1
    <3> QED BY <3>1, <3>2
  <2>3. CASE AddCronJob
    BY <2>3 DEF AddCronJob
  <2>4. CASE AddedAll
    <3>1. next > NumJobs /\ pc' \in {"watch", "wait"}
      BY <2>4 DEF AddedAll
    <3>2. \A j \in Accepted : j < next
      BY <2>1, <3>1, SchedulerAssumption
    <3> QED BY <3>1, <3>2
  <2> QED BY <2>2, <2>3, <2>4
<1>5. TableInOrder'
  BY <1>1, <1>2, <1>3, <1>4 DEF TableInOrder
<1> QED BY <1>1, <1>5 DEF TableInv, Ended, Up

LEMMA TableAppends ==
    ASSUME TableInv, AppendBlank
    PROVE  TableInv'
<1>1. /\ pc = "append" /\ pc' = "store" /\ mode = "daemon" /\ TableInOrder
      /\ table' = Append(table, Blank) /\ next' = next /\ web' = web /\ mode' = mode
      /\ table \in Seq(Jobs \cup {Blank})
  BY DEF AppendBlank, TableInv, shellVars, Up, Ended
<1>2. /\ table' \in Seq(Jobs \cup {Blank}) /\ Len(table') = Len(table) + 1
      /\ DOMAIN table = 1..Len(table) /\ DOMAIN table' = 1..Len(table')
      /\ Len(table) \in Nat
      /\ table'[Len(table')] = Blank
      /\ \A k \in DOMAIN table : table'[k] = table[k]
  BY <1>1
<1>3. Written' = Written /\ Written = DOMAIN table
  BY <1>1, <1>2 DEF Written
<1>4. Added' = Added
  BY <1>1 DEF Added, StartedUp, AddsJobs
<1>5. TableInOrder'
  BY <1>1, <1>2, <1>3, <1>4 DEF TableInOrder
<1> QED BY <1>1, <1>2, <1>5 DEF TableInv, Ended

LEMMA TableStores ==
    ASSUME TableInv, StoreJob
    PROVE  /\ TableInv'
           /\ Len(table') = Len(table)
           /\ \A k \in DOMAIN table : IF k = Len(table) THEN table[k] = Blank
                                                       ELSE table'[k] = table[k]
<1>1. /\ pc = "store" /\ pc' = "add" /\ mode = "daemon" /\ TableInOrder
      /\ table' = [k \in DOMAIN table |-> IF table[k] = Blank THEN next ELSE table[k]]
      /\ next' = next + 1 /\ web' = web /\ mode' = mode
      /\ next \in Nat /\ next \in Accepted
      /\ table \in Seq(Jobs \cup {Blank}) /\ table # <<>>
      /\ table[Len(table)] = Blank
  BY DEF StoreJob, TableInv, TableInOrder, shellVars, Up, Ended
<1> DEFINE n == Len(table)
<1>2. n \in Nat \ {0} /\ DOMAIN table = 1..n
  BY <1>1
<1>3. Written = 1..n - 1 /\ Added = {j \in Accepted : j < next}
  BY <1>1, <1>2 DEF Written, Added, StartedUp, AddsJobs
<1>4. Accepted \subseteq Nat \ {0}
  BY SchedulerAssumption DEF Jobs
<1>5. \A k \in 1..n - 1 : table[k] # Blank /\ table[k] < next
  BY <1>1, <1>3, <1>4 DEF TableInOrder, Blank
<1>6. table' = [k \in 1..n |-> IF k = n THEN next ELSE table[k]]
  BY <1>1, <1>2, <1>5
<1>7. table' \in Seq(Jobs \cup {Blank}) /\ Len(table') = n /\ DOMAIN table' = 1..n
  <2>1. \A k \in 1..n : table[k] \in Jobs \cup {Blank}
    BY <1>1, <1>2
  <2>2. table' \in [1..n -> Jobs \cup {Blank}]
    BY <1>1, <1>6, <2>1, SchedulerAssumption
  <2> QED BY <1>2, <2>2
<1>8. Written' = 1..n /\ Added' = Added \cup {next}
  <2>1. Written' = 1..n
    BY <1>1, <1>7 DEF Written
  <2>2. Added' = {j \in Accepted : j < next + 1}
    BY <1>1 DEF Added, StartedUp, AddsJobs
  <2>3. \A j \in Accepted : j < next + 1 <=> (j < next \/ j = next)
    BY <1>1, <1>4
  <2> QED BY <1>1, <1>3, <2>1, <2>2, <2>3
<1>9. TableInOrder'
  <2>1. \A k \in Written' : table'[k] \in Added'
    BY <1>1, <1>2, <1>3, <1>6, <1>8 DEF TableInOrder
  <2>2. \A j \in Added' : \E k \in Written' : table'[k] = j
    BY <1>1, <1>2, <1>3, <1>6, <1>8 DEF TableInOrder
  <2>3. \A i, k \in Written' : i < k => table'[i] < table'[k]
    BY <1>1, <1>2, <1>3, <1>5, <1>6, <1>8 DEF TableInOrder
  <2> QED BY <2>1, <2>2, <2>3, <1>1 DEF TableInOrder
<1> QED BY <1>1, <1>2, <1>6, <1>7, <1>9 DEF TableInv, Ended

(* What the requests see of a step: the table only grows, an element is    *)
(* changed only from Blank, none once the daemon has started up.           *)
TableGrows ==
    /\ mode' = mode
    /\ Up' => Up
    /\ Len(table') >= Len(table)
    /\ \A k \in DOMAIN table : table'[k] = table[k] \/ (table[k] = Blank /\ k = Len(table))
    /\ Up /\ Up' /\ StartedUp => StartedUp' /\ table' = table

LEMMA TableSame ==
    ASSUME TableInv, UNCHANGED <<table, mode>>, Up' => Up, Up /\ Up' /\ StartedUp => StartedUp'
    PROVE  TableGrows
<1>1. Len(table) \in Nat
  BY DEF TableInv
<1> QED BY <1>1 DEF TableGrows

LEMMA TableKeeps ==
    ASSUME TableInv, [Next]_vars
    PROVE  TableInv' /\ TableGrows
<1>1. CASE RefuseConfiguration \/ ExitWithVerdict \/ ServeRefused \/ WatcherFails
  <2>1. pc' \in Ended /\ ~Up' /\ UNCHANGED <<next, table, mode, web>>
    BY <1>1 DEF RefuseConfiguration, ExitWithVerdict, ServeRefused, WatcherFails, Up, Ended,
                serviceVars, shellVars
  <2> QED BY <2>1, TableEnded, TableSame
<1>2. CASE StartDaemon \/ StartOneRun \/ ServePassed
  <2>1. Up /\ ~StartedUp /\ UNCHANGED <<table, mode>>
    BY <1>2 DEF StartDaemon, StartOneRun, ServePassed, StartedUp, AddsJobs, Up, Ended,
                serviceVars, shellVars
  <2> QED BY <1>2, <2>1, TableStarts, TableSame
<1>3. CASE AddRefused \/ AddCronJob \/ AddedAll
  <2>1. Up /\ ~StartedUp /\ UNCHANGED <<table, mode>>
    BY <1>3 DEF AddRefused, AddCronJob, AddedAll, StartedUp, AddsJobs, Up, Ended,
                serviceVars, shellVars
  <2> QED BY <1>3, <2>1, TableAdds, TableSame
<1>4. CASE AppendBlank
  <2>1. /\ Up /\ ~StartedUp /\ mode' = mode
        /\ table \in Seq(Jobs \cup {Blank}) /\ table' = Append(table, Blank)
    BY <1>4 DEF AppendBlank, TableInv, StartedUp, AddsJobs, Up, Ended, shellVars
  <2>2. TableGrows
    BY <2>1 DEF TableGrows
  <2> QED BY <1>4, <2>2, TableAppends
<1>5. CASE StoreJob
  <2>1. Up /\ ~StartedUp /\ mode' = mode /\ Len(table) \in Nat
    BY <1>5 DEF StoreJob, TableInv, StartedUp, AddsJobs, Up, Ended, shellVars
  <2>2. TableGrows
    BY <1>5, <2>1, TableStores DEF TableGrows
  <2> QED BY <1>5, <2>2, TableStores
<1>6. CASE WatcherStarts \/ WatchFile \/ WatchedAll \/ Shutdown
  <2>1. /\ Up /\ StartedUp /\ StartedUp' /\ UNCHANGED <<table, mode, web>>
        /\ pc # "oneRun" /\ pc' # "oneRun" /\ next' \in Nat
    BY <1>6 DEF WatcherStarts, WatchFile, WatchedAll, Shutdown, StartedUp, AddsJobs, Up, Ended,
                serviceVars, shellVars, TableInv, ConfigFile
  <2> QED BY <2>1, TableDone, TableSame
<1>7. CASE CloseWeb \/ CloseWatcher
  <2>1. /\ Up /\ StartedUp /\ StartedUp' /\ UNCHANGED <<table, mode, next>>
        /\ pc # "oneRun" /\ pc' # "oneRun" /\ (web' = "listening" => web = "listening")
    BY <1>7 DEF CloseWeb, CloseWatcher, StartedUp, AddsJobs, Up, Ended,
                serviceVars, shellVars
  <2> QED BY <2>1, TableDone, TableSame DEF TableInv
<1>8. CASE Signal \/ HandleChange
  <2>1. UNCHANGED <<table, mode, web, next, cron>> /\ Up
    BY <1>8 DEF Signal, HandleChange, shellVars
  <2>2. CASE Terminated /\ pc = "wait"
    BY <2>1, <2>2, TableDone, TableSame
    DEF Terminated, StartedUp, AddsJobs, Up, Ended, TableInv
  <2>3. CASE Terminated /\ pc # "wait"
    BY <2>1, <2>3, TableEnded, TableSame DEF Terminated, Up, Ended
  <2>4. CASE pc' = pc
    BY <2>1, <2>4, TableUnchanged, TableSame DEF TableInv, mainVars, Up, StartedUp
  <2> QED BY <1>8, <2>2, <2>3, <2>4 DEF Signal, HandleChange
<1>9. CASE UNCHANGED <<mainVars, mode>> /\ (web' = "listening" => mode = "daemon")
  BY <1>9, TableUnchanged, TableSame DEF mainVars, Up, StartedUp
<1>10. CASE \/ EndSingle
            \/ Listen \/ ServeFails \/ StopReturns \/ Deadline
            \/ \E f \in Files : ChangeFile(f) \/ RenameFile(f)
            \/ \E j \in Jobs : BeginRun(j) \/ EndRun(j)
            \/ \E name \in Names : HttpJob(name)
            \/ HttpJobs \/ HttpJobsElement
            \/ UNCHANGED vars
  <2>1. UNCHANGED <<mainVars, mode>> /\ (web' = "listening" => mode = "daemon")
    BY <1>10 DEF EndSingle, Listen, ServeFails, StopReturns, Deadline, ChangeFile,
         RenameFile, BeginRun, EndRun, HttpJob, HttpJobs, HttpJobsElement, vars,
         serviceVars, shellVars, mainVars, TableInv
  <2> QED BY <1>9, <2>1
<1> QED BY <1>1, <1>2, <1>3, <1>4, <1>5, <1>6, <1>7, <1>8, <1>10 DEF Next, MainStep

(* What a request has read stays what the table holds.                     *)
LEMMA RequestsUnchanged ==
    ASSUME TableInv, RequestInv, TableGrows, UNCHANGED requests
    PROVE  RequestInv'
<1>1. mode' = mode /\ job' = job /\ jobs' = jobs
  BY DEF TableGrows, requests
<1>2. ASSUME Up', mode = "daemon"
      PROVE  ReadInOrder'
  <2>1. Up /\ ReadInOrder
    BY <1>1, <1>2 DEF TableGrows, RequestInv
  <2>2. Len(table) \in Nat /\ Len(table') >= Len(table) /\ DOMAIN table = 1..Len(table)
    BY DEF TableInv, TableGrows
  <2>3. ASSUME StartedUp
        PROVE  StartedUp' /\ table' = table
    BY <1>2, <2>1, <2>3 DEF TableGrows
  <2>4. jobs.len \in Nat /\ jobs.list \in Seq(Jobs \cup {Blank}) /\ Len(jobs.list) <= jobs.len
    BY DEF RequestInv
  <2>5. \A k \in DOMAIN jobs.list : k \in 1..jobs.len /\ k \in DOMAIN table
    BY <2>1, <2>2, <2>4 DEF ReadInOrder
  <2>6. jobs.state = "none" => DOMAIN jobs.list = {}
    BY <2>4 DEF RequestInv
  <2>7. ASSUME NEW k \in DOMAIN jobs.list
        PROVE  jobs.list[k] = table'[k] \/ (jobs.list[k] = Blank /\ k = jobs.len /\ jobs.early)
    <3>1. CASE jobs.early
      BY <2>1, <2>2, <2>4, <2>5, <3>1 DEF ReadInOrder, TableGrows
    <3>2. CASE ~jobs.early
      BY <2>1, <2>3, <2>6, <3>2 DEF ReadInOrder
    <3> QED BY <3>1, <3>2
  <2>8. jobs.state # "none" /\ ~jobs.early => StartedUp' /\ jobs.len = Len(table')
    BY <2>1, <2>3 DEF ReadInOrder
  <2>9. jobs.len <= Len(table')
    BY <2>1, <2>2, <2>4 DEF ReadInOrder
  <2> QED BY <1>1, <2>7, <2>8, <2>9 DEF ReadInOrder
<1>3. JobAnswered' /\ ListInOrder'
  BY <1>1 DEF RequestInv, JobAnswered, ListInOrder
<1> QED BY <1>1, <1>2, <1>3 DEF RequestInv

(* A daemon that answers has its table in order.                           *)
LEMMA ServingInOrder ==
    ASSUME TableInv, Serving
    PROVE  /\ Up /\ mode = "daemon" /\ TableInOrder
           /\ Len(table) \in Nat /\ DOMAIN table = 1..Len(table)
           /\ Accepted \subseteq Nat \ {0}
           /\ Added \subseteq Accepted
           /\ \A j \in Accepted, i \in Added : j < i => j \in Added
           /\ StartedUp => Added = Accepted
           /\ ~StartedUp => \A j \in Accepted \ Added, i \in Added : i < j
<1>1. next \in Nat /\ table \in Seq(Jobs \cup {Blank})
  BY DEF TableInv
<1>2. Accepted \subseteq Nat \ {0}
  BY SchedulerAssumption DEF Jobs
<1>3. Up /\ mode = "daemon" /\ TableInOrder
  BY DEF Serving, TableInv
<1>4. CASE StartedUp
  BY <1>1, <1>2, <1>3, <1>4 DEF Added
<1>5. CASE ~StartedUp
  <2>1. Added = {j \in Accepted : j < next}
    BY <1>5 DEF Added
  <2>2. \A j \in Accepted : j \in Nat
    BY <1>2
  <2>3. \A j \in Accepted, i \in Added : j < i => j \in Added
    BY <1>1, <2>1, <2>2
  <2>4. \A j \in Accepted \ Added, i \in Added : i < j
    BY <1>1, <2>1, <2>2
  <2> QED BY <1>1, <1>2, <1>3, <1>5, <2>1, <2>3, <2>4
<1> QED BY <1>4, <1>5

LEMMA MinOfNats ==
    ASSUME NEW S, S \subseteq Nat, S # {}
    PROVE  Min(S) \in S /\ \A k \in S : Min(S) <= k
<1>1. PICK x \in S : \A y \in S : <<y, x>> \notin OpToRel(<, Nat)
  BY WFMin, NatLessThanWellFounded
<1>2. ASSUME NEW y \in S
      PROVE  x <= y
  <2>1. <<y, x>> \in Nat \X Nat /\ <<y, x>>[1] = y /\ <<y, x>>[2] = x
    OBVIOUS
  <2>2. ~(y < x)
    BY <1>1, <2>1 DEF OpToRel
  <2> QED BY <2>2
<1> QED BY <1>2 DEF Min

(* The number a name is found by is the first of the jobs that have it.    *)
LEMMA FindsFirst ==
    ASSUME TableInv, Serving, pc # "store", NEW name \in Names, Named(name) # {}
    PROVE  /\ Find(name) \in Added
           /\ NameOf[Find(name)] = name
           /\ \A j \in Added : NameOf[j] = name => Find(name) <= j
<1>1. /\ TableInOrder
      /\ Len(table) \in Nat /\ DOMAIN table = 1..Len(table)
      /\ Added \subseteq Nat
  BY ServingInOrder
<1>2. Written = DOMAIN table
  BY DEF Written
<1>3. Named(name) \subseteq Nat /\ Named(name) \subseteq DOMAIN table
  BY <1>1 DEF Named
<1>4. PICK m \in Named(name) : Find(name) = table[m] /\ \A k \in Named(name) : m <= k
  BY <1>3, MinOfNats DEF Find
<1>5. table[m] \in Added /\ NameOf[table[m]] = name
  BY <1>1, <1>2, <1>3, <1>4 DEF Named, TableInOrder
<1>6. ASSUME NEW j \in Added, NameOf[j] = name
      PROVE  table[m] <= j
  <2>1. PICK k \in DOMAIN table : table[k] = j
    BY <1>1, <1>2 DEF TableInOrder
  <2>2. k \in Named(name) /\ m \in DOMAIN table
    BY <1>6, <1>3, <2>1 DEF Named
  <2>3. m <= k /\ m \in Nat /\ k \in Nat
    BY <1>3, <1>4, <2>2
  <2>4. m < k => table[m] < table[k]
    BY <1>1, <1>2, <2>2 DEF TableInOrder
  <2>5. table[m] \in Nat /\ j \in Nat
    BY <1>1, <1>5
  <2>6. CASE m = k
    BY <2>1, <2>5, <2>6
  <2>7. CASE m < k
    BY <2>1, <2>4, <2>5, <2>7
  <2> QED BY <2>3, <2>6, <2>7
<1> QED BY <1>4, <1>5, <1>6

LEMMA JobRequest ==
    ASSUME TableInv, RequestInv, NEW name \in Names, HttpJob(name)
    PROVE  RequestInv'
<1>1. /\ TableInOrder
      /\ Accepted \subseteq Nat \ {0}
      /\ Added \subseteq Accepted
      /\ StartedUp => Added = Accepted
      /\ ~StartedUp => \A j \in Accepted \ Added, i \in Added : i < j
      /\ pc # "store" /\ Serving
  BY ServingInOrder DEF HttpJob
<1>2. Written = DOMAIN table
  BY <1>1 DEF Written
<1>3. job' = [state |-> "answered", name |-> name, found |-> Find(name), early |-> ~StartedUp]
  BY DEF HttpJob
<1>4. JobAnswered'
  <2> DEFINE named == {j \in Accepted : NameOf[j] = name}
  <2>1. CASE Named(name) = {}
    <3>1. Find(name) = None
      BY <2>1 DEF Find
    <3>2. \A j \in Added : NameOf[j] # name
      BY <1>1, <1>2, <2>1 DEF Named, TableInOrder
    <3>3. ~StartedUp \/ named = {}
      BY <1>1, <3>2
    <3> QED BY <1>3, <3>1, <3>3 DEF JobAnswered
  <2>2. CASE Named(name) # {}
    <3>1. /\ Find(name) \in Added /\ NameOf[Find(name)] = name
          /\ \A j \in Added : NameOf[j] = name => Find(name) <= j
      BY <1>1, <2>2, FindsFirst
    <3>2. Find(name) \in named /\ Find(name) # None
      BY <1>1, <3>1 DEF None
    <3>3. ASSUME NEW j \in named
          PROVE  Find(name) <= j
      <4>1. Find(name) \in Nat /\ j \in Nat
        BY <1>1, <3>2
      <4> QED BY <1>1, <3>1, <4>1
    <3> QED BY <1>3, <3>2, <3>3 DEF JobAnswered
  <2> QED BY <2>1, <2>2
<1>5. jobs' = jobs /\ mode' = mode /\ table' = table /\ pc' = pc
  BY DEF HttpJob, mainVars, shellVars
<1>6. ListInOrder' /\ (ReadInOrder => ReadInOrder')
  BY <1>5 DEF RequestInv, ListInOrder, ReadInOrder, StartedUp, AddsJobs
<1> QED BY <1>4, <1>5, <1>6 DEF RequestInv, Up

(* The request for /jobs.                                                  *)
LEMMA JobsBegins ==
    ASSUME TableInv, RequestInv, HttpJobs
    PROVE  RequestInv'
<1>1. Len(table) \in Nat /\ mode = "daemon" /\ Up
  BY ServingInOrder DEF HttpJobs
<1>2. /\ jobs' = [jobs EXCEPT !.state = "reading", !.len = Len(table), !.early = ~StartedUp]
      /\ job' = job /\ UNCHANGED <<pc, table, mode>>
      /\ jobs.state = "none"
  BY DEF HttpJobs, mainVars, shellVars
<1>3. jobs.list = <<>>
  BY <1>2 DEF RequestInv
<1>4. jobs' = [state |-> "reading", len |-> Len(table), list |-> <<>>, early |-> ~StartedUp]
  BY <1>2, <1>3 DEF RequestInv
<1>5. /\ jobs'.state = "reading" /\ jobs'.len = Len(table) /\ jobs'.early = ~StartedUp
      /\ jobs'.list = <<>> /\ DOMAIN jobs'.list = {} /\ Len(jobs'.list) = 0
  BY <1>4
<1>6. ReadInOrder'
  <2>1. StartedUp' <=> StartedUp
    BY <1>2 DEF StartedUp, AddsJobs
  <2>2. ~jobs'.early => StartedUp'
    BY <1>5, <2>1
  <2>3. jobs'.len = Len(table')
    BY <1>2, <1>5
  <2> QED BY <1>1, <1>2, <1>5, <2>2, <2>3 DEF ReadInOrder
<1>7. JobAnswered' /\ ListInOrder'
  BY <1>2, <1>5 DEF RequestInv, JobAnswered, ListInOrder
<1>8. jobs' \in [state : {"none", "reading", "answered"}, len : Nat,
                 list : Seq(Jobs \cup {Blank}), early : BOOLEAN]
  <2>1. (~StartedUp) \in BOOLEAN
    BY DEF StartedUp
  <2>2. <<>> \in Seq(Jobs \cup {Blank})
    OBVIOUS
  <2> QED BY <1>1, <1>4, <2>1, <2>2
<1> QED BY <1>1, <1>2, <1>5, <1>6, <1>7, <1>8 DEF RequestInv

LEMMA JobsReads ==
    ASSUME TableInv, RequestInv, HttpJobsElement, Len(jobs.list) < jobs.len
    PROVE  RequestInv'
<1> DEFINE n == Len(jobs.list)
           x == table[n + 1]
<1>1. /\ Len(table) \in Nat /\ DOMAIN table = 1..Len(table) /\ mode = "daemon" /\ Up
  BY ServingInOrder DEF HttpJobsElement
<1>2. /\ jobs' = [jobs EXCEPT !.list = Append(jobs.list, x)]
      /\ job' = job /\ UNCHANGED <<pc, table, mode>>
      /\ jobs.state = "reading"
  BY DEF HttpJobsElement, mainVars, shellVars
<1>3. ReadInOrder /\ n \in Nat /\ jobs.len \in Nat /\ jobs.list \in Seq(Jobs \cup {Blank})
  BY <1>1 DEF RequestInv
<1>4. n + 1 \in 1..Len(table)
  BY <1>1, <1>3 DEF ReadInOrder
<1>5. x \in Jobs \cup {Blank}
  BY <1>4 DEF TableInv
<1> HIDE DEF x
<1>6. /\ jobs'.list \in Seq(Jobs \cup {Blank}) /\ DOMAIN jobs'.list = 1..n + 1
      /\ jobs'.list[n + 1] = x /\ Len(jobs'.list) = n + 1
      /\ \A k \in DOMAIN jobs.list : jobs'.list[k] = jobs.list[k]
      /\ jobs'.state = "reading" /\ jobs'.len = jobs.len /\ jobs'.early = jobs.early
      /\ DOMAIN jobs.list = 1..n
  BY <1>2, <1>3, <1>5 DEF RequestInv
<1>7. ReadInOrder'
  BY <1>2, <1>3, <1>6 DEF ReadInOrder, StartedUp, AddsJobs, x
<1>8. jobs' \in [state : {"none", "reading", "answered"}, len : Nat,
                 list : Seq(Jobs \cup {Blank}), early : BOOLEAN]
  BY <1>2, <1>3, <1>5 DEF RequestInv
<1>9. JobAnswered' /\ ListInOrder'
  BY <1>2, <1>6 DEF RequestInv, JobAnswered, ListInOrder
<1> QED BY <1>1, <1>2, <1>3, <1>6, <1>7, <1>8, <1>9 DEF RequestInv

(* What is answered is the table as it was when the request began.         *)
LEMMA JobsAnswers ==
    ASSUME TableInv, RequestInv, HttpJobsElement, ~(Len(jobs.list) < jobs.len)
    PROVE  RequestInv'
<1> DEFINE list == jobs.list
           written == {k \in DOMAIN list : list[k] # Blank}
<1>1. /\ Up /\ mode = "daemon" /\ TableInOrder
      /\ Len(table) \in Nat /\ DOMAIN table = 1..Len(table)
      /\ Accepted \subseteq Nat \ {0}
      /\ Added \subseteq Accepted
      /\ \A j \in Accepted, i \in Added : j < i => j \in Added
      /\ StartedUp => Added = Accepted
  BY ServingInOrder DEF HttpJobsElement
<1>2. /\ jobs' = [jobs EXCEPT !.state = "answered"]
      /\ job' = job /\ UNCHANGED <<pc, table, mode>>
      /\ jobs.state = "reading"
  BY DEF HttpJobsElement, mainVars, shellVars
<1>3. /\ ReadInOrder /\ jobs.len \in Nat /\ DOMAIN list = 1..jobs.len
      /\ Len(list) = jobs.len /\ jobs.len <= Len(table)
  BY <1>1 DEF RequestInv, ReadInOrder
<1>4. \A k \in Written : table[k] \in Added /\ table[k] # Blank
  BY <1>1 DEF TableInOrder, Blank
<1>5. \A k \in DOMAIN table : k \in Written \/ (table[k] = Blank /\ k = Len(table) /\ ~StartedUp)
  BY <1>1 DEF Written, TableInOrder, StartedUp, AddsJobs
<1>6. \A k \in DOMAIN list : k \in DOMAIN table
  BY <1>1, <1>3
<1>7. \A k \in written : k \in Written /\ list[k] = table[k]
  BY <1>3, <1>5, <1>6 DEF ReadInOrder
<1>8. \A k \in DOMAIN list : k < jobs.len => k \in written
  <2> SUFFICES ASSUME NEW k \in DOMAIN list, k < jobs.len
               PROVE  k \in written
    OBVIOUS
  <2>1. list[k] = table[k] /\ k \in Written
    BY <1>1, <1>3, <1>5, <1>6 DEF ReadInOrder
  <2> QED BY <1>4, <2>1
<1>9. DOMAIN list \ written \subseteq {jobs.len}
  BY <1>3, <1>8
<1>10. \A i, k \in written : i < k => list[i] < list[k]
  BY <1>1, <1>7 DEF TableInOrder
<1>11. ASSUME NEW k \in written
       PROVE  /\ list[k] \in Accepted
              /\ \A j \in Accepted : j < list[k] => \E i \in written : list[i] = j
  <2>1. list[k] \in Added /\ list[k] = table[k] /\ k \in Written /\ k \in 1..jobs.len
    BY <1>3, <1>4, <1>7
  <2>2. ASSUME NEW j \in Accepted, j < list[k]
        PROVE  \E i \in written : list[i] = j
    <3>1. PICK i \in Written : table[i] = j
      BY <1>1, <2>1, <2>2 DEF TableInOrder
    <3>2. i \in 1..Len(table)
      BY <1>1 DEF Written
    <3>3. i < k
      <4>1. k < i => table[k] < table[i]
        BY <1>1, <2>1 DEF TableInOrder
      <4>2. table[k] \in Nat /\ j \in Nat
        BY <1>1, <2>1
      <4> QED BY <2>1, <2>2, <3>1, <3>2, <4>1, <4>2
    <3>4. i \in written
      BY <1>3, <1>8, <2>1, <3>2, <3>3
    <3> QED BY <1>7, <3>1, <3>4
  <2> QED BY <1>1, <2>1, <2>2
<1>12. ASSUME ~jobs.early
       PROVE  {list[k] : k \in DOMAIN list} = Accepted
  <2>1. /\ StartedUp /\ DOMAIN list = DOMAIN table
        /\ \A k \in DOMAIN list : list[k] = table[k]
    BY <1>1, <1>2, <1>3, <1>12 DEF ReadInOrder
  <2>2. DOMAIN table = Written
    BY <2>1, <1>5 DEF Written
  <2>3. \A k \in DOMAIN list : list[k] \in Accepted
    BY <1>1, <2>1, <2>2 DEF TableInOrder
  <2>4. \A j \in Accepted : \E k \in DOMAIN list : list[k] = j
    BY <1>1, <2>1, <2>2 DEF TableInOrder
  <2> HIDE DEF list
  <2> QED BY <2>3, <2>4
<1>13. /\ jobs'.list = list /\ jobs'.len = jobs.len /\ jobs'.early = jobs.early
       /\ jobs'.state = "answered"
       /\ jobs' \in [state : {"none", "reading", "answered"}, len : Nat,
                     list : Seq(Jobs \cup {Blank}), early : BOOLEAN]
  BY <1>2 DEF RequestInv
<1>14. ListInOrder'
  BY <1>9, <1>10, <1>11, <1>12, <1>13 DEF ListInOrder
<1>15. JobAnswered' /\ ReadInOrder'
  BY <1>2, <1>3, <1>13 DEF RequestInv, JobAnswered, ReadInOrder, StartedUp, AddsJobs
<1> QED BY <1>1, <1>2, <1>3, <1>13, <1>14, <1>15 DEF RequestInv

LEMMA RequestKeeps ==
    ASSUME TableInv, RequestInv, [Next]_vars
    PROVE  RequestInv'
<1>1. TableGrows
  BY TableKeeps
<1>2. CASE UNCHANGED requests
  BY <1>1, <1>2, RequestsUnchanged
<1>3. CASE HttpJobs
  BY <1>3, JobsBegins
<1>4. CASE HttpJobsElement
  BY <1>4, JobsReads, JobsAnswers
<1>5. CASE \E name \in Names : HttpJob(name)
  BY <1>5, JobRequest
<1>6. CASE MainStep
  BY <1>2, <1>6 DEF MainStep, RefuseConfiguration, StartDaemon, StartOneRun, ExitWithVerdict,
       ServeRefused, ServePassed, AddRefused, AddCronJob, AppendBlank, StoreJob, AddedAll,
       WatcherFails, WatcherStarts, WatchFile, WatchedAll, Shutdown, CloseWeb, CloseWatcher,
       serviceVars, requests
<1>7. CASE \/ EndSingle
           \/ Listen \/ ServeFails \/ Signal \/ StopReturns \/ Deadline
           \/ \E f \in Files : ChangeFile(f) \/ RenameFile(f)
           \/ HandleChange
           \/ \E j \in Jobs : BeginRun(j) \/ EndRun(j)
           \/ UNCHANGED vars
  BY <1>2, <1>7 DEF EndSingle, Listen, ServeFails, Signal, StopReturns, Deadline,
       ChangeFile, RenameFile, HandleChange, BeginRun, EndRun, vars,
       serviceVars, requests
<1> QED BY <1>3, <1>4, <1>5, <1>6, <1>7 DEF Next

LEMMA TableInvariance == Spec => [](TableInv /\ RequestInv)
  BY TableInit, TableKeeps, RequestKeeps, PTL DEF Spec

(* server.go: httpJob answers with the first job of that name, and says    *)
(* that there is none only if there is none or while the daemon starts up, *)
(* although addJob goes on beside it.                                      *)
THEOREM JobIsAnswered == Spec => []JobAnswered
<1>1. RequestInv => JobAnswered
  BY DEF RequestInv
<1> QED BY <1>1, TableInvariance, PTL

(* server.go: httpJobs lists the accepted jobs in their order and, once    *)
(* the daemon has started up, all of them, although it reads s.jobs        *)
(* without the lock that addJob appends under.                             *)
THEOREM JobsAreListedInOrder == Spec => []ListInOrder
<1>1. RequestInv => ListInOrder
  BY DEF RequestInv
<1> QED BY <1>1, TableInvariance, PTL

=============================================================================
