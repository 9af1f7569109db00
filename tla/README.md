# A TLA+ model of boogieman

boogieman runs *scripts*: lists of *tasks*, each wrapping one *probe* (ping, web,
traceroute, a command, an openvpn connection), put into *concurrent groups*. A
script runs once from the command line or again and again under a scheduler,
which also serves its latest results over HTTP (`/job`, `/jobs`, `/metrics`).
This directory models that program, model-checks it with TLC and proves the
central results with TLAPS. Paths below are relative to the repository's `src/`.

## Inventory

| Component | State | Operations | What is hard, what must hold |
|---|---|---|---|
| Worker, Result (`model/worker.go`, `model/result.go`) | status, current and previous result, mutex | `EStatusRun`, `EStatusFinish`, `Result`, `ResultFinished` | switches refused in the wrong status; counters and verdict of one run stay together |
| Script (`model/script.go`, `task.go`, `cgroup.go`, `probeHandler.go`) | workers of script, groups, tasks, probes; queue of probes that stayed alive | `Run`, `runCgroup`, `Task.Start`, `ProbeHandler.Start`/`Finish` | a goroutine per task; late watchers; a sticky error that decides about later runs. Groups in order, verdict is the conjunction of one run, every run ends clean |
| Script layout (`script.go`: `AddTask`, `newCGroup`) | tasks, groups, the anonymous group | `AddTask` | which tasks may run in parallel; order of the file |
| Background probes (`probes/cmd`, `probes/openvpn`) | `c.cmd`, an OS process, a watcher goroutine per accepted process | `Runner`, `Finisher`, `IsAlive`, watcher | `c.cmd` is shared without a lock; `Stop` is asynchronous. One process, stopped by its own run, none forgotten |
| Reports (`ResultFinished` of script, task and probe; `scheduler/http.go`) | a response being put together | `httpJob` | one lock per part while the script runs |
| Scheduler (`services/scheduler/server.go`) | job table, gocron | `Run`, `AddJob`, `Shutdown`, `getJob`, `delJob` | singleton mode; job runs before it is in the table; deadline of a shutdown |
| Metrics (`services/scheduler/prometheus.go`, `services/prometheus`) | descriptors made so far, kept for good | `Collect`, `sendMetric`, `probeMetrics` | a descriptor is found again by a key joined from names, while data change their shape from run to run. Labels are the task's own; a scrape neither panics nor fails |
| Web probe (`probes/web`) | maps, counter and wait group of one run | `Runner`, `checkBody`, `compileRegex` | a goroutine per URL on shared maps. Verdict of the single URLs; everything exported, final, and `Runner` returns |
| Ping probe (`probes/ping`) | timings, counter, wait group | `Runner` | a goroutine per host, panics recovered. Only a timeout is the failure that `expect: false` waits for |
| Traceroute probe (`probes/traceroute`) | counter and verdict so far | `Runner` | three match modes; timeout against the next hop |
| Cmd probe (`probes/cmd`) | one command, its status channel | `Runner`, `checkStdout`, `resultData` | exit, failed start, timeout and cancellation in any order; `expect` against exit code, regex and capture |
| Override tokenizer (`configuration/reflectStruct.go`) | position in a string, a rune put back | `scan`, `setSliceField` | a rune kept for the next call; braces, blanks and empty elements |
| Configuration and factory (`configuration/script.go`, `daemon.go`, `probefactory`) | the script being built | `ScriptYMLConfiguration`, `DaemonYMLConfiguration`, `NewProbe` | values from default, file and job; any wrong task ends the load; vars in the order of a map |
| Program (`main.go`, `configuration/startup.go`, `util/fileWatcher.go`) and web server (`services/webserver`) | place in start and shutdown; the listening goroutine; watched files | `main`, `runScriptAndExit`, `Watcher`, `Run` | order of start and shutdown, exit codes, signals, changes of files, late errors |
| Utilities (`util/tmpFile.go`, `model/logger.go`) | none | files, logging | none |

How they interact: the scheduler calls `Script.Run`, which calls `Task.Start` in a
goroutine per task, which calls `ProbeHandler.Start`, which calls the probe's
runner. A runner of a background probe leaves a watcher goroutine behind; watcher
and cleanup both call `ProbeHandler.Finish`. HTTP handlers read the published
results of script, tasks and probes, each under the mutex of its own worker.

`PROJECT.json` lists every hazard at its line, with the properties about it.

## Modules

**`Worker`** - the operations of `Worker` and `Result` on a record. Each runs under
the worker's mutex, so each is one step of the modules that use it. Clock readings
are left out; `Completed()` of a published result is "the counter is not 0".

**`Script`** - one script under a scheduler. `pc` is the place in `Script.Run`, `gpc[t]`
the place in the goroutine of task `t`, `watchers[t]` counts the watcher goroutines
of the probe of `t` that have not fired. One action per stretch of code between two
points where another goroutine matters: `StartRun`, `StartGroup`, `EndGroup`,
`PublishVerdict`, `FinishNext`, `FinishCleaned`, `ReturnFromRun` in `Run` and `runCgroup`; `StartTask`,
`StartProbe`, `EndProbe`, `EndTask`, `LeaveGroup` in the goroutine; `WatcherFinish` and `WatcherEnd`. Cleanup and
watchers both call `ProbeHandler.Finish`, which runs the finisher (`DropHandle`) and then, as a step of its own,
ends the worker (`EndWorker`): `cleaned` is the task whose cleanup stands between the two, `ending[t]` counts the
watchers that do. What a
runner may return is a predicate per kind of probe (`CmdReturn`, `VpnStayReturn`, ... of
`Runners`): its verdict, whether `c.cmd` is set afterwards, whether `SetError` was called, whether
it left a watcher. Verdicts are nondeterministic. `ProbeHandler` has a `curResult` of its
own that hides the one of the embedded `Worker`; `probe[t].cur` is the former, as nothing
reads the latter.

**`JobRun`** - the abstract specification: numbered runs, one outcome per task and run, a
task only after the earlier groups, one verdict per run which is their conjunction.
`Script!ImplementsJobRun` is the refinement.

**`BackgroundProbe`** - one cmd or openvpn probe with `stayBackground`, looked at closely:
processes, the field `c.cmd`, one watcher per accepted process, the shutdown of the
scheduler. `DropHandle` of `Script`, one step there, is `CleanupStop` and `CleanupClear` here,
and again `WatcherStop` and `WatcherClear`. `Launch` is `Cmd.Start` of go-cmd, which only spawns a goroutine;
that goroutine starts the process later (`ProcessStarts`) or cannot (`CannotStart`), and a `Stop` before it has
does nothing, which the history variable `lost` remembers. A load of `c.cmd` that is followed at once by
its use is one step (the compiled code keeps the pointer), any other access is read
anew. `quiet`, chosen once at the start, states an assumption about timing: a run starts
only when the watchers of the earlier runs are done. Processes of earlier runs may still be dying, or not have
started yet. The code does not enforce it; it holds when the schedule leaves more time between two
runs than a watcher takes to notice the end of its process. Properties that need it say `quiet =>`. `ReturnsByContract` ties
the module to `Script`: it states, without `quiet`, the predicates of `Runners` that `Script` assumes of
these runners.

**`Reports`** - extends `Script` with one client of `/job`: each lock it takes is a step, and the
script runs on in between. The status fields of a response are functions of its counters.

**`ScriptLayout`** - `AddTask` per task of a file. Cgroup values and the five-digit ids drawn by
`newCGroup` are values; a drawn id may repeat but is taken not to equal a value of the
file. What it computes is the constant `GroupOf` of `Script`.

**`Overrides`** - how a text of a job's `vars` becomes a value. `Scanned` is the tokenizer after each
rune of the text, `ReadRune` being one turn of the loop in `scan`; the rune that `scan` puts back
is the first of the next buffer. `Elements` is what the tokenizer is meant to compute, stated by
positions in the text and not by a scan: the text is cut at the separators outside braces, and an
element goes from the first rune after a cut that is no blank to the next cut.

**`ScriptFile`** - extends `ScriptLayout` and `Overrides` with `ScriptYMLConfiguration`: one step reads a
task, builds its probe and adds it (`ReadTask`), or finds it wrong and ends the load
(`RefuseTask`). A configuration is a list, a scalar, a text and the data of openvpn, as those are what
`setStructField` and the constructors tell apart; a field left out is `{}`, and several texts for one
field (keys that differ in case) are a set, because the code ranges over a map. `Configured` is what the
constructor is given, `Accepts` what each of the five asks of it, and `Constructed` what it makes of it: the one of cmd
splits a command without arguments, the one of openvpn lets the content of a file replace the data.
How `shellquote` splits a text, which files exist and
which can be executed are parameters.

**`CmdProbe`** - one run of the cmd probe: `Runner` on one side, the command with go-cmd's
goroutine on the other. The streaming of lines is left out, it decides nothing. A command that
cannot be started sends a status with `Runtime` 0 (`CannotStart`), which the wait loop
takes for none (`SwallowStatus`). `judged` is not in the code: it remembers whether the verdict is
about an output. What has become of a command that was to stay is not looked at by `VerdictByOutput`;
`StillAlive` is about that, and does not hold. `ContractKept` is the predicate of `Runners` that `Script` assumes of a cmd probe.

**`Metrics`** - `Collect` under its lock, a step per metric sent, with jobs still being added and
runs publishing between scrapes. Names are sequences of their parts between bars, which
makes `strings.Join(names, "|")` concatenation and so keeps the collisions it can have. What
client_golang accepts is `Acceptable`. `Regular` states what the properties ask of a
configuration, see "What disagrees".

**`WebProbe`** - one run of the web probe. A response is reduced to what the configuration
asks of it (status, readable body, match, captured text), a capture regex to the set of
texts it matches; every configuration that `compileRegex` lets through is tried. The maps
are sets of entries per URL, so equal URLs in a list share them as in the code.
`timings.Set` and the locked section are a step each, `checkBody` and the assignment of
`err` touch nothing shared and belong to the latter. `limited` says whether the probe's timeout is greater than 0:
only then does `http.Client` have one.

**`PingProbe`** - one run of the ping probe, with the four ways a host can end.

**`TraceProbe`** - the loop over the hops of one trace. A hop is the set of expected hops its
address contains. `runner` is the place in `Runner`, `answer` its `succ`;
`seen` is not in the code: it remembers what the verdict is about.
A mode other than `any`, `all` and `none` is accepted by the code and so is in the model.

**`Scheduler`** - the program in its two modes: `pc` is the place in `main` or how the program
ended, `single` the one run of oneRun mode, `web` the goroutine of the web server,
`table` is `s.jobs`, `cron` what gocron was given, `stopped` and `late` the two things `Shutdown`
waits for, `watched` and `notified` the file watcher. A run of a script is reduced to its begin and
its end; what a run may leave behind is the subject of `Script` and `BackgroundProbe`. A signal that comes where nothing handles it (before `finisher.Wait`, in oneRun
mode) ends the program as `killed`; a change of a watched file is a signal the program sends
itself. `httpJobs` reads `s.jobs` without the lock, which is a data race; the outcome modelled
is that of the build: `append` publishes the length (after growing the array, if need be)
before it writes the element, so the last element seen may be `Blank`.

`ScriptProofs` holds the proofs about `Script` and `Reports`, `LayoutProofs` those about `ScriptLayout`,
`Overrides` and `ScriptFile`, and `BackgroundProofs`, `WebProofs`, `PingTraceProofs`, `CmdProofs`, `SchedulerProofs`
and `MetricsProofs` those about the modules they are named after; the modules that begin with `MC` give the
constants values. Definitions commented as mutants are slips a change of the code could
make; the properties are checked against each of them.

## Runs

| Run | Bounds | What it shows |
|---|---|---|
| `script` | 3 tasks (a background command, then an openvpn probe that stays and a plain command in parallel), 2 runs | groups in order, verdict and counters sound, nothing refused, clean end of every run, finishers at the script's end; every run ends; refinement of `JobRun` with its fairness |
| `background` | 3 runs | no handle between two runs, a run returns as `Script` assumes; with `quiet`, a process that was there when it was to be stopped is stopped by its own run and ends, so does its watcher, no nil is dereferenced |
| `background_orphan` | 2 runs | *violated*: without `quiet` a late watcher takes the handle of a process just being started, which then nobody stops |
| `reports` | 2 tasks in 2 groups (one plain, one background), 2 runs | a response mixes runs only forwards, never goes back, and is true when its counters agree |
| `config` | 5 tasks, 2 cgroup values, 2 drawn ids, 2 task names, every probe; all texts of up to 4 of the five kinds of runes as one override, other overrides of each field, or two texts for one field (`Bounded` of `MCScriptFile` says which go together) | order of the file; neighbours share a group exactly when their values agree; every field from the most specific place, as the constructor treats it; all tasks or none |
| `web` | 2 URLs that differ, are equal, or the second wrong; every configuration, 2 texts a group may hold | verdict, export and finality of the result; `Runner` returns, without a timeout unless a server is silent for good |
| `ping_trace` | lists of 3 out of 2 hosts; 3 expected hops, 4 hops | verdict and timings are those of the hosts; decision, end of the trace and timeout give the answer of the hops seen |
| `trace_all` | 3 expected hops, 4 hops | *violated*: `all` can succeed with an expected hop missing |
| `daemon` | 3 jobs (one refused, one to run once), 2 names, 2 runs of each, configuration and one script file watchable | answers of `/job` and `/jobs`, no run after a timely shutdown, exit codes, a signal or a watched change ends the program |
| `metrics` | the job tables of `MCTables`: two jobs, tasks with and without labels and value maps, data of changing shape, bars in names, labels and texts Prometheus refuses | labels of the task, no panic, no duplicate, whatever was scraped before |
| `cmd` | 2 exit codes, one text besides the empty one, every configuration | verdict, exported fields, contract, return |
| `cmd_stay` | the same | *violated*: a command that was to stay succeeds although it could not be started, or has exited as the timer fires |

Why the bounds are enough. Two runs let a watcher of one run meet the next, and a sticky error of one
decide about the next; that two old watchers meet one run is in `background`, and for any number of runs of
`Script` proved below. Ping and traceroute share nothing, so `MCPingTrace` has them one after the other. Three
tasks give a group with two goroutines and a group before or after it. What happens
in a group depends on no other task but through the verdict, and the theorems below
carry the safety results of `Script` to any number of tasks, groups and runs, and to every
kind of probe (no run has an openvpn probe that does not stay). Five tasks
let `AddTask` leave and re-enter each of its branches, and two tasks of one name or two let a job's vars meet both kinds of constructor that rewrite fields. Four runes are enough for each pair of the
tokenizer's flags (inside braces, after a separator) to meet each rune, the end included. Two URLs are one goroutine against
another, with equal and different keys, and a wrong URL after a good one; three hosts
add a repeated one to a different one. Three expected hops and four hops let
`all` be reached rightly and wrongly. Three jobs put a refused one between
others and give one name to two jobs. Two scrapes are reached with two
publications between them, so that a cached descriptor meets every other shape of the
data; scrapes and publications are not bounded in `metrics`. `MaxRuns`, `MaxTasks` and
`MaxHops` are the only bounds of the models, each in the guards of the actions that begin something, with the constraint `Bounded` of `MCScriptFile`. That
constraint cuts files, not steps: odd texts are tried in files of one task, long files have plain tasks.

Deadlock is checked in the runs of `Script`, `BackgroundProbe` and `Reports`:
`WaitForSchedule` and `Rest` are steps that change nothing, for the places where the program
really waits. It is not checked for the load of a file, the probes, the metrics (which end when a
sample is refused) and the program, which end: a script is loaded, a probe returns, the program exits.

### Fairness

`Script`: weak fairness of `Run` and of each task goroutine. The Go scheduler is fair, and
each runner waits under the probe's timeout and so returns; of a web probe this is an assumption, namely
that its timeout is not 0 (see `WebProbe`). `BackgroundProbe`: the same,
fairness of the watchers, go-cmd's goroutine starts the process or finds that it cannot, and a process that was
sent SIGTERM ends; one that ignores it would break `BackgroundEnds`. No process need end by itself and no
run need ever be started. `JobRun` asks for weak fairness of its progress steps.
`WebProbe`: the runner goes on, and so does each goroutine where it does not wait for a server (`AtServer`);
where it does, only if the probe has a timeout greater than 0, as the HTTP client's timeout then covers the
request and the reading of the body. A probe without an options block has none (`configuration/script.go:28`), so
`RunnerReturns` allows for a server that is silent for good. `CmdProbe`: the
timer fires and `Runner` goes on; no command need exit. `Scheduler`: `main` goes on, the shutdown
deadline comes and the watcher's goroutine handles what it is told; no run need end, no
signal come and no file change.

## Proofs

`ScriptProofs` proves, for every number of tasks, groups and runs, every `GroupOf` and every
`Kind`, from `ScriptAssumption` alone:

- `TypeCorrect`: `Spec => []TypeOK`;
- `GroupsAreSequential`, `VerdictIsSound`, `PublishInOrder`, `RunsEndClean`, `RunsAreNeverRefused`:
  five invariants of the run `script`;
- `FinishersRunAtScriptEnd`: its action property;
- `ImplementsJobRunSafely`: `Spec => Abstract!Safety`, the initial states and every step of
  `Script` map to `JobRun`'s.

The argument is one inductive invariant, `IndInv`, of which the five are consequences.
None of them is inductive alone: `VerdictSound` looks at results when a run is over, so
the induction needs what each task's and probe's results are at each control point
of its goroutine while it is under way; `CleanSlate` speaks of the end of `Run`, so the induction needs
that a probe which still has a handle, or is marked running, is in its
goroutine's hands, in the queue, in the cleanup between its two steps or left to a watcher that is; and `NeverRefused` needs where each worker stands
relative to `grp`. `IndInv` says those things per task and per control point. Its
proof has one lemma per part and in it one step per action. `IndInv` was model-checked
before it was proved.

For `Reports` it proves `ResponsesAreFresh`, `ResponsesOfOneRunAreWhole` and `ResponsesNeverGoBack`, of
`ReportSpec`. The invariant adds to `IndInv` what the published results of a script say of one another
once its run is over (`Agrees`), and follows a response while it is read: what has been read is
not newer than what is published, and as long as no part read is of a later run, the parts read
are those of the script as it was when the first was read. What is not yet read can only have
become newer, which is why a part can be newer than the one it stands under and never older.

`BackgroundProofs` proves `RunsStartWithoutHandle`, `RunnersKeepContracts`, `NoProcessIsOrphaned`,
`NoWatcherCrashes` and `StoppedByItsOwnRun` for any number of runs of either kind of probe. What the handle,
the verdict and the watcher of a run are at each place of it holds always, so the first two theorems
need no `quiet`; the others need that, while runs keep
away from each other, the run under way is the only one with a watcher or the handle, a process that runs or is going
to is its own unless its last `Stop` was lost, and process and watcher stand where the place of the run says.

`WebProofs` proves, for any list of URLs, any configuration and any responses, from
`WebAssumption`: `VerdictIsByUrl`, `ExportIsComplete` and `ResultIsFinal`. The invariant says that the counter is the
number of goroutines that have ended and counted, that a goroutine's `err` agrees with its
response once it was judged, and that nothing is under way when `Runner` has returned data.
The verdict compares a counter with a length, so the proof rests on a lemma about
cardinalities: some of n are n only if they are all. For the export it says that an entry is
what a checked URL of that name was found to have, whichever was the last to write. `PingTraceProofs` proves `TypeCorrect`
and `ResultIsByHost` from `PingAssumption` in the same way, and
`AnswerIsOfTrace` for any number of expected hops and any trace from `TraceAssumption`: while the runner
waits the verdict so far is already that of the hops seen, and a decision and an error exclude each
other, whichever the `select` takes.

`SchedulerProofs` proves, for any jobs, names and schedules, in two invariants:

- `ExitIsClean` and `ExitCodesTell`: no run begins after `Stop` was called, `main` passes
  `Shutdown` after `Stop` has returned or the deadline has passed, and in oneRun mode the exit
  code is taken from a run that has ended. Neither says anything of background processes: what a run
  leaves of them is `Script`'s and `BackgroundProbe`'s subject;
- `JobIsAnswered` and `JobsAreListedInOrder`: but for an element being written, the table is the accepted
  jobs that `main` has passed, in ascending order (`TableInOrder`); it only grows, and an element changes only from `Blank`
  (`TableGrows`); so what a request has read stays what the table holds, except a `Blank` it read last (`ReadInOrder`).

`LayoutProofs` proves `TasksKeepFileOrder`, `NeighboursRunTogether`, `LoadedWhole` and `VarsOverrideTheFile` for
script files of any length, any cgroup values, configurations and vars, from `LayoutAssumption` and `FileAssumption`. The groups list the tasks in file order and the last task
stands in the last group (`PlaceInv`); a task without a cgroup value has the drawn name of its
group, and only the newest group with such a name can be the anonymous one (`NameInv`). The
second is what makes the neighbours right: a task without a value after a named one finds
that the anonymous group is not the last, although the code compares names only. `LoadInv`
says that what has been read is accepted, built and laid out, each probe with what its constructor makes of one of the
configurations that file and vars allow it (`Fits`). What a constructor is given comes field by field from vars, file or
default (`ConfiguredByVars`), a task without a configuration is refused whatever its probe (`OnlyStructsFit`), and
`WhatConstructedKeeps` says which fields survive the constructor and what becomes of the others.

That the list of such a configuration is the text cut at its separators is `TokensAreElements`, for every
`Regular` text of any length. The tokenizer is a function defined by recursion over the runes read,
which the library's induction theorems cannot be used for (see below). Instead the proof takes the least
number of runes after which a claim fails, and so shows that the scan exists, and that after each
number of runes the tokenizer holds what `Reads` says: the elements before the last cut, the element under
way, and which of the two flags is set. Each of the three cases of `ReadRune` is a lemma.

`CmdProofs` proves `VerdictIsByOutput`, `FieldsAreExported` and `RunnerKeepsContract` for any exit
codes and any texts, from `CmdAssumption`. The invariant says which states of the command
each place in `Runner` can meet, and that what was judged is an exit; the rest is a
lemma that the error the code computes is the negation of what README.md calls a positive check.

`MetricsProofs` proves `SamplesAreLabelled` and `ScrapesAreAnswered` for any job tables whose names
are `Regular`, any data, and any number of scrapes, from `MetricsAssumption` (texts are sequences of
parts, and a probe has a name: its label is in every datum, because the key of `probe_data` does not
say so). The cache of descriptors is right because its key determines the descriptor
(`KeyDeterminesDesc`): where the label names vary they are in the key, and where a task has labels of its own the
key names the task, which it does without mistake only if no name has a bar in it. So the invariant can say that every
descriptor kept is the one any metric of its key would get (`Described`), and hence that a sample is what its metric
alone makes it (`SentInv`). That no two samples are equal needs where `Collect` is: what was sent is of
earlier jobs and tasks or of the task under way, and equal samples are of one job and one task (`SampleIdentifies`), within
which the field, item and text of a datum set it apart (`DataApart`). The invariant was checked by TLC
on the instance of `metrics` before it was proved.

What stays with TLC:

- out of the prover's reach, as liveness and ENABLED: `RunEnds`, `RunnerReturns`, `BackgroundEnds`,
  `SignalEnds`, `WatchedChangeEnds`, the fairness of `JobRun`;
- that the invariants hold for a given instance is checked by the runs too, but every safety invariant
  and action property of a passing run is a theorem. Induction theorems that take an operator as
  a parameter cannot be instantiated by the provers, so inductions over data are done by the least
  number that fails. No module has a `RECURSIVE` operator.

## What disagrees with the code's own words

Three runs end in a violation, `background_orphan`, `trace_all` and `cmd_stay`; `PROJECT.json` quotes the
line each one contradicts. Beyond those, the models contain, and their properties allow for, the following:

- `BackgroundProbe`, with or without `quiet`: `Cmd.Start` (`cmd.go:64`) only spawns the goroutine that starts the
  process, and until it has `Stop` is an error that `Finisher` logs before it drops the handle (`cmd.go:209-213`).
  With a context cancelled right behind the start the process then comes up with nobody left to
  stop it, although `probe.go:13` says that the finisher is called at the script's end.
  `lost` marks such a run; it is the one exception in `NoOrphan` and `BackgroundEnds`.
- `BackgroundProbe`, without `quiet`: a late watcher stops the process of the run under way; a watcher can be handed
  a nil handle, which ends the program. With or without it, the next process may start while the last one, only
  signalled, still runs. `NoHandleBetweenRuns` and `ReturnsByContract` need no `quiet`, the other properties do.
- `Script`: nothing resets a probe's error, so a start that succeeds keeps the error of an
  earlier one; the worker of a process that stays alive is then ended early. `Finish` drops the handle before it
  ends the worker, so a run can end, and the next begin, while a watcher stands between the two: the probe then
  still is `running`, and `EStatusRun` of the next start is refused, which `ProbeHandler.Start` only logs. That is the
  one exception in `CleanSlate` and `NeverRefused`.
- `CmdProbe`: a command that cannot be started is noticed only by the timeout. A command that was interrupted reports exit code 0,
  or -1 if it never started. With `stayBackground` neither regex nor capture is exported.
- `Reports`: a response of `/job` may mix results of two runs, although README.md:97 shows it as one;
  `NoStalePart` and `WholeIfOneRun` say how far it can go wrong.
- `ScriptLayout`: tasks with the same cgroup value that others stand between are not put into one
  group, so README.md:107 is true of neighbours only (`NeighboursByName`).
- `ScriptFile`: vars are ignored for a task without a configuration block, README.md:184
  notwithstanding. A task whose configuration is not a block is passed on as raw bytes
  (a comment in `configuration/script.go` allows for it), which no constructor accepts. The arguments of a cmd probe are those of its command line unless there
  are others, so vars that give `cmd` for a script with `args` keep those.
  An openvpn probe with a `configFile` takes its content even if the job gives `configData` in vars
  (`openvpn/constructor.go:51`; README.md:277 says to use it instead of the file): `OverridesApplied` says so.
- Options, which no module reads: the default `5000ms` (`probeOptions.go:16`) is set within `UnmarshalJSON`, so a task
  without an options block has timeout 0 and `expect: false`; and with a block that gives no timeout, line 34
  multiplies the default, a duration already, by a millisecond.
- `Overrides`: a brace or separator right after a separator is not noticed, so `a,,b` and
  `{1,2},{3,4}` give other elements than one would read in them. `Regular` excludes such texts.
- `Metrics`: the properties ask that job names and files are unique together, that task names are unique in a
  script, that no name has a bar in it, that custom labels are valid and not those of the program,
  and that a value map does not rename two items to one (`Regular`). The code checks none of
  this: what is not so fails the scrape, shows the labels of another task, or ends the program,
  as does a captured text that is not UTF-8.
- `WebProbe`: a wrong URL (`RefuseUrl`) returns no data, also none of the URLs before it.
- `Scheduler`: past the shutdown deadline the program exits with runs under way
  (`ExitsClean` says `~late`); `/jobs` during startup may list a
  `Blank` job (`ListInOrder`); an error of the web server that comes later than 100 ms
  after its start has no receiver (`ServeFails`); a signal before `finisher.Wait`, or in oneRun
  mode, kills the program with runs under way (`Signal`); a file watcher that cannot be started
  ends it with exit code 2 while jobs run. Given both `--script` and `--probe` it exits
  with 2, where README.md:69 says that `--probe` is ignored. A watched file that is renamed is no
  longer watched, and a change between the reading of a file and its watching is missed.

## Not modelled

- `delJob`, which nothing calls; `Script.Timeout`, which nothing reads; the context cancelled
  by a shutdown, which `Script.Run` looks at between two groups without acting on it;
- the options of a task as they are unmarshalled (see above);
- configurations given as a string, which is how `--config` of oneRun mode passes them: `ScriptFile` is about script files;
- `exec.LookPath` and `os.Stat` of the cmd constructor are one parameter (`Programs`), `os.ReadFile` of openvpn's another;
- a quoted path with blanks in the command of a cmd probe, which is split once more when there are no arguments;
- flags, environment, YAML and JSON, read by libraries; whether a text of vars is a number or a duration
  is a parameter of `ScriptFile`;
- the registration of probes before `main`; the probe `xraySSConnect`, whose file is empty;
- of the openvpn probe its temporary file, the parsing of its configuration and of its log; the streaming
  of a command's lines; the numbers and help texts of metrics; logging and temporary files;
- gocron, go-cmd, finish, fsnotify and client_golang: external libraries, modelled from their use
  (`StartRun` only when the last run has returned, which is singleton mode; `Stop` as a
  signal; channels that are closed when the process has ended; a registry that refuses two
  samples with the same labels);
- what a torn slice header would do to `httpJobs`, and the data race on `c.cmd` beyond stale and fresh values;
- the program's end by a crash inside `Script`: `BackgroundProbe` is where it is looked at.

## Plan

1. Done: `Worker`, `Runners`, `Script`, `JobRun`; `BackgroundProbe`, `Reports`; the probes' runners
   `WebProbe`, `PingProbe`, `TraceProbe`, `CmdProbe`; `ScriptLayout`, `Overrides` and `ScriptFile`; both
   modes of the program in `Scheduler`; `Metrics`; the proofs named above.
2. `/job` across `Scheduler` and `Reports`: the table lookup and the response in one module.
3. Configurations given as a string on the command line, and the flags that go with them.
