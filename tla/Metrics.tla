------------------------------ MODULE Metrics ------------------------------
(***************************************************************************)
(* /metrics: Scheduler.Collect turns the results of all jobs into samples, *)
(* again at every scrape, and makes the descriptor of a sample only once:  *)
(* pDescriptors keeps it under a key put together from names.              *)
(*                                                                         *)
(* Every name (of a job, file, task or item, and every label value) is the *)
(* sequence of its parts between bars, so that strings.Join(names, "|") is *)
(* concatenation.  A datum of a probe is an entry [field, item, text]: the *)
(* field of a struct, the key of a map, and the text of a value that is a  *)
(* string, each None where there is none; a string that is the whole data  *)
(* is its own item.  Numbers, types and help texts are left out.           *)
(***************************************************************************)
EXTENDS Naturals, Sequences

CONSTANTS Tables,      \* job tables: sequences of [name, file, tasks]; a task
                       \* is [name, labels, valueMap, probe, publishes]
          NotLabels,   \* label names that Prometheus does not accept
          Garbled      \* texts that are not UTF-8

None == <<>>

(* A probe has the name of its constructor, which is never empty.          *)
Name == Seq(STRING)
Datum == [field : Name, item : Name, text : Name]

IsSequence(s) == s \in Seq({s[i] : i \in DOMAIN s})

ASSUME MetricsAssumption ==
    \A jobTable \in Tables :
        /\ IsSequence(jobTable)
        /\ \A j \in DOMAIN jobTable :
             /\ jobTable[j].name \in Name /\ jobTable[j].file \in Name
             /\ IsSequence(jobTable[j].tasks)
             /\ \A t \in DOMAIN jobTable[j].tasks :
                  LET own == jobTable[j].tasks[t] IN
                  /\ own.name \in Name
                  /\ own.probe \in Name \ {None}
                  /\ own.labels \in [DOMAIN own.labels -> Name]
                  /\ \A item \in DOMAIN own.valueMap : own.valueMap[item] \in Name
                  /\ own.publishes \subseteq Seq(Datum)

VARIABLES
    table,          \* the jobs of the configuration
    jobs,           \* s.jobs, which AddJob fills
    data,           \* what the probe of each task of a job published last
    pDescriptors,   \* descriptor of each key seen so far
    at, task,       \* job and task that Collect is at; at = 0: the lock is free
    snap,           \* scriptResult: data of the job it is at
    todo,           \* metrics of the task it is at, not sent yet
    sent,           \* samples of this scrape
    crashed         \* MustNewConstMetric panicked in the registry's goroutine

vars == <<table, jobs, data, pDescriptors, at, task, snap, todo, sent, crashed>>

Init == /\ table \in Tables
        /\ jobs = <<>>
        /\ data = [j \in DOMAIN table |-> [t \in DOMAIN table[j].tasks |-> None]]
        /\ pDescriptors = <<>>
        /\ at = 0
        /\ task = 1
        /\ snap = <<>>
        /\ todo = <<>>
        /\ sent = <<>>
        /\ crashed = FALSE

-----------------------------------------------------------------------------
(* What is sent.  A metric is its name, its labels in order, the constant  *)
(* labels of its task; "of" says what it is about and is not in the code.  *)

Label(name, value) == IF value = None THEN <<>> ELSE <<[name |-> name, value |-> value]>>

(* Mutant: the key of a map is not made a label.                           *)
ProbeLabelsNoItem(e) == Label("field", e.field) \o Label("value", e.text)

ProbeLabels(e) == Label("field", e.field) \o Label("item", e.item) \o Label("value", e.text)

Mapped(valueMap, label) ==
    IF label.name = "item" /\ label.value \in DOMAIN valueMap
    THEN [label EXCEPT !.value = valueMap[@]]
    ELSE label

(* Labels and value map are looked up by name: the first task that has it. *)
TaskMetric(job, name) ==
    job.tasks[CHOOSE t \in DOMAIN job.tasks :
                /\ job.tasks[t].name = name
                /\ \A u \in 1..(t - 1) : job.tasks[u].name # name]

LabelsScriptGeneral(job) == Label("job", job.name) \o Label("script", job.file)
LabelsTaskGeneral(job, t) == LabelsScriptGeneral(job) \o Label("task", job.tasks[t].name)

ScriptMetric(job) ==
    [metric |-> "script_result", labels |-> LabelsScriptGeneral(job), const |-> <<>>,
     of |-> [task |-> 0, datum |-> None]]

TaskMetrics(job, t) ==
    [k \in 1..3 |-> [metric |-> <<"task_result", "task_runtime", "task_runs">>[k],
                     labels |-> LabelsTaskGeneral(job, t),
                     const |-> TaskMetric(job, job.tasks[t].name).labels,
                     of |-> [task |-> t, datum |-> None]]]

DataMetrics(job, t, entries) ==
    LET own == TaskMetric(job, job.tasks[t].name) IN
    [k \in DOMAIN entries |->
        LET item == [i \in DOMAIN ProbeLabels(entries[k]) |->
                        Mapped(own.valueMap, ProbeLabels(entries[k])[i])]
        IN [metric |-> IF item = <<>> THEN "probe_data" ELSE "probe_data_item",
            labels |-> LabelsTaskGeneral(job, t) \o Label("probe", job.tasks[t].probe) \o item,
            const |-> own.labels,
            of |-> [task |-> t, datum |-> entries[k]]]]

-----------------------------------------------------------------------------
(* sendMetric *)

NamesOf(m) == [i \in DOMAIN m.labels |-> m.labels[i].name]
TaskParts(m) == m.labels[1].value \o m.labels[2].value \o m.labels[3].value

(* Mutants: the key leaves out the script file, or the label names.        *)
DescrKeyNoFile(m) ==
    [metric |-> m.metric,
     names  |-> IF m.metric = "probe_data_item" THEN NamesOf(m) ELSE <<>>,
     parts  |-> IF m.const = <<>> THEN <<>> ELSE m.labels[1].value \o m.labels[3].value]
DescrKeyNoNames(m) ==
    [metric |-> m.metric, names |-> <<>>, parts |-> IF m.const = <<>> THEN <<>> ELSE TaskParts(m)]

(* A task with labels of its own has descriptors of its own; items have    *)
(* one for each list of label names.                                       *)
DescrKey(m) ==
    [metric |-> m.metric,
     names  |-> IF m.metric = "probe_data_item" THEN NamesOf(m) ELSE <<>>,
     parts  |-> IF m.const = <<>> THEN <<>> ELSE TaskParts(m)]

NewDesc(m) == [metric |-> m.metric, names |-> NamesOf(m), const |-> m.const]

DescFor(m) ==
    IF DescrKey(m) \in DOMAIN pDescriptors THEN pDescriptors[DescrKey(m)] ELSE NewDesc(m)

NameSet(desc) == {desc.names[i] : i \in DOMAIN desc.names}

(* What client_golang checks of a descriptor and the values of a sample.   *)
Acceptable(desc, m) ==
    /\ DOMAIN desc.const \cap (NameSet(desc) \cup NotLabels) = {}
    /\ Len(desc.names) = Len(m.labels)
    /\ \A i \in DOMAIN m.labels : m.labels[i].value \notin Garbled

Sample(desc, m) ==
    [metric |-> desc.metric,
     labels |-> [n \in DOMAIN desc.const \cup NameSet(desc) |->
                    IF n \in DOMAIN desc.const THEN desc.const[n]
                    ELSE m.labels[CHOOSE i \in DOMAIN desc.names : desc.names[i] = n].value]]

-----------------------------------------------------------------------------
(* AddJob and Collect hold the same lock, runs publish at any time.        *)

AddJob == /\ ~crashed
          /\ at = 0
          /\ Len(jobs) < Len(table)
          /\ jobs' = Append(jobs, table[Len(jobs) + 1])
          /\ UNCHANGED <<table, data, pDescriptors, at, task, snap, todo, sent, crashed>>

Publish(j, t) ==
    /\ ~crashed
    /\ \E d \in table[j].tasks[t].publishes : data' = [data EXCEPT ![j][t] = d]
    /\ UNCHANGED <<table, jobs, pDescriptors, at, task, snap, todo, sent, crashed>>

(* ResultFinished of the job it comes to, and the sample of its script.    *)
EnterJob(j) ==
    IF j \in DOMAIN jobs
    THEN at' = j /\ task' = 1 /\ snap' = data[j] /\ todo' = <<ScriptMetric(jobs[j])>>
    ELSE at' = 0 /\ UNCHANGED <<task, snap, todo>>

Collect == /\ at = 0
           /\ ~crashed
           /\ EnterJob(1)
           /\ sent' = <<>>
           /\ UNCHANGED <<table, jobs, data, pDescriptors, crashed>>

CollectTask == /\ at # 0
               /\ todo = <<>>
               /\ task \in DOMAIN snap
               /\ todo' = TaskMetrics(jobs[at], task) \o DataMetrics(jobs[at], task, snap[task])
               /\ task' = task + 1
               /\ UNCHANGED <<table, jobs, data, pDescriptors, at, snap, sent, crashed>>

CollectNext == /\ at # 0
               /\ todo = <<>>
               /\ task \notin DOMAIN snap
               /\ EnterJob(at + 1)
               /\ UNCHANGED <<table, jobs, data, pDescriptors, sent, crashed>>

SendMetric ==
    /\ ~crashed
    /\ todo # <<>>
    /\ LET m == Head(todo)
       IN /\ pDescriptors' = [k \in DOMAIN pDescriptors \cup {DescrKey(m)} |->
                                IF k = DescrKey(m) THEN DescFor(m) ELSE pDescriptors[k]]
          /\ IF Acceptable(DescFor(m), m)
             THEN /\ sent' = Append(sent, [job |-> at, of |-> m.of, sample |-> Sample(DescFor(m), m)])
                  /\ todo' = Tail(todo)
                  /\ UNCHANGED crashed
             ELSE /\ crashed' = TRUE
                  /\ UNCHANGED <<sent, todo>>
    /\ UNCHANGED <<table, jobs, data, at, task, snap>>

Next == \/ AddJob
        \/ \E j \in DOMAIN table : \E t \in DOMAIN table[j].tasks : Publish(j, t)
        \/ Collect \/ CollectTask \/ CollectNext \/ SendMetric

Spec == Init /\ [][Next]_vars

-----------------------------------------------------------------------------
Reserved == {"job", "script", "task", "probe", "field", "item", "value"}

Renamed(valueMap, item) == IF item \in DOMAIN valueMap THEN valueMap[item] ELSE item

(* No bars in names, which the code does not forbid; no two jobs with the  *)
(* same name and file, nor tasks of one job with the same name; labels a   *)
(* user may choose; and value maps that keep the items apart.              *)
Regular ==
    /\ \A j \in DOMAIN table : Len(table[j].name) = 1 /\ Len(table[j].file) = 1
    /\ \A j, k \in DOMAIN table :
         table[j].name = table[k].name /\ table[j].file = table[k].file => j = k
    /\ \A j \in DOMAIN table : \A t \in DOMAIN table[j].tasks :
         LET own == table[j].tasks[t] IN
         /\ Len(own.name) = 1
         /\ \A u \in DOMAIN table[j].tasks : table[j].tasks[u].name = own.name => t = u
         /\ DOMAIN own.labels \cap (Reserved \cup NotLabels) = {}
         /\ \A d \in own.publishes : \A k, l \in DOMAIN d :
              /\ d[k].field = d[l].field /\ d[k].text = d[l].text
              /\ Renamed(own.valueMap, d[k].item) = Renamed(own.valueMap, d[l].item)
              => k = l

(* Every sample names its job, file and task and has the custom labels of  *)
(* that task and of no other, whatever was scraped before.                 *)
LabelsOfTask ==
    Regular =>
        \A k \in DOMAIN sent :
            LET labels == sent[k].sample.labels
                job == jobs[sent[k].job]
                t == sent[k].of.task
            IN /\ labels["job"] = job.name /\ labels["script"] = job.file
               /\ t # 0 => /\ labels["task"] = job.tasks[t].name
                           /\ [n \in DOMAIN labels \ Reserved |-> labels[n]] = job.tasks[t].labels

(* Prometheus answers every scrape, as data and their shapes change from   *)
(* run to run: nothing panics, but for a text that is not UTF-8, and no    *)
(* two samples have the same name and labels, which would fail the scrape. *)
ScrapeAnswered ==
    Regular =>
        /\ crashed => \E i \in DOMAIN Head(todo).labels : Head(todo).labels[i].value \in Garbled
        /\ \A k, l \in DOMAIN sent : sent[k].sample = sent[l].sample => k = l

=============================================================================
