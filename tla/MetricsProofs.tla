--------------------------- MODULE MetricsProofs ---------------------------
(***************************************************************************)
(* Theorems about Metrics, for any job tables, any data published between  *)
(* and during scrapes, and any number of scrapes.                          *)
(***************************************************************************)
EXTENDS Metrics, SequenceTheorems, TLAPS

LabelRec == [name : Reserved, value : Name]

LabelsIn(s) == {s[i] : i \in DOMAIN s}

Uniq(s) == \A i, k \in DOMAIN s : s[i].name = s[k].name => i = k

-----------------------------------------------------------------------------
(* Sequences of labels.                                                    *)

LEMMA LabelFacts ==
    ASSUME NEW name \in Reserved, NEW value \in Name
    PROVE  /\ Label(name, value) \in Seq(LabelRec)
           /\ LabelsIn(Label(name, value)) =
                IF value = None THEN {} ELSE {[name |-> name, value |-> value]}
           /\ Uniq(Label(name, value))
<1> DEFINE l == [name |-> name, value |-> value]
<1>1. l \in LabelRec
  BY DEF LabelRec
<1>2. CASE value = None
  BY <1>2 DEF Label, LabelsIn, Uniq
<1>3. CASE value # None
  <2>1. Label(name, value) = <<l>> /\ DOMAIN <<l>> = {1} /\ <<l>>[1] = l
    BY <1>3 DEF Label
  <2> HIDE DEF l
  <2>2. LabelsIn(<<l>>) = {l} /\ Uniq(<<l>>) /\ <<l>> \in Seq(LabelRec)
    BY <1>1, <2>1 DEF LabelsIn, Uniq
  <2> QED BY <1>3, <2>1, <2>2 DEF l
<1> QED BY <1>2, <1>3

LEMMA ConcatFacts ==
    ASSUME NEW a \in Seq(LabelRec), NEW b \in Seq(LabelRec)
    PROVE  /\ a \o b \in Seq(LabelRec)
           /\ Len(a \o b) = Len(a) + Len(b)
           /\ \A i \in DOMAIN a : (a \o b)[i] = a[i]
           /\ LabelsIn(a \o b) = LabelsIn(a) \cup LabelsIn(b)
           /\ Uniq(a) /\ Uniq(b) /\ (\A x \in LabelsIn(a), y \in LabelsIn(b) : x.name # y.name)
                => Uniq(a \o b)
<1>1. /\ a \o b \in Seq(LabelRec)
      /\ Len(a \o b) = Len(a) + Len(b)
      /\ Len(a) \in Nat /\ Len(b) \in Nat
      /\ DOMAIN a = 1..Len(a) /\ DOMAIN b = 1..Len(b)
      /\ DOMAIN (a \o b) = 1..(Len(a) + Len(b))
  OBVIOUS
<1>2. \A i \in DOMAIN a : (a \o b)[i] = a[i]
  OBVIOUS
<1>3. \A i \in DOMAIN (a \o b) :
        i \in DOMAIN a \/ (i - Len(a) \in DOMAIN b /\ (a \o b)[i] = b[i - Len(a)])
  OBVIOUS
<1>4. \A i \in DOMAIN b : i + Len(a) \in DOMAIN (a \o b) /\ (a \o b)[i + Len(a)] = b[i]
  OBVIOUS
<1> DEFINE c == a \o b
<1> HIDE DEF c
<1>5. LabelsIn(c) = LabelsIn(a) \cup LabelsIn(b)
  <2>1. ASSUME NEW x \in LabelsIn(c) PROVE x \in LabelsIn(a) \cup LabelsIn(b)
    BY <1>2, <1>3 DEF LabelsIn, c
  <2>2. ASSUME NEW x \in LabelsIn(a) PROVE x \in LabelsIn(c)
    BY <1>1, <1>2 DEF LabelsIn, c
  <2>3. ASSUME NEW x \in LabelsIn(b) PROVE x \in LabelsIn(c)
    BY <1>4 DEF LabelsIn, c
  <2> QED BY <2>1, <2>2, <2>3
<1>6. ASSUME Uniq(a), Uniq(b), \A x \in LabelsIn(a), y \in LabelsIn(b) : x.name # y.name
      PROVE  Uniq(c)
  <2> SUFFICES ASSUME NEW i \in DOMAIN c, NEW k \in DOMAIN c, c[i].name = c[k].name
               PROVE  i = k
    BY DEF Uniq
  <2>1. CASE i \in DOMAIN a /\ k \in DOMAIN a
    BY <1>2, <1>6, <2>1 DEF Uniq, c
  <2>2. CASE i \notin DOMAIN a /\ k \notin DOMAIN a
    <3>1. i - Len(a) = k - Len(a)
      BY <1>3, <1>6, <2>2 DEF Uniq, c
    <3> QED BY <1>1, <3>1 DEF c
  <2>3. CASE i \in DOMAIN a /\ k \notin DOMAIN a
    BY <1>2, <1>3, <1>6, <2>3 DEF LabelsIn, c
  <2>4. CASE i \notin DOMAIN a /\ k \in DOMAIN a
    BY <1>2, <1>3, <1>6, <2>4 DEF LabelsIn, c
  <2> QED BY <2>1, <2>2, <2>3, <2>4
<1> QED BY <1>1, <1>2, <1>5, <1>6 DEF c

(* The labels of a datum, its item renamed, and nothing else.              *)
DatumLabels(e, valueMap) ==
    LabelsIn(Label("field", e.field)) \cup LabelsIn(Label("value", e.text)) \cup
    (IF e.item = None THEN {} ELSE {[name |-> "item", value |-> Renamed(valueMap, e.item)]})

Items(e, valueMap) == [i \in DOMAIN ProbeLabels(e) |-> Mapped(valueMap, ProbeLabels(e)[i])]

LEMMA ItemsFacts ==
    ASSUME NEW e \in Datum, NEW valueMap,
           \A item \in DOMAIN valueMap : valueMap[item] \in Name
    PROVE  /\ Items(e, valueMap) \in Seq(LabelRec)
           /\ Uniq(Items(e, valueMap))
           /\ LabelsIn(Items(e, valueMap)) = DatumLabels(e, valueMap)
           /\ \A l \in LabelsIn(Items(e, valueMap)) : l.name \in {"field", "item", "value"}
<1> DEFINE f == Label("field", e.field)
           g == Label("item", e.item)
           v == Label("value", e.text)
           p == ProbeLabels(e)
           s == Items(e, valueMap)
           Plain == IF e.item = None THEN {} ELSE {[name |-> "item", value |-> e.item]}
<1>1. e.field \in Name /\ e.item \in Name /\ e.text \in Name
  BY DEF Datum
<1>2. {"field", "item", "value"} \subseteq Reserved
  BY DEF Reserved
<1>3. /\ f \in Seq(LabelRec) /\ Uniq(f)
      /\ LabelsIn(f) = IF e.field = None THEN {} ELSE {[name |-> "field", value |-> e.field]}
  BY <1>1, <1>2, LabelFacts
<1>4. g \in Seq(LabelRec) /\ Uniq(g) /\ LabelsIn(g) = Plain
  BY <1>1, <1>2, LabelFacts
<1>5. /\ v \in Seq(LabelRec) /\ Uniq(v)
      /\ LabelsIn(v) = IF e.text = None THEN {} ELSE {[name |-> "value", value |-> e.text]}
  BY <1>1, <1>2, LabelFacts
<1>6. p = (f \o g) \o v
  BY DEF ProbeLabels
<1> HIDE DEF f, g, v, p
<1>7. /\ f \o g \in Seq(LabelRec)
      /\ LabelsIn(f \o g) = LabelsIn(f) \cup LabelsIn(g)
      /\ Uniq(f \o g)
  <2>1. \A x \in LabelsIn(f), y \in LabelsIn(g) : x.name # y.name
    BY <1>3, <1>4
  <2> QED BY <1>3, <1>4, <2>1, ConcatFacts
<1>8. /\ p \in Seq(LabelRec)
      /\ LabelsIn(p) = LabelsIn(f) \cup LabelsIn(g) \cup LabelsIn(v)
      /\ Uniq(p)
  <2>1. \A x \in LabelsIn(f \o g), y \in LabelsIn(v) : x.name # y.name
    BY <1>3, <1>4, <1>5, <1>7
  <2>2. /\ p \in Seq(LabelRec)
        /\ LabelsIn(p) = LabelsIn(f \o g) \cup LabelsIn(v)
        /\ Uniq(p)
    BY <1>5, <1>6, <1>7, <2>1, ConcatFacts
  <2> QED BY <1>7, <2>2
<1>9. /\ DOMAIN p = 1..Len(p) /\ Len(p) \in Nat
      /\ \A i \in DOMAIN p : p[i] \in LabelRec /\ p[i] \in LabelsIn(p)
  BY <1>8 DEF LabelsIn
<1>10. s = [i \in DOMAIN p |-> Mapped(valueMap, p[i])]
  BY DEF Items, p
<1> HIDE DEF s
<1>11. \A l \in LabelRec : Mapped(valueMap, l) \in LabelRec /\ Mapped(valueMap, l).name = l.name
  BY DEF Mapped, LabelRec
<1>12. s \in Seq(LabelRec)
  BY <1>9, <1>10, <1>11
<1>13. Uniq(s)
  BY <1>8, <1>9, <1>10, <1>11 DEF Uniq
<1>14. LabelsIn(s) = {Mapped(valueMap, l) : l \in LabelsIn(p)}
  BY <1>10 DEF LabelsIn
<1>15. \A l \in LabelsIn(f) \cup LabelsIn(v) : Mapped(valueMap, l) = l
  BY <1>3, <1>5 DEF Mapped
<1>16. \A l \in LabelsIn(g) : Mapped(valueMap, l) = [name |-> "item", value |-> Renamed(valueMap, e.item)]
  BY <1>4 DEF Mapped, Renamed
<1>17. LabelsIn(s) = DatumLabels(e, valueMap)
  <2>1. DatumLabels(e, valueMap) =
          LabelsIn(f) \cup LabelsIn(v) \cup
          (IF e.item = None THEN {} ELSE {[name |-> "item", value |-> Renamed(valueMap, e.item)]})
    BY DEF DatumLabels, f, v
  <2>2. CASE e.item = None
    BY <1>4, <1>8, <1>14, <1>15, <2>1, <2>2
  <2>3. CASE e.item # None
    <3> DEFINE l == [name |-> "item", value |-> Renamed(valueMap, e.item)]
    <3>1. LabelsIn(g) # {} /\ \A x \in LabelsIn(g) : Mapped(valueMap, x) = l
      BY <1>4, <1>16, <2>3
    <3> HIDE DEF l
    <3>2. LabelsIn(s) = LabelsIn(f) \cup LabelsIn(v) \cup {l}
      BY <1>8, <1>14, <1>15, <3>1
    <3> QED BY <2>1, <2>3, <3>2 DEF l
  <2> QED BY <2>2, <2>3
<1>18. \A l \in LabelsIn(s) : l.name \in {"field", "item", "value"}
  <2>1. \A l \in LabelsIn(f) \cup LabelsIn(v) : l.name \in {"field", "value"}
    BY <1>3, <1>5
  <2> QED BY <1>17, <2>1 DEF DatumLabels, f, v
<1> QED BY <1>12, <1>13, <1>17, <1>18 DEF s

-----------------------------------------------------------------------------
(* The metrics of the jobs.                                                *)

TasksOf(j) == DOMAIN table[j].tasks

Data(j, t) == {None} \cup table[j].tasks[t].publishes

Batch(j, t, d) == TaskMetrics(table[j], t) \o DataMetrics(table[j], t, d)

MetricsOf(j) ==
    {ScriptMetric(table[j])} \cup
    UNION {UNION {{Batch(j, t, d)[i] : i \in DOMAIN Batch(j, t, d)} : d \in Data(j, t)} :
             t \in TasksOf(j)}

ItemNames == {"field", "item", "value"}

DataMetricNames == {"probe_data", "probe_data_item"}

(* What every metric of a task has, given regular names.                   *)
OfTask(m, j, t) ==
    /\ m.of.task = t
    /\ m.labels \in Seq(LabelRec) /\ Uniq(m.labels)
    /\ Len(m.labels) >= 3
    /\ m.labels[1] = [name |-> "job", value |-> table[j].name]
    /\ m.labels[2] = [name |-> "script", value |-> table[j].file]
    /\ m.labels[3] = [name |-> "task", value |-> table[j].tasks[t].name]
    /\ m.const = table[j].tasks[t].labels
    /\ \/ m.metric \in {"task_result", "task_runtime", "task_runs"} /\ Len(m.labels) = 3
       \/ m.metric = "probe_data" /\ Len(m.labels) = 4 /\ m.labels[4].name = "probe"
       \/ m.metric = "probe_data_item"

OfScript(m, j) ==
    /\ m.of.task = 0
    /\ m.labels = << [name |-> "job", value |-> table[j].name],
                     [name |-> "script", value |-> table[j].file] >>
    /\ m.const = <<>>
    /\ m.metric = "script_result"

LEMMA TableFacts ==
    ASSUME table \in Tables, Regular, NEW j \in DOMAIN table
    PROVE  /\ table[j].name \in Name /\ Len(table[j].name) = 1
           /\ table[j].file \in Name /\ Len(table[j].file) = 1
           /\ \A t \in TasksOf(j) :
                LET own == table[j].tasks[t] IN
                /\ own.name \in Name /\ Len(own.name) = 1
                /\ own.probe \in Name /\ own.probe # None
                /\ own.labels \in [DOMAIN own.labels -> Name]
                /\ DOMAIN own.labels \cap (Reserved \cup NotLabels) = {}
                /\ \A item \in DOMAIN own.valueMap : own.valueMap[item] \in Name
                /\ own.publishes \subseteq Seq(Datum)
                /\ \A u \in TasksOf(j) : table[j].tasks[u].name = own.name => t = u
  BY MetricsAssumption DEF Regular, TasksOf

(* Its index is the place of a task in the list.                           *)
LEMMA TaskIndices ==
    ASSUME table \in Tables
    PROVE  /\ DOMAIN table = 1..Len(table) /\ Len(table) \in Nat
           /\ \A j \in DOMAIN table :
                TasksOf(j) = 1..Len(table[j].tasks) /\ Len(table[j].tasks) \in Nat
<1>1. IsSequence(table) /\ \A j \in DOMAIN table : IsSequence(table[j].tasks)
  BY MetricsAssumption
<1>2. ASSUME NEW s, IsSequence(s) PROVE DOMAIN s = 1..Len(s) /\ Len(s) \in Nat
  BY <1>2 DEF IsSequence
<1> QED BY <1>1, <1>2 DEF TasksOf

(* No two tasks of a job have a name in common: looked up by name, a task  *)
(* is found.                                                               *)
LEMMA TaskFound ==
    ASSUME table \in Tables, Regular, NEW j \in DOMAIN table, NEW t \in TasksOf(j)
    PROVE  TaskMetric(table[j], table[j].tasks[t].name) = table[j].tasks[t]
<1> DEFINE job == table[j]
           name == job.tasks[t].name
           P(u) == /\ job.tasks[u].name = name
                   /\ \A w \in 1..(u - 1) : job.tasks[w].name # name
<1>1. \A u \in TasksOf(j) : job.tasks[u].name = name => u = t
  BY TableFacts
<1>2. \A w \in 1..(t - 1) : w \in TasksOf(j) /\ w # t
  BY TaskIndices
<1>3. P(t) /\ \A u \in TasksOf(j) : P(u) => u = t
  BY <1>1, <1>2
<1>4. (CHOOSE u \in TasksOf(j) : P(u)) = t
  <2> HIDE DEF P
  <2> QED BY <1>3
<1> QED BY <1>4 DEF TaskMetric, TasksOf

LEMMA ConcatOfTuples ==
    ASSUME NEW x, NEW y, NEW z
    PROVE  /\ <<x>> \o <<y>> = <<x, y>>
           /\ (<<x>> \o <<y>>) \o <<z>> = <<x, y, z>>
<1> DEFINE S == {x, y, z}
<1>1. /\ <<x>> \in Seq(S) /\ <<y>> \in Seq(S) /\ <<z>> \in Seq(S)
      /\ <<x, y>> \in Seq(S) /\ <<x, y, z>> \in Seq(S)
      /\ Len(<<x>>) = 1 /\ Len(<<y>>) = 1 /\ Len(<<z>>) = 1
      /\ Len(<<x, y>>) = 2 /\ Len(<<x, y, z>>) = 3
      /\ <<x>>[1] = x /\ <<y>>[1] = y /\ <<z>>[1] = z
      /\ <<x, y>>[1] = x /\ <<x, y>>[2] = y
      /\ <<x, y, z>>[1] = x /\ <<x, y, z>>[2] = y /\ <<x, y, z>>[3] = z
  OBVIOUS
<1>2. <<x>> \o <<y>> = <<x, y>>
  <2> DEFINE s == <<x>> \o <<y>>
             t == <<x, y>>
  <2> HIDE DEF S
  <2>1. /\ s \in Seq(S) /\ Len(s) = 1 + 1
        /\ \A i \in 1..(1 + 1) : s[i] = IF i <= 1 THEN <<x>>[i] ELSE <<y>>[i - 1]
    BY <1>1, ConcatProperties
  <2> HIDE DEF s
  <2>2. Len(s) = 2 /\ s[1] = x /\ s[2] = y
    BY <1>1, <2>1
  <2> HIDE DEF t
  <2>3. t \in Seq(S) /\ Len(t) = 2 /\ t[1] = x /\ t[2] = y
    BY <1>1 DEF t
  <2>4. Len(s) = Len(t) /\ \A i \in 1..Len(s) : s[i] = t[i]
    BY <2>2, <2>3
  <2> QED BY <2>1, <2>3, <2>4, SeqEqual DEF s, t
<1>3. <<x, y>> \o <<z>> = <<x, y, z>>
  <2> DEFINE s == <<x, y>> \o <<z>>
             t == <<x, y, z>>
  <2> HIDE DEF S
  <2>1. /\ s \in Seq(S) /\ Len(s) = 2 + 1
        /\ \A i \in 1..(2 + 1) : s[i] = IF i <= 2 THEN <<x, y>>[i] ELSE <<z>>[i - 2]
    BY <1>1, ConcatProperties
  <2> HIDE DEF s
  <2>2. Len(s) = 3 /\ s[1] = x /\ s[2] = y /\ s[3] = z
    BY <1>1, <2>1
  <2> HIDE DEF t
  <2>3. t \in Seq(S) /\ Len(t) = 3 /\ t[1] = x /\ t[2] = y /\ t[3] = z
    BY <1>1 DEF t
  <2>4. Len(s) = Len(t) /\ \A i \in 1..Len(s) : s[i] = t[i]
    BY <2>2, <2>3
  <2> QED BY <2>1, <2>3, <2>4, SeqEqual DEF s, t
<1> QED BY <1>2, <1>3

LEMMA GeneralLabels ==
    ASSUME table \in Tables, Regular, NEW j \in DOMAIN table
    PROVE  /\ LabelsScriptGeneral(table[j]) =
                << [name |-> "job", value |-> table[j].name],
                   [name |-> "script", value |-> table[j].file] >>
           /\ \A t \in TasksOf(j) : LabelsTaskGeneral(table[j], t) =
                << [name |-> "job", value |-> table[j].name],
                   [name |-> "script", value |-> table[j].file],
                   [name |-> "task", value |-> table[j].tasks[t].name] >>
<1>1. /\ table[j].name # None /\ table[j].file # None
      /\ \A t \in TasksOf(j) : table[j].tasks[t].name # None
  BY TableFacts DEF None
<1>2. ASSUME NEW x, NEW y, NEW z
      PROVE  <<x>> \o <<y>> = <<x, y>> /\ (<<x>> \o <<y>>) \o <<z>> = <<x, y, z>>
  BY ConcatOfTuples
<1>3. LabelsScriptGeneral(table[j]) =
        << [name |-> "job", value |-> table[j].name] >> \o
        << [name |-> "script", value |-> table[j].file] >>
  BY <1>1 DEF LabelsScriptGeneral, Label
<1>4. ASSUME NEW t \in TasksOf(j)
      PROVE  LabelsTaskGeneral(table[j], t) =
               LabelsScriptGeneral(table[j]) \o
               << [name |-> "task", value |-> table[j].tasks[t].name] >>
  BY <1>1 DEF LabelsTaskGeneral, Label
<1> QED BY <1>2, <1>3, <1>4

LEMMA ScriptMetricFacts ==
    ASSUME table \in Tables, Regular, NEW j \in DOMAIN table
    PROVE  OfScript(ScriptMetric(table[j]), j)
  BY GeneralLabels DEF OfScript, ScriptMetric

LEMMA TaskLabels ==
    ASSUME table \in Tables, Regular, NEW j \in DOMAIN table, NEW t \in TasksOf(j)
    PROVE  /\ LabelsTaskGeneral(table[j], t) \in Seq(LabelRec)
           /\ Len(LabelsTaskGeneral(table[j], t)) = 3
           /\ Uniq(LabelsTaskGeneral(table[j], t))
           /\ \A l \in LabelsIn(LabelsTaskGeneral(table[j], t)) : l.name \in {"job", "script", "task"}
<1> DEFINE g == LabelsTaskGeneral(table[j], t)
           a == [name |-> "job", value |-> table[j].name]
           b == [name |-> "script", value |-> table[j].file]
           c == [name |-> "task", value |-> table[j].tasks[t].name]
<1>1. a \in LabelRec /\ b \in LabelRec /\ c \in LabelRec
  BY TableFacts DEF LabelRec, Reserved
<1>2. g = <<a, b, c>>
  BY GeneralLabels
<1>3. a.name = "job" /\ b.name = "script" /\ c.name = "task"
  OBVIOUS
<1> HIDE DEF a, b, c, g
<1>4. g \in Seq(LabelRec) /\ Len(g) = 3 /\ DOMAIN g = 1..3
  BY <1>1, <1>2
<1>5. Uniq(g) /\ \A l \in LabelsIn(g) : l.name \in {"job", "script", "task"}
  BY <1>2, <1>3, <1>4 DEF Uniq, LabelsIn
<1> QED BY <1>4, <1>5 DEF g

LEMMA TaskMetricsFacts ==
    ASSUME table \in Tables, Regular, NEW j \in DOMAIN table, NEW t \in TasksOf(j), NEW k \in 1..3
    PROVE  /\ OfTask(TaskMetrics(table[j], t)[k], j, t)
           /\ TaskMetrics(table[j], t)[k].metric \notin DataMetricNames
           /\ TaskMetrics(table[j], t)[k].metric =
                <<"task_result", "task_runtime", "task_runs">>[k]
<1> DEFINE m == TaskMetrics(table[j], t)[k]
<1>1. /\ m.metric = <<"task_result", "task_runtime", "task_runs">>[k]
      /\ m.labels = LabelsTaskGeneral(table[j], t)
      /\ m.const = table[j].tasks[t].labels
      /\ m.of.task = t
  BY TaskFound DEF TaskMetrics
<1>2. m.metric \in {"task_result", "task_runtime", "task_runs"}
  BY <1>1
<1> HIDE DEF m
<1>3. m.labels = << [name |-> "job", value |-> table[j].name],
                    [name |-> "script", value |-> table[j].file],
                    [name |-> "task", value |-> table[j].tasks[t].name] >>
  BY <1>1, GeneralLabels
<1>4. /\ m.labels \in Seq(LabelRec) /\ Uniq(m.labels) /\ Len(m.labels) = 3
  BY <1>1, TaskLabels
<1>5. OfTask(m, j, t)
  BY <1>1, <1>2, <1>3, <1>4 DEF OfTask
<1> QED BY <1>1, <1>2, <1>5 DEF m, DataMetricNames

(* A datum has the labels of its task, the probe and its own.              *)
LEMMA DataMetricsFacts ==
    ASSUME table \in Tables, Regular, NEW j \in DOMAIN table, NEW t \in TasksOf(j),
           NEW d \in Seq(Datum), NEW k \in DOMAIN d
    PROVE  LET m == DataMetrics(table[j], t, d)[k]
               own == table[j].tasks[t]
           IN /\ OfTask(m, j, t)
              /\ m.metric \in DataMetricNames
              /\ {l \in LabelsIn(m.labels) : l.name \in ItemNames} = DatumLabels(d[k], own.valueMap)
<1> DEFINE m == DataMetrics(table[j], t, d)[k]
           own == table[j].tasks[t]
           g == LabelsTaskGeneral(table[j], t)
           p == Label("probe", own.probe)
           item == Items(d[k], own.valueMap)
<1>1. /\ m.metric = IF item = <<>> THEN "probe_data" ELSE "probe_data_item"
      /\ m.labels = (g \o p) \o item
      /\ m.const = own.labels
      /\ m.of.task = t
  BY TaskFound DEF DataMetrics, Items
<1>2. /\ own.probe \in Name /\ own.probe # None
      /\ \A x \in DOMAIN own.valueMap : own.valueMap[x] \in Name
      /\ d[k] \in Datum
  BY TableFacts
<1>3. /\ item \in Seq(LabelRec) /\ Uniq(item)
      /\ LabelsIn(item) = DatumLabels(d[k], own.valueMap)
      /\ \A l \in LabelsIn(item) : l.name \in ItemNames
  <2> HIDE DEF own
  <2> QED BY <1>2, ItemsFacts DEF ItemNames
<1>4. /\ p \in Seq(LabelRec) /\ Uniq(p)
      /\ LabelsIn(p) = {[name |-> "probe", value |-> own.probe]}
  BY <1>2, LabelFacts DEF Reserved
<1>5. p = <<[name |-> "probe", value |-> own.probe]>>
  BY <1>2 DEF Label
<1>6. /\ g \in Seq(LabelRec) /\ Uniq(g) /\ Len(g) = 3
      /\ \A l \in LabelsIn(g) : l.name \in {"job", "script", "task"}
      /\ g = << [name |-> "job", value |-> table[j].name],
                [name |-> "script", value |-> table[j].file],
                [name |-> "task", value |-> own.name] >>
  BY TaskLabels, GeneralLabels
<1>7. g[1].name = "job" /\ g[2].name = "script" /\ g[3].name = "task"
  BY <1>6
<1>a. Len(p) = 1 /\ p[1].name = "probe"
  BY <1>5
<1>b. \A l \in LabelsIn(p) : l.name = "probe"
  BY <1>4
<1> HIDE DEF p, g, item, m
<1>c. /\ g \in Seq(LabelRec) /\ Uniq(g) /\ Len(g) = 3 /\ DOMAIN g = 1..3
      /\ \A l \in LabelsIn(g) : l.name \in {"job", "script", "task"}
  BY <1>6
<1>d. p \in Seq(LabelRec) /\ Uniq(p)
  BY <1>4
<1>8. /\ g \o p \in Seq(LabelRec) /\ Len(g \o p) = 4 /\ Uniq(g \o p)
      /\ LabelsIn(g \o p) = LabelsIn(g) \cup LabelsIn(p)
      /\ \A i \in 1..3 : (g \o p)[i] = g[i]
      /\ (g \o p)[4] = p[1]
  <2>1. \A x \in LabelsIn(g), y \in LabelsIn(p) : x.name # y.name
    BY <1>b, <1>c
  <2>2. (g \o p)[4] = p[1]
    <3>1. ASSUME NEW a \in Seq(LabelRec), NEW b \in Seq(LabelRec), Len(a) = 3, Len(b) = 1
          PROVE  (a \o b)[4] = b[1]
      <4> HIDE DEF LabelRec
      <4>1. \A i \in 1..(Len(a) + Len(b)) :
              (a \o b)[i] = IF i <= Len(a) THEN a[i] ELSE b[i - Len(a)]
        BY ConcatProperties
      <4>2. 4 \in 1..(Len(a) + Len(b)) /\ ~(4 <= Len(a)) /\ 4 - Len(a) = 1
        BY <3>1
      <4> QED BY <4>1, <4>2
    <3> QED BY <1>a, <1>c, <1>d, <3>1
  <2>3. /\ g \o p \in Seq(LabelRec)
        /\ Len(g \o p) = Len(g) + Len(p)
        /\ \A i \in DOMAIN g : (g \o p)[i] = g[i]
        /\ LabelsIn(g \o p) = LabelsIn(g) \cup LabelsIn(p)
        /\ Uniq(g \o p)
    BY <1>c, <1>d, <2>1, ConcatFacts
  <2> HIDE DEF LabelRec
  <2> QED BY <1>a, <1>c, <2>2, <2>3
<1>9. /\ m.labels \in Seq(LabelRec) /\ Uniq(m.labels)
      /\ Len(m.labels) = 4 + Len(item) /\ Len(item) \in Nat
      /\ LabelsIn(m.labels) = LabelsIn(g) \cup LabelsIn(p) \cup LabelsIn(item)
      /\ \A i \in 1..3 : m.labels[i] = g[i]
      /\ m.labels[4] = p[1]
  <2>1. PICK h : h = g \o p
    OBVIOUS
  <2>2. /\ h \in Seq(LabelRec) /\ Uniq(h) /\ Len(h) = 4 /\ DOMAIN h = 1..4
        /\ LabelsIn(h) = LabelsIn(g) \cup LabelsIn(p)
        /\ \A i \in 1..3 : h[i] = g[i]
        /\ h[4] = p[1]
    <3>1. h \in Seq(LabelRec) /\ Len(h) = 4
      BY <1>8, <2>1, Zenon
    <3>2. DOMAIN h = 1..4
      BY <3>1
    <3> QED BY <1>8, <2>1, <3>1, <3>2, Zenon
  <2>3. item \in Seq(LabelRec) /\ Uniq(item) /\ Len(item) \in Nat
    BY <1>3
  <2>4. \A x \in LabelsIn(h), y \in LabelsIn(item) : x.name # y.name
    BY <1>3, <1>b, <1>c, <2>2 DEF ItemNames
  <2> HIDE DEF LabelRec, LabelsIn, Uniq
  <2>5. /\ h \o item \in Seq(LabelRec) /\ Uniq(h \o item)
        /\ Len(h \o item) = Len(h) + Len(item)
        /\ LabelsIn(h \o item) = LabelsIn(h) \cup LabelsIn(item)
        /\ \A i \in DOMAIN h : (h \o item)[i] = h[i]
    BY <2>2, <2>3, <2>4, ConcatFacts, Zenon
  <2>6. m.labels = h \o item
    BY <1>1, <2>1, Zenon
  <2>7. PICK r : r = h \o item
    OBVIOUS
  <2>8. /\ r \in Seq(LabelRec) /\ Uniq(r) /\ Len(r) = Len(h) + Len(item)
        /\ LabelsIn(r) = LabelsIn(h) \cup LabelsIn(item)
        /\ \A i \in DOMAIN h : r[i] = h[i]
        /\ m.labels = r
    BY <2>5, <2>6, <2>7, Zenon
  <2> QED BY <2>2, <2>3, <2>8
<1>10. (m.metric = "probe_data" /\ Len(m.labels) = 4) \/ m.metric = "probe_data_item"
  BY <1>1, <1>9
<1>11. /\ m.labels[1] = [name |-> "job", value |-> table[j].name]
       /\ m.labels[2] = [name |-> "script", value |-> table[j].file]
       /\ m.labels[3] = [name |-> "task", value |-> own.name]
  BY <1>6, <1>9
<1>12. OfTask(m, j, t)
  BY <1>1, <1>9, <1>10, <1>11, <1>a DEF OfTask
<1>13. {l \in LabelsIn(m.labels) : l.name \in ItemNames} = LabelsIn(item)
  BY <1>3, <1>9, <1>b, <1>c DEF ItemNames
<1> QED BY <1>3, <1>10, <1>12, <1>13 DEF m, DataMetricNames

(* What is sent for a task: the three metrics of every task, then its data.*)
LEMMA BatchFacts ==
    ASSUME table \in Tables, Regular, NEW j \in DOMAIN table, NEW t \in TasksOf(j),
           NEW d \in Data(j, t)
    PROVE  /\ d \in Seq(Datum)
           /\ Batch(j, t, d) \in Seq(MetricsOf(j))
           /\ DOMAIN Batch(j, t, d) = 1..(3 + Len(d)) /\ Len(d) \in Nat
           /\ \A i \in 1..3 : Batch(j, t, d)[i] = TaskMetrics(table[j], t)[i]
           /\ \A i \in 4..(3 + Len(d)) :
                i - 3 \in DOMAIN d /\ Batch(j, t, d)[i] = DataMetrics(table[j], t, d)[i - 3]
           /\ \A i \in DOMAIN Batch(j, t, d) : OfTask(Batch(j, t, d)[i], j, t)
<1> DEFINE a == TaskMetrics(table[j], t)
           b == DataMetrics(table[j], t, d)
           c == Batch(j, t, d)
           A == {a[i] : i \in DOMAIN a} \cup {b[i] : i \in DOMAIN b}
<1>1. d \in Seq(Datum)
  <2>1. None \in Seq(Datum)
    BY DEF None
  <2>2. table[j].tasks[t].publishes \subseteq Seq(Datum)
    BY TableFacts
  <2> QED BY <2>1, <2>2 DEF Data
<1>2. Len(d) \in Nat /\ DOMAIN d = 1..Len(d)
  BY <1>1
<1>3. DOMAIN a = 1..3 /\ DOMAIN b = DOMAIN d
  BY DEF TaskMetrics, DataMetrics
<1>a. a = [i \in 1..3 |-> a[i]] /\ b = [i \in DOMAIN d |-> b[i]]
  BY <1>3 DEF TaskMetrics, DataMetrics
<1> HIDE DEF a, b
<1>b. a \in Seq(A) /\ Len(a) = 3
  BY <1>3, <1>a
<1>c. b \in Seq(A) /\ Len(b) = Len(d)
  BY <1>2, <1>3, <1>a
<1>d. c = a \o b
  BY DEF Batch, a, b
<1> HIDE DEF A, c
<1>e. /\ c \in Seq(A) /\ Len(c) = 3 + Len(d)
      /\ \A i \in 1..(3 + Len(d)) : c[i] = IF i <= 3 THEN a[i] ELSE b[i - 3]
  <2>1. /\ c \in Seq(A) /\ Len(c) = Len(a) + Len(b)
        /\ \A i \in 1..(Len(a) + Len(b)) : c[i] = IF i <= Len(a) THEN a[i] ELSE b[i - Len(a)]
    <3>1. /\ a \o b \in Seq(A) /\ Len(a \o b) = Len(a) + Len(b)
          /\ \A i \in 1..(Len(a) + Len(b)) :
               (a \o b)[i] = IF i <= Len(a) THEN a[i] ELSE b[i - Len(a)]
      <4>1. a \in Seq(A) /\ b \in Seq(A)
        BY <1>b, <1>c
      <4> QED BY <4>1, ConcatProperties
    <3> QED BY <1>d, <3>1
  <2> QED BY <1>b, <1>c, <2>1
<1>4. DOMAIN c = 1..(3 + Len(d))
  BY <1>e
<1>5. /\ \A i \in 1..3 : c[i] = a[i]
      /\ \A i \in 4..(3 + Len(d)) : i - 3 \in DOMAIN d /\ c[i] = b[i - 3]
  BY <1>2, <1>e
<1>6. ASSUME NEW i \in DOMAIN c PROVE OfTask(c[i], j, t)
  <2>1. CASE i \in 1..3
    BY <1>5, <2>1, TaskMetricsFacts DEF a
  <2>2. CASE i \in 4..(3 + Len(d))
    BY <1>1, <1>5, <2>2, DataMetricsFacts DEF b
  <2> QED BY <1>2, <1>4, <2>1, <2>2
<1>7. \A i \in DOMAIN c : c[i] \in MetricsOf(j)
  BY DEF MetricsOf, c
<1>8. c \in Seq(MetricsOf(j))
  BY <1>e, <1>4, <1>7
<1> QED BY <1>1, <1>2, <1>4, <1>5, <1>6, <1>8 DEF a, b, c

LEMMA MetricShapes ==
    ASSUME table \in Tables, Regular, NEW j \in DOMAIN table, NEW m \in MetricsOf(j)
    PROVE  \/ OfScript(m, j)
           \/ \E t \in TasksOf(j) : OfTask(m, j, t)
<1>1. CASE m = ScriptMetric(table[j])
  BY <1>1, ScriptMetricFacts
<1>2. CASE \E t \in TasksOf(j) : \E d \in Data(j, t) :
             \E i \in DOMAIN Batch(j, t, d) : m = Batch(j, t, d)[i]
  <2>1. PICK t \in TasksOf(j) : \E d \in Data(j, t) :
             \E i \in DOMAIN Batch(j, t, d) : m = Batch(j, t, d)[i]
    BY <1>2
  <2> QED BY <2>1, BatchFacts
<1> QED BY <1>1, <1>2 DEF MetricsOf

-----------------------------------------------------------------------------
(* Samples.                                                                *)

SampleOf(m) == Sample(NewDesc(m), m)

WellLabelled(m) ==
    /\ m.labels \in Seq(LabelRec) /\ Uniq(m.labels)
    /\ DOMAIN m.const \cap (Reserved \cup NotLabels) = {}
    /\ m.const = [n \in DOMAIN m.const |-> m.const[n]]

LEMMA AllWellLabelled ==
    ASSUME table \in Tables, Regular, NEW j \in DOMAIN table, NEW m \in MetricsOf(j)
    PROVE  WellLabelled(m)
<1>1. CASE OfScript(m, j)
  <2> DEFINE a == [name |-> "job", value |-> table[j].name]
             b == [name |-> "script", value |-> table[j].file]
  <2>1. a \in LabelRec /\ b \in LabelRec /\ a.name # b.name
    BY TableFacts DEF LabelRec, Reserved
  <2>2. m.labels = <<a, b>> /\ m.const = <<>>
    BY <1>1 DEF OfScript
  <2> HIDE DEF a, b
  <2>3. m.labels \in Seq(LabelRec) /\ Uniq(m.labels)
    BY <2>1, <2>2 DEF Uniq
  <2>4. DOMAIN m.const = {} /\ m.const = [n \in DOMAIN m.const |-> m.const[n]]
    BY <2>2
  <2> QED BY <2>3, <2>4 DEF WellLabelled
<1>2. ASSUME NEW t \in TasksOf(j), OfTask(m, j, t)
      PROVE  WellLabelled(m)
  <2>1. m.labels \in Seq(LabelRec) /\ Uniq(m.labels) /\ m.const = table[j].tasks[t].labels
    BY <1>2 DEF OfTask
  <2>2. /\ DOMAIN m.const \cap (Reserved \cup NotLabels) = {}
        /\ m.const \in [DOMAIN m.const -> Name]
    BY <2>1, TableFacts
  <2> QED BY <2>1, <2>2 DEF WellLabelled
<1> QED BY <1>1, <1>2, MetricShapes

(* A sample has the labels of its metric and, besides, the constant ones.  *)
LEMMA SampleFacts ==
    ASSUME NEW m, WellLabelled(m)
    PROVE  LET labels == SampleOf(m).labels IN
           /\ SampleOf(m).metric = m.metric
           /\ \A l \in LabelsIn(m.labels) :
                l \in LabelRec /\ l.name \in DOMAIN labels /\ labels[l.name] = l.value
           /\ \A n \in DOMAIN labels \cap Reserved :
                [name |-> n, value |-> labels[n]] \in LabelsIn(m.labels)
           /\ [n \in DOMAIN labels \ Reserved |-> labels[n]] = m.const
           /\ NameSet(NewDesc(m)) \subseteq Reserved
<1> DEFINE desc == NewDesc(m)
           labels == SampleOf(m).labels
<1>1. /\ desc.metric = m.metric /\ desc.const = m.const
      /\ desc.names = [i \in DOMAIN m.labels |-> m.labels[i].name]
  BY DEF NewDesc, NamesOf
<1>2. /\ SampleOf(m).metric = desc.metric
      /\ labels = [n \in DOMAIN desc.const \cup NameSet(desc) |->
                     IF n \in DOMAIN desc.const THEN desc.const[n]
                     ELSE m.labels[CHOOSE i \in DOMAIN desc.names : desc.names[i] = n].value]
  BY DEF SampleOf, Sample
<1> HIDE DEF desc, labels
<1>3. NameSet(desc) = {m.labels[i].name : i \in DOMAIN m.labels}
  BY <1>1 DEF NameSet
<1>4. \A i \in DOMAIN m.labels : m.labels[i] \in LabelRec
  BY DEF WellLabelled
<1>5. NameSet(desc) \subseteq Reserved
  BY <1>3, <1>4 DEF LabelRec
<1>6. DOMAIN m.const \cap Reserved = {}
  BY DEF WellLabelled
<1>7. ASSUME NEW i \in DOMAIN m.labels
      PROVE  /\ m.labels[i].name \in DOMAIN labels
             /\ labels[m.labels[i].name] = m.labels[i].value
  <2>1. (CHOOSE k \in DOMAIN desc.names : desc.names[k] = m.labels[i].name) = i
    BY <1>1 DEF WellLabelled, Uniq
  <2>2. m.labels[i].name \in NameSet(desc) /\ m.labels[i].name \notin DOMAIN desc.const
    BY <1>1, <1>3, <1>5, <1>6
  <2> QED BY <1>2, <2>1, <2>2
<1>8. ASSUME NEW n \in DOMAIN labels \cap Reserved
      PROVE  [name |-> n, value |-> labels[n]] \in LabelsIn(m.labels)
  <2>1. PICK i \in DOMAIN m.labels : m.labels[i].name = n
    BY <1>1, <1>2, <1>3, <1>6
  <2>2. labels[n] = m.labels[i].value /\ m.labels[i] \in LabelRec
    BY <1>4, <1>7, <2>1
  <2>3. m.labels[i] = [name |-> n, value |-> labels[n]]
    BY <2>1, <2>2 DEF LabelRec
  <2> QED BY <2>3 DEF LabelsIn
<1>9. [n \in DOMAIN labels \ Reserved |-> labels[n]] = m.const
  <2>1. DOMAIN labels \ Reserved = DOMAIN m.const
    BY <1>1, <1>2, <1>5, <1>6
  <2>2. \A n \in DOMAIN m.const : labels[n] = m.const[n]
    BY <1>1, <1>2
  <2>3. m.const = [n \in DOMAIN m.const |-> m.const[n]]
    BY DEF WellLabelled
  <2> QED BY <2>1, <2>2, <2>3
<1>10. \A l \in LabelsIn(m.labels) :
         l \in LabelRec /\ l.name \in DOMAIN labels /\ labels[l.name] = l.value
  BY <1>4, <1>7 DEF LabelsIn
<1> QED BY <1>1, <1>2, <1>5, <1>8, <1>9, <1>10 DEF desc, labels

LEMMA SameSample ==
    ASSUME NEW m, NEW n, WellLabelled(m), WellLabelled(n), SampleOf(m) = SampleOf(n)
    PROVE  m.metric = n.metric /\ LabelsIn(m.labels) = LabelsIn(n.labels)
<1>1. m.metric = n.metric
  BY SampleFacts
<1>2. ASSUME NEW x, NEW y, WellLabelled(x), WellLabelled(y), SampleOf(x) = SampleOf(y),
             NEW l \in LabelsIn(x.labels)
      PROVE  l \in LabelsIn(y.labels)
  <2>1. /\ l \in LabelRec /\ l.name \in DOMAIN SampleOf(y).labels
        /\ SampleOf(y).labels[l.name] = l.value
    <3>1. /\ l \in LabelRec /\ l.name \in DOMAIN SampleOf(x).labels
          /\ SampleOf(x).labels[l.name] = l.value
      <4> HIDE DEF WellLabelled, LabelsIn, SampleOf, LabelRec
      <4> QED BY <1>2, SampleFacts
    <3> QED BY <1>2, <3>1
  <2>2. l.name \in Reserved /\ l = [name |-> l.name, value |-> l.value]
    BY <2>1 DEF LabelRec
  <2>3. [name |-> l.name, value |-> SampleOf(y).labels[l.name]] \in LabelsIn(y.labels)
    BY <1>2, <2>1, <2>2, SampleFacts
  <2> QED BY <2>1, <2>2, <2>3
<1> QED BY <1>1, <1>2

(* The labels that every sample has, and the one of a task.                *)
LEMMA GeneralValues ==
    ASSUME table \in Tables, Regular, NEW j \in DOMAIN table, NEW m \in MetricsOf(j)
    PROVE  /\ [name |-> "job", value |-> table[j].name] \in LabelsIn(m.labels)
           /\ [name |-> "script", value |-> table[j].file] \in LabelsIn(m.labels)
           /\ \A t \in TasksOf(j) : OfTask(m, j, t) =>
                [name |-> "task", value |-> table[j].tasks[t].name] \in LabelsIn(m.labels)
           /\ Uniq(m.labels)
<1> DEFINE a == [name |-> "job", value |-> table[j].name]
           b == [name |-> "script", value |-> table[j].file]
<1>1. WellLabelled(m)
  BY AllWellLabelled
<1>2. DOMAIN m.labels = 1..Len(m.labels) /\ Len(m.labels) \in Nat /\ Uniq(m.labels)
  BY <1>1 DEF WellLabelled
<1>3. ASSUME NEW t \in TasksOf(j), OfTask(m, j, t)
      PROVE  /\ a \in LabelsIn(m.labels) /\ b \in LabelsIn(m.labels)
             /\ [name |-> "task", value |-> table[j].tasks[t].name] \in LabelsIn(m.labels)
  <2>1. 1 \in DOMAIN m.labels /\ 2 \in DOMAIN m.labels /\ 3 \in DOMAIN m.labels
    BY <1>2, <1>3 DEF OfTask
  <2> QED BY <1>3, <2>1 DEF OfTask, LabelsIn
<1>4. CASE OfScript(m, j)
  <2>1. m.labels = <<a, b>>
    BY <1>4 DEF OfScript
  <2> HIDE DEF a, b
  <2>2. /\ 1 \in DOMAIN m.labels /\ m.labels[1] = a
        /\ 2 \in DOMAIN m.labels /\ m.labels[2] = b
    BY <2>1
  <2>3. \A t \in TasksOf(j) : ~OfTask(m, j, t)
    BY <1>4 DEF OfScript, OfTask
  <2> QED BY <1>2, <2>2, <2>3 DEF LabelsIn, a, b
<1> QED BY <1>2, <1>3, <1>4, MetricShapes

(* Equal samples are of one job and one task.                              *)
LEMMA SampleIdentifies ==
    ASSUME table \in Tables, Regular,
           NEW j \in DOMAIN table, NEW k \in DOMAIN table,
           NEW m \in MetricsOf(j), NEW n \in MetricsOf(k),
           SampleOf(m) = SampleOf(n)
    PROVE  j = k /\ m.of.task = n.of.task
<1>1. m.metric = n.metric /\ LabelsIn(m.labels) = LabelsIn(n.labels)
  BY AllWellLabelled, SameSample
<1>2. \A x, y \in LabelsIn(m.labels) : x.name = y.name => x = y
  BY GeneralValues DEF Uniq, LabelsIn
<1>3. j = k
  <2>1. table[j].name = table[k].name /\ table[j].file = table[k].file
    <3> DEFINE a(i) == [name |-> "job", value |-> table[i].name]
               b(i) == [name |-> "script", value |-> table[i].file]
    <3>1. {a(j), a(k), b(j), b(k)} \subseteq LabelsIn(m.labels)
      BY <1>1, GeneralValues
    <3>2. a(j) = a(k) /\ b(j) = b(k)
      <4>1. a(j).name = a(k).name /\ b(j).name = b(k).name
        OBVIOUS
      <4> HIDE DEF a, b
      <4> QED BY <1>2, <3>1, <4>1
    <3>3. a(j).value = a(k).value /\ b(j).value = b(k).value
      <4> HIDE DEF a, b
      <4> QED BY <3>2
    <3> QED BY <3>3
  <2> QED BY <2>1 DEF Regular
<1>4. CASE OfScript(m, j)
  <2>1. n.metric = "script_result"
    BY <1>1, <1>4 DEF OfScript
  <2>2. OfScript(n, k)
    BY <2>1, MetricShapes DEF OfTask
  <2> QED BY <1>3, <1>4, <2>2 DEF OfScript
<1>5. ASSUME NEW t \in TasksOf(j), OfTask(m, j, t)
      PROVE  m.of.task = n.of.task
  <2>1. ~OfScript(n, k)
    BY <1>1, <1>5 DEF OfScript, OfTask
  <2>2. PICK u \in TasksOf(j) : OfTask(n, j, u)
    BY <1>3, <2>1, MetricShapes
  <2> DEFINE c(i) == [name |-> "task", value |-> table[j].tasks[i].name]
  <2>3. c(t) \in LabelsIn(m.labels) /\ c(u) \in LabelsIn(m.labels)
    BY <1>1, <1>3, <1>5, <2>2, GeneralValues
  <2>4. c(t) = c(u)
    <3>1. c(t).name = c(u).name
      OBVIOUS
    <3> HIDE DEF c
    <3> QED BY <1>2, <2>3, <3>1
  <2>5. c(t).value = c(u).value
    <3> HIDE DEF c
    <3> QED BY <2>4
  <2>6. t = u
    BY <2>5, TableFacts
  <2> QED BY <1>5, <2>2, <2>6 DEF OfTask
<1> QED BY <1>3, <1>4, <1>5, MetricShapes

(* Two data of one result never become equal samples: each has a field, an *)
(* item or a text of its own, and labels are made of all three.            *)
LEMMA DataApart ==
    ASSUME table \in Tables, Regular, NEW j \in DOMAIN table, NEW t \in TasksOf(j),
           NEW d \in Data(j, t), NEW k \in DOMAIN d, NEW l \in DOMAIN d,
           LET valueMap == table[j].tasks[t].valueMap IN
           DatumLabels(d[k], valueMap) = DatumLabels(d[l], valueMap)
    PROVE  k = l
<1> DEFINE valueMap == table[j].tasks[t].valueMap
           L(x) == DatumLabels(x, valueMap)
<1>1. d \in Seq(Datum) /\ d[k] \in Datum /\ d[l] \in Datum
  BY BatchFacts
<1>2. ASSUME NEW x \in Datum
      PROVE  L(x) = (IF x.field = None THEN {} ELSE {[name |-> "field", value |-> x.field]})
                    \cup (IF x.text = None THEN {} ELSE {[name |-> "value", value |-> x.text]})
                    \cup (IF x.item = None THEN {}
                          ELSE {[name |-> "item", value |-> Renamed(valueMap, x.item)]})
  <2>1. x.field \in Name /\ x.text \in Name
    BY DEF Datum
  <2>2. "field" \in Reserved /\ "value" \in Reserved
    BY DEF Reserved
  <2> QED BY <2>1, <2>2, LabelFacts DEF DatumLabels
<1>3. ASSUME NEW x \in Datum
      PROVE  /\ \A v : [name |-> "field", value |-> v] \in L(x) <=> x.field # None /\ v = x.field
             /\ \A v : [name |-> "value", value |-> v] \in L(x) <=> x.text # None /\ v = x.text
             /\ \A v : [name |-> "item", value |-> v] \in L(x)
                        <=> x.item # None /\ v = Renamed(valueMap, x.item)
  <2> DEFINE r(a, v) == [name |-> a, value |-> v]
  <2>1. \A a, b, v, w : r(a, v) = r(b, w) <=> a = b /\ v = w
    <3>1. \A a, v : r(a, v).name = a /\ r(a, v).value = v
      OBVIOUS
    <3> HIDE DEF r
    <3> QED BY <3>1
  <2>2. L(x) = (IF x.field = None THEN {} ELSE {r("field", x.field)})
               \cup (IF x.text = None THEN {} ELSE {r("value", x.text)})
               \cup (IF x.item = None THEN {} ELSE {r("item", Renamed(valueMap, x.item))})
    BY <1>2
  <2> HIDE DEF r, L
  <2>3. /\ \A v : r("field", v) \in L(x) <=> x.field # None /\ v = x.field
        /\ \A v : r("value", v) \in L(x) <=> x.text # None /\ v = x.text
        /\ \A v : r("item", v) \in L(x) <=> x.item # None /\ v = Renamed(valueMap, x.item)
    BY <2>1, <2>2
  <2> QED BY <2>3 DEF r
<1>4. L(d[k]) = L(d[l])
  OBVIOUS
<1> HIDE DEF L
<1>5. d[k].field = d[l].field /\ d[k].text = d[l].text
  BY <1>1, <1>3, <1>4
<1>6. Renamed(valueMap, d[k].item) = Renamed(valueMap, d[l].item)
  BY <1>1, <1>3, <1>4
<1>7. CASE d # None
  <2>1. d \in table[j].tasks[t].publishes
    BY <1>7 DEF Data
  <2> QED BY <1>5, <1>6, <2>1 DEF Regular, TasksOf
<1>8. CASE d = None
  BY <1>8 DEF None
<1> QED BY <1>7, <1>8

LEMMA BatchApart ==
    ASSUME table \in Tables, Regular, NEW j \in DOMAIN table, NEW t \in TasksOf(j),
           NEW d \in Data(j, t),
           NEW i \in DOMAIN Batch(j, t, d), NEW k \in DOMAIN Batch(j, t, d),
           SampleOf(Batch(j, t, d)[i]) = SampleOf(Batch(j, t, d)[k])
    PROVE  i = k
<1> DEFINE m == Batch(j, t, d)[i]
           n == Batch(j, t, d)[k]
<1>1. /\ d \in Seq(Datum) /\ Len(d) \in Nat
      /\ i \in 1..(3 + Len(d)) /\ k \in 1..(3 + Len(d))
      /\ m \in MetricsOf(j) /\ n \in MetricsOf(j)
  BY BatchFacts
<1>2. m.metric = n.metric /\ LabelsIn(m.labels) = LabelsIn(n.labels)
  BY <1>1, AllWellLabelled, SameSample
<1>3. ASSUME NEW x \in 1..3
      PROVE  /\ Batch(j, t, d)[x].metric \notin DataMetricNames
             /\ Batch(j, t, d)[x].metric = <<"task_result", "task_runtime", "task_runs">>[x]
  BY BatchFacts, TaskMetricsFacts
<1>4. ASSUME NEW x \in 4..(3 + Len(d))
      PROVE  /\ x - 3 \in DOMAIN d
             /\ Batch(j, t, d)[x].metric \in DataMetricNames
             /\ {l \in LabelsIn(Batch(j, t, d)[x].labels) : l.name \in ItemNames} =
                  DatumLabels(d[x - 3], table[j].tasks[t].valueMap)
  <2>1. x - 3 \in DOMAIN d /\ Batch(j, t, d)[x] = DataMetrics(table[j], t, d)[x - 3]
    BY BatchFacts
  <2> QED BY <1>1, <2>1, DataMetricsFacts
<1>5. CASE i \in 1..3 /\ k \in 1..3
  BY <1>2, <1>3, <1>5
<1>6. CASE i \in 4..(3 + Len(d)) /\ k \in 4..(3 + Len(d))
  <2>1. i - 3 = k - 3
    BY <1>2, <1>4, <1>6, DataApart
  <2> QED BY <1>1, <2>1
<1>7. (i \in 1..3 /\ k \in 1..3) \/ (i \in 4..(3 + Len(d)) /\ k \in 4..(3 + Len(d)))
  BY <1>1, <1>2, <1>3, <1>4
<1> QED BY <1>5, <1>6, <1>7

-----------------------------------------------------------------------------
(* Descriptors.                                                            *)

(* The key tells the descriptors apart: it holds the names of the labels   *)
(* where they vary and names the task where it has labels of its own.      *)
LEMMA KeyDeterminesDesc ==
    ASSUME table \in Tables, Regular,
           NEW j \in DOMAIN table, NEW k \in DOMAIN table,
           NEW m \in MetricsOf(j), NEW n \in MetricsOf(k),
           DescrKey(m) = DescrKey(n)
    PROVE  NewDesc(m) = NewDesc(n)
<1> DEFINE Parts(x) == IF x.const = <<>> THEN <<>> ELSE TaskParts(x)
           KeyNames(x) == IF x.metric = "probe_data_item" THEN NamesOf(x) ELSE <<>>
<1>1. m.metric = n.metric /\ KeyNames(m) = KeyNames(n) /\ Parts(m) = Parts(n)
  <2>1. \A x : /\ DescrKey(x).metric = x.metric
               /\ DescrKey(x).names = KeyNames(x)
               /\ DescrKey(x).parts = Parts(x)
    BY DEF DescrKey
  <2> HIDE DEF KeyNames, Parts
  <2> QED BY <2>1
<1>2. NamesOf(m) = NamesOf(n)
  <2>1. CASE m.metric = "probe_data_item"
    BY <1>1, <2>1
  <2>2. CASE m.metric = "script_result"
    <3>1. OfScript(m, j) /\ OfScript(n, k)
      BY <1>1, <2>2, MetricShapes DEF OfTask
    <3> DEFINE a(x) == [name |-> "job", value |-> table[x].name]
               b(x) == [name |-> "script", value |-> table[x].file]
    <3>2. m.labels = <<a(j), b(j)>> /\ n.labels = <<a(k), b(k)>>
      BY <3>1 DEF OfScript
    <3>3. \A x : a(x).name = "job" /\ b(x).name = "script"
      OBVIOUS
    <3> HIDE DEF a, b
    <3>4. /\ DOMAIN m.labels = {1, 2} /\ DOMAIN n.labels = {1, 2}
          /\ \A i \in {1, 2} : m.labels[i].name = n.labels[i].name
      BY <3>2, <3>3
    <3> QED BY <3>4 DEF NamesOf
  <2>3. CASE m.metric # "script_result" /\ m.metric # "probe_data_item"
    <3>1. PICK t \in TasksOf(j) : OfTask(m, j, t)
      BY <2>3, MetricShapes DEF OfScript
    <3>2. PICK u \in TasksOf(k) : OfTask(n, k, u)
      BY <1>1, <2>3, MetricShapes DEF OfScript
    <3>3. \A i \in 1..3 : m.labels[i].name = n.labels[i].name
      BY <3>1, <3>2 DEF OfTask
    <3>4. DOMAIN m.labels = 1..Len(m.labels) /\ DOMAIN n.labels = 1..Len(n.labels)
      BY <3>1, <3>2 DEF OfTask
    <3>5. \/ Len(m.labels) = 3 /\ Len(n.labels) = 3
          \/ /\ Len(m.labels) = 4 /\ Len(n.labels) = 4
             /\ m.labels[4].name = n.labels[4].name
      BY <1>1, <2>3, <3>1, <3>2 DEF OfTask
    <3>6. DOMAIN m.labels = DOMAIN n.labels /\ \A i \in DOMAIN m.labels : m.labels[i].name = n.labels[i].name
      BY <3>3, <3>4, <3>5
    <3> QED BY <3>6 DEF NamesOf
  <2> QED BY <2>1, <2>2, <2>3
<1>3. ASSUME NEW i \in DOMAIN table, NEW x \in MetricsOf(i), x.const # <<>>
      PROVE  \E t \in TasksOf(i) :
               /\ OfTask(x, i, t)
               /\ TaskParts(x) = <<table[i].name[1], table[i].file[1], table[i].tasks[t].name[1]>>
               /\ table[i].name = <<table[i].name[1]>>
               /\ table[i].file = <<table[i].file[1]>>
               /\ table[i].tasks[t].name = <<table[i].tasks[t].name[1]>>
  <2>1. PICK t \in TasksOf(i) : OfTask(x, i, t)
    BY <1>3, MetricShapes DEF OfScript
  <2>2. TaskParts(x) = (table[i].name \o table[i].file) \o table[i].tasks[t].name
    <3>1. /\ x.labels[1].value = table[i].name
          /\ x.labels[2].value = table[i].file
          /\ x.labels[3].value = table[i].tasks[t].name
      BY <2>1 DEF OfTask
    <3> QED BY <3>1 DEF TaskParts
  <2>3. ASSUME NEW s \in Seq(STRING), Len(s) = 1
        PROVE  s = <<s[1]>>
    BY <2>3
  <2>4. /\ table[i].name = <<table[i].name[1]>>
        /\ table[i].file = <<table[i].file[1]>>
        /\ table[i].tasks[t].name = <<table[i].tasks[t].name[1]>>
    BY <2>3, TableFacts DEF Name
  <2>5. TaskParts(x) = <<table[i].name[1], table[i].file[1], table[i].tasks[t].name[1]>>
    <3>1. ASSUME NEW a, NEW b, NEW c, a = <<a[1]>>, b = <<b[1]>>, c = <<c[1]>>
          PROVE  (a \o b) \o c = <<a[1], b[1], c[1]>>
      <4>1. (<<a[1]>> \o <<b[1]>>) \o <<c[1]>> = <<a[1], b[1], c[1]>>
        BY ConcatOfTuples
      <4> QED BY <3>1, <4>1, Zenon
    <3>2. (table[i].name \o table[i].file) \o table[i].tasks[t].name =
             <<table[i].name[1], table[i].file[1], table[i].tasks[t].name[1]>>
      BY <2>4, <3>1, Zenon
    <3> QED BY <2>2, <3>2, Zenon
  <2> QED BY <2>1, <2>4, <2>5
<1>4. m.const = n.const
  <2>1. CASE m.const = <<>> /\ n.const = <<>>
    BY <2>1
  <2>2. \A a, b, c : <<a, b, c>> # <<>>
    OBVIOUS
  <2>3. CASE m.const # <<>> /\ n.const # <<>>
    <3>1. PICK t \in TasksOf(j) :
               /\ OfTask(m, j, t)
               /\ TaskParts(m) = <<table[j].name[1], table[j].file[1], table[j].tasks[t].name[1]>>
               /\ table[j].name = <<table[j].name[1]>>
               /\ table[j].file = <<table[j].file[1]>>
               /\ table[j].tasks[t].name = <<table[j].tasks[t].name[1]>>
      BY <1>3, <2>3
    <3>2. PICK u \in TasksOf(k) :
               /\ OfTask(n, k, u)
               /\ TaskParts(n) = <<table[k].name[1], table[k].file[1], table[k].tasks[u].name[1]>>
               /\ table[k].name = <<table[k].name[1]>>
               /\ table[k].file = <<table[k].file[1]>>
               /\ table[k].tasks[u].name = <<table[k].tasks[u].name[1]>>
      BY <1>3, <2>3
    <3>3. TaskParts(m) = TaskParts(n)
      BY <1>1, <2>3
    <3>4. <<table[j].name[1], table[j].file[1], table[j].tasks[t].name[1]>> =
          <<table[k].name[1], table[k].file[1], table[k].tasks[u].name[1]>>
      BY <3>1, <3>2, <3>3, Zenon
    <3>5. /\ table[j].name[1] = table[k].name[1]
          /\ table[j].file[1] = table[k].file[1]
          /\ table[j].tasks[t].name[1] = table[k].tasks[u].name[1]
      BY <3>4
    <3>6. /\ table[j].name = table[k].name
          /\ table[j].file = table[k].file
          /\ table[j].tasks[t].name = table[k].tasks[u].name
      BY <3>1, <3>2, <3>5, Zenon
    <3>7. j = k
      BY <3>6 DEF Regular
    <3>8. t = u
      BY <3>6, <3>7, TableFacts
    <3> QED BY <3>1, <3>2, <3>7, <3>8 DEF OfTask
  <2>4. ~(m.const = <<>> /\ n.const # <<>>) /\ ~(m.const # <<>> /\ n.const = <<>>)
    BY <1>1, <1>3, <2>2
  <2> QED BY <2>1, <2>3, <2>4
<1> QED BY <1>1, <1>2, <1>4 DEF NewDesc

-----------------------------------------------------------------------------
(* The inductive invariant.                                                *)

SampleSet ==
    UNION {{[job |-> j, of |-> m.of, sample |-> SampleOf(m)] : m \in MetricsOf(j)} : j \in DOMAIN table}

Configured ==
    /\ table \in Tables
    /\ jobs \in Seq({table[j] : j \in DOMAIN table})
    /\ Len(jobs) <= Len(table)
    /\ \A j \in DOMAIN jobs : jobs[j] = table[j]

Published ==
    /\ data = [j \in DOMAIN table |-> [t \in TasksOf(j) |-> data[j][t]]]
    /\ \A j \in DOMAIN table : \A t \in TasksOf(j) : data[j][t] \in Data(j, t)

(* Where Collect is: the metrics it still has to send are those of one     *)
(* job and one task, the last it has come to.                              *)
Walking ==
    /\ at \in 0..Len(jobs)
    /\ at = 0 => todo = <<>>
    /\ at # 0 => task \in Nat \ {0} /\ \A i \in DOMAIN todo : todo[i].of.task = task - 1
    /\ \A j \in DOMAIN table : at = j =>
         /\ DOMAIN snap = TasksOf(j)
         /\ \A t \in TasksOf(j) : snap[t] \in Data(j, t)
         /\ todo \in Seq(MetricsOf(j))

(* Every descriptor kept is the one that any metric of its key would get,  *)
(* so that it does not matter which metric came first.                     *)
Described ==
    \A key \in DOMAIN pDescriptors : \E j \in DOMAIN table : \E m \in MetricsOf(j) :
        key = DescrKey(m) /\ pDescriptors[key] = NewDesc(m)

SentInv == sent \in Seq(SampleSet) /\ \A k \in DOMAIN sent : sent[k].job \in DOMAIN jobs

(* What has been sent is of earlier jobs and tasks, or of this task, and   *)
(* differs from all that is still to be sent.                              *)
Apart ==
    /\ \A k, l \in DOMAIN sent : sent[k].sample = sent[l].sample => k = l
    /\ at # 0 =>
         /\ \A k \in DOMAIN sent : sent[k].job <= at /\ (sent[k].job = at => sent[k].of.task < task)
         /\ \A i, k \in DOMAIN todo : SampleOf(todo[i]) = SampleOf(todo[k]) => i = k
         /\ \A i \in DOMAIN todo, k \in DOMAIN sent : SampleOf(todo[i]) # sent[k].sample

Panicked ==
    crashed => /\ todo # <<>>
               /\ \E i \in DOMAIN Head(todo).labels : Head(todo).labels[i].value \in Garbled

ScrapeInv == Walking /\ Described /\ SentInv /\ Apart /\ Panicked

IndInv == Configured /\ Published /\ (Regular => ScrapeInv)

LEMMA InitInv == Init => IndInv
<1> SUFFICES ASSUME Init
             PROVE  IndInv
  OBVIOUS
<1>1. jobs = <<>> /\ sent = <<>> /\ todo = <<>> /\ pDescriptors = <<>> /\ at = 0 /\ ~crashed
  BY DEF Init
<1>2. DOMAIN table = 1..Len(table) /\ Len(table) \in Nat
  BY TaskIndices DEF Init
<1>3. Configured
  BY <1>1, <1>2 DEF Init, Configured
<1>4. Published
  BY DEF Init, Published, Data, TasksOf
<1>5. ScrapeInv
  BY <1>1, <1>2 DEF ScrapeInv, Walking, Described, SentInv, Apart, Panicked
<1> QED BY <1>3, <1>4, <1>5 DEF IndInv

(* The table never changes, and with it the metrics its jobs may have.     *)
LEMMA Frozen ==
    ASSUME UNCHANGED table
    PROVE  /\ Regular' = Regular
           /\ \A j : TasksOf(j)' = TasksOf(j)
           /\ \A j, t : Data(j, t)' = Data(j, t)
           /\ \A j : MetricsOf(j)' = MetricsOf(j)
           /\ SampleSet' = SampleSet
<1>1. Regular' = Regular
  BY DEF Regular
<1>2. \A j : TasksOf(j)' = TasksOf(j)
  BY DEF TasksOf
<1>3. \A j, t : Data(j, t)' = Data(j, t)
  BY DEF Data
<1>4. \A j, t, d : Batch(j, t, d)' = Batch(j, t, d)
  BY DEF Batch
<1>5. \A j : MetricsOf(j)' = MetricsOf(j)
  BY <1>2, <1>3, <1>4 DEF MetricsOf
<1>6. SampleSet' = SampleSet
  BY <1>5 DEF SampleSet
<1> QED BY <1>1, <1>2, <1>3, <1>5, <1>6

LEMMA Sizes ==
    ASSUME Configured
    PROVE  /\ DOMAIN table = 1..Len(table) /\ Len(table) \in Nat
           /\ DOMAIN jobs = 1..Len(jobs) /\ Len(jobs) \in Nat
           /\ DOMAIN jobs \subseteq DOMAIN table
<1>1. DOMAIN table = 1..Len(table) /\ Len(table) \in Nat
  BY TaskIndices DEF Configured
<1>2. DOMAIN jobs = 1..Len(jobs) /\ Len(jobs) \in Nat
  BY DEF Configured
<1> QED BY <1>1, <1>2 DEF Configured

(* A sample that was sent is that of a metric of its job.                  *)
LEMMA SentSample ==
    ASSUME SentInv, NEW k \in DOMAIN sent
    PROVE  \E m \in MetricsOf(sent[k].job) :
             /\ sent[k].job \in DOMAIN table
             /\ sent[k].of = m.of
             /\ sent[k].sample = SampleOf(m)
<1>1. sent[k] \in SampleSet
  BY DEF SentInv
<1>2. PICK j \in DOMAIN table : \E m \in MetricsOf(j) :
        sent[k] = [job |-> j, of |-> m.of, sample |-> SampleOf(m)]
  BY <1>1 DEF SampleSet
<1>3. PICK m \in MetricsOf(j) : sent[k] = [job |-> j, of |-> m.of, sample |-> SampleOf(m)]
  BY <1>2
<1>4. sent[k].job = j /\ sent[k].of = m.of /\ sent[k].sample = SampleOf(m)
  BY <1>3
<1> QED BY <1>4

-----------------------------------------------------------------------------
(* The steps.                                                              *)

LEMMA ConfiguredStep ==
    ASSUME Configured, [Next]_vars
    PROVE  Configured' /\ table' = table
<1>1. table' = table
  BY DEF Next, AddJob, Publish, Collect, CollectTask, CollectNext, SendMetric, vars
<1>2. CASE AddJob
  <2>1. /\ Len(jobs) < Len(table)
        /\ jobs' = Append(jobs, table[Len(jobs) + 1])
    BY <1>2 DEF AddJob
  <2>2. Len(jobs) + 1 \in DOMAIN table
    BY <2>1, Sizes
  <2>3. /\ jobs' \in Seq({table[j] : j \in DOMAIN table})
        /\ Len(jobs') = Len(jobs) + 1
        /\ \A j \in 1..Len(jobs) : jobs'[j] = jobs[j]
        /\ jobs'[Len(jobs) + 1] = table[Len(jobs) + 1]
    BY <2>1, <2>2 DEF Configured
  <2>4. DOMAIN jobs' = 1..(Len(jobs) + 1)
    BY <2>3
  <2> QED BY <1>1, <2>1, <2>3, <2>4, Sizes DEF Configured
<1>3. CASE UNCHANGED jobs
  BY <1>1, <1>3 DEF Configured
<1> QED BY <1>1, <1>2, <1>3
        DEF Next, Publish, Collect, CollectTask, CollectNext, SendMetric, vars

LEMMA PublishedStep ==
    ASSUME Configured, Published, [Next]_vars
    PROVE  Published'
<1>1. table' = table
  BY ConfiguredStep
<1>2. CASE UNCHANGED data
  BY <1>1, <1>2, Frozen DEF Published, Data, TasksOf
<1>3. ASSUME NEW j \in DOMAIN table, NEW t \in TasksOf(j), Publish(j, t)
      PROVE  Published'
  <2>1. PICK d \in table[j].tasks[t].publishes : data' = [data EXCEPT ![j][t] = d]
    BY <1>3 DEF Publish
  <2>2. d \in Data(j, t)
    BY DEF Data
  <2>3. /\ data' = [i \in DOMAIN table |-> [u \in TasksOf(i) |-> data'[i][u]]]
        /\ \A i \in DOMAIN table : \A u \in TasksOf(i) :
             data'[i][u] = IF i = j /\ u = t THEN d ELSE data[i][u]
    BY <2>1 DEF Published
  <2>4. \A i, u : TasksOf(i)' = TasksOf(i) /\ Data(i, u)' = Data(i, u)
    BY <1>1, Frozen
  <2>5. \A i \in DOMAIN table : \A u \in TasksOf(i) : data'[i][u] \in Data(i, u)
    BY <2>2, <2>3 DEF Published
  <2> QED BY <1>1, <2>3, <2>4, <2>5 DEF Published
<1> QED BY <1>2, <1>3
        DEF Next, AddJob, Collect, CollectTask, CollectNext, SendMetric, vars, TasksOf

(* What a scrape has and where it is do not change.                        *)
LEMMA ScrapeStays ==
    ASSUME ScrapeInv, Configured, Configured', table' = table,
           UNCHANGED <<pDescriptors, at, task, snap, todo, sent, crashed>>,
           Len(jobs) <= Len(jobs')
    PROVE  ScrapeInv'
<1>1. Len(jobs) \in Nat /\ Len(jobs') \in Nat /\ DOMAIN jobs = 1..Len(jobs) /\ DOMAIN jobs' = 1..Len(jobs')
  BY Sizes DEF Configured
<1>2. Walking'
  BY <1>1, Frozen DEF ScrapeInv, Walking
<1>3. Described'
  BY Frozen DEF ScrapeInv, Described
<1>4. SentInv'
  BY <1>1, Frozen DEF ScrapeInv, SentInv
<1>5. Apart'
  BY DEF ScrapeInv, Apart
<1>6. Panicked'
  BY DEF ScrapeInv, Panicked
<1> QED BY <1>2, <1>3, <1>4, <1>5, <1>6 DEF ScrapeInv

(* Collect comes to a job: it has that job's script to send.               *)
LEMMA EnterJobStep ==
    ASSUME Configured, Published, Regular, ScrapeInv, NEW j \in Nat \ {0},
           todo = <<>>, ~crashed,
           EnterJob(j), UNCHANGED <<table, jobs, pDescriptors, crashed>>,
           sent' = <<>> \/ (sent' = sent /\ \A k \in DOMAIN sent : sent[k].job < j)
    PROVE  ScrapeInv'
<1>1. /\ \A i : TasksOf(i)' = TasksOf(i)
      /\ \A i, t : Data(i, t)' = Data(i, t)
      /\ \A i : MetricsOf(i)' = MetricsOf(i)
      /\ SampleSet' = SampleSet
  BY Frozen
<1>2. Described'
  BY <1>1 DEF ScrapeInv, Described
<1>3. SentInv'
  <2>1. CASE sent' = <<>>
    BY <1>1, <2>1 DEF SentInv
  <2>2. CASE sent' = sent
    BY <1>1, <2>2 DEF ScrapeInv, SentInv
  <2> QED BY <2>1, <2>2
<1>4. Panicked'
  BY DEF Panicked
<1>5. \A k, l \in DOMAIN sent' : sent'[k].sample = sent'[l].sample => k = l
  BY DEF ScrapeInv, Apart
<1>6. CASE j \in DOMAIN jobs
  <2>1. /\ at' = j /\ task' = 1 /\ snap' = data[j] /\ todo' = <<ScriptMetric(jobs[j])>>
    BY <1>6 DEF EnterJob
  <2>2. /\ j \in DOMAIN table /\ jobs[j] = table[j] /\ j \in 1..Len(jobs)
    BY <1>6, Sizes DEF Configured
  <2> DEFINE m == ScriptMetric(table[j])
  <2>3. m \in MetricsOf(j)
    BY DEF MetricsOf
  <2>4. m.of.task = 0
    BY DEF ScriptMetric
  <2> HIDE DEF m
  <2>5. /\ todo' = <<m>> /\ DOMAIN todo' = {1} /\ todo'[1] = m /\ todo' \in Seq(MetricsOf(j))
    <3>1. todo' = <<m>>
      BY <2>1, <2>2 DEF m
    <3> QED BY <2>3, <3>1
  <2>6. DOMAIN snap' = TasksOf(j) /\ \A t \in TasksOf(j) : snap'[t] \in Data(j, t)
    BY <2>1, <2>2 DEF Published
  <2>7. Walking'
    <3>1. /\ at' \in 0..Len(jobs') /\ at' # 0 /\ task' \in Nat \ {0}
          /\ \A i \in DOMAIN todo' : todo'[i].of.task = task' - 1
      BY <2>1, <2>2, <2>4, <2>5
    <3>2. ASSUME NEW i, at' = i
          PROVE  /\ DOMAIN snap' = TasksOf(i)' /\ todo' \in Seq(MetricsOf(i)')
                 /\ \A t \in TasksOf(i)' : snap'[t] \in Data(i, t)'
      BY <1>1, <2>1, <2>5, <2>6, <3>2
    <3> QED BY <3>1, <3>2 DEF Walking
  <2>8. \A k \in DOMAIN sent' : sent'[k].job < j /\ sent'[k].job \in DOMAIN table /\ SampleOf(m) # sent'[k].sample
    <3> SUFFICES ASSUME NEW k \in DOMAIN sent, \A l \in DOMAIN sent : sent[l].job < j
                 PROVE  sent[k].job < j /\ sent[k].job \in DOMAIN table /\ SampleOf(m) # sent[k].sample
      OBVIOUS
    <3>1. PICK n \in MetricsOf(sent[k].job) :
            sent[k].job \in DOMAIN table /\ sent[k].of = n.of /\ sent[k].sample = SampleOf(n)
      BY SentSample DEF ScrapeInv
    <3>2. sent[k].job # j
      <4>1. sent[k].job < j /\ sent[k].job \in 1..Len(table)
        BY <3>1, Sizes
      <4> QED BY <4>1
    <3>3. SampleOf(m) # SampleOf(n)
      BY <2>2, <2>3, <3>1, <3>2, SampleIdentifies DEF Configured
    <3> QED BY <3>1, <3>3
  <2>9. Apart'
    <3>1. \A k \in DOMAIN sent' : sent'[k].job <= j /\ (sent'[k].job = j => FALSE)
      BY <2>8, Sizes
    <3>2. \A i \in DOMAIN todo' : i = 1 /\ SampleOf(todo'[i]) = SampleOf(m)
      BY <2>5
    <3> HIDE DEF SampleOf
    <3> QED BY <1>5, <2>1, <2>8, <3>1, <3>2 DEF Apart
  <2> QED BY <1>2, <1>3, <1>4, <2>7, <2>9 DEF ScrapeInv
<1>7. CASE j \notin DOMAIN jobs
  <2>1. at' = 0 /\ todo' = <<>>
    BY <1>7 DEF EnterJob
  <2>2. Walking'
    BY <2>1, Sizes DEF Walking
  <2>3. Apart'
    BY <1>5, <2>1 DEF Apart
  <2> QED BY <1>2, <1>3, <1>4, <2>2, <2>3 DEF ScrapeInv
<1> QED BY <1>6, <1>7

(* Collect comes to a task: what it has to send differs among itself and   *)
(* from what was sent for other tasks.                                     *)
LEMMA CollectTaskStep ==
    ASSUME Configured, Published, Regular, ScrapeInv, CollectTask
    PROVE  ScrapeInv'
<1>0. /\ at # 0 /\ todo = <<>> /\ task \in DOMAIN snap
      /\ todo' = TaskMetrics(jobs[at], task) \o DataMetrics(jobs[at], task, snap[task])
      /\ task' = task + 1
      /\ UNCHANGED <<table, jobs, data, pDescriptors, at, snap, sent, crashed>>
  BY DEF CollectTask
<1>1. /\ \A i : TasksOf(i)' = TasksOf(i)
      /\ \A i, t : Data(i, t)' = Data(i, t)
      /\ \A i : MetricsOf(i)' = MetricsOf(i)
      /\ SampleSet' = SampleSet
  BY <1>0, Frozen
<1>2. Described'
  BY <1>0, <1>1 DEF ScrapeInv, Described
<1>3. SentInv'
  BY <1>0, <1>1 DEF ScrapeInv, SentInv
<1>4. Panicked'
  BY <1>0 DEF ScrapeInv, Panicked
<1>5. /\ at \in DOMAIN table /\ jobs[at] = table[at] /\ at \in 0..Len(jobs)
      /\ task \in TasksOf(at) /\ task \in Nat \ {0}
      /\ snap[task] \in Data(at, task)
  <2>1. at \in DOMAIN jobs /\ at \in DOMAIN table
    BY <1>0, Sizes DEF ScrapeInv, Walking
  <2> QED BY <1>0, <2>1 DEF ScrapeInv, Walking, Configured
<1>6. PICK j, t, d : j = at /\ t = task /\ d = snap[task]
  OBVIOUS
<1> DEFINE b == Batch(j, t, d)
<1>7. /\ j \in DOMAIN table /\ t \in TasksOf(j) /\ d \in Data(j, t) /\ table \in Tables
  BY <1>5, <1>6 DEF Configured
<1>8. todo' = b
  BY <1>0, <1>5, <1>6 DEF Batch
<1>9. /\ b \in Seq(MetricsOf(j))
      /\ \A i \in DOMAIN b : OfTask(b[i], j, t) /\ b[i] \in MetricsOf(j)
  <2>1. b \in Seq(MetricsOf(j)) /\ \A i \in DOMAIN b : OfTask(b[i], j, t)
    BY <1>7, BatchFacts
  <2> HIDE DEF b
  <2>2. \A i \in DOMAIN b : b[i] \in MetricsOf(j)
    BY <2>1
  <2> QED BY <2>1, <2>2
<1>10. \A i, k \in DOMAIN b : SampleOf(b[i]) = SampleOf(b[k]) => i = k
  BY <1>7, BatchApart
<1> HIDE DEF b
<1>11. Walking'
  <2>1. /\ at' \in 0..Len(jobs') /\ at' # 0 /\ task' \in Nat \ {0}
    BY <1>0, <1>5
  <2>2. \A i \in DOMAIN todo' : todo'[i].of.task = task' - 1
    <3>1. \A i \in DOMAIN b : b[i].of.task = t
      BY <1>9 DEF OfTask
    <3>2. task' - 1 = t
      BY <1>0, <1>5, <1>6
    <3> QED BY <1>8, <3>1, <3>2
  <2>3. /\ DOMAIN snap = TasksOf(j) /\ \A u \in TasksOf(j) : snap[u] \in Data(j, u)
    BY <1>6, <1>7 DEF ScrapeInv, Walking
  <2>4. ASSUME NEW i, at' = i
        PROVE  /\ DOMAIN snap' = TasksOf(i)' /\ todo' \in Seq(MetricsOf(i)')
               /\ \A u \in TasksOf(i)' : snap'[u] \in Data(i, u)'
    BY <1>0, <1>1, <1>6, <1>8, <1>9, <2>3, <2>4
  <2> QED BY <2>1, <2>2, <2>4 DEF Walking
<1>12. ASSUME NEW k \in DOMAIN sent
       PROVE  /\ sent[k].job <= at
              /\ sent[k].job = at => sent[k].of.task < task + 1
              /\ \A i \in DOMAIN b : SampleOf(b[i]) # sent[k].sample
  <2>1. PICK n \in MetricsOf(sent[k].job) :
          sent[k].job \in DOMAIN table /\ sent[k].of = n.of /\ sent[k].sample = SampleOf(n)
    BY SentSample DEF ScrapeInv
  <2>2. sent[k].job <= at /\ (sent[k].job = at => sent[k].of.task < task)
    BY <1>0 DEF ScrapeInv, Apart
  <2>3. sent[k].job = at => sent[k].of.task \in Nat
    <3>1. ASSUME NEW x \in DOMAIN table, NEW m \in MetricsOf(x)
          PROVE  m.of.task \in Nat
      <4>1. \A u \in TasksOf(x) : u \in Nat
        BY <1>7, TaskIndices
      <4>2. CASE OfScript(m, x)
        BY <4>2 DEF OfScript
      <4>3. ASSUME NEW u \in TasksOf(x), OfTask(m, x, u) PROVE m.of.task \in Nat
        BY <4>1, <4>3 DEF OfTask
      <4> QED BY <1>7, <4>2, <4>3, MetricShapes
    <3> QED BY <2>1, <3>1
  <2>4. ASSUME NEW i \in DOMAIN b, SampleOf(b[i]) = SampleOf(n)
        PROVE  FALSE
    <3>1. j = sent[k].job /\ b[i].of.task = n.of.task
      BY <1>7, <1>9, <2>1, <2>4, SampleIdentifies
    <3>2. n.of.task = t
      BY <1>9, <3>1 DEF OfTask
    <3> QED BY <1>5, <1>6, <2>1, <2>2, <3>1, <3>2
  <2> QED BY <1>5, <2>1, <2>2, <2>3, <2>4
<1>13. Apart'
  <2>1. \A k, l \in DOMAIN sent : sent[k].sample = sent[l].sample => k = l
    BY DEF ScrapeInv, Apart
  <2> HIDE DEF SampleOf
  <2> QED BY <1>0, <1>8, <1>10, <1>12, <2>1 DEF Apart
<1> QED BY <1>2, <1>3, <1>4, <1>11, <1>13 DEF ScrapeInv

(* A metric is sent with a descriptor of its own, whoever made it, and     *)
(* only a text can make Prometheus refuse it.                              *)
LEMMA SendMetricStep ==
    ASSUME Configured, Published, Regular, ScrapeInv, SendMetric
    PROVE  ScrapeInv'
<1> DEFINE m == Head(todo)
<1>0. /\ ~crashed /\ todo # <<>>
      /\ pDescriptors' = [k \in DOMAIN pDescriptors \cup {DescrKey(m)} |->
                            IF k = DescrKey(m) THEN DescFor(m) ELSE pDescriptors[k]]
      /\ \/ /\ Acceptable(DescFor(m), m)
            /\ sent' = Append(sent, [job |-> at, of |-> m.of, sample |-> Sample(DescFor(m), m)])
            /\ todo' = Tail(todo)
            /\ UNCHANGED crashed
         \/ /\ ~Acceptable(DescFor(m), m)
            /\ crashed' = TRUE
            /\ UNCHANGED <<sent, todo>>
      /\ UNCHANGED <<table, jobs, data, at, task, snap>>
  BY DEF SendMetric
<1>1. /\ \A i : TasksOf(i)' = TasksOf(i)
      /\ \A i, t : Data(i, t)' = Data(i, t)
      /\ \A i : MetricsOf(i)' = MetricsOf(i)
      /\ SampleSet' = SampleSet
  BY <1>0, Frozen
<1>2. PICK j : j = at
  OBVIOUS
<1>3. /\ j \in DOMAIN table /\ j \in DOMAIN jobs /\ j # 0
      /\ table \in Tables
      /\ todo \in Seq(MetricsOf(j))
  <2>1. j # 0 /\ j \in 0..Len(jobs)
    BY <1>0, <1>2 DEF ScrapeInv, Walking
  <2>2. j \in DOMAIN jobs /\ j \in DOMAIN table
    BY <2>1, Sizes
  <2> QED BY <1>2, <2>1, <2>2 DEF ScrapeInv, Walking, Configured
<1> HIDE DEF m
<1>4. /\ m \in MetricsOf(j) /\ Len(todo) \in Nat \ {0} /\ DOMAIN todo = 1..Len(todo) /\ m = todo[1]
      /\ Tail(todo) \in Seq(MetricsOf(j))
      /\ DOMAIN Tail(todo) = 1..(Len(todo) - 1)
      /\ \A i \in 1..(Len(todo) - 1) : Tail(todo)[i] = todo[i + 1]
  BY <1>0, <1>3 DEF m
<1>5. DescFor(m) = NewDesc(m)
  <2>1. CASE DescrKey(m) \in DOMAIN pDescriptors
    <3>0. PICK i \in DOMAIN table : \E n \in MetricsOf(i) :
            DescrKey(m) = DescrKey(n) /\ pDescriptors[DescrKey(m)] = NewDesc(n)
      BY <2>1 DEF ScrapeInv, Described
    <3>1. PICK n \in MetricsOf(i) :
            DescrKey(m) = DescrKey(n) /\ pDescriptors[DescrKey(m)] = NewDesc(n)
      BY <3>0
    <3>2. NewDesc(m) = NewDesc(n)
      BY <1>3, <1>4, <3>1, KeyDeterminesDesc
    <3> QED BY <2>1, <3>1, <3>2 DEF DescFor
  <2>2. CASE DescrKey(m) \notin DOMAIN pDescriptors
    BY <2>2 DEF DescFor
  <2> QED BY <2>1, <2>2
<1>6. Described'
  <2>1. ASSUME NEW key \in DOMAIN pDescriptors'
        PROVE  \E i \in DOMAIN table : \E n \in MetricsOf(i) :
                 key = DescrKey(n) /\ pDescriptors'[key] = NewDesc(n)
    <3>1. CASE key = DescrKey(m)
      BY <1>0, <1>3, <1>4, <1>5, <3>1
    <3>2. CASE key # DescrKey(m)
      <4>1. key \in DOMAIN pDescriptors /\ pDescriptors'[key] = pDescriptors[key]
        BY <1>0, <3>2
      <4> QED BY <4>1 DEF ScrapeInv, Described
    <3> QED BY <3>1, <3>2
  <2> QED BY <1>0, <1>1, <2>1 DEF Described
<1>7. Walking /\ SentInv /\ Apart
  BY DEF ScrapeInv
<1>8. ASSUME NEW i, at' = i, todo' \in Seq(MetricsOf(j))
      PROVE  i \in DOMAIN table' =>
               /\ DOMAIN snap' = TasksOf(i)'
               /\ \A t \in TasksOf(i)' : snap'[t] \in Data(i, t)'
               /\ todo' \in Seq(MetricsOf(i)')
  BY <1>0, <1>1, <1>2, <1>3, <1>7, <1>8 DEF Walking
<1>9. CASE Acceptable(DescFor(m), m)
  <2> DEFINE new == [job |-> at, of |-> m.of, sample |-> Sample(DescFor(m), m)]
  <2>1. sent' = Append(sent, new) /\ todo' = Tail(todo) /\ ~crashed'
    BY <1>0, <1>9
  <2>2. new.job = j /\ new.of = m.of /\ new.sample = SampleOf(m)
    BY <1>2, <1>5 DEF SampleOf
  <2>3. new \in SampleSet
    <3>1. new = [job |-> j, of |-> m.of, sample |-> SampleOf(m)]
      BY <1>2, <1>5 DEF SampleOf
    <3> HIDE DEF new
    <3> QED BY <1>3, <1>4, <3>1 DEF SampleSet
  <2> HIDE DEF new
  <2>4. /\ sent' \in Seq(SampleSet) /\ Len(sent) \in Nat
        /\ DOMAIN sent = 1..Len(sent) /\ DOMAIN sent' = 1..(Len(sent) + 1)
        /\ \A k \in 1..Len(sent) : sent'[k] = sent[k]
        /\ sent'[Len(sent) + 1] = new
    BY <1>7, <2>1, <2>3 DEF SentInv
  <2>5. \A k \in DOMAIN sent' : k \in DOMAIN sent \/ k = Len(sent) + 1
    BY <2>4
  <2>6. Walking'
    <3>1. \A i \in DOMAIN todo' : todo'[i].of.task = task' - 1
      <4>1. \A i \in 1..Len(todo) : todo[i].of.task = task - 1
        BY <1>2, <1>3, <1>4, <1>7 DEF Walking
      <4>2. \A i \in DOMAIN todo' : i + 1 \in 1..Len(todo) /\ todo'[i] = todo[i + 1]
        BY <1>4, <2>1
      <4> QED BY <1>0, <4>1, <4>2
    <3>2. todo' \in Seq(MetricsOf(j))
      BY <1>4, <2>1
    <3>3. at' \in 0..Len(jobs') /\ at' # 0 /\ task' \in Nat \ {0}
      BY <1>0, <1>2, <1>3, <1>7 DEF Walking
    <3> QED BY <1>8, <3>1, <3>2, <3>3 DEF Walking
  <2>7. SentInv'
    <3>1. \A k \in DOMAIN sent' : sent'[k].job \in DOMAIN jobs
      BY <1>3, <1>7, <2>2, <2>4, <2>5 DEF SentInv
    <3> QED BY <1>0, <1>1, <2>4, <3>1 DEF SentInv
  <2>8. Apart'
    <3>1. \A k \in DOMAIN sent : sent[k].sample # SampleOf(m)
      BY <1>2, <1>3, <1>4, <1>7 DEF Apart
    <3>2. \A i, k \in DOMAIN todo : SampleOf(todo[i]) = SampleOf(todo[k]) => i = k
      BY <1>2, <1>3, <1>7 DEF Apart
    <3>3. /\ \A k \in DOMAIN sent : sent[k].job <= j /\ (sent[k].job = j => sent[k].of.task < task)
          /\ \A i \in DOMAIN todo, k \in DOMAIN sent : SampleOf(todo[i]) # sent[k].sample
      BY <1>2, <1>3, <1>7 DEF Apart
    <3> HIDE DEF SampleOf
    <3>4. \A k, l \in DOMAIN sent' : sent'[k].sample = sent'[l].sample => k = l
      BY <1>7, <2>2, <2>4, <2>5, <3>1 DEF Apart
    <3>5. \A k \in DOMAIN sent' : sent'[k].job <= j /\ (sent'[k].job = j => sent'[k].of.task < task)
      <4>1. j \in Nat /\ task \in Nat /\ new.of.task = task - 1
        BY <1>2, <1>3, <1>4, <1>7, <2>2, Sizes DEF Walking
      <4> QED BY <2>2, <2>4, <2>5, <3>3, <4>1
    <3>6. \A i \in DOMAIN todo' : i + 1 \in DOMAIN todo /\ i + 1 # 1 /\ todo'[i] = todo[i + 1] /\ i \in Nat
      BY <1>4, <2>1
    <3>7. \A i, k \in DOMAIN todo' : SampleOf(todo'[i]) = SampleOf(todo'[k]) => i = k
      <4> SUFFICES ASSUME NEW i \in DOMAIN todo', NEW k \in DOMAIN todo',
                          SampleOf(todo'[i]) = SampleOf(todo'[k])
                   PROVE  i = k
        OBVIOUS
      <4>1. i + 1 = k + 1
        BY <3>2, <3>6
      <4> QED BY <3>6, <4>1
    <3>8. \A i \in DOMAIN todo', k \in DOMAIN sent' : SampleOf(todo'[i]) # sent'[k].sample
      <4> SUFFICES ASSUME NEW i \in DOMAIN todo', NEW k \in DOMAIN sent'
                   PROVE  SampleOf(todo[i + 1]) # sent'[k].sample
        BY <3>6
      <4>1. CASE k \in DOMAIN sent
        BY <2>4, <3>3, <3>6, <4>1
      <4>2. CASE k = Len(sent) + 1
        BY <1>4, <2>2, <2>4, <3>2, <3>6, <4>2
      <4> QED BY <2>5, <4>1, <4>2
    <3> QED BY <1>0, <1>2, <3>4, <3>5, <3>7, <3>8 DEF Apart
  <2> QED BY <1>6, <2>1, <2>6, <2>7, <2>8 DEF ScrapeInv, Panicked
<1>10. CASE ~Acceptable(DescFor(m), m)
  <2>1. crashed' /\ sent' = sent /\ todo' = todo
    BY <1>0, <1>10
  <2>2. Walking'
    <3>1. at' \in 0..Len(jobs') /\ at' # 0 /\ task' \in Nat \ {0}
      BY <1>0, <1>2, <1>3, <1>7 DEF Walking
    <3>2. \A i \in DOMAIN todo' : todo'[i].of.task = task' - 1
      BY <1>0, <1>2, <1>3, <1>7, <2>1 DEF Walking
    <3> QED BY <1>3, <1>8, <2>1, <3>1, <3>2 DEF Walking
  <2>3. SentInv'
    BY <1>0, <1>1, <1>7, <2>1 DEF SentInv
  <2>4. Apart'
    BY <1>0, <1>7, <2>1 DEF Apart
  <2>5. \E i \in DOMAIN m.labels : m.labels[i].value \in Garbled
    <3>1. ~Acceptable(NewDesc(m), m)
      BY <1>5, <1>10
    <3>2. WellLabelled(m)
      BY <1>3, <1>4, AllWellLabelled
    <3>3. /\ NameSet(NewDesc(m)) \subseteq Reserved
          /\ NewDesc(m).const = m.const
          /\ NewDesc(m).names = NamesOf(m)
      BY <3>2, SampleFacts DEF NewDesc
    <3>4. Len(NamesOf(m)) = Len(m.labels)
      <4>1. m.labels \in Seq(LabelRec)
        BY <3>2 DEF WellLabelled
      <4>2. DOMAIN m.labels = 1..Len(m.labels) /\ Len(m.labels) \in Nat
        BY <4>1
      <4> QED BY <4>2 DEF NamesOf
    <3>5. DOMAIN NewDesc(m).const \cap (NameSet(NewDesc(m)) \cup NotLabels) = {}
      BY <3>2, <3>3 DEF WellLabelled
    <3> QED BY <3>1, <3>3, <3>4, <3>5 DEF Acceptable
  <2>6. Panicked'
    BY <1>0, <2>1, <2>5 DEF Panicked, m
  <2> QED BY <1>6, <2>2, <2>3, <2>4, <2>6 DEF ScrapeInv
<1> QED BY <1>9, <1>10

LEMMA StepInv == IndInv /\ [Next]_vars => IndInv'
<1> SUFFICES ASSUME IndInv, [Next]_vars
             PROVE  IndInv'
  OBVIOUS
<1>1. Configured /\ Configured' /\ table' = table /\ Published /\ Published'
  BY ConfiguredStep, PublishedStep DEF IndInv
<1>2. Regular' = Regular
  BY <1>1, Frozen
<1> SUFFICES ASSUME Regular, ScrapeInv
             PROVE  ScrapeInv'
  BY <1>1, <1>2 DEF IndInv
<1>3. CASE AddJob
  <2>1. Len(jobs) <= Len(jobs')
    <3>1. jobs \in Seq({table[j] : j \in DOMAIN table}) /\ Len(jobs) + 1 \in DOMAIN table
      BY <1>1, <1>3, Sizes DEF AddJob, Configured
    <3> QED BY <1>3, <3>1 DEF AddJob
  <2> QED BY <1>1, <1>3, <2>1, ScrapeStays DEF AddJob
<1>4. CASE UNCHANGED <<jobs, pDescriptors, at, task, snap, todo, sent, crashed>>
  <2>1. Len(jobs) <= Len(jobs')
    BY <1>1, <1>4, Sizes
  <2> QED BY <1>1, <1>4, <2>1, ScrapeStays
<1>5. CASE Collect
  <2>1. /\ at = 0 /\ ~crashed /\ EnterJob(1) /\ sent' = <<>>
        /\ UNCHANGED <<table, jobs, pDescriptors, crashed>>
    BY <1>5 DEF Collect
  <2>2. todo = <<>>
    BY <2>1 DEF ScrapeInv, Walking
  <2> QED BY <1>1, <2>1, <2>2, EnterJobStep
<1>6. CASE CollectTask
  BY <1>1, <1>6, CollectTaskStep
<1>7. CASE CollectNext
  <2>1. PICK j : j = at + 1
    OBVIOUS
  <2>2. /\ at # 0 /\ todo = <<>> /\ EnterJob(j) /\ sent' = sent
        /\ UNCHANGED <<table, jobs, pDescriptors, crashed>>
    BY <1>7, <2>1 DEF CollectNext
  <2>3. ~crashed
    BY <2>2 DEF ScrapeInv, Panicked
  <2>4. j \in Nat \ {0} /\ at \in Nat
    BY <1>1, <2>1, Sizes DEF ScrapeInv, Walking
  <2>5. \A k \in DOMAIN sent : sent[k].job < j
    <3>1. \A k \in DOMAIN sent : sent[k].job \in Nat /\ sent[k].job <= at
      BY <1>1, <2>2, Sizes DEF ScrapeInv, SentInv, Apart
    <3> QED BY <2>1, <2>4, <3>1
  <2> QED BY <1>1, <2>2, <2>3, <2>4, <2>5, EnterJobStep
<1>8. CASE SendMetric
  BY <1>1, <1>8, SendMetricStep
<1> QED BY <1>3, <1>4, <1>5, <1>6, <1>7, <1>8 DEF Next, Publish, vars

LEMMA Inductive == Spec => []IndInv
<1> QED BY InitInv, StepInv, PTL DEF Spec

-----------------------------------------------------------------------------
(* The theorems.                                                           *)

LEMMA InvariantLabels == IndInv => LabelsOfTask
<1> SUFFICES ASSUME IndInv, Regular, NEW k \in DOMAIN sent
             PROVE  LET labels == sent[k].sample.labels
                        job == jobs[sent[k].job]
                        t == sent[k].of.task
                    IN /\ labels["job"] = job.name /\ labels["script"] = job.file
                       /\ t # 0 => /\ labels["task"] = job.tasks[t].name
                                   /\ [n \in DOMAIN labels \ Reserved |-> labels[n]] = job.tasks[t].labels
  BY DEF LabelsOfTask
<1>1. Configured /\ SentInv
  BY DEF IndInv, ScrapeInv
<1>2. PICK j : j = sent[k].job
  OBVIOUS
<1>3. PICK m \in MetricsOf(j) :
        j \in DOMAIN table /\ sent[k].of = m.of /\ sent[k].sample = SampleOf(m)
  BY <1>1, <1>2, SentSample
<1>4. jobs[j] = table[j] /\ table \in Tables
  BY <1>1, <1>2 DEF Configured, SentInv
<1>5. WellLabelled(m)
  BY <1>3, <1>4, AllWellLabelled
<1> DEFINE labels == SampleOf(m).labels
           r(name, value) == [name |-> name, value |-> value]
<1>6. /\ \A l \in LabelsIn(m.labels) : labels[l.name] = l.value
      /\ [n \in DOMAIN labels \ Reserved |-> labels[n]] = m.const
  BY <1>5, SampleFacts
<1>7. /\ r("job", table[j].name) \in LabelsIn(m.labels)
      /\ r("script", table[j].file) \in LabelsIn(m.labels)
      /\ \A t \in TasksOf(j) : OfTask(m, j, t) =>
           r("task", table[j].tasks[t].name) \in LabelsIn(m.labels)
  BY <1>3, <1>4, GeneralValues
<1>8. \A name, value : r(name, value).name = name /\ r(name, value).value = value
  OBVIOUS
<1> HIDE DEF labels, r
<1>9. /\ labels["job"] = table[j].name /\ labels["script"] = table[j].file
      /\ \A t \in TasksOf(j) : OfTask(m, j, t) => labels["task"] = table[j].tasks[t].name
  BY <1>6, <1>7, <1>8
<1>10. ASSUME m.of.task # 0
       PROVE  /\ labels["task"] = table[j].tasks[m.of.task].name
              /\ m.const = table[j].tasks[m.of.task].labels
  <2>1. PICK t \in TasksOf(j) : OfTask(m, j, t)
    BY <1>3, <1>4, <1>10, MetricShapes DEF OfScript
  <2>2. m.of.task = t /\ m.const = table[j].tasks[t].labels
    BY <2>1 DEF OfTask
  <2> QED BY <1>9, <2>1, <2>2
<1> QED BY <1>2, <1>3, <1>4, <1>6, <1>9, <1>10 DEF labels

(* Every sample carries the name of its job, its script file and its task, *)
(* and that task's custom labels and no others, though descriptors are     *)
(* made once and shared by key (Collect, sendMetric in prometheus.go).     *)
THEOREM SamplesAreLabelled == Spec => []LabelsOfTask
<1> QED BY Inductive, InvariantLabels, PTL

LEMMA InvariantAnswered == IndInv => ScrapeAnswered
  BY DEF IndInv, ScrapeInv, Panicked, Apart, ScrapeAnswered

(* With regular names and labels a scrape is answered whatever was         *)
(* published: MustNewConstMetric panics only over a text that is not       *)
(* UTF-8, and no two samples of one scrape are the same series.            *)
THEOREM ScrapesAreAnswered == Spec => []ScrapeAnswered
<1> QED BY Inductive, InvariantAnswered, PTL

=============================================================================
