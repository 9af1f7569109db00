----------------------------- MODULE ScriptFile -----------------------------
(***************************************************************************)
(* ScriptYMLConfiguration: a script file is read task by task.  The task's *)
(* probe gets the configuration struct of its kind, filled with defaults,  *)
(* then with what the file gives, then with what the job's vars give for   *)
(* the task's name; the probe's constructor accepts it or refuses; a task  *)
(* with an accepted probe is laid out by AddTask (ScriptLayout).  The      *)
(* first error ends the load, and the program with it.                     *)
(*                                                                         *)
(* Of a configuration four fields are kept: a list of strings (urls, hosts,*)
(* expectedHops, args), a scalar, a text (host of traceroute, cmd of cmd,  *)
(* configFile of openvpn) and data (configData of openvpn).  One that the  *)
(* probe's struct lacks, and the code skips, is here carried along and     *)
(* never looked at.  A field that a file or a job leaves out is {}; the    *)
(* keys of vars are compared without case, so a job may give one field     *)
(* several texts, which the order of a Go map then decides between.        *)
(***************************************************************************)
EXTENDS ScriptLayout, Overrides

CONSTANTS
    TaskNames,
    FileStructs,   \* the fields a file may give in a configuration
    Scalars,       \* all values of the scalar
    Default,       \* the default of the scalar; the other fields have <<>>
    Rejected,      \* scalars compileRegex refuses
    ScalarOf,      \* the scalar a text parses to; other texts do not parse
    WordsOf,       \* the words shellquote splits a text into, if it can
    Programs,      \* texts that name a file which can be executed
    ContentOf,     \* the content of the file a text names, if it can be read
    VarsOfJobs     \* what jobs give in vars, per task name

ASSUME FileAssumption ==
    /\ Default \in Scalars
    /\ Rejected \subseteq Scalars
    /\ \A text \in DOMAIN ScalarOf : ScalarOf[text] \in Scalars
    /\ <<>> \notin DOMAIN WordsOf
    /\ \A text \in DOMAIN WordsOf : WordsOf[text] \in Seq(Seq(STRING)) \ {<<>>}
    /\ \A v \in VarsOfJobs : /\ DOMAIN v = TaskNames
                             /\ \A n \in TaskNames : v[n].list \subseteq Seq(STRING)

Probes == {"ping", "web", "cmd", "openvpn", "traceroute"}

(* "absent" and "other" are a task without a configuration, and one whose  *)
(* configuration is not a struct of the probe's kind.                      *)
Raw(kind, s) ==
    [kind |-> kind, list |-> s.list, scalar |-> s.scalar, text |-> s.text, data |-> s.data]
NoFields == [list |-> {}, scalar |-> {}, text |-> {}, data |-> {}]
RawConfigurations == {Raw("struct", s) : s \in FileStructs}
                     \cup {Raw("absent", NoFields), Raw("other", NoFields)}

TaskEntries == [name : TaskNames, probe : Probes \cup {"unknown"}, raw : RawConfigurations,
                cgroup : Names \cup {Omitted}]

VARIABLES
    jobVars,  \* job.Vars
    load,     \* "reading", "loaded" or "failed"
    file,     \* the tasks read so far
    built     \* the configurations their probes were built with

layoutVars == vars
fileVars == <<layoutVars, jobVars, load, file, built>>

FileInit == /\ Init
            /\ jobVars \in VarsOfJobs
            /\ load = "reading"
            /\ file = <<>>
            /\ built = <<>>

-----------------------------------------------------------------------------
Given(option, otherwise) == IF option = {} THEN {otherwise} ELSE option

(* NewProbeConfiguration and json.Unmarshal.                               *)
FromFile(raw) ==
    [list : Given(raw.list, <<>>), scalar : Given(raw.scalar, Default),
     text : Given(raw.text, <<>>), data : Given(raw.data, <<>>)]

(* setStructField for every key of the task's entry in vars, in any order: *)
(* a field takes the last of its texts; a key that names no field is       *)
(* ignored.                                                                *)
Overridden(config, o) ==
    [list : Given({Tokens(text) : text \in o.list}, config.list),
     scalar : Given({ScalarOf[text] : text \in o.scalar}, config.scalar),
     text : Given(o.text, config.text), data : Given(o.data, config.data)]

Parses(o) == o.scalar \subseteq DOMAIN ScalarOf

(* What a probe's constructor may be given, if the values of vars parse.   *)
(* Without a configuration in the file vars are not looked at; one of      *)
(* another shape is passed on as it is, and no constructor takes bytes.    *)
Configured(t) ==
    CASE t.raw.kind = "absent" -> FromFile(t.raw)
      [] t.raw.kind = "other" -> {}
      [] t.raw.kind = "struct" ->
           UNION {Overridden(config, jobVars[t.name]) : config \in FromFile(t.raw)}

(* Mutants: the text is split even beside a list of arguments; the data    *)
(* that is given goes before the file.                                     *)
ConstructedSplitsAlways(probe, config) ==
    CASE probe = "cmd" /\ config.text \in DOMAIN WordsOf ->
           [config EXCEPT !.text = Head(WordsOf[config.text]),
                          !.list = Tail(WordsOf[config.text])]
      [] probe = "openvpn" /\ config.text # <<>> ->
           [config EXCEPT !.data = ContentOf[config.text]]
      [] OTHER -> config

ConstructedKeepsData(probe, config) ==
    CASE probe = "cmd" /\ config.list = <<>> ->
           [config EXCEPT !.text = Head(WordsOf[config.text]),
                          !.list = Tail(WordsOf[config.text])]
      [] probe = "openvpn" /\ config.text # <<>> /\ config.data = <<>> ->
           [config EXCEPT !.data = ContentOf[config.text]]
      [] OTHER -> config

(* What the constructor makes of an accepted configuration: a command      *)
(* without arguments is split into program and arguments, and the content  *)
(* of openvpn's file replaces what data there is.                          *)
Constructed(probe, config) ==
    CASE probe = "cmd" /\ config.list = <<>> ->
           [config EXCEPT !.text = Head(WordsOf[config.text]),
                          !.list = Tail(WordsOf[config.text])]
      [] probe = "openvpn" /\ config.text # <<>> ->
           [config EXCEPT !.data = ContentOf[config.text]]
      [] OTHER -> config

HasFirst(list) == list # <<>> /\ list[1] # <<>>

(* NewProbe of each probe.                                                 *)
Accepts(probe, config) ==
    /\ probe \in {"ping", "web", "traceroute"} => HasFirst(config.list)
    /\ probe \in {"web", "cmd"} => config.scalar \notin Rejected
    /\ probe = "traceroute" => config.text # <<>>
    /\ probe = "cmd" => /\ config.list = <<>> => config.text \in DOMAIN WordsOf
                        /\ Constructed(probe, config).text \in Programs
    /\ probe = "openvpn" => IF config.text # <<>> THEN config.text \in DOMAIN ContentOf
                                                  ELSE config.data # <<>>

Readable(t) == t.probe \in Probes /\ (t.raw.kind = "struct" => Parses(jobVars[t.name]))

ReadTask(t) ==
    /\ load = "reading"
    /\ Readable(t)
    /\ \E config \in Configured(t) :
         /\ Accepts(t.probe, config)
         /\ built' = Append(built, Constructed(t.probe, config))
    /\ AddTask(t.cgroup)
    /\ file' = Append(file, t)
    /\ UNCHANGED <<jobVars, load>>

(* An unknown probe, a value that does not parse, or a refusal.            *)
Refusable(t) ==
    IF Readable(t)
    THEN t.raw.kind = "other" \/ \E config \in Configured(t) : ~Accepts(t.probe, config)
    ELSE TRUE

(* Mutant: a task that cannot be built is left out.                        *)
RefuseTaskOnly(t) ==
    /\ load = "reading"
    /\ Len(file) < MaxTasks
    /\ Refusable(t)
    /\ file' = Append(file, t)
    /\ UNCHANGED <<layoutVars, jobVars, load, built>>

(* The error ends the load.                                                *)
RefuseTask(t) ==
    /\ load = "reading"
    /\ Len(file) < MaxTasks
    /\ Refusable(t)
    /\ file' = Append(file, t)
    /\ load' = "failed"
    /\ UNCHANGED <<layoutVars, jobVars, built>>

EndOfFile ==
    /\ load = "reading"
    /\ load' = "loaded"
    /\ UNCHANGED <<layoutVars, jobVars, file, built>>

RunScript ==
    /\ load = "loaded"
    /\ StartScript
    /\ UNCHANGED <<jobVars, load, file, built>>

FileNext == \/ \E t \in TaskEntries : ReadTask(t) \/ RefuseTask(t)
            \/ EndOfFile
            \/ RunScript

FileSpec == FileInit /\ [][FileNext]_fileVars

-----------------------------------------------------------------------------
Chosen(overrides, raw, default) == IF overrides # {} THEN overrides ELSE Given(raw, default)

(* README.md: vars override probe configuration fields by task name.  What *)
(* the probe of a loaded task goes by is, field by field, what vars give   *)
(* for the task's name, else what the file gives, else the default; tasks  *)
(* of one name alike, and nothing of another task's.  A list is the text   *)
(* cut at its separators, unless an element of the text is empty or opens  *)
(* a brace.  A cmd probe goes by its arguments, if it has any, and else by *)
(* the words of its command; an openvpn probe by its file, if it has one,  *)
(* and else by its data.                                                   *)
OverridesApplied ==
    load = "loaded" => \A i \in DOMAIN file :
        LET t == file[i]
            o == jobVars[t.name]
            config == built[i]
            lists == Chosen({Elements(text) : text \in o.list}, t.raw.list, <<>>)
            texts == Chosen(o.text, t.raw.text, <<>>)
            whole == \A text \in o.list : Regular(text)
        IN /\ t.raw.kind = "struct"
           /\ config.scalar \in
                Chosen({ScalarOf[text] : text \in o.scalar}, t.raw.scalar, Default)
           /\ t.probe # "cmd" => config.text \in texts /\ (whole => config.list \in lists)
           /\ t.probe = "cmd" /\ whole => \E list \in lists, text \in texts :
                IF list = <<>> THEN <<config.text>> \o config.list = WordsOf[text]
                               ELSE config.list = list /\ config.text = text
           /\ t.probe = "openvpn" =>
                IF config.text # <<>> THEN config.data = ContentOf[config.text]
                                      ELSE config.data \in Chosen(o.data, t.raw.data, <<>>)

(* A script is loaded whole or not at all: with every task of its file, in *)
(* its place, and with a probe that has something to go by: a first host,  *)
(* url or hop, a program that can be executed, a configuration of openvpn. *)
Usable(probe, config) ==
    /\ probe \in {"ping", "web", "traceroute"} => HasFirst(config.list)
    /\ probe = "cmd" => config.text \in Programs
    /\ probe = "openvpn" => config.text \in DOMAIN ContentOf \/ config.data # <<>>

AllOrNothing ==
    load = "loaded" =>
        /\ Len(built) = Len(file)
        /\ given = [i \in DOMAIN file |-> file[i].cgroup]
        /\ \A i \in DOMAIN file : file[i].probe \in Probes /\ Usable(file[i].probe, built[i])

=============================================================================
