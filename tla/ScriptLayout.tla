---------------------------- MODULE ScriptLayout ----------------------------
(***************************************************************************)
(* How Script.AddTask lays the tasks of a script file out into concurrent  *)
(* groups, one call per task in file order.  Script.tla takes the result   *)
(* as its constants Task, Group and GroupOf.                               *)
(*                                                                         *)
(* A group's name is a value: one of Names, the cgroup values the file     *)
(* gives; or one of Uids, which newCGroup draws for a group without a name *)
(* and may draw again.  Omitted is the empty string of a task without a    *)
(* cgroup value.  A drawn name is taken not to be one the file gives (the  *)
(* code draws one of 16^5 and does not look).                              *)
(***************************************************************************)
EXTENDS Naturals, Sequences

CONSTANTS Names, Uids, Omitted,
          MaxTasks    \* bound: tasks in a script file

ASSUME LayoutAssumption ==
    /\ Names \cap Uids = {}
    /\ Omitted \notin Names \cup Uids
    /\ MaxTasks \in Nat

VARIABLES
    status,      \* EStatus of the script: "new", or "running" once Run began
    given,       \* the cgroup value the file gives each task
    tasks,       \* s.Tasks, as each task's CGroup field
    groups,      \* s.CGroups: name and task numbers of each
    anonymous    \* the place of anonymousCGroup in groups; 0 is nil

vars == <<status, given, tasks, groups, anonymous>>

Init == /\ status = "new"
        /\ given = <<>>
        /\ tasks = <<>>
        /\ groups = <<>>
        /\ anonymous = 0

NextTask == Len(tasks) + 1
Here == Len(groups)

Join(g, name) ==
    /\ tasks' = Append(tasks, name)
    /\ groups' = [groups EXCEPT ![g].tasks = Append(@, NextTask)]

(* Mutant: a new group is always put first.                                *)
NewCGroupFirst(name) ==
    /\ tasks' = Append(tasks, name)
    /\ groups' = <<[name |-> name, tasks |-> <<NextTask>>]>> \o groups

NewCGroup(name) ==
    /\ tasks' = Append(tasks, name)
    /\ groups' = Append(groups, [name |-> name, tasks |-> <<NextTask>>])

(* Mutant: the group for tasks without a name is made once.                *)
AnonymousContinuesAlways == anonymous # 0

(* Does a task without a name continue the anonymous group?                *)
AnonymousContinues ==
    /\ anonymous # 0
    /\ Len(tasks) > 0 => tasks[Len(tasks)] = groups[anonymous].name

AddAnonymous ==
    IF AnonymousContinues
    THEN Join(anonymous, groups[anonymous].name) /\ UNCHANGED anonymous
    ELSE /\ anonymous' = Here + 1
         /\ \E uid \in Uids : NewCGroup(uid)

(* Mutant: a named task begins a group of its own.                         *)
AddNamedAlone(name) == NewCGroup(name) /\ UNCHANGED anonymous

AddNamed(name) ==
    /\ IF Here > 0 /\ groups[Here].name = name THEN Join(Here, name) ELSE NewCGroup(name)
    /\ UNCHANGED anonymous

AddTask(name) ==
    /\ status = "new"
    /\ Len(tasks) < MaxTasks
    /\ given' = Append(given, name)
    /\ IF name = Omitted THEN AddAnonymous ELSE AddNamed(name)
    /\ UNCHANGED status

(* Run gives up the status "new" for good: AddTask then returns at once.   *)
StartScript == status = "new" /\ status' = "running"
               /\ UNCHANGED <<given, tasks, groups, anonymous>>

AddTaskRefused == status # "new" /\ UNCHANGED vars

Next == \/ \E name \in Names \cup {Omitted} : AddTask(name)
        \/ StartScript
        \/ AddTaskRefused

Spec == Init /\ [][Next]_vars

-----------------------------------------------------------------------------
Places == {p \in (1..Len(groups)) \X (1..Len(tasks)) : p[2] \in DOMAIN groups[p[1]].tasks}
TaskAt(p) == groups[p[1]].tasks[p[2]]
Before(p, q) == p[1] < q[1] \/ (p[1] = q[1] /\ p[2] < q[2])

(* The groups read one after another are the script: each task stands in   *)
(* one place, and of two tasks the one that is first in the file is first. *)
FileOrder ==
    /\ \A t \in 1..Len(tasks) : \E p \in Places : TaskAt(p) = t
    /\ \A p, q \in Places : Before(p, q) => TaskAt(p) < TaskAt(q)

Together(t, u) ==
    \E g \in DOMAIN groups : \E i, j \in DOMAIN groups[g].tasks :
        groups[g].tasks[i] = t /\ groups[g].tasks[j] = u

(* Two tasks that follow each other run in parallel exactly when the file  *)
(* gives them the same cgroup value, or gives neither one.                 *)
NeighboursByName ==
    \A t \in 1..Len(tasks) : t > 1 => (Together(t - 1, t) <=> given[t - 1] = given[t])

=============================================================================
