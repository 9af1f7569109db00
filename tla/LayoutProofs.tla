---------------------------- MODULE LayoutProofs ----------------------------
(***************************************************************************)
(* Theorems about ScriptLayout, Overrides and ScriptFile, for script files *)
(* of any length with any cgroup values, configurations and vars, and for  *)
(* texts of any length.                                                    *)
(***************************************************************************)
EXTENDS ScriptFile, SequenceTheorems, FiniteSetTheorems, WellFoundedInduction, TLAPS

GroupSet == [name : Names \cup Uids, tasks : Seq(Nat)]

LayoutTypeInv ==
    /\ given \in Seq(Names \cup {Omitted})
    /\ tasks \in Seq(Names \cup Uids)
    /\ groups \in Seq(GroupSet)
    /\ anonymous \in 0..Here
    /\ Len(given) = Len(tasks)

Holds(g) == DOMAIN groups[g].tasks
At(g, i) == groups[g].tasks[i]

(* Tasks are numbered in the order of the file, and the groups list them   *)
(* in that order; the last task stands in the last group.                  *)
PlaceInv ==
    /\ \A g \in DOMAIN groups :
         /\ Holds(g) \subseteq 1..Len(tasks)
         /\ \A i \in Holds(g) : At(g, i) \in 1..Len(tasks)
    /\ \A t \in 1..Len(tasks) : \E g \in DOMAIN groups : \E i \in Holds(g) : At(g, i) = t
    /\ \A g, h \in DOMAIN groups : \A i \in Holds(g), j \in Holds(h) :
         g < h \/ (g = h /\ i < j) => At(g, i) < At(h, j)
    /\ Here = 0 <=> Len(tasks) = 0
    /\ Here # 0 => \E i \in Holds(Here) : At(Here, i) = Len(tasks)

(* A task without a cgroup value has the drawn name of its group, and only *)
(* the newest group with such a name can be the anonymous one.             *)
NameInv ==
    /\ \A t \in 1..Len(tasks) : IF given[t] = Omitted THEN tasks[t] \in Uids
                                                      ELSE tasks[t] = given[t]
    /\ Here # 0 => tasks[Len(tasks)] = groups[Here].name
    /\ anonymous # 0 => groups[anonymous].name \in Uids
    /\ \A g \in DOMAIN groups : g > anonymous => groups[g].name \in Names

LayoutInv == LayoutTypeInv /\ PlaceInv /\ NameInv /\ NeighboursByName

-----------------------------------------------------------------------------
LEMMA Appended ==
    ASSUME NEW S, NEW s \in Seq(S), NEW e \in S
    PROVE  /\ Append(s, e) \in Seq(S)
           /\ Len(s) \in Nat
           /\ Len(Append(s, e)) = Len(s) + 1
           /\ DOMAIN s = 1..Len(s)
           /\ DOMAIN Append(s, e) = 1..(Len(s) + 1)
           /\ \A i \in 1..Len(s) : Append(s, e)[i] = s[i]
           /\ Append(s, e)[Len(s) + 1] = e
OBVIOUS

(* What AddTask does to the groups, whether it joins one or makes one: it  *)
(* puts the next task at place n of the last group.                        *)
Placed(n) ==
    /\ Len(tasks') = Len(tasks) + 1
    /\ groups' \in Seq(GroupSet)
    /\ Here' \in {Here, Here + 1} /\ Here' # 0
    /\ n \in 1..(Len(tasks) + 1)
    /\ n \in Holds(Here)'
    /\ At(Here, n)' = Len(tasks) + 1
    /\ \A g \in DOMAIN groups : \A i \in Holds(g) : i \in Holds(g)' /\ At(g, i)' = At(g, i)
    /\ \A g \in DOMAIN groups' : \A i \in Holds(g)' :
         \/ g = Here' /\ i = n
         \/ g \in DOMAIN groups /\ i \in Holds(g)
    /\ Here' = Here => \A i \in Holds(Here) : i < n

LEMMA Sizes ==
    ASSUME LayoutTypeInv
    PROVE  /\ Len(tasks) \in Nat /\ Here \in Nat /\ DOMAIN groups = 1..Here
           /\ \A g \in DOMAIN groups : /\ groups[g] \in GroupSet
                                       /\ groups[g].name \in Names \cup Uids
                                       /\ groups[g].tasks \in Seq(Nat)
                                       /\ Len(groups[g].tasks) \in Nat
                                       /\ Holds(g) = 1..Len(groups[g].tasks)
           /\ DOMAIN tasks = 1..Len(tasks) /\ DOMAIN given = 1..Len(tasks)
<1>1. Len(tasks) \in Nat /\ Here \in Nat /\ DOMAIN groups = 1..Here
  BY LenProperties DEF LayoutTypeInv, Here
<1>2. ASSUME NEW g \in DOMAIN groups
      PROVE  /\ groups[g] \in GroupSet
             /\ groups[g].name \in Names \cup Uids
             /\ groups[g].tasks \in Seq(Nat)
  <2>1. groups[g] \in GroupSet
    BY <1>1, ElementOfSeq DEF LayoutTypeInv, Here
  <2> QED BY <2>1 DEF GroupSet
<1>3. \A g \in DOMAIN groups : Holds(g) = 1..Len(groups[g].tasks) /\ Len(groups[g].tasks) \in Nat
  BY <1>2, LenProperties DEF Holds
<1> QED BY <1>1, <1>2, <1>3, LenProperties DEF LayoutTypeInv

LEMMA PlacedInOrder ==
    ASSUME LayoutTypeInv, PlaceInv, NEW n, Placed(n)
    PROVE  PlaceInv'
<1> DEFINE N == Len(tasks)
<1>1. /\ N \in Nat /\ Len(tasks') = N + 1 /\ Here \in Nat /\ Here' \in {Here, Here + 1}
      /\ Here' # 0 /\ DOMAIN groups = 1..Here /\ DOMAIN groups' = 1..Here'
      /\ \A g \in DOMAIN groups : Holds(g) \subseteq 1..N
      /\ n \in 1..(N + 1)
  BY Sizes, LenProperties DEF Placed, PlaceInv, Here
<1>2. ASSUME NEW g \in DOMAIN groups', NEW i \in Holds(g)'
      PROVE  /\ g = Here' /\ i = n => At(g, i)' = N + 1
             /\ ~(g = Here' /\ i = n) => /\ g \in DOMAIN groups /\ i \in Holds(g)
                                         /\ At(g, i)' = At(g, i) /\ At(g, i) \in 1..N
  BY <1>2 DEF Placed, PlaceInv
<1>3. ASSUME NEW g \in DOMAIN groups'
      PROVE  /\ Holds(g)' \subseteq 1..(N + 1)
             /\ \A i \in Holds(g)' : At(g, i)' \in 1..(N + 1)
  <2>1. ASSUME NEW i \in Holds(g)'
        PROVE  i \in 1..(N + 1) /\ At(g, i)' \in 1..(N + 1)
    <3>1. CASE g = Here' /\ i = n
      BY <1>1, <1>2, <3>1
    <3>2. CASE ~(g = Here' /\ i = n)
      BY <1>1, <1>2, <3>2
    <3> QED BY <3>1, <3>2
  <2> QED BY <2>1
<1>4. ASSUME NEW t \in 1..(N + 1)
      PROVE  \E g \in DOMAIN groups' : \E i \in Holds(g)' : At(g, i)' = t
  <2>1. CASE t = N + 1
    BY <1>1, <2>1 DEF Placed
  <2>2. CASE t \in 1..N
    <3>1. PICK g \in DOMAIN groups : \E i \in Holds(g) : At(g, i) = t
      BY <2>2 DEF PlaceInv
    <3>2. g \in DOMAIN groups'
      BY <1>1
    <3> QED BY <3>1, <3>2 DEF Placed
  <2> QED BY <1>1, <2>1, <2>2
<1>5. ASSUME NEW g \in DOMAIN groups', NEW h \in DOMAIN groups',
             NEW i \in Holds(g)', NEW j \in Holds(h)',
             g < h \/ (g = h /\ i < j)
      PROVE  At(g, i)' < At(h, j)'
  <2>1. ~(g = Here' /\ i = n)
    <3>1. g = Here' /\ i = n => h = Here' /\ j > n
      BY <1>1, <1>5
    <3>2. h = Here' /\ j > n => h \in DOMAIN groups /\ j \in Holds(h) /\ h = Here
      BY <1>1 DEF Placed
    <3>3. h = Here' /\ j > n => j < n
      BY <1>1, <3>2 DEF Placed
    <3>4. j \in Nat
      BY <1>3
    <3> QED BY <1>1, <3>1, <3>3, <3>4
  <2>2. At(g, i)' = At(g, i) /\ At(g, i) \in 1..N /\ g \in DOMAIN groups /\ i \in Holds(g)
    BY <1>2, <2>1
  <2>3. CASE h = Here' /\ j = n
    BY <1>1, <1>2, <2>2, <2>3
  <2>4. CASE ~(h = Here' /\ j = n)
    BY <1>2, <1>5, <2>2, <2>4 DEF PlaceInv
  <2> QED BY <2>3, <2>4
<1>6. \E i \in Holds(Here)' : At(Here, i)' = N + 1
  BY DEF Placed
<1> QED BY <1>1, <1>3, <1>4, <1>5, <1>6 DEF PlaceInv

JoinsLast(name) == Here # 0 /\ groups[Here].name = name /\ Join(Here, name)

LEMMA JoinPlaces ==
    ASSUME LayoutTypeInv, PlaceInv, NEW name \in Names \cup Uids, JoinsLast(name)
    PROVE  /\ \E n \in Nat : Placed(n)
           /\ Here' = Here
           /\ tasks' = Append(tasks, name)
           /\ \A g \in DOMAIN groups : groups'[g].name = groups[g].name
<1> DEFINE N == Len(tasks)
           last == groups[Here]
           L == Len(last.tasks)
           more == Append(last.tasks, N + 1)
           e == [last EXCEPT !.tasks = more]
<1>1. /\ N \in Nat /\ Here \in 1..Here /\ DOMAIN groups = 1..Here
      /\ last \in GroupSet /\ last.tasks \in Seq(Nat) /\ L \in Nat
      /\ groups \in Seq(GroupSet)
  BY Sizes DEF JoinsLast, LayoutTypeInv
<1>2. /\ more \in Seq(Nat) /\ DOMAIN more = 1..(L + 1) /\ DOMAIN last.tasks = 1..L
      /\ more[L + 1] = N + 1 /\ \A i \in 1..L : more[i] = last.tasks[i]
  BY <1>1, Appended
<1>3. e \in GroupSet /\ e.tasks = more /\ e.name = last.name
  BY <1>1, <1>2 DEF GroupSet
<1>4. groups' = [groups EXCEPT ![Here] = e] /\ tasks' = Append(tasks, name)
  BY DEF JoinsLast, Join, NextTask
<1> HIDE DEF e, more
<1>5. /\ groups' \in Seq(GroupSet) /\ Here' = Here /\ DOMAIN groups' = DOMAIN groups
      /\ \A g \in DOMAIN groups : groups'[g] = IF g = Here THEN e ELSE groups[g]
  BY <1>1, <1>3, <1>4, ExceptSeq, LenProperties DEF Here
<1>6. Len(tasks') = N + 1
  BY <1>4, Appended DEF LayoutTypeInv
<1>7. \A g \in DOMAIN groups : /\ g # Here => groups'[g].tasks = groups[g].tasks
                               /\ g = Here => groups'[g].tasks = more
  BY <1>3, <1>5
<1>8. L \in 0..N
  <2>1. 1..L \subseteq 1..N
    BY <1>1, <1>2 DEF PlaceInv, Holds
  <2> QED BY <1>1, <2>1
<1>9. PICK n \in Nat : n = L + 1
  BY <1>1
<1>10. Placed(n)
  <2>1. ASSUME NEW g \in DOMAIN groups, NEW i \in Holds(g)
        PROVE  i \in Holds(g)' /\ At(g, i)' = At(g, i)
    <3>1. CASE g # Here
      BY <1>7, <3>1 DEF Holds, At
    <3>2. CASE g = Here
      <4>1. i \in 1..L
        BY <1>2, <3>2 DEF Holds
      <4>2. groups'[g].tasks = more
        BY <1>7, <3>2
      <4> QED BY <1>1, <1>2, <3>2, <4>1, <4>2 DEF Holds, At
    <3> QED BY <3>1, <3>2
  <2>2. ASSUME NEW g \in DOMAIN groups', NEW i \in Holds(g)'
        PROVE  (g = Here' /\ i = n) \/ (g \in DOMAIN groups /\ i \in Holds(g))
    <3>1. CASE g # Here
      BY <1>5, <1>7, <3>1 DEF Holds
    <3>2. CASE g = Here
      BY <1>1, <1>2, <1>5, <1>7, <1>9, <3>2 DEF Holds
    <3> QED BY <3>1, <3>2
  <2>3. n \in Holds(Here)' /\ At(Here, n)' = N + 1 /\ n \in 1..(N + 1)
    <3>1. groups'[Here'].tasks = more /\ n \in 1..(L + 1)
      BY <1>1, <1>5, <1>7, <1>9
    <3> QED BY <1>1, <1>2, <1>8, <1>9, <3>1 DEF Holds, At
  <2>4. \A i \in Holds(Here) : i < n
    BY <1>1, <1>2, <1>9 DEF Holds
  <2> QED BY <1>1, <1>5, <1>6, <2>1, <2>2, <2>3, <2>4 DEF Placed
<1>11. \A g \in DOMAIN groups : groups'[g].name = groups[g].name
  BY <1>3, <1>5
<1> QED BY <1>1, <1>4, <1>5, <1>9, <1>10, <1>11

LEMMA NewPlaces ==
    ASSUME LayoutTypeInv, PlaceInv, NEW name \in Names \cup Uids, NewCGroup(name)
    PROVE  /\ \E n \in Nat : Placed(n)
           /\ Here' = Here + 1
           /\ tasks' = Append(tasks, name)
           /\ \A g \in DOMAIN groups : groups'[g].name = groups[g].name
           /\ groups'[Here + 1].name = name
<1> DEFINE N == Len(tasks)
           e == [name |-> name, tasks |-> <<N + 1>>]
<1>1. /\ N \in Nat /\ Here \in Nat /\ DOMAIN groups = 1..Here /\ groups \in Seq(GroupSet)
  BY Sizes DEF LayoutTypeInv
<1>2. <<N + 1>> \in Seq(Nat) /\ DOMAIN <<N + 1>> = {1} /\ <<N + 1>>[1] = N + 1
  BY <1>1
<1>3. e \in GroupSet /\ e.tasks = <<N + 1>> /\ e.name = name
  BY <1>2 DEF GroupSet
<1>4. groups' = Append(groups, e) /\ tasks' = Append(tasks, name)
  BY DEF NewCGroup, NextTask
<1> HIDE DEF e
<1>5. /\ groups' \in Seq(GroupSet) /\ Here' = Here + 1 /\ DOMAIN groups' = 1..(Here + 1)
      /\ \A g \in 1..Here : groups'[g] = groups[g]
      /\ groups'[Here + 1] = e
  BY <1>1, <1>3, <1>4, Appended DEF Here
<1>6. Len(tasks') = N + 1
  BY <1>4, Appended DEF LayoutTypeInv
<1>7. Placed(1)
  <2>1. \A g \in DOMAIN groups : \A i \in Holds(g) : i \in Holds(g)' /\ At(g, i)' = At(g, i)
    BY <1>1, <1>5 DEF Holds, At
  <2>2. ASSUME NEW g \in DOMAIN groups', NEW i \in Holds(g)'
        PROVE  (g = Here' /\ i = 1) \/ (g \in DOMAIN groups /\ i \in Holds(g))
    <3>1. CASE g \in 1..Here
      BY <1>1, <1>5, <3>1 DEF Holds
    <3>2. CASE g = Here + 1
      BY <1>2, <1>3, <1>5, <3>2 DEF Holds
    <3> QED BY <1>1, <1>5, <3>1, <3>2
  <2>3. 1 \in Holds(Here)' /\ At(Here, 1)' = N + 1 /\ 1 \in 1..(N + 1)
    BY <1>1, <1>2, <1>3, <1>5 DEF Holds, At
  <2> QED BY <1>1, <1>5, <1>6, <2>1, <2>2, <2>3 DEF Placed
<1> QED BY <1>1, <1>3, <1>4, <1>5, <1>7

(* The next task stands with the one before it if it joined its group.     *)
LEMMA PlacedTogether ==
    ASSUME LayoutTypeInv, PlaceInv, NEW n, Placed(n), NEW N \in Nat, N = Len(tasks)
    PROVE  /\ \A t, u \in 1..N : Together(t, u)' <=> Together(t, u)
           /\ N # 0 => (Together(N, N + 1)' <=> Here' = Here)
<1>1. N \in Nat /\ N = Len(tasks)
  OBVIOUS
<1>2. /\ Here \in Nat /\ DOMAIN groups = 1..Here /\ DOMAIN groups' = 1..Here'
      /\ Here' \in {Here, Here + 1}
  BY Sizes, LenProperties DEF Placed, Here
<1>3. /\ At(Here, n)' = N + 1 /\ n \in Holds(Here)'
      /\ \A g \in DOMAIN groups' : \A i \in Holds(g)' :
           \/ g = Here' /\ i = n
           \/ g \in DOMAIN groups /\ i \in Holds(g) /\ At(g, i)' = At(g, i) /\ At(g, i) \in 1..N
      /\ \A g \in DOMAIN groups : /\ g \in DOMAIN groups'
                                  /\ \A i \in Holds(g) : i \in Holds(g)' /\ At(g, i)' = At(g, i)
  BY <1>1, <1>2 DEF Placed, PlaceInv
<1>4. ASSUME NEW t \in 1..N, NEW u \in 1..N
      PROVE  Together(t, u)' <=> Together(t, u)
  <2>1. Together(t, u) <=> \E g \in DOMAIN groups : \E i, j \in Holds(g) : At(g, i) = t /\ At(g, j) = u
    BY DEF Together, Holds, At
  <2>2. Together(t, u)' <=>
          \E g \in DOMAIN groups' : \E i, j \in Holds(g)' : At(g, i)' = t /\ At(g, j)' = u
    BY DEF Together, Holds, At
  <2>3. t # N + 1 /\ u # N + 1
    BY <1>1
  <2>4. ASSUME NEW g \in DOMAIN groups', NEW i \in Holds(g)', At(g, i)' # N + 1
        PROVE  g \in DOMAIN groups /\ i \in Holds(g) /\ At(g, i)' = At(g, i)
    BY <1>3, <2>4
  <2>5. ASSUME Together(t, u)'
        PROVE  Together(t, u)
    BY <2>1, <2>2, <2>3, <2>4, <2>5
  <2>6. ASSUME Together(t, u)
        PROVE  Together(t, u)'
    BY <1>3, <2>1, <2>2, <2>6
  <2> QED BY <2>5, <2>6
<1>5. ASSUME N # 0
      PROVE  Together(N, N + 1)' <=> Here' = Here
  <2>1. Together(N, N + 1)' <=>
          \E g \in DOMAIN groups' : \E i, j \in Holds(g)' : At(g, i)' = N /\ At(g, j)' = N + 1
    BY DEF Together, Holds, At
  <2>2. ASSUME Together(N, N + 1)'
        PROVE  Here' = Here
    <3>0. PICK g \in DOMAIN groups' :
            \E i, j \in Holds(g)' : At(g, i)' = N /\ At(g, j)' = N + 1
      BY <2>1, <2>2
    <3>1. PICK i \in Holds(g)', j \in Holds(g)' : At(g, i)' = N /\ At(g, j)' = N + 1
      BY <3>0
    <3>2. g = Here' /\ j = n
      BY <1>1, <1>3, <3>1
    <3>3. i # n
      BY <1>1, <3>1, <3>2
    <3>4. g \in DOMAIN groups
      BY <1>3, <3>2, <3>3
    <3> QED BY <1>2, <3>2, <3>4
  <2>3. ASSUME Here' = Here
        PROVE  Together(N, N + 1)'
    <3>1. Here \in DOMAIN groups /\ Here \in DOMAIN groups'
      BY <1>1, <1>2, <1>5, <2>3 DEF PlaceInv
    <3>2. PICK i \in Holds(Here) : At(Here, i) = N
      BY <1>1, <1>5 DEF PlaceInv
    <3>3. PICK g \in DOMAIN groups : g = Here
      BY <3>1
    <3>4. i \in Holds(g)' /\ At(g, i)' = N
      BY <1>3, <3>2, <3>3
    <3>5. n \in Holds(g)' /\ At(g, n)' = N + 1
      BY <1>3, <2>3, <3>3 DEF Holds, At
    <3> QED BY <1>3, <2>1, <3>4, <3>5
  <2> QED BY <2>2, <2>3
<1> QED BY <1>4, <1>5

(* The outcome of AddTask: where the task is put is decided by the names   *)
(* as the file gives them.                                                 *)
Added(name, called) ==
    /\ tasks' = Append(tasks, called)
    /\ IF name = Omitted THEN called \in Uids ELSE called = name
    /\ \A g \in DOMAIN groups : groups'[g].name = groups[g].name
    /\ \/ /\ Here' = Here /\ Here # 0 /\ groups[Here].name = called
          /\ anonymous' = anonymous
       \/ /\ Here' = Here + 1 /\ groups'[Here + 1].name = called
          /\ anonymous' = IF name = Omitted THEN Here + 1 ELSE anonymous
    /\ Len(tasks) # 0 => (Here' = Here <=> given[Len(tasks)] = name)

LEMMA AddOutcome ==
    ASSUME LayoutInv, NEW name \in Names \cup {Omitted}, AddTask(name)
    PROVE  \E called \in Names \cup Uids, n \in Nat : Added(name, called) /\ Placed(n)
<1> DEFINE N == Len(tasks)
<1>1. /\ N \in Nat /\ Here \in Nat /\ DOMAIN groups = 1..Here
      /\ \A g \in DOMAIN groups : groups[g].name \in Names \cup Uids
      /\ Here = 0 <=> N = 0
      /\ anonymous \in 0..Here
      /\ LayoutTypeInv /\ PlaceInv
  BY Sizes DEF LayoutInv, PlaceInv, LayoutTypeInv
<1>2. /\ Names \cap Uids = {} /\ Omitted \notin Names \cup Uids
  BY LayoutAssumption
<1>3. N # 0 => /\ tasks[N] = groups[Here].name
               /\ IF given[N] = Omitted THEN tasks[N] \in Uids ELSE tasks[N] = given[N]
               /\ given[N] \in Names \cup {Omitted}
  <2>1. N # 0 => N \in 1..N
    BY <1>1
  <2>2. N # 0 => given[N] \in Names \cup {Omitted}
    BY <2>1, ElementOfSeq DEF LayoutInv, LayoutTypeInv
  <2> QED BY <1>1, <2>1, <2>2 DEF LayoutInv, NameInv
<1>4. N # 0 /\ given[N] = Omitted => anonymous = Here
  <2>1. N # 0 => Here \in DOMAIN groups
    BY <1>1
  <2> QED BY <1>1, <1>2, <1>3, <2>1 DEF LayoutInv, NameInv
<1>5. anonymous # 0 => groups[anonymous].name \in Uids
  BY DEF LayoutInv, NameInv
<1>6. CASE name = Omitted /\ AnonymousContinues
  <2>1. anonymous # 0 /\ N # 0 /\ tasks[N] = groups[anonymous].name
    BY <1>1, <1>6 DEF AnonymousContinues
  <2>2. given[N] = Omitted
    BY <1>2, <1>3, <1>5, <2>1
  <2>3. anonymous = Here
    BY <1>4, <2>1, <2>2
  <2>4. UNCHANGED anonymous /\ JoinsLast(groups[Here].name)
    BY <1>6, <1>1, <2>1, <2>3 DEF AddTask, AddAnonymous, JoinsLast
  <2>5. groups[Here].name \in Uids
    BY <1>5, <2>1, <2>3
  <2> QED BY <1>1, <1>6, <2>1, <2>2, <2>3, <2>4, <2>5, JoinPlaces DEF Added
<1>7. CASE name = Omitted /\ ~AnonymousContinues
  <2>1. anonymous' = Here + 1 /\ \E uid \in Uids : NewCGroup(uid)
    BY <1>7 DEF AddTask, AddAnonymous
  <2>2. PICK uid \in Uids : NewCGroup(uid)
    BY <2>1
  <2>3. N # 0 => given[N] # Omitted
    BY <1>1, <1>3, <1>4, <1>7 DEF AnonymousContinues
  <2> QED BY <1>1, <1>7, <2>1, <2>2, <2>3, NewPlaces DEF Added
<1>8. CASE name # Omitted /\ Here > 0 /\ groups[Here].name = name
  <2>1. UNCHANGED anonymous /\ JoinsLast(name)
    BY <1>8 DEF AddTask, AddNamed, JoinsLast
  <2>2. given[N] = name /\ name \in Names
    BY <1>1, <1>2, <1>3, <1>8
  <2> QED BY <1>1, <1>8, <2>1, <2>2, JoinPlaces DEF Added
<1>9. CASE name # Omitted /\ ~(Here > 0 /\ groups[Here].name = name)
  <2>1. UNCHANGED anonymous /\ NewCGroup(name)
    BY <1>9 DEF AddTask, AddNamed
  <2>2. name \in Names /\ (N # 0 => given[N] # name)
    BY <1>1, <1>2, <1>3, <1>9
  <2> QED BY <1>1, <1>9, <2>1, <2>2, NewPlaces DEF Added
<1> QED BY <1>6, <1>7, <1>8, <1>9

LEMMA AddKeeps ==
    ASSUME LayoutInv, NEW name \in Names \cup {Omitted}, AddTask(name)
    PROVE  LayoutInv'
<1>1. PICK called \in Names \cup Uids, n \in Nat : Added(name, called) /\ Placed(n)
  BY AddOutcome
<1>2. PICK N \in Nat : N = Len(tasks)
  BY Sizes DEF LayoutInv
<1>3. /\ given' = Append(given, name) /\ tasks' = Append(tasks, called)
      /\ given \in Seq(Names \cup {Omitted}) /\ tasks \in Seq(Names \cup Uids)
      /\ Len(given) = N
  BY <1>1, <1>2 DEF AddTask, Added, LayoutInv, LayoutTypeInv
<1>4. /\ given' \in Seq(Names \cup {Omitted}) /\ Len(given') = N + 1
      /\ given'[N + 1] = name /\ \A t \in 1..N : given'[t] = given[t]
      /\ tasks' \in Seq(Names \cup Uids) /\ Len(tasks') = N + 1
      /\ tasks'[N + 1] = called /\ \A t \in 1..N : tasks'[t] = tasks[t]
  BY <1>2, <1>3, Appended
<1>5. /\ Here \in Nat /\ DOMAIN groups = 1..Here /\ DOMAIN groups' = 1..Here'
      /\ groups' \in Seq(GroupSet) /\ anonymous \in 0..Here
  BY <1>1, Sizes, LenProperties DEF Placed, LayoutInv, LayoutTypeInv, Here
<1>6. LayoutTypeInv'
  BY <1>1, <1>4, <1>5 DEF Added, LayoutTypeInv
<1>7. PlaceInv'
  BY <1>1, PlacedInOrder DEF LayoutInv
<1>8. NameInv'
  <2>1. \A t \in 1..(N + 1) : IF given'[t] = Omitted THEN tasks'[t] \in Uids
                                                     ELSE tasks'[t] = given'[t]
    BY <1>1, <1>2, <1>4 DEF Added, LayoutInv, NameInv
  <2>2. tasks'[N + 1] = groups'[Here'].name
    BY <1>1, <1>4, <1>5 DEF Added
  <2>3. anonymous' # 0 => groups'[anonymous'].name \in Uids
    BY <1>1, <1>5 DEF Added, LayoutInv, NameInv
  <2>4. \A g \in DOMAIN groups' : g > anonymous' => groups'[g].name \in Names
    <3>1. CASE Here' = Here
      BY <1>1, <1>5, <3>1 DEF Added, LayoutInv, NameInv
    <3>2. CASE Here' = Here + 1 /\ name = Omitted
      BY <1>1, <1>5, <3>2 DEF Added
    <3>3. CASE Here' = Here + 1 /\ name # Omitted
      BY <1>1, <1>5, <3>3 DEF Added, LayoutInv, NameInv
    <3> QED BY <1>1, <3>1, <3>2, <3>3 DEF Added
  <2> QED BY <1>4, <2>1, <2>2, <2>3, <2>4 DEF NameInv
<1>9. NeighboursByName'
  <2>1. /\ \A t, u \in 1..N : Together(t, u)' <=> Together(t, u)
        /\ N # 0 => (Together(N, N + 1)' <=> Here' = Here)
    BY <1>1, <1>2, PlacedTogether DEF LayoutInv
  <2>2. ASSUME NEW t \in 1..(N + 1), t > 1
        PROVE  Together(t - 1, t)' <=> given'[t - 1] = given'[t]
    <3>1. CASE t = N + 1
      <4>1. N # 0 /\ t - 1 = N /\ N \in 1..N
        BY <1>2, <2>2, <3>1
      <4>2. Here' = Here <=> given[N] = name
        BY <1>1, <1>2, <4>1 DEF Added
      <4>3. given'[t - 1] = given[N] /\ given'[t] = name
        BY <1>4, <3>1, <4>1
      <4>4. Together(t - 1, t)' <=> Here' = Here
        BY <2>1, <3>1, <4>1
      <4> QED BY <4>2, <4>3, <4>4
    <3>2. CASE t # N + 1
      <4>1. t \in 1..N /\ t - 1 \in 1..N
        BY <1>2, <2>2, <3>2
      <4>2. Together(t - 1, t) <=> given[t - 1] = given[t]
        BY <1>2, <2>2, <4>1 DEF LayoutInv, NeighboursByName
      <4> QED BY <1>4, <2>1, <4>1, <4>2
    <3> QED BY <3>1, <3>2
  <2> QED BY <1>4, <2>2 DEF NeighboursByName
<1> QED BY <1>6, <1>7, <1>8, <1>9 DEF LayoutInv

LEMMA LayoutInit == Init => LayoutInv
<1> SUFFICES ASSUME Init
             PROVE  LayoutInv
  OBVIOUS
<1>1. /\ given = <<>> /\ tasks = <<>> /\ groups = <<>> /\ anonymous = 0 /\ Here = 0
      /\ Len(tasks) = 0 /\ Len(given) = 0 /\ DOMAIN groups = {}
  BY DEF Init, Here
<1>2. LayoutTypeInv
  BY <1>1, EmptySeq DEF LayoutTypeInv
<1>3. PlaceInv /\ NameInv /\ NeighboursByName
  BY <1>1 DEF PlaceInv, NameInv, NeighboursByName
<1> QED BY <1>2, <1>3 DEF LayoutInv

LEMMA LayoutStays ==
    ASSUME LayoutInv, UNCHANGED <<given, tasks, groups, anonymous>>
    PROVE  LayoutInv'
<1>1. LayoutTypeInv'
  BY DEF LayoutInv, LayoutTypeInv, GroupSet, Here
<1>2. PlaceInv'
  BY DEF LayoutInv, PlaceInv, Holds, At, Here
<1>3. NameInv'
  BY DEF LayoutInv, NameInv, Here
<1>4. NeighboursByName'
  BY DEF LayoutInv, NeighboursByName, Together, Holds, At
<1> QED BY <1>1, <1>2, <1>3, <1>4 DEF LayoutInv

(* Groups whose places are in order list the tasks in order.               *)
LEMMA PlacesInFileOrder == LayoutInv => FileOrder
<1> SUFFICES ASSUME LayoutInv
             PROVE  FileOrder
  OBVIOUS
<1>1. /\ Len(tasks) \in Nat /\ Here \in Nat /\ DOMAIN groups = 1..Here
  BY Sizes DEF LayoutInv
<1>2. \A p \in Places : /\ p[1] \in DOMAIN groups /\ p[2] \in Holds(p[1])
                        /\ TaskAt(p) = At(p[1], p[2])
  BY <1>1 DEF Places, TaskAt, Holds, At, Here
<1>3. ASSUME NEW t \in 1..Len(tasks)
      PROVE  \E p \in Places : TaskAt(p) = t
  <2>1. PICK g \in DOMAIN groups : \E i \in Holds(g) : At(g, i) = t
    BY <1>3 DEF LayoutInv, PlaceInv
  <2>2. PICK i \in Holds(g) : At(g, i) = t
    BY <2>1
  <2>3. i \in 1..Len(tasks) /\ g \in 1..Len(groups)
    BY <1>1 DEF LayoutInv, PlaceInv, Here
  <2>4. <<g, i>> \in Places
    BY <2>3 DEF Places, Holds
  <2>5. TaskAt(<<g, i>>) = t
    BY <2>2 DEF TaskAt, At
  <2> QED BY <2>4, <2>5
<1>4. \A p, q \in Places : Before(p, q) => TaskAt(p) < TaskAt(q)
  BY <1>2 DEF Before, LayoutInv, PlaceInv
<1> QED BY <1>3, <1>4 DEF FileOrder

-----------------------------------------------------------------------------
(* The tokenizer.                                                          *)

LEMMA LeastOf ==
    ASSUME NEW S, S \subseteq Nat, S # {}
    PROVE  \E x \in S : \A y \in S : x <= y
<1>1. PICK x \in S : \A y \in S : <<y, x>> \notin OpToRel(<, Nat)
  BY WFMin, NatLessThanWellFounded
<1>2. ASSUME NEW y \in S
      PROVE  x <= y
  <2>1. <<y, x>> \in Nat \X Nat /\ <<y, x>>[1] = y /\ <<y, x>>[2] = x
    OBVIOUS
  <2>2. ~(y < x)
    BY <1>1, <2>1 DEF OpToRel
  <2> QED BY <2>2
<1> QED BY <1>2

LEMMA MinIsLeast ==
    ASSUME NEW S, S \subseteq Nat, S # {}
    PROVE  Min(S) \in S /\ \A y \in S : Min(S) <= y
BY LeastOf DEF Min

(* Induction up to a bound, over the set of the numbers that would fail.   *)
LEMMA UpTo ==
    ASSUME NEW n \in Nat, NEW P, 0 \in P,
           \A i \in 0..n : i # n /\ i \in P => i + 1 \in P
    PROVE  0..n \subseteq P
<1> SUFFICES ASSUME (0..n) \ P # {}
             PROVE  FALSE
  OBVIOUS
<1>0. (0..n) \ P \subseteq Nat
  OBVIOUS
<1>1. PICK x \in (0..n) \ P : \A y \in (0..n) \ P : x <= y
  BY <1>0, LeastOf
<1>2. x # 0 /\ x - 1 \in 0..n /\ x - 1 # n
  BY <1>1
<1>3. x - 1 \in P
  BY <1>1, <1>2
<1> QED BY <1>1, <1>2, <1>3

(* The scan of a text exists, and goes rune by rune.                       *)
IsScan(scan, text, k) ==
    scan = [i \in 0..k |-> IF i = 0 THEN Scanner ELSE ReadRune(scan[i - 1], text[i])]

LEMMA ScanExists ==
    ASSUME NEW text \in Seq(STRING)
    PROVE  \E scan : IsScan(scan, text, Len(text))
<1> DEFINE P == {k \in 0..Len(text) : \E scan : IsScan(scan, text, k)}
<1>1. Len(text) \in Nat
  OBVIOUS
<1>2. 0 \in P
  <2> DEFINE scan == [i \in 0..0 |-> Scanner]
  <2>1. scan = [i \in 0..0 |-> IF i = 0 THEN Scanner ELSE ReadRune(scan[i - 1], text[i])]
    OBVIOUS
  <2>2. IsScan(scan, text, 0)
    BY <2>1 DEF IsScan
  <2> QED BY <1>1, <2>2
<1>3. ASSUME NEW k \in 0..Len(text), k # Len(text), k \in P
      PROVE  k + 1 \in P
  <2>1. PICK g : IsScan(g, text, k)
    BY <1>3
  <2> DEFINE h == [i \in 0..(k + 1) |-> IF i = k + 1 THEN ReadRune(g[k], text[k + 1]) ELSE g[i]]
  <2>2. \A i \in 0..k : g[i] = IF i = 0 THEN Scanner ELSE ReadRune(g[i - 1], text[i])
    BY <2>1 DEF IsScan
  <2>3. ASSUME NEW i \in 0..(k + 1)
        PROVE  h[i] = IF i = 0 THEN Scanner ELSE ReadRune(h[i - 1], text[i])
    <3>1. CASE i = k + 1
      <4>1. h[i] = ReadRune(g[k], text[k + 1]) /\ i # 0 /\ h[i - 1] = g[k] /\ i - 1 = k
        BY <1>1, <3>1
      <4> QED BY <3>1, <4>1
    <3>2. CASE i \in 1..k
      <4>1. h[i] = g[i] /\ h[i - 1] = g[i - 1] /\ i # 0
        BY <1>1, <3>2
      <4> QED BY <2>2, <3>2, <4>1
    <3>3. CASE i = 0
      BY <2>2, <3>3, <1>1
    <3> QED BY <1>1, <3>1, <3>2, <3>3
  <2>4. h = [i \in 0..(k + 1) |-> IF i = 0 THEN Scanner ELSE ReadRune(h[i - 1], text[i])]
    <3>1. PICK f : f = h
      OBVIOUS
    <3>2. f = [i \in 0..(k + 1) |-> f[i]]
      BY <3>1
    <3>3. \A i \in 0..(k + 1) : f[i] = IF i = 0 THEN Scanner ELSE ReadRune(f[i - 1], text[i])
      BY <2>3, <3>1
    <3> HIDE DEF h
    <3>4. f = [i \in 0..(k + 1) |-> IF i = 0 THEN Scanner ELSE ReadRune(f[i - 1], text[i])]
      BY <3>2, <3>3
    <3> QED BY <3>1, <3>4
  <2>5. IsScan(h, text, k + 1)
    BY <2>4 DEF IsScan
  <2> HIDE DEF h
  <2> QED BY <1>1, <1>3, <2>5
<1> HIDE DEF P
<1>4. 0..Len(text) \subseteq P
  BY <1>1, <1>2, <1>3, UpTo
<1>5. Len(text) \in P
  BY <1>1, <1>4
<1> QED BY <1>5 DEF P

LEMMA ScanSteps ==
    ASSUME NEW text \in Seq(STRING)
    PROVE  /\ Scanned(text)[0] = Scanner
           /\ \A i \in 1..Len(text) : Scanned(text)[i] = ReadRune(Scanned(text)[i - 1], text[i])
<1>1. PICK g : IsScan(g, text, Len(text))
  BY ScanExists
<1>2. IsScan(Scanned(text), text, Len(text))
  BY <1>1, Zenon DEF IsScan, Scanned
<1>3. PICK scan : scan = Scanned(text)
  OBVIOUS
<1>4. IsScan(scan, text, Len(text))
  BY <1>2, <1>3
<1>5. \A i \in 0..Len(text) : scan[i] = IF i = 0 THEN Scanner ELSE ReadRune(scan[i - 1], text[i])
  BY <1>4 DEF IsScan
<1>6. Len(text) \in Nat
  OBVIOUS
<1> QED BY <1>3, <1>5, <1>6

-----------------------------------------------------------------------------
(* Where the cuts, starts and ends of a text of n runes are.               *)
WellCut(text, n) ==
    /\ 0 \in Starts(text)
    /\ \A i \in 1..n : i \in Cuts(text) <=> text[i] = Separator /\ Outside(text, i)
    /\ \A c \in Cuts(text) : c \in 1..n
    /\ \A c \in Starts(text) :
         /\ c \in 0..n
         /\ c # 0 => /\ c \in Cuts(text)
                     /\ Begin(text, c) \in (c + 1)..n
                     /\ text[Begin(text, c)] # Blank
                     /\ \A i \in (c + 1)..n : text[i] # Blank => Begin(text, c) <= i
         /\ End(text, c) \in (c + 1)..(n + 1)
         /\ End(text, c) \in Cuts(text) \/ End(text, c) = n + 1
         /\ \A e \in Cuts(text) : e > c => End(text, c) <= e
    /\ \A c \in Cuts(text) : (\E i \in (c + 1)..n : text[i] # Blank) => c \in Starts(text)

LEMMA TextsAreCut ==
    ASSUME NEW text \in Seq(STRING)
    PROVE  WellCut(text, Len(text))
<1>1. PICK n \in Nat : n = Len(text)
  OBVIOUS
<1>2. \A i \in 1..n : i \in Cuts(text) <=> text[i] = Separator /\ Outside(text, i)
  BY <1>1 DEF Cuts
<1>3. \A c \in Cuts(text) : c \in 1..n
  BY <1>1 DEF Cuts
<1>4. \A c \in Cuts(text) : (\E i \in (c + 1)..n : text[i] # Blank) => c \in Starts(text)
  BY <1>1 DEF Starts, NotBlank
<1>5. 0 \in Starts(text) /\ \A c \in Starts(text) : c \in 0..n
  BY <1>3 DEF Starts
<1>6. ASSUME NEW c \in Starts(text), c # 0
      PROVE  /\ c \in Cuts(text)
             /\ Begin(text, c) \in (c + 1)..n
             /\ text[Begin(text, c)] # Blank
             /\ \A i \in (c + 1)..n : text[i] # Blank => Begin(text, c) <= i
  <2>1. c \in Cuts(text) /\ NotBlank(text, c) # {}
    BY <1>6 DEF Starts
  <2>2. NotBlank(text, c) \subseteq Nat
    BY <1>5 DEF NotBlank
  <2>3. /\ Begin(text, c) \in NotBlank(text, c)
        /\ \A i \in NotBlank(text, c) : Begin(text, c) <= i
    BY <1>6, <2>1, <2>2, MinIsLeast DEF Begin
  <2> QED BY <1>1, <2>1, <2>3 DEF NotBlank
<1>7. ASSUME NEW c \in Starts(text)
      PROVE  /\ End(text, c) \in (c + 1)..(n + 1)
             /\ End(text, c) \in Cuts(text) \/ End(text, c) = n + 1
             /\ \A e \in Cuts(text) : e > c => End(text, c) <= e
  <2> DEFINE S == {i \in Cuts(text) \cup {Len(text) + 1} : i > c}
  <2>1. S \subseteq (c + 1)..(n + 1) /\ n + 1 \in S
    BY <1>1, <1>3, <1>5
  <2>2. S \subseteq Nat /\ S # {}
    BY <1>5, <2>1
  <2> HIDE DEF S
  <2>3. Min(S) \in S /\ \A y \in S : Min(S) <= y
    BY <2>2, MinIsLeast
  <2>4. End(text, c) = Min(S)
    BY DEF End, S
  <2>5. PICK e : e = End(text, c)
    OBVIOUS
  <2>6. e \in S /\ \A y \in S : e <= y
    BY <2>3, <2>4, <2>5
  <2> QED BY <1>1, <2>1, <2>5, <2>6 DEF S
<1>8. WellCut(text, n)
  BY <1>2, <1>3, <1>4, <1>5, <1>6, <1>7 DEF WellCut
<1> QED BY <1>1, <1>8

(* The elements are numbered in the order of their starts.                 *)
LEMMA Ranks ==
    ASSUME NEW text \in Seq(STRING)
    PROVE  /\ Cardinality(Starts(text)) \in Nat
           /\ Rank(text, 0) = 0
           /\ \A c \in Starts(text) : Rank(text, c) \in Nat
           /\ \A c, d \in Starts(text) : c < d => Rank(text, c) < Rank(text, d)
           /\ \A c, d \in Starts(text) :
                c < d /\ (\A e \in Starts(text) : e <= c \/ e >= d)
                  => Rank(text, d) = Rank(text, c) + 1
           /\ \A c \in Starts(text) :
                (\A e \in Starts(text) : e <= c)
                  => Cardinality(Starts(text)) = Rank(text, c) + 1
           /\ \A c \in Starts(text) : Rank(text, c) < Cardinality(Starts(text))
<1> DEFINE Below(c) == {d \in Starts(text) : d < c}
           n == Len(text)
<1>1. n \in Nat /\ Starts(text) \subseteq 0..n
  BY TextsAreCut DEF WellCut
<1>2. IsFiniteSet(0..n)
  BY <1>1, FS_Interval
<1>3. IsFiniteSet(Starts(text)) /\ Cardinality(Starts(text)) \in Nat
  BY <1>1, <1>2, FS_Subset, FS_CardinalityType
<1>4. ASSUME NEW c \in Starts(text)
      PROVE  /\ IsFiniteSet(Below(c)) /\ Cardinality(Below(c)) \in Nat
             /\ IsFiniteSet(Below(c) \cup {c})
             /\ Cardinality(Below(c) \cup {c}) = Cardinality(Below(c)) + 1
  <2>1. IsFiniteSet(Below(c)) /\ c \notin Below(c)
    <3>1. Below(c) \subseteq Starts(text)
      OBVIOUS
    <3>2. ~(c < c)
      BY <1>1
    <3> QED BY <1>3, <3>1, <3>2, FS_Subset
  <2> QED BY <2>1, FS_CardinalityType, FS_AddElement
<1>5. \A c \in Starts(text) : Rank(text, c) = Cardinality(Below(c))
  BY DEF Rank
<1>6. ASSUME NEW c \in Starts(text), NEW d \in Starts(text), c < d
      PROVE  /\ Rank(text, c) < Rank(text, d)
             /\ (\A e \in Starts(text) : e <= c \/ e >= d) => Rank(text, d) = Rank(text, c) + 1
  <2>1. Below(c) \cup {c} \subseteq Below(d)
    BY <1>1, <1>6
  <2>2. Cardinality(Below(c) \cup {c}) <= Cardinality(Below(d))
    BY <2>1, <1>4, FS_Subset
  <2>3. (\A e \in Starts(text) : e <= c \/ e >= d) => Below(d) = Below(c) \cup {c}
    BY <1>1, <1>6
  <2>4. PICK r \in Nat, q \in Nat : /\ r = Rank(text, c) /\ Cardinality(Below(c) \cup {c}) = r + 1
                                   /\ q = Rank(text, d) /\ Cardinality(Below(d)) = q
    BY <1>4, <1>5
  <2>5. r < q
    BY <2>2, <2>4
  <2>6. (\A e \in Starts(text) : e <= c \/ e >= d) => q = r + 1
    BY <2>3, <2>4
  <2> QED BY <2>4, <2>5, <2>6
<1>7. ASSUME NEW c \in Starts(text)
      PROVE  /\ Rank(text, c) < Cardinality(Starts(text))
             /\ (\A e \in Starts(text) : e <= c)
                  => Cardinality(Starts(text)) = Rank(text, c) + 1
  <2>1. Below(c) \cup {c} \subseteq Starts(text)
    OBVIOUS
  <2>2. Cardinality(Below(c) \cup {c}) <= Cardinality(Starts(text))
    BY <1>3, <2>1, FS_Subset
  <2>3. (\A e \in Starts(text) : e <= c) => Starts(text) = Below(c) \cup {c}
    BY <1>1
  <2>4. PICK r \in Nat : r = Rank(text, c) /\ Cardinality(Below(c) \cup {c}) = r + 1
    BY <1>4, <1>5
  <2>5. r < Cardinality(Starts(text))
    BY <1>3, <2>2, <2>4
  <2>6. (\A e \in Starts(text) : e <= c) => Cardinality(Starts(text)) = r + 1
    BY <2>3, <2>4
  <2> QED BY <2>4, <2>5, <2>6
<1>8. Rank(text, 0) = 0
  <2>1. 0 \in Starts(text) /\ Below(0) = {}
    BY <1>1 DEF Starts
  <2> QED BY <1>5, <2>1, FS_EmptySet
<1> QED BY <1>3, <1>4, <1>5, <1>6, <1>7, <1>8

LEMMA ElementAt ==
    ASSUME NEW text \in Seq(STRING)
    PROVE  /\ DOMAIN Elements(text) = 1..Cardinality(Starts(text))
           /\ Elements(text) = [k \in 1..Cardinality(Starts(text)) |-> Elements(text)[k]]
           /\ \A c \in Starts(text) : Elements(text)[Rank(text, c) + 1] = Element(text, c)
<1>1. /\ DOMAIN Elements(text) = 1..Cardinality(Starts(text))
      /\ Elements(text) = [k \in 1..Cardinality(Starts(text)) |-> Elements(text)[k]]
  BY DEF Elements
<1>2. ASSUME NEW c \in Starts(text)
      PROVE  Elements(text)[Rank(text, c) + 1] = Element(text, c)
  <2>1. PICK k \in Nat : k = Rank(text, c) + 1
    BY Ranks
  <2>2. k \in 1..Cardinality(Starts(text)) /\ Rank(text, c) = k - 1
    BY <2>1, Ranks
  <2>3. \A d \in Starts(text) : Rank(text, d) = k - 1 => d = c
    <3>1. ASSUME NEW d \in Starts(text), d # c
          PROVE  d < c \/ c < d
      BY <3>1, TextsAreCut DEF WellCut
    <3>2. ASSUME NEW d \in Starts(text), d # c
          PROVE  Rank(text, d) # Rank(text, c)
      BY <3>1, <3>2, Ranks
    <3> QED BY <2>2, <3>2
  <2>4. (CHOOSE d \in Starts(text) : Rank(text, d) = k - 1) = c
    BY <2>2, <2>3, Zenon
  <2>5. Elements(text)[k] = Element(text, CHOOSE d \in Starts(text) : Rank(text, d) = k - 1)
    BY <2>2 DEF Elements
  <2> QED BY <2>1, <2>4, <2>5
<1> QED BY <1>1, <1>2

LEMMA Marks == /\ Separator # Blank /\ Separator # Opening /\ Separator # Closing
               /\ Blank # Opening /\ Opening # Closing
BY DEF Separator, Blank, Opening, Closing

(* What a rune that is read does to what comes after it.                   *)
LEMMA OutsideNext ==
    ASSUME NEW text, NEW j \in Nat \ {0}
    PROVE  Outside(text, j + 1) <=> text[j] # Opening /\ (Outside(text, j) \/ text[j] = Closing)
<1>1. PICK i \in Nat : i = j - 1
  OBVIOUS
<1>2. PICK opens : opens = {b \in Nat : text[b] = Opening}
  OBVIOUS
<1>3. PICK closes : closes = {b \in Nat : text[b] = Closing}
  OBVIOUS
<1>4. Outside(text, j) <=> \A b \in 1..i : b \in opens => \E c \in (b + 1)..i : c \in closes
  <2>1. \A b \in 1..i : b \in Nat /\ \A c \in (b + 1)..i : c \in Nat
    OBVIOUS
  <2> QED BY <1>1, <1>2, <1>3, <2>1 DEF Outside
<1>5. Outside(text, j + 1) <=> \A b \in 1..j : b \in opens => \E c \in (b + 1)..j : c \in closes
  <2>1. (j + 1) - 1 = j
    BY <1>1
  <2>2. \A b \in 1..j : b \in Nat /\ \A c \in (b + 1)..j : c \in Nat
    BY <1>1
  <2> QED BY <1>2, <1>3, <2>1, <2>2 DEF Outside
<1>6. j \in opens => j \notin closes
  BY <1>2, <1>3, Marks
<1>7. Outside(text, j + 1) <=> j \notin opens /\ (Outside(text, j) \/ j \in closes)
  <2>1. ASSUME Outside(text, j + 1)
        PROVE  j \notin opens
    BY <1>1, <1>5, <2>1
  <2>2. ASSUME Outside(text, j + 1), j \notin closes
        PROVE  Outside(text, j)
    BY <1>1, <1>4, <1>5, <2>2
  <2>3. ASSUME j \notin opens, Outside(text, j) \/ j \in closes
        PROVE  Outside(text, j + 1)
    BY <1>1, <1>4, <1>5, <2>3
  <2> QED BY <2>1, <2>2, <2>3
<1> QED BY <1>1, <1>2, <1>3, <1>7

LEMMA StillOutside ==
    ASSUME NEW text, NEW j \in Nat, NEW e \in 1..(j - 1), Outside(text, e),
           \A b \in e..(j - 1) : text[b] # Opening
    PROVE  Outside(text, j)
<1>1. ASSUME NEW b \in 1..(j - 1), text[b] = Opening
      PROVE  \E a \in (b + 1)..(j - 1) : text[a] = Closing
  <2>1. b \in 1..(e - 1)
    BY <1>1
  <2>2. PICK a \in (b + 1)..(e - 1) : text[a] = Closing
    BY <1>1, <2>1 DEF Outside
  <2> QED BY <2>2
<1> QED BY <1>1 DEF Outside

(* After the cut that ends the element of c: blanks change nothing, any    *)
(* other rune is the first of the next element.                            *)
LEMMA AfterTheCut ==
    ASSUME NEW text, NEW n \in Nat, WellCut(text, n), Regular(text), NEW j \in 1..n,
           NEW c \in Starts(text), End(text, c) < j,
           \A d \in Starts(text) : d > c => Begin(text, d) >= j
    PROVE  /\ Outside(text, j)
           /\ text[j] # Opening /\ Outside(text, j + 1)
           /\ text[j] = Blank => \A d \in Starts(text) : d > c => Begin(text, d) >= j + 1
           /\ text[j] # Blank =>
                \E e \in Starts(text) :
                  /\ e > c /\ Begin(text, e) = j /\ End(text, e) > j
                  /\ \A d \in Starts(text) : d <= c \/ d >= e
                  /\ \A d \in Starts(text) : d > e => Begin(text, d) >= j + 1
<1>1. PICK e \in Cuts(text) : e = End(text, c)
  BY DEF WellCut
<1>2. /\ c \in 0..n /\ e \in 1..(j - 1) /\ e > c /\ Outside(text, e) /\ text[e] = Separator
      /\ \A d \in Cuts(text) : d > c => e <= d
  BY <1>1 DEF WellCut
<1>3. \A k \in (e + 1)..(j - 1) : text[k] = Blank
  <2>1. ASSUME NEW k \in (e + 1)..(j - 1), text[k] # Blank
        PROVE  FALSE
    <3>1. k \in (e + 1)..n
      BY <1>2
    <3>2. e \in Starts(text)
      BY <2>1, <3>1 DEF WellCut
    <3>3. Begin(text, e) <= k /\ Begin(text, e) \in (e + 1)..n
      BY <1>2, <2>1, <3>1, <3>2 DEF WellCut
    <3> QED BY <1>2, <3>2, <3>3
  <2> QED BY <2>1
<1>4. \A k \in e..(j - 1) : text[k] # Opening
  BY <1>2, <1>3, Marks
<1>5. Outside(text, j)
  BY <1>2, <1>4, StillOutside
<1>6. ASSUME text[j] # Blank
      PROVE  /\ e \in Starts(text) /\ Begin(text, e) = j
             /\ text[j] # Separator /\ text[j] # Opening
  <2>1. j \in (e + 1)..n
    BY <1>2
  <2>2. e \in Starts(text)
    BY <1>6, <2>1 DEF WellCut
  <2>3. Begin(text, e) <= j /\ Begin(text, e) \in (e + 1)..n
    BY <1>2, <1>6, <2>1, <2>2 DEF WellCut
  <2>4. Begin(text, e) = j
    BY <1>2, <2>2, <2>3
  <2> QED BY <1>2, <2>2, <2>4 DEF Regular
<1>7. text[j] # Opening /\ Outside(text, j + 1)
  BY <1>5, <1>6, OutsideNext, Marks
<1>8. ASSUME text[j] = Blank, NEW d \in Starts(text), d > c
      PROVE  Begin(text, d) >= j + 1
  <2>1. Begin(text, d) \in (d + 1)..n /\ text[Begin(text, d)] # Blank /\ Begin(text, d) >= j
    BY <1>2, <1>8 DEF WellCut
  <2> QED BY <1>8, <2>1
<1>9. ASSUME text[j] # Blank
      PROVE  /\ End(text, e) > j
             /\ \A d \in Starts(text) : d <= c \/ d >= e
             /\ \A d \in Starts(text) : d > e => Begin(text, d) >= j + 1
  <2>1. \A k \in (e + 1)..j : k \notin Cuts(text)
    BY <1>2, <1>3, <1>6, <1>9, Marks DEF WellCut
  <2>2. End(text, e) \in (e + 1)..(n + 1) /\ (End(text, e) \in Cuts(text) \/ End(text, e) = n + 1)
    BY <1>6, <1>9 DEF WellCut
  <2>3. End(text, e) > j
    BY <1>2, <2>1, <2>2
  <2>4. ASSUME NEW d \in Starts(text), d > e
        PROVE  Begin(text, d) >= j + 1
    <3>1. d \in Cuts(text) /\ d \in 1..n /\ Begin(text, d) \in (d + 1)..n
      BY <1>2, <2>4 DEF WellCut
    <3> QED BY <1>2, <2>1, <2>4, <3>1
  <2>5. ASSUME NEW d \in Starts(text), d > c
        PROVE  d >= e
    BY <1>2, <2>5 DEF WellCut
  <2>6. \A d \in Starts(text) : d \in 0..n
    BY DEF WellCut
  <2> QED BY <1>2, <2>3, <2>4, <2>5, <2>6
<1> QED BY <1>2, <1>5, <1>6, <1>7, <1>8, <1>9

(* Within the element of c: it goes on to the next cut.                    *)
LEMMA BeforeTheCut ==
    ASSUME NEW text, NEW n \in Nat, WellCut(text, n), NEW j \in 1..n,
           NEW c \in Starts(text), End(text, c) >= j, c < j
    PROVE  /\ j \in Cuts(text) => End(text, c) = j
           /\ j \notin Cuts(text) => End(text, c) > j
           /\ \A d \in Starts(text) : d > c => Begin(text, d) >= j + 1
<1>1. /\ c \in 0..n /\ End(text, c) \in (c + 1)..(n + 1)
      /\ End(text, c) \in Cuts(text) \/ End(text, c) = n + 1
      /\ \A e \in Cuts(text) : e > c => End(text, c) <= e
  BY DEF WellCut
<1>2. ASSUME NEW d \in Starts(text), d > c
      PROVE  Begin(text, d) >= j + 1
  <2>1. d \in Cuts(text) /\ d \in 1..n /\ Begin(text, d) \in (d + 1)..n
    BY <1>1, <1>2 DEF WellCut
  <2> QED BY <1>1, <1>2, <2>1
<1>3. j \in Cuts(text) => End(text, c) = j
  BY <1>1
<1>4. j \notin Cuts(text) => End(text, c) > j
  BY <1>1
<1> QED BY <1>2, <1>3, <1>4

(* A part of a text that grows by the rune that comes after it.            *)
LEMMA SubSeqNext ==
    ASSUME NEW text \in Seq(STRING), NEW j \in 1..Len(text), NEW m \in 1..j
    PROVE  /\ SubSeq(text, m, j - 1) \in Seq(STRING)
           /\ Append(SubSeq(text, m, j - 1), text[j]) = SubSeq(text, m, j)
           /\ <<text[j]>> = SubSeq(text, j, j)
<1>1. ASSUME NEW l \in 1..j
      PROVE  /\ SubSeq(text, l, j - 1) \in Seq(STRING)
             /\ Append(SubSeq(text, l, j - 1), text[j]) = SubSeq(text, l, j)
  <2>1. /\ \A i \in l..(j - 1) : text[i] \in STRING
        /\ l \in 1..Len(text) /\ j \in l..Len(text) /\ text[j] \in STRING /\ l \in Int /\ j - 1 \in Int
    BY LenProperties
  <2>2. SubSeq(text, l, j - 1) \in Seq(STRING)
    BY <2>1, SubSeqProperties
  <2>3. SubSeq(text, l, j) = SubSeq(text, l, j - 1) \o <<text[j]>>
    BY <2>1, SubSeqRecursiveSecond
  <2> QED BY <2>1, <2>2, <2>3, AppendIsConcat
<1>2. <<text[j]>> = SubSeq(text, j, j)
  <2>1. SubSeq(text, j, j - 1) = <<>>
    BY SubSeqEmpty
  <2>2. text[j] \in STRING /\ j \in 1..j
    BY LenProperties
  <2>3. Append(<<>>, text[j]) = SubSeq(text, j, j)
    BY <1>1, <2>1, <2>2
  <2>4. Append(<<>>, text[j]) = <<>> \o <<text[j]>> /\ <<text[j]>> \in Seq(STRING)
    BY <2>2, AppendIsConcat, EmptySeq
  <2> QED BY <2>3, <2>4, ConcatEmptySeq
<1> QED BY <1>1, <1>2

Scanners == [tokens : Seq(Seq(STRING)), buf : Seq(STRING), inBraces : BOOLEAN, sepFound : BOOLEAN]

(* Before rune j is read, the element of c is the last one of which runes  *)
(* have been seen: the tokens are those before it, the buffer holds what   *)
(* there is of it.                                                         *)
Reads(text, s, j, c) ==
    /\ s \in Scanners
    /\ c \in Starts(text)
    /\ c # 0 => Begin(text, c) < j
    /\ \A d \in Starts(text) : d > c => Begin(text, d) >= j
    /\ Len(s.tokens) = Rank(text, c)
    /\ \A k \in 1..Rank(text, c) : s.tokens[k] = Elements(text)[k]
    /\ s.buf = SubSeq(text, Begin(text, c), IF s.sepFound THEN End(text, c) - 1 ELSE j - 1)
    /\ s.inBraces <=> ~Outside(text, j)
    /\ s.sepFound <=> End(text, c) < j

LEMMA ReadsNothing ==
    ASSUME NEW text \in Seq(STRING)
    PROVE  Reads(text, Scanner, 1, 0)
<1>1. Scanner \in Scanners
  BY EmptySeq DEF Scanner, Scanners
<1>2. SubSeq(text, 1, 0) = <<>>
  BY SubSeqEmpty
<1>3. Outside(text, 1)
  BY DEF Outside
<1>4. PICK n \in Nat : n = Len(text) /\ WellCut(text, n)
  BY TextsAreCut
<1>5. /\ 0 \in Starts(text) /\ End(text, 0) \in 1..(n + 1)
      /\ \A d \in Starts(text) : d > 0 => Begin(text, d) >= 1
  BY <1>4 DEF WellCut
<1>6. Rank(text, 0) = 0 /\ Begin(text, 0) = 1
  BY Ranks DEF Begin
<1> QED BY <1>1, <1>2, <1>3, <1>5, <1>6 DEF Reads, Scanner

(* A separator has been found: the element in the buffer is complete.      *)
LEMMA ReadsAfterCut ==
    ASSUME NEW text \in Seq(STRING), Regular(text), NEW j \in 1..Len(text),
           NEW s, NEW c, Reads(text, s, j, c), s.sepFound
    PROVE  \E d \in Starts(text) : Reads(text, ReadRune(s, text[j]), j + 1, d)
<1>1. PICK n \in Nat : n = Len(text) /\ WellCut(text, n)
  BY TextsAreCut
<1>2. PICK t : t = ReadRune(s, text[j])
  OBVIOUS
<1>3. PICK r \in Nat : r = Rank(text, c)
  BY Ranks DEF Reads
<1>4. PICK b : b = End(text, c) /\ b < j
  BY DEF Reads
<1>5. /\ s \in Scanners /\ c \in Starts(text) /\ s.sepFound = TRUE
      /\ s.inBraces <=> ~Outside(text, j)
      /\ c # 0 => Begin(text, c) < j
      /\ s.buf = Element(text, c)
      /\ \A d \in Starts(text) : d > c => Begin(text, d) >= j
      /\ Len(s.tokens) = r /\ \A k \in 1..r : s.tokens[k] = Elements(text)[k]
  BY <1>3 DEF Reads, Element, Scanners
<1>6. /\ Outside(text, j) /\ Outside(text, j + 1)
      /\ text[j] = Blank => \A d \in Starts(text) : d > c => Begin(text, d) >= j + 1
      /\ text[j] # Blank =>
           \E e \in Starts(text) :
             /\ e > c /\ Begin(text, e) = j /\ End(text, e) > j
             /\ \A d \in Starts(text) : d <= c \/ d >= e
             /\ \A d \in Starts(text) : d > e => Begin(text, d) >= j + 1
  BY <1>1, <1>4, <1>5, AfterTheCut
<1>7. s.inBraces = FALSE
  BY <1>5, <1>6 DEF Scanners
<1>8. CASE text[j] = Blank
  <2>1. t = s
    BY <1>2, <1>5, <1>8 DEF ReadRune
  <2>2. /\ c # 0 => Begin(text, c) < j + 1
        /\ End(text, c) < j + 1
    <3>1. End(text, c) \in Nat /\ (c # 0 => Begin(text, c) \in Nat)
      BY <1>1, <1>5 DEF WellCut
    <3> QED BY <1>4, <1>5, <3>1
  <2>3. Reads(text, t, j + 1, c)
    BY <1>3, <1>5, <1>6, <1>7, <1>8, <2>1, <2>2 DEF Reads, Element
  <2> QED BY <1>2, <1>5, <2>3
<1>9. CASE text[j] # Blank
  <2>1. PICK e \in Starts(text) :
             /\ e > c /\ Begin(text, e) = j /\ End(text, e) > j
             /\ \A d \in Starts(text) : d <= c \/ d >= e
             /\ \A d \in Starts(text) : d > e => Begin(text, d) >= j + 1
    BY <1>6, <1>9
  <2>2. Rank(text, e) = r + 1
    <3>1. c < e
      BY <1>1, <1>5, <2>1 DEF WellCut
    <3> QED BY <1>3, <1>5, <2>1, <3>1, Ranks
  <2>3. s.tokens \in Seq(Seq(STRING)) /\ s.buf \in Seq(STRING) /\ s.buf = Elements(text)[r + 1]
    BY <1>3, <1>5, ElementAt DEF Scanners
  <2>4. PICK tokens : tokens = Append(s.tokens, s.buf)
    OBVIOUS
  <2>5. /\ tokens \in Seq(Seq(STRING)) /\ Len(tokens) = r + 1
        /\ \A k \in 1..(r + 1) : tokens[k] = Elements(text)[k]
    BY <1>5, <2>3, <2>4, AppendProperties
  <2>6. <<text[j]>> \in Seq(STRING) /\ <<text[j]>> = SubSeq(text, j, j)
    <3>1. text[j] \in STRING
      BY LenProperties
    <3> QED BY <3>1, SubSeqNext
  <2>7. t = [s EXCEPT !.tokens = tokens, !.buf = <<text[j]>>, !.sepFound = FALSE]
    BY <1>2, <1>5, <1>9, <2>4 DEF ReadRune
  <2>8. /\ t \in Scanners /\ t.tokens = tokens /\ t.buf = <<text[j]>>
        /\ t.sepFound = FALSE /\ t.inBraces = FALSE
    BY <1>5, <1>7, <2>5, <2>6, <2>7 DEF Scanners
  <2>9. ~(End(text, e) < j + 1) /\ (j + 1) - 1 = j /\ j < j + 1
    BY <1>1, <2>1 DEF WellCut
  <2>10. Reads(text, t, j + 1, e)
    BY <1>6, <2>1, <2>2, <2>5, <2>6, <2>8, <2>9 DEF Reads
  <2> QED BY <1>2, <2>10
<1> QED BY <1>8, <1>9

(* Otherwise the rune belongs to the element in the buffer, unless it is   *)
(* the separator that ends it.                                             *)
LEMMA ReadsWithin ==
    ASSUME NEW text \in Seq(STRING), NEW j \in 1..Len(text),
           NEW s, NEW c, Reads(text, s, j, c), ~s.sepFound
    PROVE  Reads(text, ReadRune(s, text[j]), j + 1, c)
<1>1. PICK n \in Nat : n = Len(text) /\ WellCut(text, n)
  BY TextsAreCut
<1>2. PICK t : t = ReadRune(s, text[j])
  OBVIOUS
<1>3. PICK m : m = Begin(text, c)
  OBVIOUS
<1>4. /\ s \in Scanners /\ c \in Starts(text) /\ s.sepFound = FALSE
      /\ s.inBraces <=> ~Outside(text, j)
      /\ c # 0 => m < j
      /\ s.buf = SubSeq(text, m, j - 1)
      /\ Len(s.tokens) = Rank(text, c)
      /\ \A k \in 1..Rank(text, c) : s.tokens[k] = Elements(text)[k]
      /\ ~(End(text, c) < j)
  BY <1>3 DEF Reads, Scanners
<1>5. /\ m \in 1..j /\ c < j /\ End(text, c) \in (c + 1)..(n + 1) /\ End(text, c) >= j
  <2>1. /\ c \in 0..n /\ End(text, c) \in (c + 1)..(n + 1)
        /\ c # 0 => m \in (c + 1)..n
    BY <1>1, <1>3, <1>4 DEF WellCut
  <2>2. c = 0 => m = 1
    BY <1>3 DEF Begin
  <2> QED BY <1>1, <1>4, <2>1, <2>2
<1>6. /\ j \in Cuts(text) => End(text, c) = j
      /\ j \notin Cuts(text) => End(text, c) > j
      /\ \A d \in Starts(text) : d > c => Begin(text, d) >= j + 1
  BY <1>1, <1>4, <1>5, BeforeTheCut
<1>7. PICK inside \in BOOLEAN : inside = (text[j] = Opening \/ (s.inBraces /\ text[j] # Closing))
  OBVIOUS
<1>8. inside <=> ~Outside(text, j + 1)
  <2>1. j \in Nat \ {0}
    OBVIOUS
  <2>2. Outside(text, j + 1) <=> text[j] # Opening /\ (Outside(text, j) \/ text[j] = Closing)
    BY <2>1, OutsideNext
  <2> QED BY <1>4, <1>7, <2>2
<1>9. text[j] = Separator /\ ~inside <=> j \in Cuts(text)
  <2>1. text[j] = Separator => (inside <=> ~Outside(text, j))
    BY <1>4, <1>7, Marks
  <2> QED BY <1>1, <2>1 DEF WellCut
<1>10. c # 0 => m < j + 1
  BY <1>4, <1>5
<1>11. CASE j \in Cuts(text)
  <2>1. t = [s EXCEPT !.sepFound = TRUE, !.inBraces = inside]
    BY <1>2, <1>4, <1>7, <1>9, <1>11 DEF ReadRune
  <2>2. /\ t \in Scanners /\ t.tokens = s.tokens /\ t.buf = s.buf
        /\ t.sepFound = TRUE /\ t.inBraces = inside
    BY <1>4, <2>1 DEF Scanners
  <2>3. End(text, c) < j + 1 /\ End(text, c) = j
    BY <1>6, <1>11
  <2> QED BY <1>2, <1>3, <1>4, <1>6, <1>8, <1>10, <2>2, <2>3 DEF Reads
<1>12. CASE j \notin Cuts(text)
  <2>1. t = [s EXCEPT !.buf = Append(s.buf, text[j]), !.inBraces = inside]
    BY <1>2, <1>4, <1>7, <1>9, <1>12 DEF ReadRune
  <2>2. PICK buf : buf = Append(s.buf, text[j])
    OBVIOUS
  <2>3. buf = SubSeq(text, m, j) /\ buf \in Seq(STRING)
    <3>1. text[j] \in STRING
      BY LenProperties
    <3>2. SubSeq(text, m, j - 1) \in Seq(STRING) /\ buf = SubSeq(text, m, j)
      BY <1>4, <1>5, <2>2, SubSeqNext
    <3>3. s.buf \in Seq(STRING)
      BY <1>4 DEF Scanners
    <3>4. buf \in Seq(STRING)
      BY <2>2, <3>1, <3>3, AppendProperties
    <3> QED BY <3>2, <3>4
  <2>4. /\ t \in Scanners /\ t.tokens = s.tokens /\ t.buf = buf
        /\ t.sepFound = FALSE /\ t.inBraces = inside
    BY <1>4, <2>1, <2>2, <2>3 DEF Scanners
  <2>5. ~(End(text, c) < j + 1) /\ (j + 1) - 1 = j
    BY <1>5, <1>6, <1>12
  <2> QED BY <1>2, <1>3, <1>4, <1>6, <1>8, <1>10, <2>3, <2>4, <2>5 DEF Reads
<1> QED BY <1>11, <1>12

(* The tokenizer cuts a text at its separators, outside braces and without *)
(* the blanks after them, whatever its length.                             *)
THEOREM TokensAreElements ==
    ASSUME NEW text \in Seq(STRING), Regular(text)
    PROVE  Tokens(text) = Elements(text)
<1>1. PICK n \in Nat : n = Len(text) /\ WellCut(text, n)
  BY TextsAreCut
<1>2. PICK scan : scan = Scanned(text)
  OBVIOUS
<1>3. scan[0] = Scanner /\ \A j \in 1..n : scan[j] = ReadRune(scan[j - 1], text[j])
  BY <1>1, <1>2, ScanSteps
<1> DEFINE P == {i \in 0..n : \E c \in Starts(text) : Reads(text, scan[i], i + 1, c)}
<1>4. 0 \in P
  <2>1. 0 \in Starts(text)
    BY <1>1 DEF WellCut
  <2> QED BY <1>3, <2>1, ReadsNothing
<1>5. ASSUME NEW i \in 0..n, i # n, i \in P
      PROVE  i + 1 \in P
  <2>1. PICK j \in 1..n : j = i + 1 /\ j - 1 = i
    BY <1>5
  <2>2. PICK c \in Starts(text) : Reads(text, scan[i], j, c)
    BY <1>5, <2>1
  <2> PICK s : s = scan[i]
    OBVIOUS
  <2>3. scan[j] = ReadRune(s, text[j])
    BY <1>3, <2>1
  <2>4. \E d \in Starts(text) : Reads(text, ReadRune(s, text[j]), j + 1, d)
    <3>1. CASE s.sepFound
      BY <1>1, <2>2, <3>1, ReadsAfterCut
    <3>2. CASE ~s.sepFound
      BY <1>1, <2>2, <3>2, ReadsWithin
    <3> QED BY <3>1, <3>2
  <2> QED BY <2>1, <2>3, <2>4
<1>6. 0..n \subseteq P
  <2> HIDE DEF P
  <2> QED BY <1>4, <1>5, UpTo
<1>7. PICK s : s = scan[n] /\ \E c \in Starts(text) : Reads(text, s, n + 1, c)
  BY <1>6
<1> PICK c \in Starts(text) : Reads(text, s, n + 1, c)
  BY <1>7
<1>8. \A d \in Starts(text) : d <= c
  <2>1. ASSUME NEW d \in Starts(text), d > c
        PROVE  FALSE
    BY <1>1, <1>7, <2>1 DEF WellCut, Reads
  <2>2. \A d \in Starts(text) : d \in 0..n
    BY <1>1 DEF WellCut
  <2> QED BY <2>1, <2>2
<1>9. PICK r \in Nat : /\ r = Rank(text, c) /\ Cardinality(Starts(text)) = r + 1
                       /\ Elements(text)[r + 1] = Element(text, c)
  BY <1>8, Ranks, ElementAt
<1>10. s.buf = Element(text, c)
  <2>1. PICK e \in Nat : e = End(text, c) /\ e <= n + 1
    BY <1>1 DEF WellCut
  <2>2. ~s.sepFound => End(text, c) - 1 = (n + 1) - 1
    <3>1. ~s.sepFound => ~(e < n + 1)
      BY <2>1 DEF Reads
    <3>2. ~s.sepFound => e = n + 1
      BY <2>1, <3>1
    <3> QED BY <2>1, <3>2
  <2> QED BY <1>7, <2>2 DEF Reads, Element
<1>11. /\ s.tokens \in Seq(Seq(STRING)) /\ s.buf \in Seq(STRING) /\ Len(s.tokens) = r
       /\ \A k \in 1..r : s.tokens[k] = Elements(text)[k]
  BY <1>7, <1>9 DEF Reads, Scanners
<1>12. PICK tokens : tokens = Append(s.tokens, s.buf)
  OBVIOUS
<1>13. /\ tokens \in Seq(Seq(STRING)) /\ Len(tokens) = r + 1
       /\ \A k \in 1..(r + 1) : tokens[k] = Elements(text)[k]
  BY <1>9, <1>10, <1>11, <1>12, AppendProperties
<1>14. tokens = [k \in 1..(r + 1) |-> tokens[k]]
  BY <1>13, LenProperties
<1>15. Elements(text) = [k \in 1..(r + 1) |-> Elements(text)[k]]
  BY <1>9, ElementAt
<1>16. Tokens(text) = tokens
  BY <1>1, <1>2, <1>7, <1>12 DEF Tokens
<1> QED BY <1>13, <1>14, <1>15, <1>16

-----------------------------------------------------------------------------
(* The load.                                                               *)

Buildable == UNION {{Constructed(t.probe, config) : config \in Configured(t)} : t \in TaskEntries}

Fits(t, b) ==
    /\ Readable(t)
    /\ \E config \in Configured(t) :
         Accepts(t.probe, config) /\ b = Constructed(t.probe, config)

(* What fits a task is a matter of the job's vars alone.                   *)
LEMMA FitsStays ==
    ASSUME jobVars' = jobVars
    PROVE  Buildable' = Buildable /\ \A t, b : Fits(t, b)' <=> Fits(t, b)
<1>1. \A t : Configured(t)' = Configured(t)
  BY DEF Configured
<1>2. \A t : Readable(t)' <=> Readable(t)
  BY DEF Readable
<1>3. \A t, c : Constructed(t.probe, c)' = Constructed(t.probe, c)
  BY DEF Constructed
<1>4. \A t, c : Accepts(t.probe, c)' <=> Accepts(t.probe, c)
  BY DEF Accepts, Constructed
<1>5. Buildable' = Buildable
  BY <1>1, <1>3 DEF Buildable
<1>6. \A t, b : Fits(t, b)' <=> Fits(t, b)
  BY <1>1, <1>2, <1>3, <1>4 DEF Fits
<1> QED BY <1>5, <1>6

(* What has been read and not refused has been built and laid out.         *)
LoadInv ==
    /\ jobVars \in VarsOfJobs
    /\ load \in {"reading", "loaded", "failed"}
    /\ load # "failed" =>
         /\ file \in Seq({t \in TaskEntries : t.probe \in Probes})
         /\ built \in Seq(Buildable)
         /\ Len(built) = Len(file)
         /\ Len(given) = Len(file)
         /\ \A i \in 1..Len(file) : given[i] = file[i].cgroup /\ Fits(file[i], built[i])

FileInv == LayoutInv /\ LoadInv

LEMMA ReadKeeps ==
    ASSUME FileInv, NEW t \in TaskEntries, ReadTask(t)
    PROVE  FileInv'
<1>1. /\ t.cgroup \in Names \cup {Omitted} /\ AddTask(t.cgroup)
      /\ t \in {u \in TaskEntries : u.probe \in Probes}
      /\ file' = Append(file, t) /\ UNCHANGED <<jobVars, load>> /\ load = "reading"
      /\ given' = Append(given, t.cgroup)
  BY DEF ReadTask, Readable, TaskEntries, AddTask
<1>2. PICK config \in Buildable : built' = Append(built, config) /\ Fits(t, config)
  <2>1. PICK c \in Configured(t) : /\ Accepts(t.probe, c)
                                  /\ built' = Append(built, Constructed(t.probe, c))
    BY DEF ReadTask
  <2>2. Constructed(t.probe, c) \in Buildable
    BY <2>1 DEF Buildable
  <2>3. Fits(t, Constructed(t.probe, c))
    BY <2>1 DEF Fits, ReadTask
  <2> QED BY <2>1, <2>2, <2>3
<1>3. /\ Buildable' = Buildable
      /\ \A u, b : Fits(u, b)' <=> Fits(u, b)
  BY <1>1, FitsStays
<1>4. PICK n \in Nat : n = Len(file)
  BY <1>1, LenProperties DEF FileInv, LoadInv
<1>5. /\ file \in Seq({u \in TaskEntries : u.probe \in Probes}) /\ built \in Seq(Buildable)
      /\ given \in Seq(Names \cup {Omitted})
      /\ Len(built) = n /\ Len(given) = n
      /\ \A i \in 1..n : given[i] = file[i].cgroup /\ Fits(file[i], built[i])
  BY <1>1, <1>4 DEF FileInv, LoadInv, LayoutInv, LayoutTypeInv
<1>6. /\ file' \in Seq({u \in TaskEntries : u.probe \in Probes}) /\ Len(file') = n + 1
      /\ file'[n + 1] = t /\ \A i \in 1..n : file'[i] = file[i]
  BY <1>1, <1>4, <1>5, Appended
<1>7. /\ built' \in Seq(Buildable) /\ Len(built') = n + 1
      /\ built'[n + 1] = config /\ \A i \in 1..n : built'[i] = built[i]
  BY <1>2, <1>5, Appended
<1>8. /\ Len(given') = n + 1 /\ given'[n + 1] = t.cgroup /\ \A i \in 1..n : given'[i] = given[i]
  BY <1>1, <1>5, Appended
<1>9. ASSUME NEW i \in 1..(n + 1)
      PROVE  given'[i] = file'[i].cgroup /\ Fits(file[i], built[i])'
  <2>1. PICK u, b : u = file'[i] /\ b = built'[i] /\ given'[i] = u.cgroup /\ Fits(u, b)
    BY <1>2, <1>4, <1>5, <1>6, <1>7, <1>8
  <2>2. Fits(file[i], built[i])'
    BY <1>3, <2>1
  <2> QED BY <2>1, <2>2
<1>10. LoadInv'
  <2>1. jobVars' \in VarsOfJobs /\ load' = "reading"
    BY <1>1 DEF FileInv, LoadInv
  <2> QED BY <1>1, <1>3, <1>4, <1>6, <1>7, <1>8, <1>9, <2>1 DEF LoadInv
<1> QED BY <1>1, <1>10, AddKeeps DEF FileInv

LEMMA FileInvariance == FileSpec => []FileInv
<1>1. FileInit => FileInv
  <2> SUFFICES ASSUME FileInit
               PROVE  FileInv
    OBVIOUS
  <2>1. LoadInv
    BY EmptySeq DEF FileInit, Init, LoadInv
  <2> QED BY <2>1, LayoutInit DEF FileInit, FileInv
<1>2. ASSUME FileInv, [FileNext]_fileVars
      PROVE  FileInv'
  <2>1. CASE \E t \in TaskEntries : ReadTask(t)
    BY <1>2, <2>1, ReadKeeps
  <2>2. CASE \E t \in TaskEntries : RefuseTask(t)
    <3>1. UNCHANGED <<given, tasks, groups, anonymous, jobVars>> /\ load' = "failed"
      BY <2>2 DEF RefuseTask, layoutVars, vars
    <3> QED BY <1>2, <3>1, LayoutStays DEF FileInv, LoadInv
  <2>3. CASE EndOfFile \/ RunScript \/ UNCHANGED fileVars
    <3>1. /\ UNCHANGED <<given, tasks, groups, anonymous, file, built, jobVars>>
          /\ load' = load \/ (load = "reading" /\ load' = "loaded")
      BY <2>3 DEF EndOfFile, RunScript, StartScript, fileVars, layoutVars, vars
    <3>2. /\ Buildable' = Buildable
          /\ \A t, config : Fits(t, config)' <=> Fits(t, config)
      BY <3>1, FitsStays
    <3>3. LoadInv'
      BY <1>2, <3>1, <3>2 DEF FileInv, LoadInv
    <3> QED BY <1>2, <3>1, <3>3, LayoutStays DEF FileInv
  <2> QED BY <1>2, <2>1, <2>2, <2>3 DEF FileNext
<1> QED BY <1>1, <1>2, PTL DEF FileSpec

(* Script.AddTask keeps the order of the file, whatever it groups: the     *)
(* groups one after another are the script.                                *)
THEOREM TasksKeepFileOrder == FileSpec => []FileOrder
  BY FileInvariance, PlacesInFileOrder, PTL DEF FileInv

(* README.md on cgroup: two tasks in a row run in parallel exactly when    *)
(* the file gives them one value or gives neither one, although a task     *)
(* without a value is put into a group by a name that was drawn.           *)
THEOREM NeighboursRunTogether == FileSpec => []NeighboursByName
<1>1. FileInv => NeighboursByName
  BY DEF FileInv, LayoutInv
<1> QED BY <1>1, FileInvariance, PTL

(* What the constructor makes of an accepted configuration can be used.    *)
LEMMA ConstructedUsable ==
    ASSUME NEW probe, NEW config, Accepts(probe, config)
    PROVE  Usable(probe, Constructed(probe, config))
<1> PICK c : c = Constructed(probe, config)
  OBVIOUS
<1>1. ASSUME probe \in {"ping", "web", "traceroute"}
      PROVE  HasFirst(c.list)
  BY <1>1 DEF Accepts, Constructed
<1>2. probe = "cmd" => c.text \in Programs
  BY DEF Accepts
<1>3. ASSUME probe = "openvpn"
      PROVE  c.text \in DOMAIN ContentOf \/ c.data # <<>>
  BY <1>3 DEF Accepts, Constructed
<1> QED BY <1>1, <1>2, <1>3 DEF Usable

(* The first error of a script file ends its load: what is loaded has all  *)
(* its tasks, in their places, with probes that can be used.               *)
THEOREM LoadedWhole == FileSpec => []AllOrNothing
<1>1. FileInv => AllOrNothing
  <2> SUFFICES ASSUME FileInv, load = "loaded"
               PROVE  /\ Len(built) = Len(file)
                      /\ given = [i \in DOMAIN file |-> file[i].cgroup]
                      /\ \A i \in DOMAIN file :
                           file[i].probe \in Probes /\ Usable(file[i].probe, built[i])
    BY DEF AllOrNothing
  <2>1. /\ file \in Seq({t \in TaskEntries : t.probe \in Probes})
        /\ Len(built) = Len(file) /\ Len(given) = Len(file)
        /\ \A i \in 1..Len(file) : given[i] = file[i].cgroup /\ Fits(file[i], built[i])
        /\ given \in Seq(Names \cup {Omitted})
    BY DEF FileInv, LoadInv, LayoutInv, LayoutTypeInv
  <2>2. DOMAIN file = 1..Len(file) /\ given \in [1..Len(file) -> Names \cup {Omitted}]
    BY <2>1, LenProperties
  <2>3. given = [i \in DOMAIN file |-> file[i].cgroup]
    BY <2>1, <2>2
  <2>4. ASSUME NEW i \in DOMAIN file
        PROVE  file[i].probe \in Probes /\ Usable(file[i].probe, built[i])
    <3>1. file[i].probe \in Probes /\ Fits(file[i], built[i])
      BY <2>1, <2>2, ElementOfSeq
    <3> QED BY <3>1, ConstructedUsable DEF Fits
  <2> QED BY <2>1, <2>3, <2>4
<1> QED BY <1>1, FileInvariance, PTL

(* What a constructor is given: every field has what vars give for the     *)
(* task's name, else what the file gives, else its default.                *)
LEMMA ConfiguredByVars ==
    ASSUME jobVars \in VarsOfJobs, NEW t \in TaskEntries, t.raw.kind = "struct",
           NEW config \in Configured(t), NEW o, o = jobVars[t.name]
    PROVE  /\ (\A text \in o.list : Regular(text)) =>
                config.list \in Chosen({Elements(text) : text \in o.list}, t.raw.list, <<>>)
           /\ config.scalar \in
                Chosen({ScalarOf[text] : text \in o.scalar}, t.raw.scalar, Default)
           /\ config.text \in Chosen(o.text, t.raw.text, <<>>)
           /\ config.data \in Chosen(o.data, t.raw.data, <<>>)
<1>1. t.name \in TaskNames
  BY DEF TaskEntries
<1>2. PICK base \in FromFile(t.raw) : config \in Overridden(base, o)
  BY DEF Configured
<1>3. /\ base.list \in Given(t.raw.list, <<>>) /\ base.scalar \in Given(t.raw.scalar, Default)
      /\ base.text \in Given(t.raw.text, <<>>) /\ base.data \in Given(t.raw.data, <<>>)
  BY <1>2 DEF FromFile
<1>4. /\ config.list \in Given({Tokens(text) : text \in o.list}, base.list)
      /\ config.scalar \in Given({ScalarOf[text] : text \in o.scalar}, base.scalar)
      /\ config.text \in Given(o.text, base.text) /\ config.data \in Given(o.data, base.data)
  BY <1>2 DEF Overridden
<1>5. \A overrides, raw, default, b, c :
        b \in Given(raw, default) /\ c \in Given(overrides, b) => c \in Chosen(overrides, raw, default)
  BY DEF Given, Chosen
<1>6. /\ config.text \in Chosen(o.text, t.raw.text, <<>>)
      /\ config.data \in Chosen(o.data, t.raw.data, <<>>)
  BY <1>3, <1>4, <1>5
<1>7. config.scalar \in Chosen({ScalarOf[text] : text \in o.scalar}, t.raw.scalar, Default)
  <2> PICK S : S = {ScalarOf[text] : text \in o.scalar}
    OBVIOUS
  <2>1. config.scalar \in Given(S, base.scalar)
    BY <1>4
  <2>2. config.scalar \in Chosen(S, t.raw.scalar, Default)
    BY <1>3, <1>5, <2>1
  <2> QED BY <2>2
<1>8. ASSUME \A text \in o.list : Regular(text)
      PROVE  config.list \in Chosen({Elements(text) : text \in o.list}, t.raw.list, <<>>)
  <2>1. o.list \subseteq Seq(STRING)
    BY <1>1, FileAssumption
  <2>2. \A text \in o.list : Tokens(text) = Elements(text)
    BY <1>8, <2>1, TokensAreElements
  <2> PICK S : S = {Tokens(text) : text \in o.list}
    OBVIOUS
  <2>3. S = {Elements(text) : text \in o.list}
    BY <2>2
  <2>4. config.list \in Given(S, base.list)
    BY <1>4
  <2>5. config.list \in Chosen(S, t.raw.list, <<>>)
    BY <1>3, <1>5, <2>4
  <2> QED BY <2>3, <2>5
<1> QED BY <1>6, <1>7, <1>8

(* A task without a configuration is refused, whatever its probe: its list *)
(* is empty, and so are its text and its data.                             *)
LEMMA OnlyStructsFit ==
    ASSUME NEW t \in TaskEntries, NEW config \in Configured(t),
           t.probe \in Probes, Accepts(t.probe, config)
    PROVE  t.raw.kind = "struct"
<1>1. t.raw \in RawConfigurations
  BY DEF TaskEntries
<1>2. /\ t.raw.kind \in {"struct", "absent", "other"}
      /\ t.raw.kind = "absent" => t.raw.list = {} /\ t.raw.text = {} /\ t.raw.data = {}
  BY <1>1 DEF RawConfigurations, Raw, NoFields
<1>3. t.raw.kind # "other"
  BY DEF Configured
<1>4. ASSUME t.raw.kind = "absent"
      PROVE  FALSE
  <2>1. config.list = <<>> /\ config.text = <<>> /\ config.data = <<>>
    BY <1>2, <1>4 DEF Configured, FromFile, Given
  <2>2. <<>> \notin DOMAIN WordsOf
    BY FileAssumption
  <2>3. t.probe \in {"ping", "web", "traceroute"} \/ t.probe = "cmd" \/ t.probe = "openvpn"
    BY DEF Probes
  <2> QED BY <2>1, <2>2, <2>3 DEF Accepts, HasFirst
<1> QED BY <1>2, <1>3, <1>4

(* What the constructor leaves of what it is given, and makes of it.       *)
LEMMA WhatConstructedKeeps ==
    ASSUME NEW t \in TaskEntries, NEW config \in Configured(t), t.raw.kind = "struct",
           Accepts(t.probe, config), NEW b, b = Constructed(t.probe, config)
    PROVE  /\ b.scalar = config.scalar
           /\ t.probe # "cmd" => b.text = config.text /\ b.list = config.list
           /\ t.probe = "cmd" => IF config.list = <<>>
                                 THEN <<b.text>> \o b.list = WordsOf[config.text]
                                 ELSE b.list = config.list /\ b.text = config.text
           /\ t.probe = "openvpn" =>
                IF b.text # <<>> THEN b.data = ContentOf[b.text] ELSE b.data = config.data
<1>1. config = [list |-> config.list, scalar |-> config.scalar,
                text |-> config.text, data |-> config.data]
  <2>1. PICK base : config \in Overridden(base, jobVars[t.name])
    BY DEF Configured
  <2> QED BY <2>1 DEF Overridden
<1>2. ASSUME t.probe = "cmd", config.list = <<>>
      PROVE  <<b.text>> \o b.list = WordsOf[config.text] /\ b.scalar = config.scalar
  <2> PICK words : words = WordsOf[config.text]
    OBVIOUS
  <2>1. words \in Seq(Seq(STRING)) /\ words # <<>>
    BY <1>2, FileAssumption DEF Accepts
  <2>2. b.text = Head(words) /\ b.list = Tail(words) /\ b.scalar = config.scalar
    BY <1>1, <1>2 DEF Constructed
  <2>3. <<Head(words)>> \o Tail(words) = words
    BY <2>1, HeadTailProperties
  <2> QED BY <2>2, <2>3
<1>3. ASSUME t.probe = "cmd", config.list # <<>>
      PROVE  b = config
  BY <1>3 DEF Constructed
<1>4. ASSUME t.probe # "cmd"
      PROVE  /\ b.scalar = config.scalar /\ b.text = config.text /\ b.list = config.list
             /\ t.probe = "openvpn" =>
                  IF b.text # <<>> THEN b.data = ContentOf[b.text] ELSE b.data = config.data
  BY <1>1, <1>4 DEF Constructed
<1> QED BY <1>2, <1>3, <1>4

(* README.md: vars override the fields of a probe by its task's name, and  *)
(* nothing else does, for texts and lists of any length; a command without *)
(* arguments is split, and an openvpn file goes before the data.           *)
THEOREM VarsOverrideTheFile == FileSpec => []OverridesApplied
<1>1. FileInv => OverridesApplied
  <2> SUFFICES ASSUME FileInv, load = "loaded", NEW i \in DOMAIN file,
                      NEW t, t = file[i], NEW o, o = jobVars[t.name],
                      NEW config, config = built[i]
               PROVE  /\ t.raw.kind = "struct"
                      /\ config.scalar \in
                           Chosen({ScalarOf[text] : text \in o.scalar}, t.raw.scalar, Default)
                      /\ t.probe # "cmd" =>
                           /\ config.text \in Chosen(o.text, t.raw.text, <<>>)
                           /\ (\A text \in o.list : Regular(text)) => config.list \in
                                Chosen({Elements(text) : text \in o.list}, t.raw.list, <<>>)
                      /\ t.probe = "cmd" /\ (\A text \in o.list : Regular(text)) =>
                           \E list \in Chosen({Elements(text) : text \in o.list}, t.raw.list, <<>>),
                              text \in Chosen(o.text, t.raw.text, <<>>) :
                             IF list = <<>> THEN <<config.text>> \o config.list = WordsOf[text]
                                            ELSE config.list = list /\ config.text = text
                      /\ t.probe = "openvpn" =>
                           IF config.text # <<>> THEN config.data = ContentOf[config.text]
                                                 ELSE config.data \in Chosen(o.data, t.raw.data, <<>>)
    BY Zenon DEF OverridesApplied
  <2>1. /\ file \in Seq({u \in TaskEntries : u.probe \in Probes}) /\ jobVars \in VarsOfJobs
        /\ \A j \in 1..Len(file) : Fits(file[j], built[j])
    BY DEF FileInv, LoadInv
  <2>2. i \in 1..Len(file)
    BY <2>1, LenProperties
  <2>3. t \in TaskEntries /\ t.probe \in Probes /\ Fits(t, config)
    BY <2>1, <2>2, ElementOfSeq
  <2>4. PICK c \in Configured(t) : Accepts(t.probe, c) /\ config = Constructed(t.probe, c)
    BY <2>3 DEF Fits
  <2>5. t.raw.kind = "struct"
    BY <2>3, <2>4, OnlyStructsFit
  <2> PICK lists : lists = Chosen({Elements(text) : text \in o.list}, t.raw.list, <<>>)
    OBVIOUS
  <2> PICK texts : texts = Chosen(o.text, t.raw.text, <<>>)
    OBVIOUS
  <2>6. /\ (\A text \in o.list : Regular(text)) => c.list \in lists
        /\ c.scalar \in Chosen({ScalarOf[text] : text \in o.scalar}, t.raw.scalar, Default)
        /\ c.text \in texts
        /\ c.data \in Chosen(o.data, t.raw.data, <<>>)
    BY <2>1, <2>3, <2>5, ConfiguredByVars
  <2>7. /\ config.scalar = c.scalar
        /\ t.probe # "cmd" => config.text = c.text /\ config.list = c.list
        /\ t.probe = "cmd" => IF c.list = <<>>
                              THEN <<config.text>> \o config.list = WordsOf[c.text]
                              ELSE config.list = c.list /\ config.text = c.text
        /\ t.probe = "openvpn" =>
             IF config.text # <<>> THEN config.data = ContentOf[config.text]
                                   ELSE config.data = c.data
    BY <2>3, <2>4, <2>5, WhatConstructedKeeps
  <2> QED BY <2>5, <2>6, <2>7
<1> QED BY <1>1, FileInvariance, PTL

=============================================================================
