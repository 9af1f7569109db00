---------------------------- MODULE MCScriptFile ----------------------------
(***************************************************************************)
(* ScriptFile for TLC.  Jobs give vars for one of two task names: every    *)
(* text of up to MaxText runes for the list; a text for the scalar that    *)
(* parses, that parses to a value the constructor refuses, or that does    *)
(* not parse; a command, a file or data; two texts for one field.  Odd     *)
(* texts for the list are tried on a web or cmd probe of one structure,    *)
(* files of two tasks are of cmd and openvpn probes, and longer ones vary  *)
(* in nothing but cgroup.                                                  *)
(***************************************************************************)
EXTENDS ScriptFile, TLC

CONSTANTS a, b, MaxText

Runes == {"x", ",", " ", "{", "}"}
x == <<"x">>
f == <<"f">>     \* a file that can be read and executed
p == <<"p">>     \* one that can be executed only
d == <<"d">>
px == <<"p", " ", "x">>
AllTexts == UNION {[1..n -> Runes] : n \in 0..MaxText}
FewTexts == {x, <<"x", ",", " ", "x">>}

PlainStruct == [NoFields EXCEPT !.list = {<<x>>}]
PlainRaw == Raw("struct", PlainStruct)
StructsInFile ==
    {PlainStruct, [NoFields EXCEPT !.text = {px}],
     [NoFields EXCEPT !.list = {<<x>>}, !.scalar = {2}, !.text = {f}],
     [NoFields EXCEPT !.data = {d}], [NoFields EXCEPT !.text = {f}, !.data = {d}]}
AllScalars == {1, 2, 3}
TextScalars == x :> 1 @@ <<"x", "x">> :> 3
TextWords == px :> <<p, x>> @@ p :> <<p>> @@ f :> <<f>>
FilePrograms == {p, f}
FileContents == f :> <<"c">>

OverridesOfJobs ==
    {[NoFields EXCEPT !.list = {text}] : text \in AllTexts \cup FewTexts}
    \cup {[NoFields EXCEPT !.list = FewTexts, !.scalar = {x}],
          [NoFields EXCEPT !.scalar = {<<"x", "x">>}], [NoFields EXCEPT !.scalar = {<<",">>}],
          [NoFields EXCEPT !.text = {px, f}], [NoFields EXCEPT !.list = {x}, !.text = {p}],
          [NoFields EXCEPT !.data = {x}], NoFields}

JobVars == {a :> o @@ b :> NoFields : o \in OverridesOfJobs}

Odd == ~(jobVars[a].list \subseteq FewTexts)

Bounded ==
    \/ Len(file) < 2 /\ ~Odd
    \/ Len(file) < 2 /\ \A i \in DOMAIN file :
         file[i].name = a /\ file[i].probe \in {"web", "cmd"} /\ file[i].raw = PlainRaw
    \/ Len(file) = 2 /\ ~Odd /\ \A i \in DOMAIN file :
         file[i].probe \in {"cmd", "openvpn"} /\ file[i].cgroup = Omitted
    \/ jobVars[a] = NoFields /\ \A i \in DOMAIN file :
         file[i].name = b /\ file[i].probe = "web" /\ file[i].raw = PlainRaw

Interchangeable == Permutations(Names) \cup Permutations(Uids)

=============================================================================
