----------------------------- MODULE MCMetrics -----------------------------
(***************************************************************************)
(* Metrics for TLC: job tables in which names, labels and items meet.      *)
(***************************************************************************)
EXTENDS Metrics, TLC

Num(item) == [field |-> None, item |-> <<item>>, text |-> None]
Field(f, text) == [field |-> <<f>>, item |-> None, text |-> text]
Swap == <<"h1">> :> <<"h2">> @@ <<"h2">> :> <<"h1">>
Merge == <<"h1">> :> <<"h2">>

Ping == {<<Num("h1")>>, <<Num("h1"), Num("h2")>>}
Cmd == {<<Field("exit", None)>>, <<Field("exit", None), Field("capture", <<"v">>)>>}
Web == {<<Field("capture", <<"bad">>)>>, <<[Num("h1") EXCEPT !.field = <<"timings">>]>>}
Simple == {<<[field |-> None, item |-> None, text |-> None]>>, <<Num("h1")>>}

Task(name, labels, valueMap, publishes) ==
    [name |-> name, labels |-> labels, valueMap |-> valueMap, probe |-> <<"p">>,
     publishes |-> publishes]
Job(name, file, tasks) == [name |-> name, file |-> file, tasks |-> tasks]
MCGarbled == {<<"bad">>}
Env(v) == "env" :> <<v>>

(* Regular tables: one name for two jobs and for tasks of both; one file   *)
(* for two jobs; then two tasks with one name, names with bars, labels     *)
(* that clash, a label Prometheus refuses, a map that merges two items.    *)
MCTables ==
    { <<Job(<<"a">>, <<"f">>, <<Task(<<"x">>, Env("1"), Swap, Ping)>>),
        Job(<<"a">>, <<"g">>, <<Task(<<"x">>, Env("2"), <<>>, Cmd), Task(<<"y">>, <<>>, <<>>, Ping)>>)>>,
      <<Job(<<"a">>, <<"f">>, <<Task(<<"x">>, <<>>, <<>>, Simple)>>),
        Job(<<"b">>, <<"f">>, <<Task(<<"x">>, Env("1"), <<>>, Simple), Task(<<"y">>, Env("2"), <<>>, Web)>>)>>,
      <<Job(<<"a">>, <<"f">>, <<Task(<<"x">>, Env("1"), <<>>, Ping), Task(<<"x">>, Env("2"), <<>>, Cmd)>>)>>,
      <<Job(<<"a", "b">>, <<"f">>, <<Task(<<"x">>, Env("1"), <<>>, Ping)>>),
        Job(<<"a">>, <<"b", "f">>, <<Task(<<"x">>, Env("2"), <<>>, Cmd)>>)>>,
      <<Job(<<"a">>, <<"f">>, <<Task(<<"x">>, "item" :> <<"1">>, <<>>, Ping)>>)>>,
      <<Job(<<"a">>, <<"f">>, <<Task(<<"x">>, "a-b" :> <<"1">>, Merge, Ping)>>)>>,
      <<Job(<<"a">>, <<"f">>, <<Task(<<"x">>, <<>>, Merge, Ping)>>)>> }

=============================================================================
