-------------------------- MODULE PingTraceProofs --------------------------
(***************************************************************************)
(* Theorems about PingProbe, for any list of hosts and any order in which  *)
(* the goroutines come to their ends, and about TraceProbe, for any list   *)
(* of expected hops and any trace.                                         *)
(***************************************************************************)
EXTENDS PingProbe, TraceProbe, FiniteSets, FiniteSetTheorems, TLAPS

(* The hosts whose goroutine has counted, and those it gave an entry for.  *)
Ended == {i \in Index : gpc[i] = "done" /\ Counted(i)}
Timed == {i \in Index : gpc[i] = "done" /\ outcome[i] = "answered"}

(* TypeOK without the bound of the counter, which follows from the next.   *)
ShapeInv ==
    /\ expect \in BOOLEAN
    /\ host \in [Index -> Hosts]
    /\ pc \in {"launch", "wait", "returned"}
    /\ launched \in 0..NumHosts
    /\ gpc \in [Index -> {"none", "ping", "end", "done"}]
    /\ outcome \in [Index -> Outcomes \cup {"none"}]
    /\ succ \in BOOLEAN

(* A goroutine that has not been launched, or has not ended, has not       *)
(* counted yet; when Runner has returned all have ended.                   *)
CountInv ==
    /\ \A i \in Index : i > launched => gpc[i] = "none"
    /\ done = Cardinality(Ended)
    /\ timings = {host[i] : i \in Timed}
    /\ pc = "returned" => AllDone /\ succ = (done = NumHosts)

IndInv == ShapeInv /\ CountInv

(* A counter of some of n goroutines stays within n, reaches n only when   *)
(* it has counted all, and moves by one when one more is counted.          *)
LEMMA CountSome ==
    ASSUME NEW n \in Nat, NEW S \in SUBSET (1..n)
    PROVE  /\ Cardinality(S) \in 0..n
           /\ Cardinality(S) = n <=> S = 1..n
           /\ \A i \in (1..n) \ S : Cardinality(S \cup {i}) = Cardinality(S) + 1
<1>1. IsFiniteSet(1..n) /\ Cardinality(1..n) = n
  BY FS_Interval
<1>2. IsFiniteSet(S) /\ Cardinality(S) <= n /\ (Cardinality(S) = n => S = 1..n)
  BY <1>1, FS_Subset
<1>3. Cardinality(S) \in Nat
  BY <1>2, FS_CardinalityType
<1>4. ASSUME NEW i \in (1..n) \ S
      PROVE  Cardinality(S \cup {i}) = Cardinality(S) + 1
  BY <1>2, <1>4, FS_AddElement
<1> QED BY <1>1, <1>2, <1>3, <1>4

(* Before anything is launched nothing is counted.                         *)
LEMMA InvInit == Init => IndInv
<1> SUFFICES ASSUME Init
             PROVE  IndInv
  OBVIOUS
<1>1. Ended = {} /\ Timed = {}
  BY DEF Init, Ended, Timed
<1>2. ShapeInv
  <2>1. launched \in 0..NumHosts
    BY PingAssumption DEF Init
  <2>2. /\ gpc \in [Index -> {"none", "ping", "end", "done"}]
        /\ outcome \in [Index -> Outcomes \cup {"none"}]
    BY DEF Init
  <2> QED BY <2>1, <2>2 DEF Init, ShapeInv
<1>3. {host[i] : i \in Timed} = {} /\ Cardinality(Ended) = 0
  BY <1>1, FS_EmptySet
<1>4. CountInv
  BY <1>3 DEF Init, CountInv
<1> QED BY <1>2, <1>4 DEF IndInv

(* Every step keeps counter and entries those of the goroutines that have  *)
(* ended.                                                                  *)
LEMMA InvStep == IndInv /\ [Next]_vars => IndInv'
<1> SUFFICES ASSUME IndInv, [Next]_vars
             PROVE  IndInv'
  OBVIOUS
<1> USE PingAssumption DEF Index
<1>1. CASE Launch
  <2>1. ShapeInv'
    BY <1>1 DEF Launch, IndInv, ShapeInv
  <2>2. Ended' = Ended /\ Timed' = Timed
    BY <1>1 DEF Launch, IndInv, ShapeInv, CountInv, Ended, Timed, Counted
  <2>3. CountInv'
    BY <1>1, <2>2 DEF Launch, IndInv, ShapeInv, CountInv
  <2> QED BY <2>1, <2>3 DEF IndInv
<1>2. CASE LaunchedAll
  <2>1. Ended' = Ended /\ Timed' = Timed
    BY <1>2 DEF LaunchedAll, Ended, Timed, Counted
  <2> QED BY <1>2, <2>1 DEF LaunchedAll, IndInv, ShapeInv, CountInv
<1>3. CASE Return
  <2>1. Ended' = Ended /\ Timed' = Timed /\ (AllDone' <=> AllDone)
    BY <1>3 DEF Return, Ended, Timed, Counted, AllDone
  <2> QED BY <1>3, <2>1 DEF Return, IndInv, ShapeInv, CountInv
<1>4. ASSUME NEW i \in Index, Ping(i)
      PROVE  IndInv'
  <2>1. ShapeInv'
    BY <1>4 DEF Ping, IndInv, ShapeInv
  <2>2. Ended' = Ended /\ Timed' = Timed
    BY <1>4 DEF Ping, IndInv, ShapeInv, Ended, Timed, Counted
  <2>3. pc # "returned"
    BY <1>4 DEF Ping, IndInv, CountInv, AllDone
  <2>4. CountInv'
    BY <1>4, <2>2, <2>3 DEF Ping, IndInv, ShapeInv, CountInv
  <2> QED BY <2>1, <2>4 DEF IndInv
<1>5. ASSUME NEW i \in Index, End(i)
      PROVE  IndInv'
  <2>1. ShapeInv'
    BY <1>5 DEF End, IndInv, ShapeInv
  <2>2. Ended' = IF Counted(i) THEN Ended \cup {i} ELSE Ended
    BY <1>5 DEF End, IndInv, ShapeInv, Ended, Counted
  <2>3. Timed' = IF outcome[i] = "answered" THEN Timed \cup {i} ELSE Timed
    BY <1>5 DEF End, IndInv, ShapeInv, Timed
  <2>4. i \notin Ended /\ Ended \in SUBSET (1..NumHosts)
    BY <1>5 DEF End, Ended
  <2>5. done' = Cardinality(Ended')
    BY <1>5, <2>2, <2>4, CountSome DEF End, IndInv, CountInv
  <2>6. timings' = {host'[j] : j \in Timed'}
    BY <1>5, <2>3 DEF End, IndInv, CountInv
  <2>7. pc # "returned"
    BY <1>5 DEF End, IndInv, CountInv, AllDone
  <2>8. CountInv'
    BY <1>5, <2>5, <2>6, <2>7 DEF End, IndInv, ShapeInv, CountInv
  <2> QED BY <2>1, <2>8 DEF IndInv
<1>6. CASE UNCHANGED vars
  BY <1>6 DEF vars, IndInv, ShapeInv, CountInv, Ended, Timed, Counted, AllDone
<1> QED BY <1>1, <1>2, <1>3, <1>4, <1>5, <1>6 DEF Next, RunnerStep, HostStep

(* The inductive invariant holds in every reachable state.                 *)
LEMMA Invariance == Spec => []IndInv
  BY InvInit, InvStep, PTL DEF Spec

(* Every variable keeps its type; the counter never exceeds the number of  *)
(* hosts.                                                                  *)
THEOREM TypeCorrect == Spec => []TypeOK
<1>1. IndInv => TypeOK
  <2> SUFFICES ASSUME IndInv
               PROVE  TypeOK
    OBVIOUS
  <2>1. done \in 0..NumHosts
    BY PingAssumption, CountSome DEF IndInv, CountInv, Ended, Index
  <2>2. timings \subseteq Hosts
    BY DEF IndInv, CountInv, ShapeInv, Timed
  <2> QED BY <2>1, <2>2 DEF IndInv, ShapeInv, TypeOK
<1> QED BY <1>1, Invariance, PTL

(* The counter compared with the number of hosts is the conjunction over   *)
(* the hosts: the verdict is that all answered, or that all were silent.   *)
(* The timings returned are those of the hosts that answered.              *)
THEOREM ResultIsByHost == Spec => []ResultByHost
<1>1. IndInv => ResultByHost
  <2> SUFFICES ASSUME IndInv, pc = "returned"
               PROVE  /\ succ <=> \A i \in Index : Counted(i)
                      /\ timings = {host[i] : i \in {j \in Index : outcome[j] = "answered"}}
    BY DEF ResultByHost, Counted
  <2>1. Ended = {i \in Index : Counted(i)}
    BY DEF IndInv, CountInv, AllDone, Ended
  <2>2. succ = (Cardinality(Ended) = NumHosts)
    BY DEF IndInv, CountInv
  <2>3. Cardinality(Ended) = NumHosts <=> Ended = Index
    BY PingAssumption, CountSome DEF Ended, Index
  <2>4. timings = {host[i] : i \in {j \in Index : outcome[j] = "answered"}}
    BY DEF IndInv, CountInv, AllDone, Timed
  <2> QED BY <2>1, <2>2, <2>3, <2>4
<1> QED BY <1>1, Invariance, PTL

-----------------------------------------------------------------------------
TraceTypeInv ==
    /\ mode \in Modes
    /\ runner \in {"start", "trace", "returned"}
    /\ answer \in BOOLEAN /\ finished \in BOOLEAN /\ err \in BOOLEAN
    /\ seen \subseteq Expected

(* While hops come in, the verdict so far is already that of the hops seen *)
(* before; a decision and an error exclude each other.                     *)
AnswerInv ==
    /\ runner = "start" => seen = {} /\ ~answer /\ ~finished /\ ~err
    /\ err => ~finished /\ (runner = "returned" => ~answer)
    /\ runner = "trace" \/ (runner = "returned" /\ ~err) =>
         /\ mode = "any" => (answer <=> seen # {})
         /\ mode = "none" => (answer <=> seen = {})
    /\ mode = "all" /\ answer => seen # {}
    /\ mode = "other" => ~answer

TraceInv == TraceTypeInv /\ AnswerInv

(* A hop that decides, decides as its mode wants; one that contains no     *)
(* expected hop, or only counts, leaves the verdict alone.                 *)
LEMMA HopStep == TraceInv /\ Hop => TraceInv'
<1> SUFFICES ASSUME TraceInv, Hop
             PROVE  TraceInv'
  OBVIOUS
<1> PICK hop \in SUBSET Expected :
      /\ seen' = seen \cup hop
      /\ finished' = (hop # {} /\ CASE mode = "all" -> matches' = NumExpected
                                     [] mode = "other" -> FALSE
                                     [] OTHER -> TRUE)
      /\ answer' = IF finished' THEN mode # "none" ELSE answer
  BY DEF Hop
<1>1. TraceTypeInv'
  BY DEF Hop, TraceInv, TraceTypeInv, Modes
<1>2. AnswerInv'
  BY DEF Hop, Waiting, TraceInv, TraceTypeInv, AnswerInv, Modes
<1> QED BY <1>1, <1>2 DEF TraceInv

LEMMA TraceInvariance == TraceSpec => []TraceInv
<1>1. TraceInit => TraceInv
  BY DEF TraceInit, TraceInv, TraceTypeInv, AnswerInv
<1>2. TraceInv /\ [TraceNext]_traceVars => TraceInv'
  <2> SUFFICES ASSUME TraceInv, [TraceNext]_traceVars
               PROVE  TraceInv'
    OBVIOUS
  <2> USE DEF TraceInv, TraceTypeInv, AnswerInv
  <2>1. CASE Start
    <3>1. CASE runner' = "returned" /\ UNCHANGED answer
      BY <2>1, <3>1 DEF Start
    <3>2. CASE runner' = "trace" /\ answer' = (mode = "none") /\ UNCHANGED err
      BY <2>1, <3>2 DEF Start
    <3> QED BY <2>1, <3>1, <3>2 DEF Start
  <2>2. CASE Hop
    BY <2>2, HopStep
  <2>3. CASE EndOfTrace
    BY <2>3 DEF EndOfTrace, Waiting
  <2>4. CASE Timeout
    BY <2>4 DEF Timeout, Waiting
  <2>5. CASE TraceReturn
    BY <2>5 DEF TraceReturn
  <2>6. CASE UNCHANGED traceVars
    BY <2>6 DEF traceVars
  <2> QED BY <2>1, <2>2, <2>3, <2>4, <2>5, <2>6 DEF TraceNext
<1> QED BY <1>1, <1>2, PTL DEF TraceSpec

(* Whatever hops a trace sends and however many are expected, the verdict  *)
(* of a run that was decided or came to the end of its trace is that of    *)
(* the hops seen, and a run that timed out fails.                          *)
THEOREM AnswerIsOfTrace == TraceSpec => []AnswerOfTrace
<1>1. TraceInv => AnswerOfTrace
  BY DEF TraceInv, AnswerInv, AnswerOfTrace
<1> QED BY <1>1, TraceInvariance, PTL

=============================================================================
