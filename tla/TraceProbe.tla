----------------------------- MODULE TraceProbe -----------------------------
(***************************************************************************)
(* One run of the traceroute probe: the runner takes hops from a channel   *)
(* until it has its answer, the trace ends or the timeout comes.           *)
(*                                                                         *)
(* A hop is the set of the expected hops its address contains.  The trace  *)
(* itself (gotraceroute) is external: it sends any hops, up to MaxHops,    *)
(* and closes the channel.                                                 *)
(***************************************************************************)
EXTENDS Naturals

CONSTANTS NumExpected,   \* length of ExpectedHops
          MaxHops        \* bound, as in the options: hops of a trace

ASSUME TraceAssumption == NumExpected \in Nat \ {0} /\ MaxHops \in Nat

Expected == 1..NumExpected
Modes == {"any", "all", "none", "other"}    \* any other value is accepted too

VARIABLES
    mode,        \* ExpectedMatch
    runner,      \* Runner: "start", "trace", "returned"
    hops,        \* how many hops have been received
    matches,     \* the counter of the mode "all"
    answer,      \* succ: the verdict so far
    finished,    \* is it the final one
    err,         \* err # nil
    seen         \* expected hops that some hop contained (not in the code)

traceVars == <<mode, runner, hops, matches, answer, finished, err, seen>>

TraceInit ==
    /\ mode \in Modes
    /\ runner = "start"
    /\ hops = 0
    /\ matches = 0
    /\ answer = FALSE
    /\ finished = FALSE
    /\ err = FALSE
    /\ seen = {}

(* gotraceroute.Run may refuse the host or lack the privilege.             *)
Start ==
    /\ runner = "start"
    /\ \/ runner' = "returned" /\ err' = TRUE /\ UNCHANGED answer
       \/ runner' = "trace" /\ answer' = (mode = "none") /\ UNCHANGED err
    /\ UNCHANGED <<mode, hops, matches, finished, seen>>

Waiting == runner = "trace" /\ ~finished /\ ~err

(* The counter is compared when a hop matches; a hop counts once, for the  *)
(* first expected hop it contains.                                         *)
(*                                                                         *)
(* Mutant: the last hop decides.                                           *)
HopNeverDecides ==
    /\ Waiting
    /\ hops < MaxHops
    /\ hops' = hops + 1
    /\ \E hop \in SUBSET Expected :
         /\ seen' = seen \cup hop
         /\ answer' = IF hop # {} THEN mode \in {"any", "all"} ELSE mode = "none"
    /\ UNCHANGED <<mode, runner, matches, finished, err>>

Hop ==
    /\ Waiting
    /\ hops < MaxHops
    /\ hops' = hops + 1
    /\ \E hop \in SUBSET Expected :
         LET hit == hop # {} IN
         /\ seen' = seen \cup hop
         /\ matches' = IF hit /\ mode = "all" THEN matches + 1 ELSE matches
         /\ finished' = (hit /\ CASE mode = "all" -> matches' = NumExpected
                                  [] mode = "other" -> FALSE
                                  [] OTHER -> TRUE)
         /\ answer' = IF finished' THEN mode # "none" ELSE answer
    /\ UNCHANGED <<mode, runner, err>>

(* The channel is closed: the verdict so far is the verdict.               *)
EndOfTrace ==
    /\ Waiting
    /\ runner' = "returned"
    /\ UNCHANGED <<mode, hops, matches, answer, finished, err, seen>>

Timeout ==
    /\ Waiting
    /\ err' = TRUE
    /\ UNCHANGED <<mode, runner, hops, matches, answer, finished, seen>>

TraceReturn ==
    /\ runner = "trace"
    /\ finished \/ err
    /\ answer' = (answer /\ ~err)
    /\ runner' = "returned"
    /\ UNCHANGED <<mode, hops, matches, finished, err, seen>>

TraceNext == Start \/ Hop \/ EndOfTrace \/ Timeout \/ TraceReturn

TraceSpec == TraceInit /\ [][TraceNext]_traceVars

-----------------------------------------------------------------------------
(* A trace that ran to its end or to a decision is judged by the hops that *)
(* were seen, one that ran out of time fails; and a decision is not undone *)
(* by a timeout that comes after it.                                       *)
AnswerOfTrace ==
    runner = "returned" =>
        /\ err => ~answer /\ ~finished
        /\ ~err /\ mode = "any" => (answer <=> seen # {})
        /\ ~err /\ mode = "none" => (answer <=> seen = {})
        /\ mode = "all" /\ answer => seen # {}
        /\ mode = "other" => ~answer

(* README.md: the probe checks whether expected hops are present; with the *)
(* mode "all", all of them.                                                *)
AllMeansAll == runner = "returned" /\ mode = "all" /\ answer => seen = Expected

=============================================================================
