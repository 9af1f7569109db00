----------------------------- MODULE PingProbe -----------------------------
(***************************************************************************)
(* One run of the ping probe: a goroutine per host sends up to three       *)
(* packets and stops at the first answer.  What came of it is one of:      *)
(*   "answered"  a packet came back;                                       *)
(*   "silent"    none did, within the probe's timeout: ErrTimeout;         *)
(*   "error"     the pinger could not be made, or not be run;              *)
(*   "panic"     it panicked, which the deferred function recovers.        *)
(* host[i] is the i-th entry of Config.Hosts; entries may be equal.        *)
(***************************************************************************)
EXTENDS Naturals

CONSTANTS NumHosts, Hosts

ASSUME PingAssumption == NumHosts \in Nat

Index == 1..NumHosts
Outcomes == {"answered", "silent", "error", "panic"}

VARIABLES
    expect,      \* the option Expect
    host,        \* Config.Hosts
    pc,          \* Runner: "launch", "wait", "returned"
    launched,    \* how many hosts the loop has passed
    gpc,         \* the goroutine of each host
    outcome,     \* what came of it
    timings,     \* hosts with an entry in timings
    done,        \* the counter
    succ         \* what Runner returned

vars == <<expect, host, pc, launched, gpc, outcome, timings, done, succ>>

Init == /\ expect \in BOOLEAN
        /\ host \in [Index -> Hosts]
        /\ pc = "launch"
        /\ launched = 0
        /\ gpc = [i \in Index |-> "none"]
        /\ outcome = [i \in Index |-> "none"]
        /\ timings = {}
        /\ done = 0
        /\ succ = FALSE

Launch ==
    /\ pc = "launch"
    /\ launched < NumHosts
    /\ launched' = launched + 1
    /\ gpc' = [gpc EXCEPT ![launched + 1] = "ping"]
    /\ UNCHANGED <<expect, host, pc, outcome, timings, done, succ>>

LaunchedAll ==
    /\ pc = "launch"
    /\ launched = NumHosts
    /\ pc' = "wait"
    /\ UNCHANGED <<expect, host, launched, gpc, outcome, timings, done, succ>>

AllDone == \A i \in Index : gpc[i] = "done"

Return ==
    /\ pc = "wait"
    /\ AllDone
    /\ succ' = (done = NumHosts)
    /\ pc' = "returned"
    /\ UNCHANGED <<expect, host, launched, gpc, outcome, timings, done>>

Ping(i) ==
    /\ gpc[i] = "ping"
    /\ \E o \in Outcomes : outcome' = [outcome EXCEPT ![i] = o]
    /\ gpc' = [gpc EXCEPT ![i] = "end"]
    /\ UNCHANGED <<expect, host, pc, launched, timings, done, succ>>

(* Mutant: any failure is what expect: false waits for.                    *)
CountedAnyError(i) == (outcome[i] = "answered") = expect

(* A failure counts as the expected one only if it is the timeout.         *)
Counted(i) == outcome[i] = IF expect THEN "answered" ELSE "silent"

(* Mutant: the entry is made for every host.                               *)
EndTimesAll(i) ==
    /\ gpc[i] = "end"
    /\ timings' = timings \cup {host[i]}
    /\ done' = IF Counted(i) THEN done + 1 ELSE done
    /\ gpc' = [gpc EXCEPT ![i] = "done"]
    /\ UNCHANGED <<expect, host, pc, launched, outcome, succ>>

(* The deferred function.                                                  *)
End(i) ==
    /\ gpc[i] = "end"
    /\ timings' = IF outcome[i] = "answered" THEN timings \cup {host[i]} ELSE timings
    /\ done' = IF Counted(i) THEN done + 1 ELSE done
    /\ gpc' = [gpc EXCEPT ![i] = "done"]
    /\ UNCHANGED <<expect, host, pc, launched, outcome, succ>>

RunnerStep == Launch \/ LaunchedAll \/ Return
HostStep(i) == Ping(i) \/ End(i)

Next == RunnerStep \/ \E i \in Index : HostStep(i)

Spec == Init /\ [][Next]_vars

-----------------------------------------------------------------------------
(* Every variable has the values the code can give it.                     *)
TypeOK ==
    /\ expect \in BOOLEAN
    /\ host \in [Index -> Hosts]
    /\ pc \in {"launch", "wait", "returned"}
    /\ launched \in 0..NumHosts
    /\ gpc \in [Index -> {"none", "ping", "end", "done"}]
    /\ outcome \in [Index -> Outcomes \cup {"none"}]
    /\ timings \subseteq Hosts
    /\ done \in 0..NumHosts
    /\ succ \in BOOLEAN

(* With expect the probe succeeds when every host answers; without it when *)
(* every host is silent, which an unknown host or a missing privilege is   *)
(* not.  The timings returned are those of the hosts that answered, all of *)
(* them and no other, whatever the verdict.                                *)
ResultByHost ==
    pc = "returned" =>
        /\ succ <=> \A i \in Index : outcome[i] = IF expect THEN "answered" ELSE "silent"
        /\ timings = {host[i] : i \in {j \in Index : outcome[j] = "answered"}}

=============================================================================
