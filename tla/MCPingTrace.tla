---------------------------- MODULE MCPingTrace ----------------------------
(***************************************************************************)
(* PingProbe and TraceProbe for TLC, as the probes of two groups of a      *)
(* script: a ping of any list of three out of two hosts, then a            *)
(* traceroute.                                                             *)
(***************************************************************************)
EXTENDS PingProbe, TraceProbe, TLC

PingTraceInit == Init /\ TraceInit

PingFirst ==
    \/ pc # "returned" /\ Next /\ UNCHANGED traceVars
    \/ pc = "returned" /\ TraceNext /\ UNCHANGED vars

PingThenTrace == PingTraceInit /\ [][PingFirst]_<<vars, traceVars>>

Interchangeable == Permutations(Hosts)

=============================================================================
