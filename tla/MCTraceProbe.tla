---------------------------- MODULE MCTraceProbe ----------------------------
(***************************************************************************)
(* TraceProbe for TLC.                                                     *)
(***************************************************************************)
EXTENDS TraceProbe

=============================================================================
