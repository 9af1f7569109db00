------------------------------ MODULE MCScript ------------------------------
(***************************************************************************)
(* Script for TLC: a background probe, then two tasks in parallel, one of  *)
(* them a background probe.                                                *)
(***************************************************************************)
EXTENDS Script

GroupsOneTwo == <<1, 2, 2>>
KindsMixed == <<"cmdStay", "vpnStay", "cmd">>

=============================================================================
