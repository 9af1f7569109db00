---------------------------- MODULE MCBackground ----------------------------
(***************************************************************************)
(* BackgroundProbe for TLC.                                                *)
(***************************************************************************)
EXTENDS BackgroundProbe

=============================================================================
