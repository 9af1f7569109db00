----------------------------- MODULE MCReports -----------------------------
(***************************************************************************)
(* Reports for TLC: two sequential tasks, the second a background command. *)
(***************************************************************************)
EXTENDS Reports

GroupsOneOne == <<1, 2>>
KindsPlainCmd == <<"plain", "cmdStay">>

=============================================================================
