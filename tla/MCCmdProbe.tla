----------------------------- MODULE MCCmdProbe -----------------------------
(***************************************************************************)
(* CmdProbe for TLC: two exit codes and one text that is not empty, under  *)
(* every configuration of the regexes.                                     *)
(***************************************************************************)
EXTENDS CmdProbe

CodesOfTwo == {0, 1}

=============================================================================
