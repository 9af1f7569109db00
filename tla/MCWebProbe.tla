----------------------------- MODULE MCWebProbe -----------------------------
(***************************************************************************)
(* WebProbe for TLC: two URLs that differ, that are the same, the second   *)
(* of which is wrong.                                                      *)
(***************************************************************************)
EXTENDS WebProbe

CONSTANTS a, b

ListsOfTwo == {<<a, b>>, <<a, a>>, <<a, Wrong>>}

=============================================================================
