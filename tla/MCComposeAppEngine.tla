------------------------ MODULE MCComposeAppEngine ------------------------
(***************************************************************************)
(* Instances of ComposeAppEngine for TLC: two versions of one App, which   *)
(* is enough for each to leave its files in the other's way.               *)
(***************************************************************************)
EXTENDS ComposeAppEngine

CONSTANTS a1, a2

MCUri == {a1, a2}
=============================================================================
