---------------------------- MODULE MCNativeCalls ----------------------------
(***************************************************************************)
(* An instance of NativeCalls: the agent loaded at the start and attached  *)
(* once more.                                                              *)
(***************************************************************************)
EXTENDS NativeCalls

CONSTANTS e1, e2 \* environments

TwoEnvs == {e1, e2}
=============================================================================
