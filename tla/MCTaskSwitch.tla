---------------------------- MODULE MCTaskSwitch ----------------------------
(***************************************************************************)
(* Two tasks for TLC, one of which comes and goes at the same address.     *)
(* sync_depth grows by one with every switch in a section that is          *)
(* interrupted before the next int_disable; states beyond MaxDepth are not *)
(* followed.                                                               *)
(***************************************************************************)
EXTENDS TaskSwitch

CONSTANTS t1, t2, MaxDepth

DepthBound == depth <= MaxDepth
=============================================================================
