------------------------------- MODULE MCPipe -------------------------------
(***************************************************************************)
(* Instances of the pipe for TLC: kinit polls it, a tasklet reads it, a    *)
(* task u that only gets interrupted.                                      *)
(***************************************************************************)
EXTENDS Pipe

CONSTANTS kinit, k1, u
=============================================================================
