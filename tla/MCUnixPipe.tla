----------------------------- MODULE MCUnixPipe -----------------------------
(***************************************************************************)
(* A reader, a writer and a task that closes either end, for TLC.          *)
(***************************************************************************)
EXTENDS UnixPipe

CONSTANTS r, w, c
=============================================================================
