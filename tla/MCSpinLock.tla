----------------------------- MODULE MCSpinLock -----------------------------
(***************************************************************************)
(* Four tasks contend for one lock.  No symmetry: the run checks liveness. *)
(***************************************************************************)
EXTENDS SpinLock
=============================================================================
