---------------------------- MODULE MCScheduler ----------------------------
(***************************************************************************)
(* Instances of the scheduler for TLC: kinit, up to two user tasks and a    *)
(* tasklet, a pipe list woken by an interrupt handler and one woken by a  *)
(* task.                                                                   *)
(***************************************************************************)
EXTENDS Scheduler

CONSTANTS kinit, u1, u2, k1, kbd, pipe

(* Only user tasks wait for the interrupt handler's list. *)
QuietSleeps == {<<u1, kbd>>, <<u2, kbd>>, <<k1, pipe>>}
PipeWaker == [q \in {pipe} |-> kinit]

(* One sleeper per list. *)
SmallSleeps == {<<u1, kbd>>, <<k1, pipe>>}

(* A tasklet waits for a list an interrupt handler wakes. *)
IrqSleeps == {<<k1, kbd>>}
NoWaker == [q \in {} |-> kinit]
NoSleeps == {}

(* A tasklet is given all of the time or, on the scale of one tick, less. *)
SomeThrottles == {<<k1, 0>>, <<k1, 100>>}
=============================================================================
