----------------------------- MODULE RingBuffer -----------------------------
(***************************************************************************)
(* The ring buffer between tasks (src/libc/data_struct/ringbuffer.cpp).    *)
(* One lock covers both pointers; the tasks may be preempted between any   *)
(* two of the steps below.  An iteration of the loop under the lock is one *)
(* step: every access to the pointers is made with the lock held.          *)
(*                                                                         *)
(* wakeup_queue and sleep_on are single steps here (Scheduler.tla opens    *)
(* them up), and some other task is ready when all of these sleep.         *)
(***************************************************************************)
EXTENDS Integers, Sequences

CONSTANTS
  Tasks,          \* the tasks that use the ring buffer
  Readers,        \* those that may read from it
  Writers,        \* those that may write to it
  Closers,        \* those that may interrupt it
  Size,           \* ring_buffer->size; one slot stays empty
  Bytes,          \* the values of a byte
  Sizes,          \* the sizes of the calls
  NoByte, None    \* no byte, no task

ASSUME RingBufferAssumption ==
  /\ Readers \subseteq Tasks /\ Writers \subseteq Tasks
  /\ Closers \subseteq Tasks
  /\ Size \in Nat \ {0}
  /\ Sizes \subseteq Nat \ {0}
  /\ NoByte \notin Bytes
  /\ None \notin Tasks

VARIABLES
  buf, readp, writep,   \* buffer, read_ptr, write_ptr
  lock,                 \* the holder of the lock
  stop,                 \* internal_stop
  waitr, waitw,         \* wait_queue_readers, wait_queue_writers
  interrupted,          \* the tasks whose sleep_interrupted is set
  pc,                   \* where each task is in its call
  op,                   \* the call: reading or writing
  want, done,           \* size; collected or written
  out,                  \* the byte read last
  cut                   \* history: tasks the other end passed after their last look

ring == <<buf, readp, writep, out>>
call == <<op, want, done>>
sleep == <<waitr, waitw, interrupted>>
vars == <<ring, lock, stop, sleep, pc, call, cut>>

(***************************************************************************)
(* "idle"; "lock" about to spin_lock; "loop" in the loop under the lock;   *)
(* "wake" about to wake the other end; "sleep" about to sleep_on; "asleep";*)
(* "woken" back from sleep_on; "stopped" about to clear internal_stop;     *)
(* "last" at the wakeup_queue after the loop; "intr1" and "intr2" in       *)
(* ring_buffer_interrupt.                                                  *)
(***************************************************************************)
Places == {"idle", "lock", "loop", "wake", "sleep", "asleep", "woken",
           "stopped", "last", "intr1", "intr2"}

Goto(t, from, to) == pc[t] = from /\ pc' = [pc EXCEPT ![t] = to]

-----------------------------------------------------------------------------
(* ring_buffer_unread *)
Unread == IF readp > writep THEN (Size - readp) + writep ELSE writep - readp

(* Mutation: the empty slot is used as well. *)
AvailableOffByOne == IF readp > writep THEN readp - writep
                                       ELSE (Size - writep) + readp

(* ring_buffer_available *)
Available == IF readp > writep THEN readp - writep - 1
                               ELSE (Size - writep) + readp - 1

(* ring_buffer_increment_read, ring_buffer_increment_write *)
Advance(p) == IF p + 1 = Size THEN 0 ELSE p + 1

(* ring_buffer_create *)
Init == /\ buf = [i \in 0 .. Size - 1 |-> NoByte]
        /\ readp = 0 /\ writep = 0
        /\ lock = None /\ stop = FALSE
        /\ waitr = {} /\ waitw = {} /\ interrupted = {}
        /\ pc = [t \in Tasks |-> "idle"]
        /\ op = [t \in Tasks |-> "none"]
        /\ want = [t \in Tasks |-> 0] /\ done = [t \in Tasks |-> 0]
        /\ out = NoByte
        /\ cut = {}

(* ring_buffer_read or ring_buffer_write of n bytes *)
Begin(t, o, n) == /\ Goto(t, "idle", "lock")
                  /\ op' = [op EXCEPT ![t] = o]
                  /\ want' = [want EXCEPT ![t] = n]
                  /\ done' = [done EXCEPT ![t] = 0]
                  /\ UNCHANGED <<ring, lock, stop, sleep, cut>>

(* Mutation: the lock is taken without waiting. *)
LockBusy(t) == /\ Goto(t, "lock", "loop")
               /\ lock' = t
               /\ cut' = cut \ {t}
               /\ UNCHANGED <<ring, stop, sleep, call>>

Lock(t) == /\ lock = None
           /\ Goto(t, "lock", "loop")
           /\ lock' = t
           /\ cut' = cut \ {t}
           /\ UNCHANGED <<ring, stop, sleep, call>>

(* Whoever has left the loop and will sleep does not look again. *)
Passed(o) == {t \in Tasks : pc[t] \in {"wake", "sleep"} /\ op[t] = o}

(* An iteration of the loop of ring_buffer_read *)
TakeByte(t) == /\ pc[t] = "loop" /\ op[t] = "read"
               /\ Unread > 0 /\ done[t] < want[t]
               /\ out' = buf[readp]
               /\ readp' = Advance(readp)
               /\ done' = [done EXCEPT ![t] = @ + 1]
               /\ cut' = cut \cup Passed("write")
               /\ UNCHANGED <<buf, writep, lock, stop, sleep, pc, op, want>>

(* An iteration of the loop of ring_buffer_write *)
PutByte(t, b) == /\ pc[t] = "loop" /\ op[t] = "write"
                 /\ Available > 0 /\ done[t] < want[t]
                 /\ buf' = [buf EXCEPT ![writep] = b]
                 /\ writep' = Advance(writep)
                 /\ done' = [done EXCEPT ![t] = @ + 1]
                 /\ cut' = cut \cup Passed("read")
                 /\ UNCHANGED <<readp, out, lock, stop, sleep, pc, op, want>>

(* The loop ends, spin_unlock. *)
Unlock(t) == /\ \/ done[t] >= want[t]
                \/ IF op[t] = "read" THEN Unread = 0 ELSE Available = 0
             /\ Goto(t, "loop", "wake")
             /\ lock' = None
             /\ UNCHANGED <<ring, stop, sleep, call, cut>>

(* wakeup_queue: the tasks of the list go on after their sleep_on. *)
WakeAll(list, from, to, t) ==
  /\ pc[t] = from
  /\ pc' = [x \in Tasks |-> IF x = t THEN to
                            ELSE IF x \in list THEN "woken" ELSE pc[x]]

(* Mutation: a call wakes its own end. *)
WakeOwnEnd(t, from, to) ==
  /\ WakeAll(IF op[t] = "read" THEN waitr ELSE waitw, from, to, t)
  /\ IF op[t] = "read" THEN waitr' = {} /\ UNCHANGED waitw
                       ELSE waitw' = {} /\ UNCHANGED waitr
  /\ UNCHANGED <<ring, lock, stop>>

WakeOtherEnd(t, from, to) ==
  /\ WakeAll(IF op[t] = "read" THEN waitw ELSE waitr, from, to, t)
  /\ IF op[t] = "read" THEN waitw' = {} /\ UNCHANGED waitr
                       ELSE waitr' = {} /\ UNCHANGED waitw
  /\ UNCHANGED <<ring, lock, stop>>

(* A read goes on with one byte, a write with all of them. *)
Enough(t) == IF op[t] = "read" THEN done[t] > 0 ELSE done[t] >= want[t]

Wake(t) == /\ WakeOtherEnd(t, "wake", IF Enough(t) THEN "last" ELSE "sleep")
           /\ UNCHANGED <<interrupted, call, cut>>

Sleep(t) == /\ Goto(t, "sleep", "asleep")
            /\ IF op[t] = "read" THEN waitr' = waitr \cup {t} /\ UNCHANGED waitw
                                 ELSE waitw' = waitw \cup {t} /\ UNCHANGED waitr
            /\ interrupted' = interrupted \ {t}
            /\ UNCHANGED <<ring, lock, stop, call, cut>>

(* if (sleep_on(...) && internal_stop) *)
Return(t) == /\ Goto(t, "woken", IF t \in interrupted /\ stop THEN "stopped" ELSE "lock")
             /\ UNCHANGED <<ring, lock, stop, sleep, call, cut>>

(* internal_stop = 0; break *)
ClearStop(t) == /\ Goto(t, "stopped", "last")
                /\ stop' = FALSE
                /\ UNCHANGED <<ring, lock, sleep, call, cut>>

(* The call returns; its variables and sleep_interrupted are used up. *)
Last(t) == /\ WakeOtherEnd(t, "last", "idle")
           /\ op' = [op EXCEPT ![t] = "none"]
           /\ want' = [want EXCEPT ![t] = 0]
           /\ done' = [done EXCEPT ![t] = 0]
           /\ interrupted' = interrupted \ {t}
           /\ cut' = cut \ {t}

-----------------------------------------------------------------------------
(* ring_buffer_interrupt *)
Interrupt(t) == /\ Goto(t, "idle", "intr1")
                /\ stop' = TRUE
                /\ UNCHANGED <<ring, lock, sleep, call, cut>>

InterruptReaders(t) == /\ WakeAll(waitr, "intr1", "intr2", t)
                       /\ interrupted' = interrupted \cup waitr
                       /\ waitr' = {}
                       /\ UNCHANGED <<ring, lock, stop, waitw, call, cut>>

(* Mutation: the writers are woken as if there were space. *)
InterruptWritersPlain(t) == /\ WakeAll(waitw, "intr2", "idle", t)
                            /\ waitw' = {}
                            /\ UNCHANGED <<ring, lock, stop, waitr, interrupted,
                                           call, cut>>

InterruptWriters(t) == /\ WakeAll(waitw, "intr2", "idle", t)
                       /\ interrupted' = interrupted \cup waitw
                       /\ waitw' = {}
                       /\ UNCHANGED <<ring, lock, stop, waitr, call, cut>>

Step(t) == \/ Lock(t) \/ TakeByte(t) \/ (\E b \in Bytes : PutByte(t, b))
           \/ Unlock(t) \/ Wake(t) \/ Sleep(t) \/ Return(t) \/ ClearStop(t)
           \/ Last(t) \/ InterruptReaders(t) \/ InterruptWriters(t)

Next == \E t \in Tasks :
          \/ Step(t)
          \/ t \in Readers /\ \E n \in Sizes : Begin(t, "read", n)
          \/ t \in Writers /\ \E n \in Sizes : Begin(t, "write", n)
          \/ t \in Closers /\ Interrupt(t)

(* Round robin preemption runs every ready task (ReadyRuns, Scheduler.tla). *)
Spec == /\ Init /\ [][Next]_vars
        /\ \A t \in Tasks : WF_vars(Step(t))

-----------------------------------------------------------------------------

TypeOK ==
  /\ buf \in [0 .. Size - 1 -> Bytes \cup {NoByte}]
  /\ readp \in 0 .. Size - 1 /\ writep \in 0 .. Size - 1
  /\ lock \in Tasks \cup {None}
  /\ stop \in BOOLEAN
  /\ waitr \subseteq Tasks /\ waitw \subseteq Tasks
  /\ interrupted \subseteq Tasks
  /\ pc \in [Tasks -> Places]
  /\ op \in [Tasks -> {"none", "read", "write"}]
  /\ want \in [Tasks -> Nat] /\ done \in [Tasks -> Nat]
  /\ out \in Bytes \cup {NoByte}
  /\ cut \subseteq Tasks

(* One task at a time is in the loop, so an iteration may count as a step. *)
(* It takes spin_lock in every pass, after a sleep and an interruption too.*)
LoopExclusive == \A s, t \in Tasks : pc[s] = "loop" /\ pc[t] = "loop" => s = t

Slot(i) == IF readp + i < Size THEN readp + i ELSE readp + i - Size

Contents == [i \in 1 .. Unread |-> buf[Slot(i - 1)]]

(* Readers and writers that are preempted anywhere see a bounded FIFO: no  *)
(* byte is lost, doubled, overwritten or reordered at the wrap.            *)
Fifo == INSTANCE BoundedFifo WITH queue <- Contents, Capacity <- Size - 1

ImplementsFifo == Fifo!Spec

(* The other end has moved bytes and has not yet called wakeup_queue. *)
WillWake(o) == \E t \in Tasks : /\ op[t] = o
                                /\ pc[t] \in {"loop", "wake"} /\ done[t] > 0

(* Nobody sleeps on a buffer that has what he waits for, unless it came    *)
(* between his spin_unlock and his sleep_on, which the lock does not cover.*)
(* So a reader and a writer sleep facing each other only after such a race.*)
SleepersHaveReason ==
  \A t \in Tasks : pc[t] = "asleep" /\ t \notin cut =>
    IF op[t] = "read" THEN Unread = 0 \/ WillWake("write")
                      ELSE Available = 0 \/ WillWake("read")
=============================================================================
