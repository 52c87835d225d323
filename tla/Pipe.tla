-------------------------------- MODULE Pipe --------------------------------
(***************************************************************************)
(* The pipe between an interrupt handler and the tasks that read it:       *)
(* read_pipe and write_pipe of src/modules/fs/pipe.cpp, called by the      *)
(* keyboard and serial handlers (one byte an interrupt) and by kinit,      *)
(* which polls the number of unread bytes first (ktest.cpp).               *)
(*                                                                         *)
(* A handler runs on the stack of the task it interrupts, its host, with   *)
(* interrupts off: one step, unless the pipe is full or another handler    *)
(* that lost the CPU holds lock_write.  Then it gives the CPU away with    *)
(* sleep_on or spin_wait, which puts the HOST to sleep, and it comes back  *)
(* with interrupts on: the rest of write_pipe is then a sequence of steps  *)
(* between which anything may happen (a frame).                            *)
(*                                                                         *)
(* Every load of a pointer in pipe_unread and pipe_available is a step,    *)
(* and ++ptr is visible before ptr = 0, as in the unoptimised build.       *)
(* wakeup_queue and sleep_on are taken from Scheduler.tla as single steps, *)
(* without its timer: no tick falls between the two halves of sleep_on,    *)
(* and some other task is ready when all of these sleep.  A handler does   *)
(* not sleep on top of a task between those halves: the task would be in   *)
(* two lists, which is NoNodeAppendedTwice of Scheduler.tla.               *)
(***************************************************************************)
EXTENDS Integers, Sequences, FiniteSets

CONSTANTS
  Tasks,          \* the tasks that run while interrupts come in
  Pollers,        \* those that fread what pipe_size reports (kinit)
  Readers,        \* those that call fread without asking
  Size,           \* pipe->size; one slot stays empty
  Sizes,          \* the sizes the readers call fread with
  MaxSent,        \* bound: how many bytes come in
  None            \* no task

ASSUME PipeAssumption ==
  /\ IsFiniteSet(Tasks)
  /\ Pollers \subseteq Tasks /\ Readers \subseteq Tasks \ Pollers
  /\ Size \in Nat \ {0, 1}
  /\ Sizes \subseteq Nat \ {0}
  /\ MaxSent \in Nat
  /\ None \notin Tasks

VARIABLES
  buf,            \* buffer; a byte is the number of its interrupt
  readp, writep,  \* read_ptr, write_ptr
  rlock, wlock,   \* the holders of lock_read, lock_write
  waitr, waitw,   \* the tasks whose node is in wait_queue_readers, _writers
  pc,             \* where each task is in its poll and its read_pipe
  frame,          \* where the handler on top of a task is in write_pipe
  high,           \* read_ptr > write_ptr, as the task last saw it
  fhigh,          \* ... and as the handler on top of it last saw it
  want, got,      \* size and collected of read_pipe
  byte,           \* the byte of the handler on top of a task
  queued,         \* tasks made ready before they left the CPU
  arrived,        \* history: bytes that came in
  taken,          \* history: bytes that were read, until yielded
  yielded,        \* history: some handler had to give the CPU away
  cut             \* history: tasks a byte came to after their last look

rvars == <<readp, rlock, want, got, taken>>
wvars == <<buf, writep, wlock, fhigh, byte, arrived, yielded>>
lists == <<waitr, waitw, queued>>
vars == <<rvars, wvars, lists, pc, frame, high, cut>>

(***************************************************************************)
(* pc: "idle", then "poll2", "poll3" (the loads of pipe_size after the     *)
(* first), "lock", "test1" to "test3" (the loads of pipe_unread), "incr"   *)
(* (about to load the byte and increment), "wrap", "unlock", "wake", "enq" *)
(* (about to append its node), "out" (about to switch away) and "asleep".  *)
(* frame: "none", or the same for write_pipe.                              *)
(***************************************************************************)
ReadPlaces == {"idle", "poll2", "poll3", "lock", "test1", "test2", "test3",
               "incr", "wrap", "unlock", "wake", "enq", "out", "asleep"}
WritePlaces == {"none", "lock", "test1", "test2", "test3", "incr", "wrap",
                "unlock", "wake", "asleep"}

(* What a torn pipe_size can report: a difference below 0 is huge.         *)
Huge == Size + MaxSent

All(x) == [t \in Tasks |-> x]

Init ==
  /\ buf = [i \in 0 .. Size - 1 |-> 0]
  /\ readp = 0 /\ writep = 0
  /\ rlock = None /\ wlock = None
  /\ waitr = {} /\ waitw = {} /\ queued = {}
  /\ pc = All("idle") /\ frame = All("none")
  /\ high = All(FALSE) /\ fhigh = All(FALSE)
  /\ want = All(0) /\ got = All(0) /\ byte = All(0)
  /\ arrived = 0 /\ taken = 0 /\ yielded = FALSE /\ cut = {}

-----------------------------------------------------------------------------
(* pipe_unread and pipe_available after the branch on read_ptr > write_ptr. *)
Unread(above) == IF above THEN (Size - readp) + writep ELSE writep - readp

Available(above) == IF above THEN readp - writep - 1
                             ELSE (Size - writep) + readp - 1

(* A step of the task's own code: it is awake, no handler is on top of it. *)
Step(t, from, to) == /\ pc[t] = from /\ frame[t] = "none"
                     /\ pc' = [pc EXCEPT ![t] = to]
                     /\ UNCHANGED wvars

(* ... one that touches nothing the other end uses. *)
Inner(t, from, to) == Step(t, from, to) /\ UNCHANGED <<frame, lists>>

(* Mutation: > 1; the last byte is not reported. *)
PollOffByOne(t) == /\ t \in Pollers /\ writep - readp \notin {0, 1}
                   /\ Inner(t, "idle", "poll2")
                   /\ UNCHANGED <<rvars, high, cut>>

(* kinit asks pipe_size: not empty, go on with its other loads. *)
Poll(t) == /\ t \in Pollers /\ readp # writep
           /\ Inner(t, "idle", "poll2")
           /\ UNCHANGED <<rvars, high, cut>>

PollBranch(t) == /\ Inner(t, "poll2", "poll3")
                 /\ high' = [high EXCEPT ![t] = readp > writep]
                 /\ UNCHANGED <<rvars, cut>>

(* fread of n bytes *)
Call(t, n) == /\ want' = [want EXCEPT ![t] = n]
              /\ got' = [got EXCEPT ![t] = 0]
              /\ UNCHANGED <<readp, rlock, taken, high, cut>>

(* if(size) fread(file, 0, size, buffer) *)
PollRead(t) == LET n == Unread(high[t])
               IN /\ Inner(t, "poll3", IF n = 0 THEN "idle" ELSE "lock")
                  /\ Call(t, IF n < 0 THEN Huge ELSE n)

(* ... without asking. *)
Read(t, n) == t \in Readers /\ Inner(t, "idle", "lock") /\ Call(t, n)

ReadLock(t) == /\ rlock = None
               /\ Inner(t, "lock", "test1")
               /\ rlock' = t
               /\ cut' = cut \ {t}
               /\ UNCHANGED <<readp, want, got, taken, high>>

(* while (pipe_unread(pipe) > 0 && collected < size) *)
ReadTest(t) == /\ Inner(t, "test1", IF readp = writep THEN "unlock" ELSE "test2")
               /\ UNCHANGED <<rvars, high, cut>>

ReadBranch(t) == /\ Inner(t, "test2", "test3")
                 /\ high' = [high EXCEPT ![t] = readp > writep]
                 /\ UNCHANGED <<rvars, cut>>

Decide(t, more) ==
  /\ Inner(t, "test3", IF more /\ got[t] < want[t] THEN "incr" ELSE "unlock")
  /\ UNCHANGED <<rvars, high, cut>>

(* Mutation: > 1; the last byte stays in the pipe. *)
ReadDecideOffByOne(t) == Decide(t, Unread(high[t]) # 1)

ReadDecide(t) == Decide(t, Unread(high[t]) # 0)

(* The byte is copied, then ++read_ptr and collected++. *)
ReadIncrement(t) ==
  /\ Inner(t, "incr", IF readp + 1 = Size THEN "wrap" ELSE "test1")
  /\ readp' = readp + 1
  /\ got' = [got EXCEPT ![t] = @ + 1]
  /\ taken' = IF yielded THEN taken ELSE taken + 1
  /\ UNCHANGED <<rlock, want, high, cut>>

(* Mutation: the pointer is not set back. *)
ReadWrapForgotten(t) == Inner(t, "wrap", "test1") /\ UNCHANGED <<rvars, high, cut>>

ReadWrap(t) == /\ Inner(t, "wrap", "test1")
               /\ readp' = 0
               /\ UNCHANGED <<rlock, want, got, taken, high, cut>>

ReadUnlock(t) == /\ Inner(t, "unlock", "wake")
                 /\ rlock' = None
                 /\ UNCHANGED <<readp, want, got, taken, high, cut>>

(* if (collected == 0) sleep_on(...); its variables are gone when it returns *)
ReadReturns(t) ==
  /\ Step(t, "wake", IF got[t] = 0 THEN "enq" ELSE "idle")
  /\ want' = IF got[t] = 0 THEN want ELSE [want EXCEPT ![t] = 0]
  /\ got' = [got EXCEPT ![t] = 0]
  /\ UNCHANGED <<readp, rlock, taken, high, waitr, queued, cut>>

(* Mutation: the writers are not woken. *)
ReadWakeNobody(t) == ReadReturns(t) /\ UNCHANGED <<waitw, frame>>

(* wakeup_queue(wait_queue_writers) *)
ReadWake(t) ==
  /\ ReadReturns(t)
  /\ waitw' = {}
  /\ frame' = [h \in Tasks |-> IF h \in waitw THEN "lock" ELSE frame[h]]

ReadEnqueue(t) == /\ Step(t, "enq", "out")
                  /\ waitr' = waitr \cup {t}
                  /\ UNCHANGED <<rvars, waitw, queued, frame, high, cut>>

(* switch_task(0): a task that was made ready meanwhile goes on at once.   *)
ReadSleep(t) == /\ Step(t, "out", IF t \in queued THEN "lock" ELSE "asleep")
                /\ queued' = queued \ {t}
                /\ UNCHANGED <<rvars, waitr, waitw, frame, high, cut>>

-----------------------------------------------------------------------------
(* wakeup_queue(wait_queue_readers) *)
WakeReaders ==
  /\ waitr' = {}
  /\ pc' = [t \in Tasks |-> IF t \in waitr /\ pc[t] = "asleep" THEN "lock"
                                                               ELSE pc[t]]
  /\ queued' = queued \cup {t \in waitr : pc[t] = "out"}

(* A byte goes in: who had looked before and goes to sleep misses it. *)
Missed == {t \in Tasks : pc[t] \in {"unlock", "wake", "enq"}}

Advance(p) == IF p + 1 = Size THEN 0 ELSE p + 1

Free == Available(readp > writep) # 0 \/ readp = writep

(* The handler is entered on top of h. *)
Arrives(h) == /\ pc[h] # "asleep" /\ frame[h] = "none" /\ arrived < MaxSent
              /\ arrived' = arrived + 1
              /\ UNCHANGED <<rvars, wlock, fhigh, high>>

Puts(h) == /\ Arrives(h)
           /\ wlock = None
           /\ buf' = [buf EXCEPT ![writep] = arrived + 1]
           /\ writep' = Advance(writep)
           /\ cut' = cut \cup Missed
           /\ UNCHANGED <<frame, byte, yielded, waitw>>

(* Mutation: the empty slot is used as well. *)
IrqWriteFull(h) == Puts(h) /\ WakeReaders

(* Mutation: the readers are not woken. *)
IrqWriteQuiet(h) == Puts(h) /\ Free /\ UNCHANGED <<waitr, pc, queued>>

(* An interrupt on top of h: write_pipe(1 byte) in one go. *)
IrqWrite(h) == Puts(h) /\ Free /\ WakeReaders

(* The handler gives the CPU away at place p, and h with it. *)
Yields(h, p) == /\ Arrives(h)
                /\ pc[h] # "out"
                /\ byte' = [byte EXCEPT ![h] = arrived + 1]
                /\ frame' = [frame EXCEPT ![h] = p]
                /\ yielded' = TRUE
                /\ UNCHANGED <<buf, writep, cut>>

(* The pipe is full: the readers are woken and the host is put to sleep.   *)
IrqBlocks(h) == /\ wlock = None /\ ~Free
                /\ Yields(h, "asleep")
                /\ WakeReaders
                /\ waitw' = waitw \cup {h}

(* Another handler holds lock_write and has lost the CPU: spin_wait.       *)
IrqSpins(h) == wlock # None /\ Yields(h, "lock") /\ UNCHANGED <<lists, pc>>

-----------------------------------------------------------------------------
(* The rest of write_pipe in a handler that lost the CPU. *)
FrameStep(h, from, to) ==
  /\ frame[h] = from
  /\ frame' = [frame EXCEPT ![h] = to]
  /\ UNCHANGED <<rvars, high, arrived, yielded>>

FrameInner(h, from, to) == FrameStep(h, from, to) /\ UNCHANGED <<lists, pc>>

FrameLock(h) == /\ wlock = None
                /\ FrameInner(h, "lock", "test1")
                /\ wlock' = h
                /\ UNCHANGED <<buf, writep, fhigh, byte, cut>>

(* while (pipe_available(pipe) > 0 && ...) *)
FrameTest(h) == /\ FrameInner(h, "test1", IF readp = writep THEN "incr" ELSE "test2")
                /\ UNCHANGED <<buf, writep, wlock, fhigh, byte, cut>>

FrameBranch(h) == /\ FrameInner(h, "test2", "test3")
                  /\ fhigh' = [fhigh EXCEPT ![h] = readp > writep]
                  /\ UNCHANGED <<buf, writep, wlock, byte, cut>>

FrameDecide(h) ==
  /\ FrameInner(h, "test3", IF Available(fhigh[h]) # 0 THEN "incr" ELSE "unlock")
  /\ UNCHANGED <<buf, writep, wlock, fhigh, byte, cut>>

(* The byte is stored, then ++write_ptr. *)
FrameIncrement(h) ==
  /\ FrameInner(h, "incr", IF writep + 1 = Size THEN "wrap" ELSE "unlock")
  /\ buf' = [buf EXCEPT ![writep] = byte[h]]
  /\ writep' = writep + 1
  /\ byte' = [byte EXCEPT ![h] = 0]
  /\ cut' = cut \cup Missed
  /\ UNCHANGED <<wlock, fhigh>>

FrameWrap(h) == /\ FrameInner(h, "wrap", "unlock")
                /\ writep' = 0
                /\ UNCHANGED <<buf, wlock, fhigh, byte, cut>>

FrameUnlock(h) == /\ FrameInner(h, "unlock", "wake")
                  /\ wlock' = None
                  /\ UNCHANGED <<buf, writep, fhigh, byte, cut>>

(* wakeup_queue; done, or asleep again because the pipe was full again. *)
FrameWake(h) == /\ FrameStep(h, "wake", IF byte[h] = 0 THEN "none" ELSE "asleep")
                /\ waitw' = IF byte[h] = 0 THEN waitw ELSE waitw \cup {h}
                /\ WakeReaders
                /\ UNCHANGED <<buf, writep, wlock, fhigh, byte, cut>>

-----------------------------------------------------------------------------
Irq(h) == IrqWrite(h) \/ IrqBlocks(h) \/ IrqSpins(h)

Frame(h) ==
  \/ FrameLock(h) \/ FrameTest(h) \/ FrameBranch(h) \/ FrameDecide(h)
  \/ FrameIncrement(h) \/ FrameWrap(h) \/ FrameUnlock(h) \/ FrameWake(h)

Reading(t) ==
  \/ Poll(t) \/ PollBranch(t) \/ PollRead(t) \/ ReadLock(t) \/ ReadTest(t)
  \/ ReadBranch(t) \/ ReadDecide(t) \/ ReadIncrement(t) \/ ReadWrap(t)
  \/ ReadUnlock(t) \/ ReadWake(t) \/ ReadEnqueue(t) \/ ReadSleep(t)

Next == \E t \in Tasks : \/ Irq(t) \/ Frame(t) \/ Reading(t)
                         \/ \E n \in Sizes : Read(t, n)

(* Round robin preemption runs every ready task (ReadyRuns, Scheduler.tla). *)
Spec == /\ Init /\ [][Next]_vars
        /\ \A t \in Tasks : WF_vars(Reading(t)) /\ WF_vars(Frame(t))

-----------------------------------------------------------------------------

(* No byte is loaded from or stored to a slot past the end of the buffer.  *)
InBounds ==
  \A t \in Tasks : /\ (pc[t] = "incr" => readp < Size)
                   /\ (frame[t] = "incr" => writep < Size)

TypeOK ==
  /\ buf \in [0 .. Size - 1 -> 0 .. MaxSent]
  /\ readp \in 0 .. Size /\ writep \in 0 .. Size
  /\ rlock \in Tasks \cup {None} /\ wlock \in Tasks \cup {None}
  /\ waitr \subseteq Tasks /\ waitw \subseteq Tasks
  /\ pc \in [Tasks -> ReadPlaces] /\ frame \in [Tasks -> WritePlaces]
  /\ high \in [Tasks -> BOOLEAN] /\ fhigh \in [Tasks -> BOOLEAN]
  /\ want \in [Tasks -> Nat] /\ got \in [Tasks -> Nat]
  /\ byte \in [Tasks -> 0 .. MaxSent]
  /\ queued \subseteq Tasks
  /\ arrived \in 0 .. MaxSent /\ taken \in Nat
  /\ yielded \in BOOLEAN
  /\ cut \subseteq Tasks
  /\ InBounds

(* The bytes between the two pointers, a pointer in the middle of its      *)
(* increment taken for the slot it is about to point to.                   *)
Contents ==
  LET from == readp % Size
      n == (writep - readp) % Size
  IN [i \in 1 .. n |-> buf[(from + i - 1) % Size]]

(* What the tasks read is what came in, each byte once and in order, and   *)
(* nothing unread is overwritten, although the readers and the handler     *)
(* share no lock and the pointers are loaded one at a time.  It holds as   *)
(* long as no handler had to give the CPU away: afterwards two halves of   *)
(* write_ptr's increment are apart, and a reader that catches up to slot   *)
(* Size reads the whole buffer once more.                                  *)
FifoUntilYield ==
  ~yielded => Contents = [i \in 1 .. arrived - taken |-> taken + i]

(* A reader sleeps on a pipe that is not empty only if a byte came between *)
(* its last look and its list_append, which lock_read does not cover.      *)
SleeperMissedByte ==
  \A t \in Tasks :
    pc[t] = "asleep" /\ Contents # <<>> /\ ~yielded => t \in cut

(* kinit never sleeps in fread: it asks first, and nobody else takes the   *)
(* bytes it was told of.                                                   *)
PollerNeverSleeps ==
  \A t \in Pollers : ~yielded => pc[t] \notin {"enq", "out", "asleep"}

(* Every byte that comes in is read.                                       *)
EveryByteRead ==
  \A n \in 1 .. MaxSent : arrived >= n ~> (taken >= n \/ yielded)

(* A handler that sleeps on a full pipe is woken, unless every task that   *)
(* reads the pipe lies under such a handler or is asleep itself.           *)
HandlerWakes ==
  \A h \in Tasks :
    frame[h] = "asleep" /\ Len(Contents) = Size - 1
      ~> \/ frame[h] # "asleep"
         \/ \A t \in Pollers \cup Readers : frame[t] # "none" \/ pc[t] = "asleep"
=============================================================================
