------------------------------ MODULE UnixPipe ------------------------------
(***************************************************************************)
(* The unix pipe (src/modules/fs/unixpipe.cpp): two files over one ring    *)
(* buffer.  A read takes a byte at a time and stops at a newline or when   *)
(* the write end is closed; a write stops when the read end is closed.     *)
(* Closing one end interrupts whoever sleeps in the ring buffer.           *)
(*                                                                         *)
(* A step of a task inside the ring buffer is a step of RingBuffer; here   *)
(* at[t] says where t is in unixpipe.cpp.  SIGPIPE ends the call of the    *)
(* writer: what handle_signal does besides is not modelled.                *)
(***************************************************************************)
EXTENDS RingBuffer

CONSTANT NewLine

ASSUME NewLineAssumption == NewLine \in Bytes

VARIABLES
  rclosed, wclosed,   \* read_closed, write_closed
  at,                 \* where each task is in its call
  left,               \* size - read, or size - written
  line,               \* the tasks that read a newline last
  late                \* history: tasks an interruption may have missed

ends == <<rclosed, wclosed>>
uvars == <<vars, ends, at, left, line, late>>

(* "out"; "rtest", "wtest" at the while of read_unixpipe, write_unixpipe;  *)
(* "rin", "win" in ring_buffer_read, ring_buffer_write; "rclose", "wclose" *)
(* about to look at the other end in close_read_pipe, close_write_pipe.    *)
PipePlaces == {"out", "rtest", "rin", "wtest", "win", "rclose", "wclose"}

Move(t, from, to) == at[t] = from /\ at' = [at EXCEPT ![t] = to]

-----------------------------------------------------------------------------
(* make_unix_pipe_ *)
PipeInit == /\ Init
            /\ rclosed = FALSE /\ wclosed = FALSE
            /\ at = [t \in Tasks |-> "out"]
            /\ left = [t \in Tasks |-> 0]
            /\ line = {} /\ late = {}

(* read_unixpipe, write_unixpipe; a closed end has no file left to call.   *)
Enter(t, n, test) == /\ pc[t] = "idle"
                     /\ Move(t, "out", test)
                     /\ left' = [left EXCEPT ![t] = n]
                     /\ UNCHANGED <<vars, ends, line, late>>

PipeRead(t, n) == t \in Readers /\ ~rclosed /\ Enter(t, n, "rtest")

PipeWrite(t, n) == t \in Writers /\ ~wclosed /\ Enter(t, n, "wtest")

(* The call ends before the next byte, or goes for it. *)
Test(t, test, in, o, stops) ==
  /\ late' = late \ {t}
  /\ IF stops
     THEN /\ Move(t, test, "out")
          /\ left' = [left EXCEPT ![t] = 0]
          /\ UNCHANGED vars
     ELSE /\ Move(t, test, in)
          /\ Begin(t, o, 1)
          /\ UNCHANGED left
  /\ UNCHANGED <<ends, line>>

(* Mutation: the closed end is not looked at. *)
ReadTestBlind(t) == Test(t, "rtest", "rin", "read", left[t] = 0)

ReadTest(t) ==
  Test(t, "rtest", "rin", "read", left[t] = 0 \/ (wclosed /\ Unread = 0))

WriteTest(t) == Test(t, "wtest", "win", "write", left[t] = 0 \/ rclosed)

(* A step inside the ring buffer. *)
PipeTake(t) == /\ TakeByte(t)
               /\ line' = IF buf[readp] = NewLine THEN line \cup {t} ELSE line \ {t}
               /\ UNCHANGED <<ends, at, left, late>>

PipeInner(t) == /\ \/ Lock(t) \/ (\E b \in Bytes : PutByte(t, b)) \/ Unlock(t)
                   \/ Wake(t) \/ Sleep(t) \/ Return(t)
                /\ UNCHANGED <<ends, at, left, line, late>>

(* Whoever takes internal_stop takes it from all others in the ring buffer. *)
PipeClearStop(t) ==
  /\ ClearStop(t)
  /\ late' = late \cup {x \in Tasks : pc[x] \notin {"idle", "stopped", "last"}}
  /\ UNCHANGED <<ends, at, left, line>>

(* ring_buffer_read returns; a newline ends the call, 0 bytes do not.      *)
ReadReturns(t) ==
  /\ Move(t, "rin", IF done[t] > 0 /\ t \in line THEN "out" ELSE "rtest")
  /\ Last(t)
  /\ left' = [left EXCEPT ![t] = IF at'[t] = "out" THEN 0 ELSE @ - done[t]]
  /\ UNCHANGED <<ends, line, late>>

WriteReturns(t) == /\ Move(t, "win", "wtest")
                   /\ Last(t)
                   /\ left' = [left EXCEPT ![t] = @ - done[t]]
                   /\ UNCHANGED <<ends, line, late>>

(* close_read_pipe, close_write_pipe: each end is closed once. *)
CloseRead(t) == /\ t \in Closers /\ pc[t] = "idle" /\ ~rclosed
                /\ Move(t, "out", "rclose")
                /\ rclosed' = TRUE
                /\ UNCHANGED <<vars, wclosed, left, line, late>>

CloseWrite(t) == /\ t \in Closers /\ pc[t] = "idle" /\ ~wclosed
                 /\ Move(t, "out", "wclose")
                 /\ wclosed' = TRUE
                 /\ UNCHANGED <<vars, rclosed, left, line, late>>

(* if (!other_closed) ring_buffer_interrupt(self->buffer) *)
CloseInterrupts(t) ==
  /\ \/ Move(t, "rclose", "out") /\ IF wclosed THEN UNCHANGED vars ELSE Interrupt(t)
     \/ Move(t, "wclose", "out") /\ IF rclosed THEN UNCHANGED vars ELSE Interrupt(t)
  /\ UNCHANGED <<ends, left, line, late>>

(* Who is awake in the ring buffer may still go to sleep, past the end.    *)
Awake(in) == {x \in Tasks : at[x] = in /\ pc[x] \notin {"asleep", "stopped", "last"}}

PipeInterrupt(t) ==
  /\ \/ InterruptReaders(t) /\ late' = late \cup Awake("rin")
     \/ InterruptWriters(t) /\ late' = late \cup Awake("win")
  /\ UNCHANGED <<ends, at, left, line>>

PipeStep(t) ==
  \/ ReadTest(t) \/ WriteTest(t) \/ PipeTake(t) \/ PipeInner(t) \/ PipeClearStop(t)
  \/ ReadReturns(t) \/ WriteReturns(t) \/ CloseInterrupts(t) \/ PipeInterrupt(t)

PipeNext == \E t \in Tasks :
  \/ PipeStep(t) \/ CloseRead(t) \/ CloseWrite(t)
  \/ \E n \in Sizes : PipeRead(t, n) \/ PipeWrite(t, n)

PipeSpec == /\ PipeInit /\ [][PipeNext]_uvars
            /\ \A t \in Tasks : WF_uvars(PipeStep(t))

-----------------------------------------------------------------------------

PipeTypeOK == /\ TypeOK
              /\ rclosed \in BOOLEAN /\ wclosed \in BOOLEAN
              /\ at \in [Tasks -> PipePlaces] /\ left \in [Tasks -> Nat]
              /\ line \subseteq Tasks /\ late \subseteq Tasks

(* A reader whose pipe has no writer any more comes to the end of file,    *)
(* wherever the close came, with three exceptions: it was on its way to    *)
(* sleep when the sleepers were interrupted, another task took the one     *)
(* internal_stop, or both ends were closed and neither close interrupted.  *)
EofReached ==
  \A t \in Readers : wclosed /\ at[t] \in {"rtest", "rin"}
                       ~> at[t] = "out" \/ t \in late \/ rclosed

(* A writer whose pipe has no reader any more is not left asleep: it comes *)
(* to its SIGPIPE, with the same exceptions.                               *)
BrokenPipeSeen ==
  \A t \in Writers : rclosed /\ at[t] \in {"wtest", "win"}
                       ~> at[t] = "out" \/ t \in late \/ wclosed
=============================================================================
