-------------------------- MODULE RingBufferProofs --------------------------
(***************************************************************************)
(* Theorems about the ring buffer of RingBuffer.tla, alone and inside the  *)
(* unix pipe of UnixPipe.tla, for every size, every set of bytes and any   *)
(* number of tasks.                                                        *)
(***************************************************************************)
EXTENDS UnixPipe, TLAPS

-----------------------------------------------------------------------------
(* The ring buffer under callers that may ask for any number of bytes: its *)
(* own specification and that of the unix pipe, which reads and writes one *)
(* byte a call, are both special cases.                                    *)
Calls(t) == \E n \in Nat \ {0}, o \in {"read", "write"} : Begin(t, o, n)

RingNext == \E t \in Tasks : Step(t) \/ Interrupt(t) \/ Calls(t)

RingSpec == Init /\ [][RingNext]_vars

LEMMA SpecRing == Spec => RingSpec
<1>1. Next => RingNext
  BY RingBufferAssumption DEF Next, RingNext, Calls
<1>. QED  BY <1>1, PTL DEF Spec, RingSpec

LEMMA PipeRing == PipeSpec => RingSpec
<1>1. PipeInit => Init
  BY DEF PipeInit
<1>2. ASSUME NEW t \in Tasks, PipeStep(t)  PROVE RingNext \/ UNCHANGED vars
  <2>1. ASSUME ReadTest(t) \/ WriteTest(t)  PROVE Calls(t) \/ UNCHANGED vars
    <3>1. 1 \in Nat \ {0}
      OBVIOUS
    <3>. QED  BY <2>1, <3>1 DEF ReadTest, WriteTest, Test, Calls
  <2>2. CASE CloseInterrupts(t)
    BY <2>2 DEF CloseInterrupts, RingNext
  <2>3. ASSUME \/ PipeTake(t) \/ PipeInner(t) \/ PipeClearStop(t)
               \/ ReadReturns(t) \/ WriteReturns(t) \/ PipeInterrupt(t)
        PROVE  Step(t)
    BY <2>3 DEF PipeTake, PipeInner, PipeClearStop, ReadReturns, WriteReturns, PipeInterrupt,
                Step
  <2>. QED  BY <1>2, <2>1, <2>2, <2>3 DEF PipeStep, RingNext
<1>3. ASSUME NEW t \in Tasks,
             CloseRead(t) \/ CloseWrite(t) \/ \E n \in Sizes : PipeRead(t, n) \/ PipeWrite(t, n)
      PROVE  UNCHANGED vars
  BY <1>3 DEF CloseRead, CloseWrite, PipeRead, PipeWrite, Enter
<1>4. [PipeNext]_uvars => [RingNext]_vars
  BY <1>2, <1>3 DEF PipeNext, uvars
<1>. QED  BY <1>1, <1>4, PTL DEF PipeSpec, RingSpec

-----------------------------------------------------------------------------
(* Facts about sequences.                                                  *)

LEMMA SequenceOfLength ==
  ASSUME NEW S, NEW n \in Nat, NEW f \in [1 .. n -> S]
  PROVE  f \in Seq(S) /\ Len(f) = n
OBVIOUS

LEMMA SequencesEqual ==
  ASSUME NEW S, NEW f \in Seq(S), NEW g \in Seq(S), Len(f) = Len(g),
         \A i \in 1 .. Len(f) : f[i] = g[i]
  PROVE  f = g
OBVIOUS

-----------------------------------------------------------------------------
(* What a byte that goes in or out does to the contents.                   *)

LEMMA ContentsSequence ==
  ASSUME TypeOK
  PROVE  /\ Unread \in 0 .. Size - 1
         /\ Available = Size - 1 - Unread
         /\ Contents \in Seq(Bytes \cup {NoByte})
         /\ Len(Contents) = Unread
<1>1. Size \in Nat \ {0} /\ readp \in 0 .. Size - 1 /\ writep \in 0 .. Size - 1
  BY RingBufferAssumption DEF TypeOK
<1>2. Unread \in 0 .. Size - 1 /\ Available = Size - 1 - Unread
  BY <1>1 DEF Unread, Available
<1>3. \A i \in 1 .. Unread : buf[Slot(i - 1)] \in Bytes \cup {NoByte}
  BY <1>1, <1>2 DEF TypeOK, Slot
<1>4. Contents \in [1 .. Unread -> Bytes \cup {NoByte}]
  BY <1>3 DEF Contents
<1>. QED  BY <1>2, <1>4, SequenceOfLength

(* The index a byte is stored at is the slot behind the last unread byte.  *)
LEMMA PutAppends ==
  ASSUME TypeOK, TypeOK', NEW t \in Tasks, NEW b \in Bytes, PutByte(t, b)
  PROVE  /\ Len(Contents) < Size - 1
         /\ Contents' = Append(Contents, b)
<1>. DEFINE S == Bytes \cup {NoByte}
<1>1. Size \in Nat \ {0} /\ readp \in 0 .. Size - 1 /\ writep \in 0 .. Size - 1
  BY RingBufferAssumption DEF TypeOK
<1>2. /\ Available > 0
      /\ buf' = [buf EXCEPT ![writep] = b]
      /\ writep' = (IF writep + 1 = Size THEN 0 ELSE writep + 1)
      /\ readp' = readp
  BY DEF PutByte, Advance
<1>3. /\ Contents \in Seq(S) /\ Len(Contents) = Unread
      /\ Unread \in 0 .. Size - 1 /\ Available = Size - 1 - Unread
  BY ContentsSequence
<1>4. PICK n \in Nat : n = Unread
  BY <1>3
<1>5. Unread' = n + 1 /\ n + 1 < Size
  BY <1>1, <1>2, <1>3, <1>4 DEF Unread
<1>6. Slot(n)' = writep
  BY <1>1, <1>2, <1>3, <1>4 DEF Unread, Slot
<1>7. \A i \in 0 .. n - 1 : /\ Slot(i)' = Slot(i) /\ Slot(i) # writep
                            /\ Slot(i) \in 0 .. Size - 1
  BY <1>1, <1>2, <1>3, <1>4 DEF Unread, Slot
<1>8. \A i \in 1 .. n : Contents'[i] = Contents[i] /\ Contents[i] \in S
  <2>. SUFFICES ASSUME NEW i \in 1 .. n
                PROVE  Contents'[i] = Contents[i] /\ Contents[i] \in S
    OBVIOUS
  <2>1. Contents[i] = buf[Slot(i - 1)] /\ Contents'[i] = buf'[Slot(i - 1)']
    BY <1>4, <1>5 DEF Contents
  <2>2. i - 1 \in 0 .. n - 1
    BY <1>4
  <2>3. buf'[Slot(i - 1)] = buf[Slot(i - 1)] /\ buf[Slot(i - 1)] \in S
    BY <2>2, <1>2, <1>7 DEF TypeOK
  <2>. QED  BY <2>1, <2>2, <2>3, <1>7
<1>9. Contents'[n + 1] = b
  <2>1. Contents'[n + 1] = buf'[Slot(n)']
    BY <1>5 DEF Contents
  <2>. QED  BY <2>1, <1>1, <1>2, <1>6 DEF TypeOK
<1>10. Contents' \in Seq(S) /\ Len(Contents') = n + 1
  <2>1. Contents' = [i \in 1 .. n + 1 |-> Contents'[i]]
    BY <1>5 DEF Contents
  <2>2. \A i \in 1 .. n + 1 : Contents'[i] \in S
    BY <1>8, <1>9
  <2>3. Contents' \in [1 .. n + 1 -> S]
    BY <2>1, <2>2
  <2>. QED  BY <2>3, SequenceOfLength
<1>11. /\ Append(Contents, b) \in Seq(S) /\ Len(Append(Contents, b)) = n + 1
       /\ Append(Contents, b)[n + 1] = b
       /\ \A i \in 1 .. n : Append(Contents, b)[i] = Contents[i]
  BY <1>3, <1>4
<1>12. \A i \in 1 .. n + 1 : Contents'[i] = Append(Contents, b)[i]
  BY <1>8, <1>9, <1>11
<1>13. Contents' = Append(Contents, b)
  BY <1>10, <1>11, <1>12, SequencesEqual
<1>. QED  BY <1>1, <1>3, <1>4, <1>5, <1>13

LEMMA TakeRemoves ==
  ASSUME TypeOK, TypeOK', NEW t \in Tasks, TakeByte(t)
  PROVE  /\ Contents # <<>>
         /\ out' = Head(Contents)
         /\ Contents' = Tail(Contents)
<1>1. Size \in Nat \ {0} /\ readp \in 0 .. Size - 1 /\ writep \in 0 .. Size - 1
  BY RingBufferAssumption DEF TypeOK
<1>2. /\ Unread > 0
      /\ out' = buf[readp]
      /\ readp' = (IF readp + 1 = Size THEN 0 ELSE readp + 1)
      /\ writep' = writep /\ buf' = buf
  BY DEF TakeByte, Advance
<1>3. /\ Contents \in Seq(Bytes \cup {NoByte}) /\ Len(Contents) = Unread
      /\ Unread \in 0 .. Size - 1
  BY ContentsSequence
<1>4. Unread' = Unread - 1 /\ Slot(0) = readp
  BY <1>1, <1>2 DEF Unread, Slot
<1>5. \A i \in 0 .. Unread - 2 : Slot(i)' = Slot(i + 1)
  BY <1>1, <1>2, <1>3 DEF Unread, Slot
<1>6. Contents # <<>> /\ Contents[1] = buf[readp]
  BY <1>2, <1>3, <1>4 DEF Contents
<1>7. /\ Tail(Contents) \in Seq(Bytes \cup {NoByte})
      /\ Len(Tail(Contents)) = Unread - 1
      /\ \A i \in 1 .. Unread - 1 : Tail(Contents)[i] = Contents[i + 1]
  BY <1>3, <1>6
<1>8. \A i \in 1 .. Unread - 1 : Contents'[i] = buf[Slot(i)]
  <2>. SUFFICES ASSUME NEW i \in 1 .. Unread - 1
                PROVE  Contents'[i] = buf[Slot(i)]
    OBVIOUS
  <2>1. Contents'[i] = buf'[(Slot(i - 1))']
    BY <1>4 DEF Contents
  <2>2. i - 1 \in 0 .. Unread - 2 /\ (i - 1) + 1 = i
    BY <1>3
  <2>. QED  BY <2>1, <2>2, <1>2, <1>5
<1>9. \A i \in 1 .. Unread - 1 : Contents[i + 1] = buf[Slot(i)]
  <2>. SUFFICES ASSUME NEW i \in 1 .. Unread - 1
                PROVE  Contents[i + 1] = buf[Slot(i)]
    OBVIOUS
  <2>1. i + 1 \in 1 .. Unread /\ (i + 1) - 1 = i
    BY <1>3
  <2>. QED  BY <2>1 DEF Contents
<1>10. Contents' \in Seq(Bytes \cup {NoByte}) /\ Len(Contents') = Unread - 1
  <2>. DEFINE S == Bytes \cup {NoByte}
  <2>1. \A i \in 1 .. Unread : Contents[i] \in S
    BY <1>3
  <2>2. \A i \in 1 .. Unread - 1 : Contents'[i] \in S
    <3>. SUFFICES ASSUME NEW i \in 1 .. Unread - 1  PROVE Contents'[i] \in S
      OBVIOUS
    <3>1. i + 1 \in 1 .. Unread
      BY <1>3
    <3>. QED  BY <3>1, <2>1, <1>8, <1>9
  <2>3. Contents' = [i \in 1 .. Unread - 1 |-> Contents'[i]]
    BY <1>4 DEF Contents
  <2>4. Contents' \in [1 .. Unread - 1 -> S]
    BY <2>2, <2>3
  <2>5. Unread - 1 \in Nat
    BY <1>2, <1>3
  <2>. QED  BY <2>4, <2>5, SequenceOfLength
<1>11. \A i \in 1 .. Unread - 1 : Contents'[i] = Tail(Contents)[i]
  BY <1>7, <1>8, <1>9
<1>12. Contents' = Tail(Contents)
  BY <1>7, <1>10, <1>11, SequencesEqual
<1>. QED  BY <1>2, <1>3, <1>6, <1>12

-----------------------------------------------------------------------------
(* The invariant: the types, and the lock is held by whoever is in the     *)
(* loop.                                                                   *)

LockInv == \A t \in Tasks : pc[t] = "loop" => lock = t

IInv == TypeOK /\ LockInv

(* The steps of a task that leave the lock alone. *)
LEMMA WakeOtherEndStep ==
  ASSUME IInv, NEW t \in Tasks, NEW from, NEW to \in Places \ {"loop"},
         WakeOtherEnd(t, from, to)
  PROVE  /\ pc' \in [Tasks -> Places] /\ waitr' \subseteq Tasks /\ waitw' \subseteq Tasks
         /\ \A x \in Tasks : pc'[x] = "loop" => pc[x] = "loop"
         /\ UNCHANGED <<ring, lock, stop>>
BY DEF IInv, TypeOK, WakeOtherEnd, WakeAll, Places

LEMMA InitInv == Init => IInv
<1>. SUFFICES ASSUME Init  PROVE IInv
  OBVIOUS
<1>1. readp \in 0 .. Size - 1 /\ writep \in 0 .. Size - 1
  BY RingBufferAssumption DEF Init
<1>2. buf \in [0 .. Size - 1 -> Bytes \cup {NoByte}]
  BY DEF Init
<1>3. pc \in [Tasks -> Places] /\ op \in [Tasks -> {"none", "read", "write"}]
  BY DEF Init, Places
<1>4. want \in [Tasks -> Nat] /\ done \in [Tasks -> Nat]
  BY DEF Init
<1>5. LockInv
  BY DEF Init, LockInv
<1>. QED  BY <1>1, <1>2, <1>3, <1>4, <1>5 DEF Init, IInv, TypeOK

LEMMA StepInv ==
  ASSUME IInv, NEW t \in Tasks, Step(t)
  PROVE  IInv'
<1>0. Size \in Nat \ {0}
  BY RingBufferAssumption
<1>. USE DEF IInv, TypeOK, LockInv, Places, ring, call, sleep
<1>1. CASE Lock(t)
  BY <1>1, RingBufferAssumption DEF Lock, Goto
<1>2. CASE TakeByte(t)
  <2>1. readp' \in 0 .. Size - 1 /\ out' \in Bytes \cup {NoByte}
    BY <1>0, <1>2 DEF TakeByte, Advance
  <2>2. done' \in [Tasks -> Nat]
    BY <1>2 DEF TakeByte
  <2>. QED  BY <1>2, <2>1, <2>2 DEF TakeByte, Passed
<1>3. ASSUME NEW b \in Bytes, PutByte(t, b)  PROVE IInv'
  <2>1. writep' \in 0 .. Size - 1 /\ buf' \in [0 .. Size - 1 -> Bytes \cup {NoByte}]
    BY <1>0, <1>3 DEF PutByte, Advance
  <2>2. done' \in [Tasks -> Nat]
    BY <1>3 DEF PutByte
  <2>. QED  BY <1>3, <2>1, <2>2 DEF PutByte, Passed
<1>4. CASE Unlock(t)
  BY <1>4 DEF Unlock, Goto
<1>5. CASE Wake(t)
  <2>1. PICK to \in {"last", "sleep"} : WakeOtherEnd(t, "wake", to)
    BY <1>5 DEF Wake
  <2>. QED  BY <1>5, <2>1, WakeOtherEndStep DEF Wake
<1>6. CASE Sleep(t)
  BY <1>6 DEF Sleep, Goto
<1>7. CASE Return(t)
  BY <1>7 DEF Return, Goto
<1>11. CASE ClearStop(t)
  BY <1>11 DEF ClearStop, Goto
<1>8. CASE Last(t)
  <2>1. WakeOtherEnd(t, "last", "idle")
    BY <1>8 DEF Last
  <2>. QED  BY <1>8, <2>1, WakeOtherEndStep DEF Last
<1>9. CASE InterruptReaders(t)
  BY <1>9 DEF InterruptReaders, WakeAll
<1>10. CASE InterruptWriters(t)
  BY <1>10 DEF InterruptWriters, WakeAll
<1>. QED  BY <1>1, <1>2, <1>3, <1>4, <1>5, <1>6, <1>7, <1>8, <1>9, <1>10, <1>11 DEF Step

LEMMA NextInv == IInv /\ [RingNext]_vars => IInv'
<1>. SUFFICES ASSUME IInv, [RingNext]_vars  PROVE IInv'
  OBVIOUS
<1>1. ASSUME NEW t \in Tasks, Calls(t)  PROVE IInv'
  BY <1>1 DEF Calls, Begin, Goto, IInv, TypeOK, LockInv, Places, ring, sleep
<1>2. ASSUME NEW t \in Tasks, Interrupt(t)  PROVE IInv'
  BY <1>2 DEF Interrupt, Goto, IInv, TypeOK, LockInv, Places, ring, call, sleep
<1>3. CASE UNCHANGED vars
  BY <1>3 DEF vars, ring, call, sleep, IInv, TypeOK, LockInv
<1>. QED  BY <1>1, <1>2, <1>3, StepInv DEF RingNext

LEMMA Invariance == RingSpec => []IInv
<1>1. Init => IInv
  BY InitInv
<1>2. IInv /\ [RingNext]_vars => IInv'
  BY NextInv
<1>. QED  BY <1>1, <1>2, PTL DEF RingSpec

(* Both pointers stay inside the buffer, for every size: the wrap of       *)
(* ring_buffer_increment_read and _write never lets an index out.          *)
THEOREM TypeCorrect == (Spec => []TypeOK) /\ (PipeSpec => []TypeOK)
<1>1. IInv => TypeOK
  BY DEF IInv
<1>. QED  BY <1>1, Invariance, SpecRing, PipeRing, PTL

(* spin_lock in every pass of the loops of ring_buffer_read and _write     *)
(* keeps all but one task out of the loop.                                 *)
THEOREM LoopCorrect == (Spec => []LoopExclusive) /\ (PipeSpec => []LoopExclusive)
<1>1. IInv => LoopExclusive
  BY DEF IInv, LockInv, LoopExclusive
<1>. QED  BY <1>1, Invariance, SpecRing, PipeRing, PTL

-----------------------------------------------------------------------------
(* Why a task sleeps.                                                      *)

(* A task that is past Begin has a call with something to do.              *)
CallInv == \A t \in Tasks :
  pc[t] \notin {"idle", "intr1", "intr2"} => op[t] \in {"read", "write"} /\ want[t] > 0

(* The wait queues hold who sleeps, each at his end.                       *)
ListInv ==
  /\ \A t \in waitr : pc[t] = "asleep" /\ op[t] = "read"
  /\ \A t \in waitw : pc[t] = "asleep" /\ op[t] = "write"
  /\ \A t \in Tasks : pc[t] = "asleep" => t \in waitr \cup waitw

(* What t found when it left its loop to sleep. *)
Nothing(t) == IF op[t] = "read" THEN Unread = 0 ELSE Available = 0

(* Who is on his way to sleep_on found nothing, and it is still so unless  *)
(* the other end passed.                                                   *)
LeftInv == \A t \in Tasks :
  (pc[t] = "sleep" \/ (pc[t] = "wake" /\ ~Enough(t))) => t \in cut \/ Nothing(t)

OtherEnd(t) == IF op[t] = "read" THEN "write" ELSE "read"

ReasonInv == \A t \in Tasks :
  pc[t] = "asleep" => t \in cut \/ Nothing(t) \/ WillWake(OtherEnd(t))

SleepInv == IInv /\ CallInv /\ ListInv /\ LeftInv /\ ReasonInv

LEMMA ListTasks == SleepInv => waitr \subseteq Tasks /\ waitw \subseteq Tasks
BY DEF SleepInv, IInv, TypeOK

LEMMA InitSleep == Init => CallInv /\ ListInv /\ LeftInv /\ ReasonInv
BY DEF Init, CallInv, ListInv, LeftInv, ReasonInv

(* A task that leaves its loop found nothing, or has done enough.          *)
LEMMA UnlockLeft ==
  ASSUME IInv, CallInv, NEW t \in Tasks, Unlock(t)
  PROVE  Enough(t) \/ Nothing(t)
<1>1. /\ pc[t] = "loop"
      /\ done[t] >= want[t] \/ IF op[t] = "read" THEN Unread = 0 ELSE Available = 0
  BY DEF Unlock, Goto
<1>2. want[t] > 0 /\ want[t] \in Nat /\ done[t] \in Nat
  BY <1>1 DEF CallInv, IInv, TypeOK
<1>. QED  BY <1>1, <1>2 DEF Enough, Nothing

(* The steps that leave the pointers, the calls, the lists and cut alone,  *)
(* and take t from one place to another where nobody sleeps.               *)
LEMMA PlainStep ==
  ASSUME SleepInv, NEW t \in Tasks, NEW from, NEW to, Goto(t, from, to),
         UNCHANGED <<ring, call, waitr, waitw>>,
         cut \ {t} \subseteq cut',
         from \notin {"wake", "asleep"}, to \notin {"sleep", "asleep"},
         from \in {"idle", "intr1", "intr2"} => to \in {"intr1", "intr2"},
         from = "loop" => to = "wake",
         to = "wake" => Enough(t) \/ Nothing(t)
  PROVE  CallInv' /\ ListInv' /\ LeftInv' /\ ReasonInv'
<1>0. pc \in [Tasks -> Places] /\ pc[t] = from
  BY DEF SleepInv, IInv, TypeOK, Goto
<1>1. /\ \A x \in Tasks \ {t} : pc'[x] = pc[x]
      /\ pc'[t] = to
  BY <1>0 DEF Goto
<1>2. op' = op /\ want' = want /\ waitr' = waitr /\ waitw' = waitw
  BY DEF call
<1>7. CallInv'
  BY <1>0, <1>1, <1>2 DEF SleepInv, CallInv
<1>8. ListInv'
  BY <1>0, <1>1, <1>2, ListTasks DEF SleepInv, ListInv
<1>3. \A x \in Tasks : Nothing(x)' = Nothing(x) /\ Enough(x)' = Enough(x)
  BY DEF Nothing, Unread, Available, Enough, ring, call
<1>4. LeftInv'
  BY <1>0, <1>1, <1>3 DEF SleepInv, LeftInv
<1>5. \A o : WillWake(o) => WillWake(o)'
  <2>. SUFFICES ASSUME NEW o, NEW x \in Tasks,
                       op[x] = o, pc[x] \in {"loop", "wake"}, done[x] > 0
                PROVE  WillWake(o)'
    BY DEF WillWake
  <2>1. pc'[x] \in {"loop", "wake"} /\ op'[x] = o /\ done'[x] > 0
    BY <1>0, <1>1 DEF call
  <2>. QED  BY <2>1 DEF WillWake
<1>6. ReasonInv'
  <2>. SUFFICES ASSUME NEW x \in Tasks, pc'[x] = "asleep"
                PROVE  x \in cut' \/ Nothing(x)' \/ WillWake(OtherEnd(x))'
    BY DEF ReasonInv
  <2>1. x # t /\ pc[x] = "asleep" /\ OtherEnd(x)' = OtherEnd(x)
    BY <1>0, <1>1 DEF OtherEnd, call
  <2>. QED  BY <1>3, <1>5, <2>1 DEF SleepInv, ReasonInv
<1>. QED  BY <1>4, <1>6, <1>7, <1>8

LEMMA PlainSteps ==
  ASSUME SleepInv, NEW t \in Tasks,
         Lock(t) \/ Unlock(t) \/ Return(t) \/ ClearStop(t) \/ Interrupt(t)
  PROVE  CallInv' /\ ListInv' /\ LeftInv' /\ ReasonInv'
<1>1. CASE Lock(t)
  <2>1. /\ Goto(t, "lock", "loop") /\ cut \ {t} \subseteq cut'
        /\ UNCHANGED <<ring, call, waitr, waitw>>
    BY <1>1 DEF Lock, sleep
  <2>. QED  BY <2>1, PlainStep
<1>2. CASE Unlock(t)
  <2>1. /\ Goto(t, "loop", "wake") /\ cut \ {t} \subseteq cut'
        /\ UNCHANGED <<ring, call, waitr, waitw>>
    BY <1>2 DEF Unlock, sleep
  <2>2. Enough(t) \/ Nothing(t)
    BY <1>2, UnlockLeft DEF SleepInv
  <2>. QED  BY <2>1, <2>2, PlainStep
<1>3. CASE Return(t)
  <2>1. PICK to \in {"stopped", "lock"} : Goto(t, "woken", to)
    BY <1>3 DEF Return
  <2>2. cut \ {t} \subseteq cut' /\ UNCHANGED <<ring, call, waitr, waitw>>
    BY <1>3 DEF Return, sleep
  <2>. QED  BY <2>1, <2>2, PlainStep
<1>4. CASE ClearStop(t)
  <2>1. /\ Goto(t, "stopped", "last") /\ cut \ {t} \subseteq cut'
        /\ UNCHANGED <<ring, call, waitr, waitw>>
    BY <1>4 DEF ClearStop, sleep
  <2>. QED  BY <2>1, PlainStep
<1>5. CASE Interrupt(t)
  <2>1. /\ Goto(t, "idle", "intr1") /\ cut \ {t} \subseteq cut'
        /\ UNCHANGED <<ring, call, waitr, waitw>>
    BY <1>5 DEF Interrupt, sleep
  <2>. QED  BY <2>1, PlainStep
<1>. QED  BY <1>1, <1>2, <1>3, <1>4, <1>5

LEMMA CallsSleep ==
  ASSUME SleepInv, NEW t \in Tasks, Calls(t)
  PROVE  CallInv' /\ ListInv' /\ LeftInv' /\ ReasonInv'
<1>0. PICK n \in Nat \ {0}, o \in {"read", "write"} : Begin(t, o, n)
  BY DEF Calls
<1>1. /\ pc[t] = "idle" /\ pc'[t] = "lock"
      /\ op'[t] = o /\ want'[t] = n
      /\ \A x \in Tasks \ {t} : /\ pc'[x] = pc[x] /\ op'[x] = op[x]
                               /\ want'[x] = want[x] /\ done'[x] = done[x]
      /\ UNCHANGED <<ring, cut, waitr, waitw>>
  BY <1>0 DEF Begin, Goto, SleepInv, IInv, TypeOK, sleep
<1>2. CallInv'
  BY <1>1 DEF SleepInv, CallInv
<1>7. ListInv'
  BY <1>1, ListTasks DEF SleepInv, ListInv
<1>3. \A x \in Tasks \ {t} : Nothing(x)' = Nothing(x) /\ Enough(x)' = Enough(x)
  BY <1>1 DEF Nothing, Unread, Available, Enough, ring
<1>4. LeftInv'
  BY <1>1, <1>3 DEF SleepInv, LeftInv
<1>5. \A e : WillWake(e) => WillWake(e)'
  BY <1>1 DEF WillWake
<1>6. ReasonInv'
  BY <1>1, <1>3, <1>5 DEF SleepInv, ReasonInv, OtherEnd
<1>. QED  BY <1>2, <1>4, <1>6, <1>7

(* A byte that is moved gives the other end something to do, and whoever   *)
(* moved it will tell; who is past his loop is marked.                     *)
LEMMA MoveSleep ==
  ASSUME SleepInv, NEW t \in Tasks, NEW o \in {"read", "write"},
         pc[t] = "loop", op[t] = o, ~Nothing(t),
         done' = [done EXCEPT ![t] = @ + 1],
         cut' = cut \cup Passed(OtherEnd(t)),
         UNCHANGED <<pc, op, want, waitr, waitw>>
  PROVE  CallInv' /\ ListInv' /\ LeftInv' /\ ReasonInv'
<1>0. /\ done \in [Tasks -> Nat]
      /\ done'[t] = done[t] + 1
      /\ \A x \in Tasks \ {t} : done'[x] = done[x]
  BY DEF SleepInv, IInv, TypeOK
<1>1. CallInv' /\ ListInv'
  BY DEF SleepInv, CallInv, ListInv
<1>2. \A x \in Tasks : op[x] = o => ~Nothing(x)
  BY DEF Nothing
<1>3. LeftInv'
  <2>. SUFFICES ASSUME NEW x \in Tasks, pc[x] = "sleep" \/ (pc[x] = "wake" /\ ~Enough(x)')
                PROVE  x \in cut'
    BY DEF LeftInv
  <2>1. x # t /\ op[x] \in {"read", "write"}
    BY DEF SleepInv, CallInv
  <2>2. pc[x] = "sleep" \/ (pc[x] = "wake" /\ ~Enough(x))
    BY <1>0, <2>1 DEF Enough
  <2>3. CASE op[x] = o
    BY <1>2, <2>2, <2>3 DEF SleepInv, LeftInv
  <2>4. CASE op[x] # o
    BY <2>1, <2>2, <2>4 DEF Passed, OtherEnd
  <2>. QED  BY <2>3, <2>4
<1>4. WillWake(o)'
  BY <1>0 DEF WillWake
<1>5. \A e \in {"read", "write"} \ {o} : WillWake(e) => WillWake(e)'
  BY <1>0 DEF WillWake
<1>6. ReasonInv'
  <2>. SUFFICES ASSUME NEW x \in Tasks, pc[x] = "asleep"
                PROVE  x \in cut' \/ WillWake(OtherEnd(x))'
    BY DEF ReasonInv
  <2>1. op[x] \in {"read", "write"}
    BY DEF SleepInv, CallInv
  <2>2. CASE op[x] = o
    <3>1. x \in cut \/ WillWake(OtherEnd(x))
      BY <1>2, <2>2 DEF SleepInv, ReasonInv
    <3>2. OtherEnd(x)' = OtherEnd(x) /\ OtherEnd(x) \in {"read", "write"} \ {o}
      BY <2>2 DEF OtherEnd
    <3>. QED  BY <1>5, <3>1, <3>2
  <2>3. CASE op[x] # o
    <3>1. OtherEnd(x)' = o
      BY <2>1, <2>3 DEF OtherEnd
    <3>. QED  BY <1>4, <3>1
  <2>. QED  BY <2>2, <2>3
<1>. QED  BY <1>1, <1>3, <1>6

LEMMA MovesSleep ==
  ASSUME SleepInv, NEW t \in Tasks, TakeByte(t) \/ \E b \in Bytes : PutByte(t, b)
  PROVE  CallInv' /\ ListInv' /\ LeftInv' /\ ReasonInv'
<1>1. CASE TakeByte(t)
  <2>1. /\ pc[t] = "loop" /\ op[t] = "read" /\ Unread > 0
        /\ done' = [done EXCEPT ![t] = @ + 1]
        /\ cut' = cut \cup Passed("write")
        /\ UNCHANGED <<pc, op, want, waitr, waitw>>
    BY <1>1 DEF TakeByte, sleep
  <2>2. ~Nothing(t) /\ OtherEnd(t) = "write"
    BY <2>1 DEF Nothing, OtherEnd
  <2>. QED  BY <2>1, <2>2, MoveSleep
<1>2. ASSUME NEW b \in Bytes, PutByte(t, b)
      PROVE  CallInv' /\ ListInv' /\ LeftInv' /\ ReasonInv'
  <2>1. /\ pc[t] = "loop" /\ op[t] = "write" /\ Available > 0
        /\ done' = [done EXCEPT ![t] = @ + 1]
        /\ cut' = cut \cup Passed("read")
        /\ UNCHANGED <<pc, op, want, waitr, waitw>>
    BY <1>2 DEF PutByte, sleep
  <2>2. ~Nothing(t) /\ OtherEnd(t) = "read"
    BY <2>1 DEF Nothing, OtherEnd
  <2>. QED  BY <2>1, <2>2, MoveSleep
<1>. QED  BY <1>1, <1>2

LEMMA SleepSleep ==
  ASSUME SleepInv, NEW t \in Tasks, Sleep(t)
  PROVE  CallInv' /\ ListInv' /\ LeftInv' /\ ReasonInv'
<1>1. /\ pc[t] = "sleep" /\ pc'[t] = "asleep"
      /\ \A x \in Tasks \ {t} : pc'[x] = pc[x]
      /\ UNCHANGED <<ring, op, want, done, cut>>
  BY DEF Sleep, Goto, SleepInv, IInv, TypeOK, call
<1>2. CallInv'
  BY <1>1 DEF SleepInv, CallInv
<1>3. op[t] \in {"read", "write"}
  BY <1>1 DEF SleepInv, CallInv
<1>4. ListInv'
  <2>1. IF op[t] = "read" THEN waitr' = waitr \cup {t} /\ UNCHANGED waitw
                          ELSE waitw' = waitw \cup {t} /\ UNCHANGED waitr
    BY DEF Sleep
  <2>. QED  BY <1>1, <1>3, <2>1, ListTasks DEF SleepInv, ListInv
<1>5. \A x \in Tasks : Nothing(x)' = Nothing(x) /\ Enough(x)' = Enough(x)
  BY <1>1 DEF Nothing, Unread, Available, Enough, ring
<1>6. LeftInv'
  BY <1>1, <1>5 DEF SleepInv, LeftInv
<1>7. \A e : WillWake(e) => WillWake(e)'
  BY <1>1 DEF WillWake
<1>8. t \in cut \/ Nothing(t)
  BY <1>1 DEF SleepInv, LeftInv
<1>9. ReasonInv'
  BY <1>1, <1>5, <1>7, <1>8 DEF SleepInv, ReasonInv, OtherEnd
<1>. QED  BY <1>2, <1>4, <1>6, <1>9

(* wakeup_queue of either end, by a task that goes from one place outside  *)
(* the loop to another: whoever sleeps there sleeps no longer.             *)
LEMMA WakeAllPlaces ==
  ASSUME SleepInv, NEW t \in Tasks, NEW from, NEW to, NEW list,
         list = waitr \/ list = waitw, WakeAll(list, from, to, t), from # "asleep"
  PROVE  /\ pc[t] = from /\ pc'[t] = to
         /\ \A x \in Tasks \ {t} : IF x \in list THEN pc[x] = "asleep" /\ pc'[x] = "woken"
                                                 ELSE pc'[x] = pc[x]
         /\ t \notin waitr /\ t \notin waitw
BY ListTasks DEF SleepInv, ListInv, WakeAll

LEMMA WakeSleep ==
  ASSUME SleepInv, NEW t \in Tasks, Wake(t)
  PROVE  CallInv' /\ ListInv' /\ LeftInv' /\ ReasonInv'
<1>. DEFINE list == IF op[t] = "read" THEN waitw ELSE waitr
            to == IF Enough(t) THEN "last" ELSE "sleep"
<1>0. /\ WakeAll(list, "wake", to, t)
      /\ IF op[t] = "read" THEN waitw' = {} /\ UNCHANGED waitr
                            ELSE waitr' = {} /\ UNCHANGED waitw
      /\ UNCHANGED <<ring, op, want, done, cut>>
  BY DEF Wake, WakeOtherEnd, call
<1>1. /\ pc[t] = "wake" /\ pc'[t] = to
      /\ \A x \in Tasks \ {t} : IF x \in list THEN pc[x] = "asleep" /\ pc'[x] = "woken"
                                              ELSE pc'[x] = pc[x]
      /\ t \notin waitr /\ t \notin waitw
  <2>1. list = waitr \/ list = waitw
    OBVIOUS
  <2>. HIDE DEF list, to
  <2>. QED  BY <1>0, <2>1, WakeAllPlaces
<1>2. op[t] \in {"read", "write"}
  BY <1>1 DEF SleepInv, CallInv
<1>3. CallInv'
  BY <1>0, <1>1, <1>2 DEF SleepInv, CallInv
<1>4. ListInv'
  BY <1>0, <1>1, <1>2, ListTasks DEF SleepInv, ListInv
<1>5. \A x \in Tasks : Nothing(x)' = Nothing(x) /\ Enough(x)' = Enough(x)
  BY <1>0 DEF Nothing, Unread, Available, Enough, ring
<1>6. LeftInv'
  <2>. SUFFICES ASSUME NEW x \in Tasks, pc'[x] = "sleep" \/ (pc'[x] = "wake" /\ ~Enough(x))
                PROVE  x \in cut \/ Nothing(x)
    BY <1>0, <1>5 DEF LeftInv
  <2>1. CASE x = t
    BY <1>1, <2>1 DEF SleepInv, LeftInv
  <2>2. CASE x # t
    <3>1. pc'[x] = pc[x]
      BY <1>1, <2>2
    <3>. QED  BY <3>1 DEF SleepInv, LeftInv
  <2>. QED  BY <2>1, <2>2
<1>7. ReasonInv'
  <2>. SUFFICES ASSUME NEW x \in Tasks, pc'[x] = "asleep"
                PROVE  x \in cut \/ Nothing(x) \/ WillWake(OtherEnd(x))'
    BY <1>0, <1>5 DEF ReasonInv
  <2>1. x # t /\ pc[x] = "asleep" /\ x \notin list
    BY <1>1
  <2>2. op[x] = op[t] /\ OtherEnd(x)' = OtherEnd(x) /\ OtherEnd(x) # op[t]
    BY <1>0, <1>2, <2>1 DEF SleepInv, ListInv, CallInv, OtherEnd
  <2>3. WillWake(OtherEnd(x)) => WillWake(OtherEnd(x))'
    <3>. SUFFICES ASSUME NEW y \in Tasks, op[y] = OtherEnd(x), pc[y] \in {"loop", "wake"},
                         done[y] > 0
                  PROVE  WillWake(OtherEnd(x))'
      BY DEF WillWake
    <3>1. y # t
      BY <2>2
    <3>2. pc'[y] = pc[y]
      BY <1>1, <3>1
    <3>. QED  BY <1>0, <2>2, <3>2 DEF WillWake
  <2>. QED  BY <2>1, <2>3 DEF SleepInv, ReasonInv
<1>. QED  BY <1>3, <1>4, <1>6, <1>7

(* The wakeup_queue of a call that returns, and of ring_buffer_interrupt:  *)
(* by a task that is not about to wake anybody for the bytes it moved.     *)
LEMMA OthersWoken ==
  ASSUME SleepInv, NEW t \in Tasks, NEW from, NEW to, NEW list,
         list = waitr \/ list = waitw, WakeAll(list, from, to, t),
         from \in {"last", "intr1", "intr2"}, to \in {"idle", "intr2"},
         waitr' = waitr \ list, waitw' = waitw \ list,
         \A x \in Tasks \ {t} : op'[x] = op[x] /\ want'[x] = want[x] /\ done'[x] = done[x],
         UNCHANGED ring, cut \ {t} \subseteq cut'
  PROVE  CallInv' /\ ListInv' /\ LeftInv' /\ ReasonInv'
<1>1. /\ pc[t] = from /\ pc'[t] = to
      /\ \A x \in Tasks \ {t} : IF x \in list THEN pc[x] = "asleep" /\ pc'[x] = "woken"
                                              ELSE pc'[x] = pc[x]
      /\ t \notin waitr /\ t \notin waitw
  BY WakeAllPlaces
<1>2. CallInv'
  BY <1>1 DEF SleepInv, CallInv
<1>3. ListInv'
  BY <1>1, ListTasks DEF SleepInv, ListInv
<1>4. \A x \in Tasks \ {t} : /\ Nothing(x)' = Nothing(x) /\ Enough(x)' = Enough(x)
                            /\ OtherEnd(x)' = OtherEnd(x)
  BY DEF Nothing, Unread, Available, Enough, OtherEnd, ring
<1>5. \A x \in Tasks : pc'[x] \in {"sleep", "wake", "asleep"} => x # t /\ pc[x] = pc'[x]
  BY <1>1
<1>6. LeftInv'
  BY <1>4, <1>5 DEF SleepInv, LeftInv
<1>7. ASSUME NEW e, WillWake(e)  PROVE WillWake(e)'
  <2>1. PICK y \in Tasks : op[y] = e /\ pc[y] \in {"loop", "wake"} /\ done[y] > 0
    BY <1>7 DEF WillWake
  <2>2. y # t
    BY <1>1, <2>1
  <2>3. pc'[y] = pc[y] /\ op'[y] = op[y] /\ done'[y] = done[y]
    BY <1>1, <2>1, <2>2
  <2>. QED  BY <2>1, <2>3 DEF WillWake
<1>8. ReasonInv'
  <2>. SUFFICES ASSUME NEW x \in Tasks, pc'[x] = "asleep"
                PROVE  x \in cut' \/ Nothing(x)' \/ WillWake(OtherEnd(x))'
    BY DEF ReasonInv
  <2>1. x # t /\ pc[x] = "asleep"
    BY <1>5
  <2>2. x \in cut \/ Nothing(x) \/ WillWake(OtherEnd(x))
    BY <2>1 DEF SleepInv, ReasonInv
  <2>3. WillWake(OtherEnd(x)) => WillWake(OtherEnd(x))'
    <3>1. WillWake(OtherEnd(x)) => WillWake(OtherEnd(x)) /\ OtherEnd(x)' = OtherEnd(x)
      BY <1>4, <2>1
    <3>. QED  BY <1>7, <3>1 DEF WillWake
  <2>. QED  BY <1>4, <2>1, <2>2, <2>3
<1>. QED  BY <1>2, <1>3, <1>6, <1>8

LEMMA EndsSleep ==
  ASSUME SleepInv, NEW t \in Tasks,
         Last(t) \/ InterruptReaders(t) \/ InterruptWriters(t)
  PROVE  CallInv' /\ ListInv' /\ LeftInv' /\ ReasonInv'
<1>0. waitr \cap waitw = {}
  BY DEF SleepInv, ListInv
<1>1. CASE Last(t)
  <2>. DEFINE list == IF op[t] = "read" THEN waitw ELSE waitr
  <2>1. /\ WakeAll(list, "last", "idle", t)
        /\ UNCHANGED ring /\ cut' = cut \ {t}
    BY <1>1 DEF Last, WakeOtherEnd
  <2>2. waitr' = waitr \ list /\ waitw' = waitw \ list
    BY <1>0, <1>1 DEF Last, WakeOtherEnd
  <2>3. \A x \in Tasks \ {t} : op'[x] = op[x] /\ want'[x] = want[x] /\ done'[x] = done[x]
    BY <1>1 DEF Last, SleepInv, IInv, TypeOK
  <2>4. list = waitr \/ list = waitw
    OBVIOUS
  <2>. HIDE DEF list
  <2>. QED  BY <2>1, <2>2, <2>3, <2>4, OthersWoken
<1>2. CASE InterruptReaders(t)
  <2>1. /\ WakeAll(waitr, "intr1", "intr2", t)
        /\ UNCHANGED <<ring, op, want, done, cut>>
        /\ waitr' = {} /\ waitw' = waitw
    BY <1>2 DEF InterruptReaders, call
  <2>2. waitr' = waitr \ waitr /\ waitw' = waitw \ waitr
    BY <1>0, <2>1
  <2>. QED  BY <2>1, <2>2, OthersWoken
<1>3. CASE InterruptWriters(t)
  <2>1. /\ WakeAll(waitw, "intr2", "idle", t)
        /\ UNCHANGED <<ring, op, want, done, cut>>
        /\ waitw' = {} /\ waitr' = waitr
    BY <1>3 DEF InterruptWriters, call
  <2>2. waitr' = waitr \ waitw /\ waitw' = waitw \ waitw
    BY <1>0, <2>1
  <2>. QED  BY <2>1, <2>2, OthersWoken
<1>. QED  BY <1>1, <1>2, <1>3

LEMMA NextSleep == SleepInv /\ [RingNext]_vars => SleepInv'
<1>. SUFFICES ASSUME SleepInv, [RingNext]_vars  PROVE SleepInv'
  OBVIOUS
<1>1. IInv'
  BY NextInv DEF SleepInv
<1>. SUFFICES CallInv' /\ ListInv' /\ LeftInv' /\ ReasonInv'
  BY <1>1 DEF SleepInv
<1>2. CASE UNCHANGED vars
  BY <1>2 DEF vars, ring, call, sleep, SleepInv, CallInv, ListInv, LeftInv, ReasonInv, Nothing,
              Unread, Available, Enough, OtherEnd, WillWake
<1>3. ASSUME NEW t \in Tasks, Step(t)
      PROVE  CallInv' /\ ListInv' /\ LeftInv' /\ ReasonInv'
  BY <1>3, PlainSteps, MovesSleep, WakeSleep, SleepSleep, EndsSleep DEF Step
<1>. QED  BY <1>2, <1>3, PlainSteps, CallsSleep DEF RingNext

(* A reader sleeps on an empty buffer, a writer on a full one, or somebody *)
(* of the other end has moved bytes and is still to call wakeup_queue, or  *)
(* the byte came between spin_unlock and sleep_on: there is no other way   *)
(* for ring_buffer_read and ring_buffer_write to sleep for nothing, with   *)
(* any number of tasks at either end, interrupted or not.                  *)
THEOREM SleepersCorrect ==
  (Spec => []SleepersHaveReason) /\ (PipeSpec => []SleepersHaveReason)
<1>1. Init => SleepInv
  BY InitInv, InitSleep DEF SleepInv
<1>2. RingSpec => []SleepInv
  BY <1>1, NextSleep, PTL DEF RingSpec
<1>3. SleepInv => SleepersHaveReason
  BY DEF SleepInv, CallInv, ReasonInv, Nothing, OtherEnd, SleepersHaveReason
<1>. QED  BY <1>2, <1>3, SpecRing, PipeRing, PTL

-----------------------------------------------------------------------------
(* The ring buffer implements the bounded FIFO.                            *)

LEMMA InitImplements == Init => Fifo!Init
<1>. SUFFICES ASSUME Init  PROVE Fifo!Init
  OBVIOUS
<1>1. TypeOK
  BY InitInv DEF IInv
<1>2. Len(Contents) = 0 /\ Contents \in Seq(Bytes \cup {NoByte})
  BY <1>1, ContentsSequence DEF Init, Unread
<1>. QED  BY <1>2 DEF Fifo!Init, Init

(* A step that touches neither the buffer nor the pointers. *)
LEMMA RingKept == UNCHANGED ring => UNCHANGED <<Contents, out>>
BY DEF ring, Contents, Unread, Slot

LEMMA NextImplements ==
  ASSUME IInv, [RingNext]_vars
  PROVE  [Fifo!Next]_<<Contents, out>>
<1>1. TypeOK /\ TypeOK'
  BY NextInv DEF IInv
<1>2. ASSUME NEW t \in Tasks, TakeByte(t)  PROVE Fifo!Next
  BY <1>1, <1>2, TakeRemoves DEF Fifo!Next, Fifo!Get
<1>3. ASSUME NEW t \in Tasks, NEW b \in Bytes, PutByte(t, b)  PROVE Fifo!Next
  <2>1. out' = out
    BY <1>3 DEF PutByte
  <2>. QED  BY <1>1, <1>3, <2>1, PutAppends DEF Fifo!Next, Fifo!Put
<1>4. ASSUME NEW t \in Tasks,
             \/ Lock(t) \/ Unlock(t) \/ Wake(t) \/ Sleep(t) \/ Return(t) \/ ClearStop(t)
             \/ Last(t)
             \/ InterruptReaders(t) \/ InterruptWriters(t) \/ Interrupt(t) \/ Calls(t)
      PROVE  UNCHANGED ring
  BY <1>4 DEF Lock, Unlock, Wake, WakeOtherEnd, Sleep, Return, ClearStop, Last, Calls, Begin,
              InterruptReaders, InterruptWriters, Interrupt
<1>5. CASE UNCHANGED vars
  BY <1>5, RingKept DEF vars
<1>. QED  BY <1>2, <1>3, <1>4, <1>5, RingKept DEF RingNext, Step

(* Every step of the ring buffer is a step of a bounded FIFO or none: no   *)
(* byte is lost, doubled, reordered or overwritten, for every size.        *)
THEOREM RingImplementsFifo ==
  (Spec => ImplementsFifo) /\ (PipeSpec => ImplementsFifo)
<1>1. Init => Fifo!Init
  BY InitImplements
<1>2. IInv /\ [RingNext]_vars => [Fifo!Next]_<<Contents, out>>
  BY NextImplements
<1>3. RingSpec => Fifo!Spec
  BY <1>1, <1>2, Invariance, PTL DEF RingSpec, Fifo!Spec
<1>. QED  BY <1>3, SpecRing, PipeRing, PTL DEF ImplementsFifo
=============================================================================
