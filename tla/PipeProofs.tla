----------------------------- MODULE PipeProofs -----------------------------
(***************************************************************************)
(* Theorems about the pipe of Pipe.tla, for every size, every number of    *)
(* bytes that come in and any number of tasks.                             *)
(***************************************************************************)
EXTENDS Pipe, TLAPS

-----------------------------------------------------------------------------
(* The inductive invariant.                                                *)

(* The places between spin_lock and spin_unlock, in a reader or a handler. *)
Locked == {"test1", "test2", "test3", "incr", "wrap", "unlock"}

(* lock_read guards read_ptr: it is past the end only between the two      *)
(* halves of its increment.                                                *)
ReadLockInv ==
  /\ \A t \in Tasks : pc[t] \in Locked <=> rlock = t
  /\ \A t \in Tasks : pc[t] \in Locked \ {"wrap"} => readp < Size
  /\ \A t \in Tasks : pc[t] = "wrap" => readp = Size
  /\ rlock = None => readp < Size

(* The same of lock_write and write_ptr, for handlers that lost the CPU;   *)
(* whoever is in wait_queue_writers is such a handler, asleep.             *)
WriteLockInv ==
  /\ \A h \in Tasks : frame[h] \in Locked <=> wlock = h
  /\ \A h \in Tasks : frame[h] \in Locked \ {"wrap"} => writep < Size
  /\ \A h \in Tasks : frame[h] = "wrap" => writep = Size
  /\ wlock = None => writep < Size
  /\ \A h \in waitw : frame[h] = "asleep"
  /\ \A h \in Tasks : frame[h] = "none" \/ yielded

LockInv == TypeOK /\ ReadLockInv /\ WriteLockInv

(* Contents without the remainders: the slot of the next byte, how many    *)
(* bytes are unread, and the slot of the i-th of them.                     *)
From == IF readp = Size THEN 0 ELSE readp
Held == IF writep >= From THEN writep - From ELSE (Size - From) + writep
Slot(i) == IF From + i >= Size THEN From + i - Size ELSE From + i

ContentsInv ==
  /\ Held = arrived - taken
  /\ \A i \in 0 .. Held - 1 : buf[Slot(i)] = taken + i + 1

(* A reader that is about to take a byte found one, and no other took it.  *)
FoundInv == \A t \in Tasks : pc[t] \in {"test2", "test3", "incr"} => Held > 0

(* fread is not called for 0 bytes. *)
WantInv == \A t \in Tasks : pc[t] \notin {"idle", "poll2", "poll3"} => want[t] > 0

(* wait_queue_readers holds who has appended its node and was not woken.   *)
WaitInv ==
  /\ \A t \in waitr : pc[t] \in {"out", "asleep"} /\ t \notin queued
  /\ \A t \in queued : pc[t] = "out"
  /\ \A t \in Tasks : pc[t] = "asleep" => t \in waitr
  /\ \A t \in Tasks : pc[t] = "out" => t \in waitr \cup queued

(* A reader found nothing and is on its way to sleep. *)
Looked(t) == \/ pc[t] \in {"unlock", "wake"} /\ got[t] = 0
             \/ pc[t] \in {"enq", "out", "asleep"}

LookedInv == \A t \in Tasks : Looked(t) /\ Held > 0 => t \in cut \cup queued

IInv == /\ LockInv /\ WantInv /\ WaitInv
        /\ ~yielded => ContentsInv /\ FoundInv /\ LookedInv

-----------------------------------------------------------------------------
LEMMA InitLock == Init => LockInv
<1>. SUFFICES ASSUME Init  PROVE LockInv
  OBVIOUS
<1>0. Size \in Nat \ {0, 1} /\ MaxSent \in Nat /\ None \notin Tasks
  BY PipeAssumption
<1>1. buf \in [0 .. Size - 1 -> 0 .. MaxSent] /\ readp = 0 /\ writep = 0 /\ 0 < Size
  BY <1>0 DEF Init
<1>2. \A t \in Tasks : /\ pc[t] = "idle" /\ frame[t] = "none"
                       /\ t # rlock /\ t # wlock
  BY <1>0 DEF Init, All
<1>3. ReadLockInv /\ WriteLockInv
  BY <1>1, <1>2 DEF Init, ReadLockInv, WriteLockInv, Locked
<1>4. InBounds
  BY <1>2 DEF InBounds
<1>5. pc \in [Tasks -> ReadPlaces] /\ frame \in [Tasks -> WritePlaces]
  BY DEF Init, All, ReadPlaces, WritePlaces
<1>6. /\ high \in [Tasks -> BOOLEAN] /\ fhigh \in [Tasks -> BOOLEAN]
      /\ want \in [Tasks -> Nat] /\ got \in [Tasks -> Nat]
      /\ byte \in [Tasks -> 0 .. MaxSent]
  BY <1>0 DEF Init, All
<1>7. TypeOK
  <2>1. /\ readp \in 0 .. Size /\ writep \in 0 .. Size
        /\ rlock \in Tasks \cup {None} /\ wlock \in Tasks \cup {None}
        /\ arrived \in 0 .. MaxSent /\ taken \in Nat
    BY <1>0, <1>1 DEF Init
  <2>2. /\ waitr \subseteq Tasks /\ waitw \subseteq Tasks /\ queued \subseteq Tasks
        /\ cut \subseteq Tasks /\ yielded \in BOOLEAN
    BY Zenon DEF Init
  <2>. QED  BY <1>1, <1>4, <1>5, <1>6, <2>1, <2>2 DEF TypeOK
<1>. QED  BY <1>3, <1>7 DEF LockInv

LEMMA ReadingLock ==
  ASSUME LockInv, NEW t \in Tasks, Reading(t)
  PROVE  LockInv'
<1>0. Size \in Nat \ {0, 1} /\ MaxSent \in Nat /\ None \notin Tasks
  BY PipeAssumption
<1>. USE DEF LockInv, TypeOK, ReadLockInv, WriteLockInv, Locked, ReadPlaces, WritePlaces,
             Inner, Step, rvars, wvars, lists
<1>1. CASE Poll(t)
  BY <1>0, <1>1 DEF Poll, InBounds
<1>2. CASE PollBranch(t)
  BY <1>0, <1>2 DEF PollBranch, InBounds
<1>3. CASE PollRead(t)
  <2>. DEFINE n == Unread(high[t])
  <2>1. PICK m \in Nat : want' = [want EXCEPT ![t] = m]
    <3>1. (IF n < 0 THEN Huge ELSE n) \in Nat
      BY <1>0 DEF Unread, Huge
    <3>. QED  BY <1>3, <3>1 DEF PollRead, Call
  <2>2. PICK p \in {"idle", "lock"} : pc' = [pc EXCEPT ![t] = p]
    BY <1>3 DEF PollRead
  <2>3. /\ pc[t] = "poll3" /\ got' \in [Tasks -> Nat]
        /\ UNCHANGED <<wvars, lists, frame, readp, rlock, taken, high, cut>>
    BY <1>3 DEF PollRead, Call
  <2>4. ReadLockInv'
    BY <2>2, <2>3
  <2>5. WriteLockInv'
    BY <2>3
  <2>6. InBounds'
    BY <2>4, <2>5 DEF ReadLockInv, WriteLockInv, Locked, InBounds
  <2>7. TypeOK'
    BY <2>1, <2>2, <2>3, <2>6
  <2>. QED  BY <2>4, <2>5, <2>7
<1>4. CASE ReadLock(t)
  BY <1>0, <1>4 DEF ReadLock, InBounds
<1>5. CASE ReadTest(t)
  BY <1>0, <1>5 DEF ReadTest, InBounds
<1>6. CASE ReadBranch(t)
  BY <1>0, <1>6 DEF ReadBranch, InBounds
<1>7. CASE ReadDecide(t)
  BY <1>0, <1>7 DEF ReadDecide, Decide, InBounds
<1>8. CASE ReadIncrement(t)
  <2>1. /\ readp < Size /\ rlock = t /\ pc[t] = "incr"
        /\ readp' = readp + 1 /\ readp' \in 0 .. Size
    BY <1>0, <1>8 DEF ReadIncrement
  <2>2. /\ got' \in [Tasks -> Nat] /\ taken' \in Nat
        /\ UNCHANGED <<wvars, lists, frame, rlock, want, high, cut>>
    BY <1>8 DEF ReadIncrement
  <2>3. /\ pc' \in [Tasks -> ReadPlaces]
        /\ \A x \in Tasks : pc'[x] = IF x # t THEN pc[x]
                                 ELSE IF readp + 1 = Size THEN "wrap" ELSE "test1"
    BY <1>8 DEF ReadIncrement
  <2>4. ReadLockInv'
    BY <1>0, <2>1, <2>2, <2>3
  <2>5. WriteLockInv'
    BY <2>2
  <2>6. InBounds'
    BY <2>4, <2>5 DEF ReadLockInv, WriteLockInv, Locked, InBounds
  <2>7. TypeOK'
    BY <2>1, <2>2, <2>3, <2>6
  <2>. QED  BY <2>4, <2>5, <2>7
<1>9. CASE ReadWrap(t)
  BY <1>0, <1>9 DEF ReadWrap, InBounds
<1>10. CASE ReadUnlock(t)
  BY <1>0, <1>10 DEF ReadUnlock, InBounds
<1>11. CASE ReadWake(t)
  BY <1>0, <1>11 DEF ReadWake, ReadReturns, InBounds
<1>12. CASE ReadEnqueue(t)
  BY <1>0, <1>12 DEF ReadEnqueue, InBounds
<1>13. CASE ReadSleep(t)
  BY <1>0, <1>13 DEF ReadSleep, InBounds
<1>. QED  BY <1>1, <1>2, <1>3, <1>4, <1>5, <1>6, <1>7, <1>8, <1>9, <1>10, <1>11, <1>12,
             <1>13 DEF Reading

LEMMA CallingLock ==
  ASSUME LockInv, NEW t \in Tasks, NEW n \in Sizes, Read(t, n)
  PROVE  LockInv'
<1>0. Size \in Nat \ {0, 1} /\ MaxSent \in Nat /\ None \notin Tasks /\ n \in Nat
  BY PipeAssumption
<1>. QED
  BY <1>0 DEF LockInv, TypeOK, ReadLockInv, WriteLockInv, Locked, ReadPlaces, WritePlaces,
              Inner, Step, rvars, wvars, lists, Read, Call, InBounds

(* wakeup_queue moves readers from one place to another, both outside the  *)
(* lock.                                                                   *)
LEMMA WakeReadersLock ==
  ASSUME LockInv, WakeReaders
  PROVE  /\ pc' \in [Tasks -> ReadPlaces] /\ waitr' \subseteq Tasks /\ queued' \subseteq Tasks
         /\ \A t \in Tasks : pc'[t] # pc[t] => pc[t] = "asleep" /\ pc'[t] = "lock"
BY DEF LockInv, TypeOK, WakeReaders, ReadPlaces

LEMMA MissedTasks == Missed \subseteq Tasks
BY DEF Missed

LEMMA IrqLock ==
  ASSUME LockInv, NEW h \in Tasks, Irq(h)
  PROVE  LockInv'
<1>0. Size \in Nat \ {0, 1} /\ MaxSent \in Nat /\ None \notin Tasks
  BY PipeAssumption
<1>1. CASE IrqWrite(h)
  <2>1. /\ pc' \in [Tasks -> ReadPlaces] /\ waitr' \subseteq Tasks /\ queued' \subseteq Tasks
        /\ \A t \in Tasks : pc'[t] # pc[t] => pc[t] = "asleep" /\ pc'[t] = "lock"
    BY <1>1, WakeReadersLock DEF IrqWrite
  <2>2. /\ wlock = None /\ arrived + 1 \in 0 .. MaxSent /\ arrived' = arrived + 1
        /\ buf' = [buf EXCEPT ![writep] = arrived + 1]
        /\ writep' = Advance(writep)
        /\ UNCHANGED <<rvars, wlock, fhigh, high, frame, byte, yielded, waitw>>
    BY <1>0, <1>1 DEF IrqWrite, Puts, Arrives, LockInv, TypeOK
  <2>3. buf' \in [0 .. Size - 1 -> 0 .. MaxSent] /\ writep' \in 0 .. Size - 1
    BY <1>0, <2>2 DEF LockInv, TypeOK, WriteLockInv, Advance
  <2>4. cut' \subseteq Tasks
    BY <1>1, MissedTasks DEF IrqWrite, Puts, LockInv, TypeOK
  <2>5. ReadLockInv'
    BY <2>1, <2>2 DEF LockInv, TypeOK, ReadLockInv, Locked, rvars
  <2>6. WriteLockInv'
    BY <1>0, <2>2, <2>3 DEF LockInv, TypeOK, WriteLockInv, Locked
  <2>7. InBounds'
    BY <2>5, <2>6 DEF ReadLockInv, WriteLockInv, Locked, InBounds
  <2>8. TypeOK'
    BY <1>0, <2>1, <2>2, <2>3, <2>4, <2>7 DEF LockInv, TypeOK, rvars
  <2>. QED  BY <2>5, <2>6, <2>8 DEF LockInv
<1>2. CASE IrqBlocks(h)
  <2>1. /\ pc' \in [Tasks -> ReadPlaces] /\ waitr' \subseteq Tasks /\ queued' \subseteq Tasks
        /\ \A t \in Tasks : pc'[t] # pc[t] => pc[t] = "asleep" /\ pc'[t] = "lock"
    BY <1>2, WakeReadersLock DEF IrqBlocks
  <2>2. /\ arrived + 1 \in 0 .. MaxSent /\ arrived' = arrived + 1 /\ frame[h] = "none"
        /\ byte' = [byte EXCEPT ![h] = arrived + 1]
        /\ frame' = [frame EXCEPT ![h] = "asleep"]
        /\ waitw' = waitw \cup {h}
        /\ yielded' = TRUE
        /\ UNCHANGED <<rvars, wlock, fhigh, high, buf, writep, cut>>
    BY <1>0, <1>2 DEF IrqBlocks, Yields, Arrives, LockInv, TypeOK
  <2>3. /\ byte' \in [Tasks -> 0 .. MaxSent]
        /\ frame' \in [Tasks -> WritePlaces]
    BY <2>2 DEF LockInv, TypeOK, WritePlaces
  <2>5. ReadLockInv'
    BY <2>1, <2>2 DEF LockInv, TypeOK, ReadLockInv, Locked, rvars
  <2>6. WriteLockInv'
    BY <1>0, <2>2, <2>3 DEF LockInv, TypeOK, WriteLockInv, Locked
  <2>7. InBounds'
    BY <2>5, <2>6 DEF ReadLockInv, WriteLockInv, Locked, InBounds
  <2>8. TypeOK'
    BY <1>0, <2>1, <2>2, <2>3, <2>7 DEF LockInv, TypeOK, rvars
  <2>. QED  BY <2>5, <2>6, <2>8 DEF LockInv
<1>3. CASE IrqSpins(h)
  BY <1>0, <1>3 DEF IrqSpins, Yields, Arrives, LockInv, TypeOK, ReadLockInv, WriteLockInv,
                    Locked, ReadPlaces, WritePlaces, lists, rvars, InBounds
<1>. QED  BY <1>1, <1>2, <1>3 DEF Irq

LEMMA FrameLockInv ==
  ASSUME LockInv, NEW h \in Tasks, Frame(h)
  PROVE  LockInv'
<1>0. Size \in Nat \ {0, 1} /\ MaxSent \in Nat /\ None \notin Tasks
  BY PipeAssumption
<1>. USE DEF LockInv, TypeOK, ReadLockInv, WriteLockInv, Locked, ReadPlaces, WritePlaces,
             FrameInner, FrameStep, rvars, lists
<1>1. CASE FrameLock(h)
  BY <1>0, <1>1 DEF FrameLock, InBounds
<1>2. CASE FrameTest(h)
  BY <1>0, <1>2 DEF FrameTest, InBounds
<1>3. CASE FrameBranch(h)
  BY <1>0, <1>3 DEF FrameBranch, InBounds
<1>4. CASE FrameDecide(h)
  BY <1>0, <1>4 DEF FrameDecide, InBounds
<1>5. CASE FrameIncrement(h)
  <2>1. /\ writep < Size /\ wlock = h
        /\ buf' \in [0 .. Size - 1 -> 0 .. MaxSent]
        /\ writep' = writep + 1 /\ writep' \in 0 .. Size
    BY <1>0, <1>5 DEF FrameIncrement
  <2>2. cut' \subseteq Tasks
    BY <1>5, MissedTasks DEF FrameIncrement
  <2>3. /\ byte' \in [Tasks -> 0 .. MaxSent]
        /\ UNCHANGED <<rvars, lists, pc, high, fhigh, wlock, arrived, yielded>>
    BY <1>0, <1>5 DEF FrameIncrement
  <2>4. frame' \in [Tasks -> WritePlaces] /\ frame[h] = "incr"
    BY <1>5 DEF FrameIncrement
  <2>5. \A x \in Tasks : frame'[x] = IF x # h THEN frame[x]
                           ELSE IF writep + 1 = Size THEN "wrap" ELSE "unlock"
    BY <1>5 DEF FrameIncrement
  <2>6. ReadLockInv'
    BY <2>3
  <2>7. WriteLockInv'
    BY <1>0, <2>1, <2>3, <2>4, <2>5
  <2>8. InBounds'
    BY <2>6, <2>7 DEF ReadLockInv, WriteLockInv, Locked, InBounds
  <2>9. TypeOK'
    BY <1>0, <2>1, <2>2, <2>3, <2>4, <2>8
  <2>. QED  BY <2>6, <2>7, <2>9
<1>6. CASE FrameWrap(h)
  BY <1>0, <1>6 DEF FrameWrap, InBounds
<1>7. CASE FrameUnlock(h)
  BY <1>0, <1>7 DEF FrameUnlock, InBounds
<1>8. CASE FrameWake(h)
  <2>1. /\ pc' \in [Tasks -> ReadPlaces] /\ waitr' \subseteq Tasks /\ queued' \subseteq Tasks
        /\ \A t \in Tasks : pc'[t] # pc[t] => pc[t] = "asleep" /\ pc'[t] = "lock"
    BY <1>8, WakeReadersLock DEF FrameWake
  <2>. DEFINE p == IF byte[h] = 0 THEN "none" ELSE "asleep"
  <2>2. /\ frame' = [frame EXCEPT ![h] = p]
        /\ waitw' = IF byte[h] = 0 THEN waitw ELSE waitw \cup {h}
    BY <1>8 DEF FrameWake
  <2>3. frame[h] = "wake" /\ UNCHANGED <<rvars, wvars, high, cut>>
    BY <1>8 DEF FrameWake, wvars
  <2>4. \A x \in Tasks : frame'[x] = IF x = h THEN p ELSE frame[x]
    BY <2>2
  <2>5. ReadLockInv'
    BY <2>1, <2>3
  <2>6. WriteLockInv'
    BY <2>2, <2>3, <2>4 DEF wvars
  <2>7. InBounds'
    BY <2>5, <2>6 DEF ReadLockInv, WriteLockInv, Locked, InBounds
  <2>8. TypeOK'
    BY <1>0, <2>1, <2>2, <2>3, <2>7 DEF wvars
  <2>. QED  BY <2>5, <2>6, <2>8
<1>. QED  BY <1>1, <1>2, <1>3, <1>4, <1>5, <1>6, <1>7, <1>8 DEF Frame

LEMMA NextLock == LockInv /\ [Next]_vars => LockInv'
<1>. SUFFICES ASSUME LockInv, [Next]_vars  PROVE LockInv'
  OBVIOUS
<1>1. CASE UNCHANGED vars
  BY <1>1 DEF vars, rvars, wvars, lists, LockInv, TypeOK, ReadLockInv, WriteLockInv,
              InBounds
<1>2. CASE Next
  BY <1>2, ReadingLock, CallingLock, IrqLock, FrameLockInv DEF Next
<1>. QED  BY <1>1, <1>2

-----------------------------------------------------------------------------
(* What a step does to the bytes.                                          *)

LEMMA Remainders ==
  ASSUME NEW m \in Nat \ {0}, NEW a \in 0 .. m - 1
  PROVE  a % m = a /\ (a + m) % m = a /\ (a - m) % m = a
OBVIOUS

LEMMA HeldType ==
  ASSUME LockInv, ~yielded
  PROVE  /\ Size \in Nat \ {0, 1}
         /\ readp \in 0 .. Size /\ writep \in 0 .. Size - 1
         /\ From \in 0 .. Size - 1 /\ Held \in 0 .. Size - 1
         /\ \A h \in Tasks : frame[h] = "none"
         /\ wlock = None
<1>1. Size \in Nat \ {0, 1}
  BY PipeAssumption
<1>2. \A h \in Tasks : frame[h] = "none"
  BY DEF LockInv, WriteLockInv
<1>3. wlock = None
  BY <1>2 DEF LockInv, TypeOK, WriteLockInv, Locked
<1>4. readp \in 0 .. Size /\ writep \in 0 .. Size - 1
  BY <1>1, <1>3 DEF LockInv, TypeOK, WriteLockInv
<1>5. From \in 0 .. Size - 1
  BY <1>1, <1>4 DEF From
<1>6. Held \in 0 .. Size - 1
  BY <1>1, <1>4, <1>5 DEF Held
<1>. QED  BY <1>1, <1>2, <1>3, <1>4, <1>5, <1>6

(* A pointer at its end or not, the pipe is empty where they are equal.    *)
LEMMA HeldZero ==
  ASSUME LockInv, ~yielded, readp < Size
  PROVE  readp = writep <=> Held = 0
BY HeldType DEF From, Held

LEMMA PutHeld ==
  ASSUME LockInv, ~yielded, NEW h \in Tasks, Puts(h), Free
  PROVE  /\ Held < Size - 1 /\ Held' = Held + 1
         /\ From' = From /\ Slot(Held) = writep
         /\ \A i \in 0 .. Held - 1 : Slot(i) # writep /\ Slot(i) \in 0 .. Size - 1
<1>1. /\ Size \in Nat \ {0, 1}
      /\ readp \in 0 .. Size /\ writep \in 0 .. Size - 1
      /\ From \in 0 .. Size - 1 /\ Held \in 0 .. Size - 1
  BY HeldType
<1>2. readp' = readp /\ writep' = (IF writep + 1 = Size THEN 0 ELSE writep + 1)
  BY DEF Puts, Arrives, Advance, rvars
<1>3. From' = From
  BY <1>2 DEF From
<1>4. Held < Size - 1
  BY <1>1 DEF Free, Available, From, Held
<1>5. Held' = Held + 1
  BY <1>1, <1>2, <1>3, <1>4 DEF Held
<1>6. Slot(Held) = writep
  BY <1>1 DEF Held, Slot
<1>7. \A i \in 0 .. Held - 1 : Slot(i) # writep /\ Slot(i) \in 0 .. Size - 1
  BY <1>1 DEF Held, Slot
<1>. QED  BY <1>3, <1>4, <1>5, <1>6, <1>7

LEMMA TakeHeld ==
  ASSUME LockInv, ~yielded, Held > 0, readp < Size, readp' = readp + 1, writep' = writep
  PROVE  /\ Held' = Held - 1
         /\ \A i \in 0 .. Held - 2 : Slot(i)' = Slot(i + 1)
<1>1. /\ Size \in Nat \ {0, 1}
      /\ readp \in 0 .. Size /\ writep \in 0 .. Size - 1
      /\ From \in 0 .. Size - 1 /\ Held \in 0 .. Size - 1
  BY HeldType
<1>2. From = readp /\ From' = (IF From + 1 = Size THEN 0 ELSE From + 1)
  BY <1>1 DEF From
<1>3. Held' = Held - 1
  BY <1>1, <1>2 DEF Held
<1>4. \A i \in 0 .. Held - 2 : Slot(i)' = Slot(i + 1)
  BY <1>1, <1>2 DEF Slot, Held
<1>. QED  BY <1>3, <1>4

(* The bytes: nothing happens to them in any other step, as long as no     *)
(* handler gives the CPU away.                                             *)
data == <<buf, arrived, taken, From, Held>>

LEMMA OtherData ==
  ASSUME UNCHANGED <<buf, arrived, taken, readp, writep>>
  PROVE  UNCHANGED data /\ \A i : Slot(i)' = Slot(i)
BY DEF data, From, Held, Slot

LEMMA WrapData ==
  ASSUME LockInv, NEW t \in Tasks, ReadWrap(t)
  PROVE  UNCHANGED data /\ \A i : Slot(i)' = Slot(i)
<1>1. /\ readp = Size /\ readp' = 0
      /\ UNCHANGED <<buf, arrived, taken, writep>>
  BY DEF ReadWrap, Inner, Step, wvars, LockInv, ReadLockInv
<1>2. 0 # Size
  BY PipeAssumption
<1>3. From' = From
  BY <1>1, <1>2 DEF From
<1>. QED  BY <1>1, <1>3 DEF data, Held, Slot

(* The step of a reader that only moves on. *)
Quiet(t) ==
  \/ Poll(t) \/ PollBranch(t) \/ PollRead(t) \/ ReadLock(t) \/ ReadTest(t)
  \/ ReadBranch(t) \/ ReadDecide(t) \/ ReadUnlock(t) \/ ReadWake(t)
  \/ ReadEnqueue(t) \/ ReadSleep(t) \/ \E n \in Sizes : Read(t, n)

LEMMA QuietData ==
  ASSUME NEW t \in Tasks, Quiet(t)
  PROVE  UNCHANGED data /\ \A i : Slot(i)' = Slot(i)
<1>1. UNCHANGED <<buf, arrived, taken, readp, writep>>
  BY DEF Quiet, Poll, PollBranch, PollRead, ReadLock, ReadTest, ReadBranch, ReadDecide, Decide,
         ReadUnlock, ReadWake, ReadReturns, ReadEnqueue, ReadSleep, Read, Call, Inner, Step,
         rvars, wvars
<1>. QED  BY <1>1, OtherData

(* The steps there are as long as no handler gives the CPU away. *)
LEMMA StepCases ==
  ASSUME LockInv, [Next]_vars, ~yielded'
  PROVE  /\ ~yielded
         /\ \/ UNCHANGED vars
            \/ \E t \in Tasks : \/ IrqWrite(t) \/ ReadIncrement(t) \/ ReadWrap(t)
                               \/ Quiet(t)
<1>1. CASE UNCHANGED vars
  BY <1>1 DEF vars, wvars
<1>2. ASSUME NEW t \in Tasks, Irq(t)  PROVE IrqWrite(t) /\ ~yielded
  BY <1>2 DEF Irq, IrqWrite, Puts, IrqBlocks, IrqSpins, Yields
<1>3. ASSUME NEW t \in Tasks, Frame(t)  PROVE FALSE
  <2>1. yielded' = yielded /\ frame[t] # "none"
    BY <1>3 DEF Frame, FrameLock, FrameTest, FrameBranch, FrameDecide, FrameIncrement,
                FrameWrap, FrameUnlock, FrameWake, FrameInner, FrameStep
  <2>. QED  BY <2>1 DEF LockInv, WriteLockInv
<1>4. ASSUME NEW t \in Tasks, Reading(t)
      PROVE  /\ Quiet(t) \/ ReadIncrement(t) \/ ReadWrap(t)
             /\ ~yielded
  <2>1. yielded' = yielded
    BY <1>4 DEF Reading, Poll, PollBranch, PollRead, ReadLock, ReadTest, ReadBranch,
                ReadDecide, Decide, ReadIncrement, ReadWrap, ReadUnlock, ReadWake,
                ReadReturns, ReadEnqueue, ReadSleep, Inner, Step, wvars
  <2>. QED  BY <1>4, <2>1 DEF Reading, Quiet
<1>5. ASSUME NEW t \in Tasks, NEW n \in Sizes, Read(t, n)
      PROVE  Quiet(t) /\ ~yielded
  BY <1>5 DEF Quiet, Read, Inner, Step, wvars
<1>. QED  BY <1>1, <1>2, <1>3, <1>4, <1>5 DEF Next

LEMMA ContentsStep ==
  ASSUME LockInv, ContentsInv, FoundInv, [Next]_vars, ~yielded'
  PROVE  ContentsInv'
<1>1. /\ ~yielded
      /\ \/ UNCHANGED vars
         \/ \E t \in Tasks : IrqWrite(t) \/ ReadIncrement(t) \/ ReadWrap(t) \/ Quiet(t)
  BY StepCases
<1>2. /\ Size \in Nat \ {0, 1} /\ readp \in 0 .. Size /\ writep \in 0 .. Size - 1
      /\ From \in 0 .. Size - 1 /\ Held \in 0 .. Size - 1
      /\ arrived \in Nat /\ taken \in Nat
      /\ buf \in [0 .. Size - 1 -> 0 .. MaxSent]
  BY <1>1, HeldType DEF LockInv, TypeOK
<1>3. ASSUME UNCHANGED data, \A i : Slot(i)' = Slot(i)
      PROVE  ContentsInv'
  BY <1>3 DEF ContentsInv, data
<1>4. CASE UNCHANGED vars
  <2>1. UNCHANGED <<buf, arrived, taken, readp, writep>>
    BY <1>4 DEF vars, rvars, wvars
  <2>. QED  BY <2>1, OtherData, <1>3
<1>5. ASSUME NEW t \in Tasks, Quiet(t) \/ ReadWrap(t)  PROVE ContentsInv'
  BY <1>5, <1>3, QuietData, WrapData
<1>6. ASSUME NEW h \in Tasks, IrqWrite(h)  PROVE ContentsInv'
  <2>1. Puts(h) /\ Free
    BY <1>6 DEF IrqWrite
  <2>2. /\ Held < Size - 1 /\ Held' = Held + 1
        /\ From' = From /\ Slot(Held) = writep
        /\ \A i \in 0 .. Held - 1 : Slot(i) # writep /\ Slot(i) \in 0 .. Size - 1
    BY <1>1, <2>1, PutHeld
  <2>3. /\ buf' = [buf EXCEPT ![writep] = arrived + 1]
        /\ arrived' = arrived + 1 /\ taken' = taken
    BY <2>1 DEF Puts, Arrives, rvars
  <2>4. \A i : Slot(i)' = Slot(i)
    BY <2>2 DEF Slot
  <2>5. ASSUME NEW i \in 0 .. Held  PROVE buf'[Slot(i)] = taken + i + 1
    <3>1. CASE i = Held
      <4>1. buf'[writep] = arrived + 1
        BY <1>2, <2>3
      <4>2. arrived + 1 = taken + i + 1
        BY <1>2, <3>1 DEF ContentsInv
      <4>. QED  BY <2>2, <3>1, <4>1, <4>2
    <3>2. CASE i \in 0 .. Held - 1
      <4>1. buf'[Slot(i)] = buf[Slot(i)]
        BY <1>2, <2>2, <2>3, <3>2
      <4>. QED  BY <3>2, <4>1 DEF ContentsInv
    <3>. QED  BY <1>2, <3>1, <3>2
  <2>6. Held' = arrived' - taken'
    BY <1>2, <2>2, <2>3 DEF ContentsInv
  <2>7. Held' - 1 = Held
    BY <1>2, <2>2
  <2>. QED  BY <2>3, <2>4, <2>5, <2>6, <2>7 DEF ContentsInv
<1>7. ASSUME NEW t \in Tasks, ReadIncrement(t)  PROVE ContentsInv'
  <2>1. pc[t] = "incr" /\ readp' = readp + 1 /\ UNCHANGED <<buf, writep, arrived>>
    BY <1>7 DEF ReadIncrement, Inner, Step, wvars
  <2>2. taken' = taken + 1
    BY <1>1, <1>7 DEF ReadIncrement
  <2>3. Held > 0 /\ readp < Size
    BY <2>1 DEF FoundInv, LockInv, ReadLockInv, Locked
  <2>4. /\ Held' = Held - 1
        /\ \A i \in 0 .. Held - 2 : Slot(i)' = Slot(i + 1)
    BY <1>1, <2>1, <2>3, TakeHeld
  <2>5. ASSUME NEW i \in 0 .. Held - 2  PROVE buf'[Slot(i)'] = taken' + i + 1
    <3>1. i + 1 \in 0 .. Held - 1
      BY <1>2
    <3>2. buf[Slot(i + 1)] = taken + (i + 1) + 1
      BY <3>1 DEF ContentsInv
    <3>. QED  BY <1>2, <2>1, <2>2, <2>4, <3>2
  <2>6. Held' = arrived' - taken' /\ Held' - 1 = Held - 2
    BY <1>2, <2>1, <2>2, <2>4 DEF ContentsInv
  <2>. QED  BY <2>5, <2>6 DEF ContentsInv
<1>. QED  BY <1>1, <1>4, <1>5, <1>6, <1>7

(* How the number of unread bytes changes in a step. *)
LEMMA HeldStep ==
  ASSUME LockInv, FoundInv, [Next]_vars, ~yielded'
  PROVE  /\ ~yielded
         /\ Held \in Nat /\ Held' \in Nat
         /\ \/ \E h \in Tasks : IrqWrite(h) /\ Held' = Held + 1
            \/ \E t \in Tasks : ReadIncrement(t) /\ Held' = Held - 1
            \/ Held' = Held /\ UNCHANGED vars
            \/ Held' = Held /\ \E t \in Tasks : Quiet(t) \/ ReadWrap(t)
<1>1. /\ ~yielded
      /\ \/ UNCHANGED vars
         \/ \E t \in Tasks : IrqWrite(t) \/ ReadIncrement(t) \/ ReadWrap(t) \/ Quiet(t)
  BY StepCases
<1>2. Held \in Nat
  BY <1>1, HeldType
<1>3. CASE UNCHANGED vars
  BY <1>1, <1>2, <1>3 DEF vars, rvars, wvars, Held, From
<1>4. ASSUME NEW t \in Tasks, Quiet(t) \/ ReadWrap(t)  PROVE Held' = Held
  BY <1>4, QuietData, WrapData DEF data
<1>5. ASSUME NEW h \in Tasks, IrqWrite(h)  PROVE Held' = Held + 1
  BY <1>1, <1>5, PutHeld DEF IrqWrite
<1>6. ASSUME NEW t \in Tasks, ReadIncrement(t)  PROVE Held > 0 /\ Held' = Held - 1
  <2>1. pc[t] = "incr" /\ readp' = readp + 1 /\ UNCHANGED writep
    BY <1>6 DEF ReadIncrement, Inner, Step, wvars
  <2>2. Held > 0 /\ readp < Size
    BY <2>1 DEF FoundInv, LockInv, ReadLockInv, Locked
  <2>. QED  BY <1>1, <2>1, <2>2, TakeHeld
<1>. QED  BY <1>1, <1>2, <1>3, <1>4, <1>5, <1>6

-----------------------------------------------------------------------------
(* Where the tasks are.                                                    *)

(* What a step of task t does to the places: only its own changes, and     *)
(* only as the code goes on.                                               *)
LEMMA QuietPlaces ==
  ASSUME LockInv, NEW t \in Tasks, Quiet(t) \/ ReadIncrement(t) \/ ReadWrap(t)
  PROVE  /\ \A u \in Tasks \ {t} : pc'[u] = pc[u] /\ got'[u] = got[u] /\ want'[u] = want[u]
         /\ pc'[t] \in {"test2", "test3", "incr"} =>
              \/ pc[t] = "test1" /\ readp # writep
              \/ pc[t] \in {"test2", "test3"}
         /\ pc'[t] # "asleep" \/ t \notin queued
<1>. USE DEF LockInv, TypeOK, Inner, Step
<1>1. CASE Poll(t) \/ PollBranch(t) \/ PollRead(t) \/ \E n \in Sizes : Read(t, n)
  BY <1>1 DEF Poll, PollBranch, PollRead, Read, Call, rvars
<1>2. CASE ReadLock(t) \/ ReadTest(t) \/ ReadBranch(t) \/ ReadDecide(t)
  BY <1>2 DEF ReadLock, ReadTest, ReadBranch, ReadDecide, Decide, rvars
<1>3. CASE ReadIncrement(t) \/ ReadWrap(t) \/ ReadUnlock(t)
  BY <1>3 DEF ReadIncrement, ReadWrap, ReadUnlock
<1>4. CASE ReadWake(t)
  BY <1>4 DEF ReadWake, ReadReturns
<1>5. CASE ReadEnqueue(t) \/ ReadSleep(t)
  BY <1>5 DEF ReadEnqueue, ReadSleep, rvars
<1>. QED  BY <1>1, <1>2, <1>3, <1>4, <1>5 DEF Quiet

LEMMA FoundStep ==
  ASSUME LockInv, FoundInv, [Next]_vars, ~yielded'
  PROVE  FoundInv'
<1>1. /\ ~yielded
      /\ Held \in Nat /\ Held' \in Nat
      /\ \/ \E h \in Tasks : IrqWrite(h) /\ Held' = Held + 1
         \/ \E t \in Tasks : ReadIncrement(t) /\ Held' = Held - 1
         \/ Held' = Held /\ UNCHANGED vars
         \/ Held' = Held /\ \E t \in Tasks : Quiet(t) \/ ReadWrap(t)
  BY HeldStep
<1>2. ASSUME NEW h \in Tasks, IrqWrite(h), Held' = Held + 1  PROVE FoundInv'
  BY <1>1, <1>2 DEF FoundInv
<1>3. ASSUME NEW t \in Tasks, ReadIncrement(t)  PROVE FoundInv'
  <2>1. \A u \in Tasks \ {t} : pc'[u] = pc[u]
    BY <1>3, QuietPlaces
  <2>2. pc[t] = "incr" /\ pc'[t] \in {"wrap", "test1"} /\ rlock = t
    BY <1>3 DEF ReadIncrement, Inner, Step, LockInv, TypeOK, ReadLockInv, Locked
  <2>3. \A u \in Tasks \ {t} : pc[u] \notin Locked
    BY <2>2 DEF LockInv, ReadLockInv
  <2>. QED  BY <2>1, <2>2, <2>3 DEF FoundInv, Locked
<1>4. CASE UNCHANGED vars /\ Held' = Held
  BY <1>4 DEF vars, FoundInv
<1>5. ASSUME NEW t \in Tasks, Quiet(t) \/ ReadWrap(t), Held' = Held  PROVE FoundInv'
  <2>1. /\ \A u \in Tasks \ {t} : pc'[u] = pc[u]
        /\ pc'[t] \in {"test2", "test3", "incr"} =>
              \/ pc[t] = "test1" /\ readp # writep
              \/ pc[t] \in {"test2", "test3"}
    BY <1>5, QuietPlaces
  <2>2. ASSUME pc[t] = "test1", readp # writep  PROVE Held > 0
    <3>1. readp < Size
      BY <2>2 DEF LockInv, ReadLockInv, Locked
    <3>. QED  BY <1>1, <2>2, <3>1, HeldZero
  <2>. QED  BY <1>5, <2>1, <2>2 DEF FoundInv
<1>. QED  BY <1>1, <1>2, <1>3, <1>4, <1>5

(* An interrupt or the rest of one: the readers are woken, or all keeps.   *)
LEMMA HandlerPlaces ==
  ASSUME LockInv, NEW h \in Tasks, Irq(h) \/ Frame(h)
  PROVE  /\ WakeReaders \/ UNCHANGED <<pc, waitr, queued>>
         /\ UNCHANGED <<want, got>>
<1>1. CASE Irq(h)
  BY <1>1 DEF Irq, IrqWrite, Puts, IrqBlocks, IrqSpins, Yields, Arrives, lists, rvars
<1>2. CASE Frame(h)
  BY <1>2 DEF Frame, FrameLock, FrameTest, FrameBranch, FrameDecide, FrameIncrement,
              FrameWrap, FrameUnlock, FrameWake, FrameInner, FrameStep, lists, rvars
<1>. QED  BY <1>1, <1>2

LEMMA NextCases ==
  ASSUME LockInv, [Next]_vars
  PROVE  \/ (WakeReaders \/ UNCHANGED <<pc, waitr, queued>>) /\ UNCHANGED <<want, got>>
         \/ \E t \in Tasks : Quiet(t) \/ ReadIncrement(t) \/ ReadWrap(t)
<1>1. CASE UNCHANGED vars
  BY <1>1 DEF vars, rvars, lists
<1>2. CASE Next
  BY <1>2, HandlerPlaces DEF Next, Reading, Quiet
<1>. QED  BY <1>1, <1>2

LEMMA WantStep ==
  ASSUME LockInv, WantInv, [Next]_vars
  PROVE  WantInv'
<1>0. /\ pc \in [Tasks -> ReadPlaces] /\ want \in [Tasks -> Nat]
      /\ readp \in Int /\ writep \in Int
      /\ Size \in Nat \ {0, 1} /\ MaxSent \in Nat /\ Sizes \subseteq Nat \ {0}
  BY PipeAssumption DEF LockInv, TypeOK
<1>1. CASE WakeReaders /\ UNCHANGED want
  BY <1>0, <1>1, WakeReadersLock DEF WantInv
<1>2. CASE UNCHANGED <<pc, want>>
  BY <1>2 DEF WantInv
<1>3. ASSUME NEW t \in Tasks, Quiet(t) \/ ReadIncrement(t) \/ ReadWrap(t)
      PROVE  WantInv'
  <2>1. \A u \in Tasks \ {t} : pc'[u] = pc[u] /\ want'[u] = want[u]
    BY <1>3, QuietPlaces
  <2>. SUFFICES pc'[t] \notin {"idle", "poll2", "poll3"} => want'[t] > 0
    BY <2>1 DEF WantInv
  <2>2. CASE Poll(t) \/ PollBranch(t)
    BY <1>0, <2>2 DEF Poll, PollBranch, Inner, Step
  <2>3. CASE PollRead(t)
    <3>. DEFINE n == Unread(high[t])
    <3>1. CASE n = 0
      BY <1>0, <2>3, <3>1 DEF PollRead, Inner, Step
    <3>2. CASE n # 0
      <4>1. (IF n < 0 THEN Huge ELSE n) > 0
        BY <1>0, <3>2 DEF Unread, Huge
      <4>. QED  BY <1>0, <2>3, <4>1 DEF PollRead, Call
    <3>. QED  BY <3>1, <3>2
  <2>4. ASSUME NEW n \in Sizes, Read(t, n)  PROVE want'[t] > 0
    BY <1>0, <2>4 DEF Read, Call
  <2>5. CASE ReadWake(t)
    BY <1>0, <2>5 DEF ReadWake, ReadReturns, Step, WantInv
  <2>6. CASE \/ ReadLock(t) \/ ReadTest(t) \/ ReadBranch(t) \/ ReadDecide(t) \/ ReadUnlock(t)
             \/ ReadEnqueue(t) \/ ReadSleep(t) \/ ReadIncrement(t) \/ ReadWrap(t)
    <3>1. want' = want
      BY <2>6 DEF ReadLock, ReadTest, ReadBranch, ReadDecide, Decide, ReadUnlock, ReadEnqueue,
                  ReadSleep, ReadIncrement, ReadWrap, rvars
    <3>2. pc[t] \notin {"idle", "poll2", "poll3"}
      BY <2>6 DEF ReadLock, ReadTest, ReadBranch, ReadDecide, Decide, ReadUnlock, ReadEnqueue,
                  ReadSleep, ReadIncrement, ReadWrap, Inner, Step
    <3>. QED  BY <3>1, <3>2 DEF WantInv
  <2>. QED  BY <1>3, <2>2, <2>3, <2>4, <2>5, <2>6 DEF Quiet
<1>. QED  BY <1>1, <1>2, <1>3, NextCases

LEMMA WaitStep ==
  ASSUME LockInv, WaitInv, [Next]_vars
  PROVE  WaitInv'
<1>0. /\ pc \in [Tasks -> ReadPlaces] /\ waitr \subseteq Tasks /\ queued \subseteq Tasks
  BY DEF LockInv, TypeOK
<1>1. CASE WakeReaders
  <2>1. /\ waitr' = {}
        /\ queued' = queued \cup {t \in waitr : pc[t] = "out"}
        /\ \A t \in Tasks : pc'[t] = IF t \in waitr /\ pc[t] = "asleep" THEN "lock" ELSE pc[t]
    BY <1>1 DEF WakeReaders
  <2>. QED  BY <1>0, <2>1 DEF WaitInv
<1>2. CASE UNCHANGED <<pc, waitr, queued>>
  BY <1>2 DEF WaitInv
<1>3. ASSUME NEW t \in Tasks, Quiet(t) \/ ReadIncrement(t) \/ ReadWrap(t)
      PROVE  WaitInv'
  <2>0. \A u \in Tasks \ {t} : pc'[u] = pc[u]
    BY <1>3, QuietPlaces
  <2>1. CASE ReadEnqueue(t)
    BY <1>0, <2>0, <2>1 DEF ReadEnqueue, Step, WaitInv
  <2>2. CASE ReadSleep(t)
    <3>1. /\ pc[t] = "out" /\ waitr' = waitr /\ queued' = queued \ {t}
          /\ pc'[t] = IF t \in queued THEN "lock" ELSE "asleep"
      BY <1>0, <2>2 DEF ReadSleep, Step
    <3>. QED  BY <1>0, <2>0, <3>1 DEF WaitInv
  <2>3. CASE \/ Poll(t) \/ PollBranch(t) \/ PollRead(t) \/ ReadLock(t) \/ ReadTest(t)
             \/ ReadBranch(t) \/ ReadDecide(t) \/ ReadUnlock(t) \/ ReadWake(t)
             \/ ReadIncrement(t) \/ ReadWrap(t) \/ \E n \in Sizes : Read(t, n)
    <3>1. /\ UNCHANGED <<waitr, queued>>
          /\ pc[t] \notin {"out", "asleep"} /\ pc'[t] \notin {"out", "asleep"}
      BY <1>0, <2>3 DEF Poll, PollBranch, PollRead, ReadLock, ReadTest, ReadBranch, ReadDecide,
                  Decide, ReadUnlock, ReadWake, ReadReturns, ReadIncrement, ReadWrap, Read,
                  Inner, Step, lists
    <3>. QED  BY <1>0, <2>0, <3>1 DEF WaitInv
  <2>. QED  BY <1>3, <2>1, <2>2, <2>3 DEF Quiet
<1>. QED  BY <1>1, <1>2, <1>3, NextCases

(* A reader that comes to believe that the pipe is empty is right then.    *)
LEMMA LooksOnce ==
  ASSUME LockInv, WantInv, FoundInv, ~yielded,
         NEW t \in Tasks, Quiet(t) \/ ReadIncrement(t) \/ ReadWrap(t), Looked(t)'
  PROVE  /\ Looked(t) \/ Held = 0
         /\ t \in cut => t \in cut'
         /\ t \in queued => t \in queued'
<1>0. /\ pc \in [Tasks -> ReadPlaces] /\ got \in [Tasks -> Nat] /\ want \in [Tasks -> Nat]
      /\ Size \in Nat \ {0, 1} /\ readp \in 0 .. Size /\ writep \in 0 .. Size - 1
  BY HeldType DEF LockInv, TypeOK
<1>1. CASE \/ Poll(t) \/ PollBranch(t) \/ PollRead(t) \/ ReadLock(t)
           \/ ReadBranch(t) \/ ReadIncrement(t) \/ ReadWrap(t) \/ \E n \in Sizes : Read(t, n)
  <2>1. pc'[t] \in {"idle", "poll2", "poll3", "lock", "test1", "test3", "wrap"}
    BY <1>0, <1>1 DEF Poll, PollBranch, PollRead, ReadLock, ReadBranch, ReadIncrement, ReadWrap,
                Read, Inner, Step
  <2>. QED  BY <2>1 DEF Looked
<1>2. CASE ReadTest(t)
  <2>1. pc[t] = "test1" /\ UNCHANGED <<cut, queued>>
    BY <1>2 DEF ReadTest, Inner, Step, lists
  <2>2. readp < Size
    BY <2>1 DEF LockInv, ReadLockInv, Locked
  <2>3. readp = writep
    BY <1>0, <1>2 DEF ReadTest, Inner, Step, Looked
  <2>. QED  BY <2>1, <2>2, <2>3, HeldZero
<1>3. CASE ReadDecide(t)
  <2>1. /\ pc[t] = "test3" /\ UNCHANGED <<cut, queued, got>>
        /\ pc'[t] = IF Unread(high[t]) # 0 /\ got[t] < want[t] THEN "incr" ELSE "unlock"
    BY <1>0, <1>3 DEF ReadDecide, Decide, Inner, Step, lists, rvars
  <2>2. got[t] = 0 /\ pc'[t] = "unlock"
    BY <2>1 DEF Looked
  <2>3. want[t] > 0 /\ readp < Size /\ Held > 0
    BY <2>1 DEF WantInv, FoundInv, LockInv, ReadLockInv, Locked
  <2>4. readp # writep
    BY <2>3, HeldZero
  <2>5. Unread(high[t]) # 0
    BY <1>0, <2>3, <2>4 DEF Unread
  <2>. QED  BY <2>1, <2>2, <2>3, <2>5
<1>4. CASE ReadUnlock(t)
  BY <1>0, <1>4 DEF ReadUnlock, Inner, Step, lists, Looked
<1>5. CASE ReadWake(t)
  BY <1>0, <1>5 DEF ReadWake, ReadReturns, Step, Looked
<1>6. CASE ReadEnqueue(t)
  BY <1>0, <1>6 DEF ReadEnqueue, Step, Looked, rvars
<1>7. CASE ReadSleep(t)
  <2>1. pc[t] = "out" /\ (t \in queued => pc'[t] = "lock") /\ UNCHANGED cut
    BY <1>0, <1>7 DEF ReadSleep, Step
  <2>. QED  BY <2>1 DEF Looked
<1>. QED  BY <1>1, <1>2, <1>3, <1>4, <1>5, <1>6, <1>7 DEF Quiet

(* No step takes another task out of these sets. *)
LEMMA MarksKept ==
  ASSUME NEW t \in Tasks, Quiet(t) \/ ReadIncrement(t) \/ ReadWrap(t)
  PROVE  cut \ {t} \subseteq cut' /\ queued \ {t} \subseteq queued'
BY DEF Quiet, Poll, PollBranch, PollRead, ReadLock, ReadTest, ReadBranch, ReadDecide, Decide,
       ReadIncrement, ReadWrap, ReadUnlock, ReadWake, ReadReturns, ReadEnqueue, ReadSleep,
       Read, Call, Inner, lists

LEMMA LookedStep ==
  ASSUME LockInv, WantInv, WaitInv, FoundInv, LookedInv, [Next]_vars, ~yielded'
  PROVE  LookedInv'
<1>1. /\ ~yielded
      /\ Held \in Nat /\ Held' \in Nat
      /\ \/ \E h \in Tasks : IrqWrite(h) /\ Held' = Held + 1
         \/ \E t \in Tasks : ReadIncrement(t) /\ Held' = Held - 1
         \/ Held' = Held /\ UNCHANGED vars
         \/ Held' = Held /\ \E t \in Tasks : Quiet(t) \/ ReadWrap(t)
  BY HeldStep
<1>2. CASE UNCHANGED vars /\ Held' = Held
  BY <1>2 DEF vars, rvars, lists, LookedInv, Looked
<1>3. ASSUME NEW t \in Tasks, Quiet(t) \/ ReadIncrement(t) \/ ReadWrap(t),
             Held' > 0 => Held > 0,
             NEW u \in Tasks, Looked(u)', Held' > 0
      PROVE  u \in cut' \cup queued'
  <2>1. CASE u = t
    <3>1. /\ Looked(t) \/ Held = 0
          /\ t \in cut => t \in cut'
          /\ t \in queued => t \in queued'
      BY <1>1, <1>3, <2>1, LooksOnce
    <3>. QED  BY <1>1, <1>3, <2>1, <3>1 DEF LookedInv
  <2>2. CASE u # t
    <3>1. pc'[u] = pc[u] /\ got'[u] = got[u]
      BY <1>3, <2>2, QuietPlaces
    <3>2. Looked(u)
      BY <1>3, <3>1 DEF Looked
    <3>. QED  BY <1>1, <1>3, <2>2, <3>2, MarksKept DEF LookedInv
  <2>. QED  BY <2>1, <2>2
<1>4. ASSUME NEW h \in Tasks, IrqWrite(h), NEW u \in Tasks, Looked(u)'
      PROVE  u \in cut' \cup queued'
  <2>1. /\ queued' = queued \cup {t \in waitr : pc[t] = "out"}
        /\ pc'[u] = IF u \in waitr /\ pc[u] = "asleep" THEN "lock" ELSE pc[u]
        /\ cut' = cut \cup {t \in Tasks : pc[t] \in {"unlock", "wake", "enq"}}
    BY <1>4 DEF IrqWrite, Puts, WakeReaders, Missed
  <2>2. pc'[u] \in {"unlock", "wake", "enq", "out", "asleep"}
    BY <1>4 DEF Looked
  <2>3. pc[u] = pc'[u] /\ pc[u] # "asleep"
    BY <2>1, <2>2 DEF WaitInv
  <2>. QED  BY <2>1, <2>2, <2>3 DEF WaitInv
<1>5. ASSUME NEW t \in Tasks, ReadIncrement(t), Held' = Held - 1
      PROVE  Held' > 0 => Held > 0
  BY <1>1, <1>5
<1>6. SUFFICES ASSUME NEW u \in Tasks, Looked(u)', Held' > 0
               PROVE  u \in cut' \cup queued'
  BY DEF LookedInv
<1>. QED  BY <1>1, <1>2, <1>3, <1>4, <1>5, <1>6 DEF LookedInv

-----------------------------------------------------------------------------
(* The theorems.                                                           *)

LEMMA InitInv == Init => IInv
<1>. SUFFICES ASSUME Init  PROVE IInv
  OBVIOUS
<1>1. Size \in Nat \ {0, 1}
  BY PipeAssumption
<1>2. readp = 0 /\ writep = 0 /\ arrived = 0 /\ taken = 0 /\ waitr = {} /\ queued = {}
  BY DEF Init
<1>3. \A t \in Tasks : pc[t] = "idle"
  BY DEF Init, All
<1>4. From = 0 /\ Held = 0
  BY <1>1, <1>2 DEF From, Held
<1>5. ContentsInv /\ FoundInv /\ LookedInv
  BY <1>2, <1>3, <1>4 DEF ContentsInv, FoundInv, LookedInv
<1>6. WantInv /\ WaitInv
  BY <1>2, <1>3 DEF WantInv, WaitInv
<1>. QED  BY <1>5, <1>6, InitLock DEF IInv

LEMMA NextInv == IInv /\ [Next]_vars => IInv'
<1>. SUFFICES ASSUME IInv, [Next]_vars  PROVE IInv'
  OBVIOUS
<1>1. LockInv' /\ WantInv' /\ WaitInv'
  BY NextLock, WantStep, WaitStep DEF IInv
<1>2. ASSUME ~yielded'  PROVE ContentsInv' /\ FoundInv' /\ LookedInv'
  <2>1. ~yielded
    BY <1>2, StepCases DEF IInv
  <2>. QED  BY <1>2, <2>1, ContentsStep, FoundStep, LookedStep DEF IInv
<1>. QED  BY <1>1, <1>2 DEF IInv

LEMMA Invariance == Spec => []IInv
<1>1. Init => IInv
  BY InitInv
<1>2. IInv /\ [Next]_vars => IInv'
  BY NextInv
<1>. QED  BY <1>1, <1>2, PTL DEF Spec

(* The indices with which read_pipe and write_pipe load and store a byte   *)
(* stay inside the buffer, also after handlers gave the CPU away in the    *)
(* middle of write_pipe.                                                   *)
THEOREM TypeCorrect == Spec => []TypeOK
<1>1. IInv => TypeOK
  BY DEF IInv, LockInv
<1>. QED  BY <1>1, Invariance, PTL

LEMMA ContentsHeld ==
  ASSUME LockInv, ~yielded
  PROVE  Contents = [i \in 1 .. Held |-> buf[Slot(i - 1)]]
<1>1. /\ Size \in Nat \ {0, 1}
      /\ readp \in 0 .. Size /\ writep \in 0 .. Size - 1
      /\ From \in 0 .. Size - 1 /\ Held \in 0 .. Size - 1
  BY HeldType
<1>2. readp % Size = From
  <2>1. CASE readp = Size
    BY <1>1, <2>1, Remainders, 0 + Size = Size DEF From
  <2>2. CASE readp # Size
    BY <1>1, <2>2, Remainders DEF From
  <2>. QED  BY <2>1, <2>2
<1>3. (writep - readp) % Size = Held
  <2>1. PICK d \in Int : d = writep - readp
    BY <1>1
  <2>2. d = Held \/ d = Held - Size
    BY <1>1, <2>1 DEF Held, From
  <2>. QED  BY <1>1, <2>1, <2>2, Remainders
<1>4. ASSUME NEW i \in 1 .. Held  PROVE (From + i - 1) % Size = Slot(i - 1)
  <2>1. PICK d \in Nat : d = From + i - 1
    BY <1>1
  <2>2. /\ Slot(i - 1) \in 0 .. Size - 1
        /\ d = Slot(i - 1) \/ d = Slot(i - 1) + Size
    BY <1>1, <2>1 DEF Slot
  <2>. QED  BY <1>1, <2>1, <2>2, Remainders
<1>. QED  BY <1>2, <1>3, <1>4 DEF Contents

(* Without a lock that covers both ends, and with the pointers loaded one  *)
(* at a time, the readers get every byte once and in order, as long as no  *)
(* handler had to give the CPU away.                                       *)
THEOREM FifoCorrect == Spec => []FifoUntilYield
<1>1. ASSUME IInv  PROVE FifoUntilYield
  <2>. SUFFICES ASSUME ~yielded
                PROVE  Contents = [i \in 1 .. arrived - taken |-> taken + i]
    BY DEF FifoUntilYield
  <2>1. LockInv /\ ContentsInv
    BY <1>1 DEF IInv
  <2>2. taken \in Nat /\ Held \in Nat
    BY <2>1, HeldType DEF LockInv, TypeOK
  <2>3. ASSUME NEW i \in 1 .. Held  PROVE buf[Slot(i - 1)] = taken + i
    <3>1. i - 1 \in 0 .. Held - 1
      BY <2>2
    <3>2. buf[Slot(i - 1)] = taken + (i - 1) + 1
      BY <2>1, <3>1 DEF ContentsInv
    <3>. QED  BY <2>2, <3>2
  <2>4. Held = arrived - taken
    BY <2>1 DEF ContentsInv
  <2>. QED  BY <2>1, <2>3, <2>4, ContentsHeld
<1>. QED  BY <1>1, Invariance, PTL

(* A task sleeps on a pipe with bytes in it only if one of them came after *)
(* its last look: the lost wakeup of fread has no other cause.             *)
THEOREM SleeperCorrect == Spec => []SleeperMissedByte
<1>1. ASSUME IInv  PROVE SleeperMissedByte
  <2>. SUFFICES ASSUME NEW t \in Tasks, pc[t] = "asleep", Contents # <<>>, ~yielded
                PROVE  t \in cut
    BY DEF SleeperMissedByte
  <2>1. LockInv /\ WaitInv /\ LookedInv
    BY <1>1 DEF IInv
  <2>2. Held \in Nat /\ Contents = [i \in 1 .. Held |-> buf[Slot(i - 1)]]
    BY <2>1, HeldType, ContentsHeld
  <2>3. Held > 0
    <3>1. CASE Held = 0
      BY <2>2, <3>1
    <3>. QED  BY <2>2, <3>1
  <2>4. t \notin queued
    BY <2>1 DEF WaitInv
  <2>. QED  BY <2>1, <2>3, <2>4 DEF LookedInv, Looked
<1>. QED  BY <1>1, Invariance, PTL

-----------------------------------------------------------------------------
(* kinit is the only task that reads the pipe of the serial port: nobody   *)
(* takes the bytes pipe_size told it of.                                   *)
OneReader(p) == Pollers = {p} /\ Readers = {}

AloneInv(p) ==
  /\ \A t \in Tasks \ {p} : pc[t] = "idle"
  /\ pc[p] \in {"wrap", "unlock", "wake"} => got[p] > 0
  /\ pc[p] \notin {"enq", "out", "asleep"}
  /\ \/ pc[p] \in {"poll2", "poll3", "lock"}
     \/ pc[p] = "test1" /\ got[p] = 0
     => Held > 0

LEMMA AloneQuiet ==
  ASSUME NEW p \in Tasks, OneReader(p), IInv, ~yielded, AloneInv(p), Held' = Held,
         NEW t \in Tasks, Quiet(t) \/ ReadWrap(t)
  PROVE  AloneInv(p)'
<1>0. /\ pc \in [Tasks -> ReadPlaces] /\ got \in [Tasks -> Nat] /\ want \in [Tasks -> Nat]
      /\ Size \in Nat \ {0, 1} /\ readp \in 0 .. Size /\ writep \in 0 .. Size - 1
      /\ Held \in 0 .. Size - 1
  BY HeldType DEF IInv, LockInv, TypeOK
<1>1. t = p
  <2>1. CASE pc[t] = "idle"
    <3>1. Poll(t) \/ \E n \in Sizes : Read(t, n)
      BY <2>1 DEF Quiet, Poll, PollBranch, PollRead, ReadLock, ReadTest, ReadBranch, ReadDecide,
                  Decide, ReadWrap, ReadUnlock, ReadWake, ReadReturns, ReadEnqueue, ReadSleep,
                  Inner, Step
    <3>. QED  BY <3>1 DEF OneReader, Poll, Read
  <2>2. CASE pc[t] # "idle"
    BY <2>2 DEF AloneInv
  <2>. QED  BY <2>1, <2>2
<1>2. \A u \in Tasks \ {p} : pc'[u] = "idle"
  BY <1>1, QuietPlaces DEF AloneInv, IInv
<1>3. CASE Poll(t)
  <2>1. pc'[p] = "poll2" /\ readp # writep /\ pc[p] = "idle"
    BY <1>0, <1>1, <1>3 DEF Poll, Inner, Step
  <2>2. \A u \in Tasks : pc[u] \notin Locked
    BY <2>1 DEF AloneInv, Locked
  <2>3. readp < Size
    BY <2>2, PipeAssumption DEF IInv, LockInv, TypeOK, ReadLockInv
  <2>4. Held > 0
    BY <1>0, <2>1, <2>3, HeldZero DEF IInv
  <2>. QED  BY <1>2, <2>1, <2>4 DEF AloneInv
<1>4. CASE PollBranch(t)
  <2>1. pc'[p] = "poll3" /\ pc[p] = "poll2"
    BY <1>0, <1>1, <1>4 DEF PollBranch, Inner, Step
  <2>. QED  BY <1>2, <2>1 DEF AloneInv
<1>5. CASE PollRead(t)
  <2>1. pc'[p] \in {"idle", "lock"} /\ pc[p] = "poll3"
    BY <1>0, <1>1, <1>5 DEF PollRead, Inner, Step
  <2>. QED  BY <1>2, <2>1 DEF AloneInv
<1>6. CASE ReadLock(t)
  <2>1. pc'[p] = "test1" /\ pc[p] = "lock"
    BY <1>0, <1>1, <1>6 DEF ReadLock, Inner, Step
  <2>. QED  BY <1>2, <2>1 DEF AloneInv
<1>7. CASE ReadTest(t)
  <2>1. /\ pc[p] = "test1" /\ got' = got
        /\ pc'[p] = IF readp = writep THEN "unlock" ELSE "test2"
    BY <1>0, <1>1, <1>7 DEF ReadTest, Inner, Step, rvars
  <2>2. readp < Size
    BY <2>1 DEF IInv, LockInv, ReadLockInv, Locked
  <2>3. readp = writep => got[p] > 0
    BY <1>0, <2>1, <2>2, HeldZero DEF IInv, AloneInv
  <2>. QED  BY <1>2, <2>1, <2>3 DEF AloneInv
<1>8. CASE ReadBranch(t)
  <2>1. pc'[p] = "test3"
    BY <1>0, <1>1, <1>8 DEF ReadBranch, Inner, Step
  <2>. QED  BY <1>2, <2>1 DEF AloneInv
<1>9. CASE ReadDecide(t)
  <2>1. /\ pc[p] = "test3" /\ got' = got
        /\ pc'[p] = IF Unread(high[p]) # 0 /\ got[p] < want[p] THEN "incr" ELSE "unlock"
    BY <1>0, <1>1, <1>9 DEF ReadDecide, Decide, Inner, Step, rvars
  <2>2. want[p] > 0 /\ readp < Size /\ Held > 0
    BY <2>1 DEF IInv, WantInv, FoundInv, LockInv, ReadLockInv, Locked
  <2>3. readp # writep
    BY <2>2, HeldZero DEF IInv
  <2>4. Unread(high[p]) # 0
    BY <1>0, <2>2, <2>3 DEF Unread
  <2>5. pc'[p] = "unlock" => got[p] > 0
    BY <1>0, <2>1, <2>2, <2>4
  <2>. QED  BY <1>2, <2>1, <2>5 DEF AloneInv
<1>10. CASE ReadUnlock(t) \/ ReadWrap(t)
  <2>1. pc[p] \in {"unlock", "wrap"} /\ got' = got /\ pc'[p] \in {"wake", "test1"}
    BY <1>0, <1>1, <1>10 DEF ReadUnlock, ReadWrap, Inner, Step
  <2>. QED  BY <1>2, <2>1 DEF AloneInv
<1>11. CASE ReadWake(t)
  <2>1. pc[p] = "wake" /\ pc'[p] = IF got[p] = 0 THEN "enq" ELSE "idle"
    BY <1>0, <1>1, <1>11 DEF ReadWake, ReadReturns, Step
  <2>. QED  BY <1>0, <1>2, <2>1 DEF AloneInv
<1>12. CASE ReadEnqueue(t) \/ ReadSleep(t)
  BY <1>1, <1>12 DEF ReadEnqueue, ReadSleep, Step, AloneInv
<1>13. ASSUME NEW n \in Sizes, Read(t, n)  PROVE FALSE
  BY <1>13 DEF Read, OneReader
<1>. QED  BY <1>3, <1>4, <1>5, <1>6, <1>7, <1>8, <1>9, <1>10, <1>11, <1>12, <1>13 DEF Quiet

LEMMA AloneStep ==
  ASSUME NEW p \in Tasks, OneReader(p), IInv, ~yielded => AloneInv(p), [Next]_vars
  PROVE  ~yielded' => AloneInv(p)'
<1>. SUFFICES ASSUME ~yielded'  PROVE AloneInv(p)'
  OBVIOUS
<1>0. ~yielded
  BY StepCases DEF IInv
<1>1. /\ Held \in Nat /\ Held' \in Nat
      /\ \/ \E h \in Tasks : IrqWrite(h) /\ Held' = Held + 1
         \/ \E t \in Tasks : ReadIncrement(t) /\ Held' = Held - 1
         \/ Held' = Held /\ UNCHANGED vars
         \/ Held' = Held /\ \E t \in Tasks : Quiet(t) \/ ReadWrap(t)
  BY <1>0, HeldStep DEF IInv
<1>2. CASE UNCHANGED vars /\ Held' = Held
  BY <1>0, <1>2 DEF vars, rvars, AloneInv
<1>3. ASSUME NEW t \in Tasks, ReadIncrement(t)  PROVE AloneInv(p)'
  <2>1. /\ pc[t] = "incr" /\ pc'[t] \in {"wrap", "test1"}
        /\ got'[t] = got[t] + 1 /\ got[t] \in Nat
    BY <1>3 DEF ReadIncrement, Inner, Step, IInv, LockInv, TypeOK
  <2>2. \A u \in Tasks \ {t} : pc'[u] = pc[u]
    BY <1>3, QuietPlaces DEF IInv
  <2>3. t = p
    BY <1>0, <2>1 DEF AloneInv
  <2>. QED  BY <1>0, <2>1, <2>2, <2>3 DEF AloneInv
<1>4. ASSUME NEW h \in Tasks, IrqWrite(h), Held' = Held + 1  PROVE AloneInv(p)'
  <2>1. /\ \A u \in Tasks : pc'[u] # pc[u] => pc[u] = "asleep" /\ pc'[u] = "lock"
        /\ got' = got
    BY <1>4, WakeReadersLock DEF IrqWrite, Puts, Arrives, rvars, IInv
  <2>2. pc'[p] = pc[p] /\ \A u \in Tasks \ {p} : pc'[u] = "idle"
    BY <1>0, <2>1 DEF AloneInv
  <2>. QED  BY <1>0, <1>1, <1>4, <2>1, <2>2 DEF AloneInv
<1>5. ASSUME NEW t \in Tasks, Quiet(t) \/ ReadWrap(t), Held' = Held
      PROVE  AloneInv(p)'
  BY <1>0, <1>5, AloneQuiet
<1>. QED  BY <1>1, <1>2, <1>3, <1>4, <1>5

(* kinit, which asks pipe_size before it calls fread and is the only       *)
(* reader, never sleeps in read_pipe, for every size and any number of     *)
(* tasks that are interrupted.                                             *)
THEOREM PollerCorrect ==
  ASSUME NEW p \in Tasks, OneReader(p)
  PROVE  Spec => []PollerNeverSleeps
<1>. DEFINE I == IInv /\ (~yielded => AloneInv(p))
<1>1. Init => I
  <2>. SUFFICES ASSUME Init  PROVE I
    OBVIOUS
  <2>1. \A t \in Tasks : pc[t] = "idle"
    BY DEF Init, All
  <2>. QED  BY <2>1, InitInv DEF AloneInv
<1>2. I /\ [Next]_vars => I'
  BY NextInv, AloneStep
<1>3. I => PollerNeverSleeps
  BY DEF OneReader, AloneInv, PollerNeverSleeps
<1>. QED  BY <1>1, <1>2, <1>3, PTL DEF Spec
=============================================================================
