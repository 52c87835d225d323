--------------------------- MODULE SpinLockProofs ---------------------------
(***************************************************************************)
(* Proofs about the spin lock, for every finite set of tasks.  The         *)
(* inductive invariant is TypeOK /\ LockInv /\ WaitersExact: mutual        *)
(* exclusion alone is not inductive, since nothing in it says that the     *)
(* word is set while a task is inside.                                     *)
(***************************************************************************)
EXTENDS SpinLock, FiniteSetTheorems, TLAPS

LockInv == MutualExclusion /\ LockWordTellsHolder

(* The type invariant: the words and the program counters keep the values  *)
(* the code of spin.cpp can give them.                                     *)
THEOREM TypeCorrect == Spec => []TypeOK
<1>1. Init => TypeOK
  BY DEF Init, TypeOK, Labels
<1>2. TypeOK /\ [Next]_vars => TypeOK'
  BY DEF TypeOK, Labels, Next, vars, Step, Goto, SpinLock, Swap, WaitInc,
         WaitSeesFree, WaitDec, SpinUnlock, Store, CheckWaiters
<1>3. QED  BY <1>1, <1>2, PTL DEF Spec

(* What one step does to the set of tasks inside the lock: the facts on    *)
(* which mutual exclusion and the refinement both rest.                    *)
LEMMA HoldersStep ==
  ASSUME TypeOK, LockInv, [Next]_vars
  PROVE  \/ Holders' = Holders /\ lock' = lock
         \/ \E t \in Tasks : Holders = {} /\ Holders' = {t} /\ lock' = 1
         \/ \E t \in Tasks : Holders = {t} /\ Holders' = {} /\ lock' = 0
<1> USE DEF TypeOK, LockInv, MutualExclusion, LockWordTellsHolder
<1>1. CASE UNCHANGED vars
  BY <1>1 DEF vars, Holders
<1>2. ASSUME NEW t \in Tasks, SpinLock(t) \/ Step(t)
      PROVE  \/ Holders' = Holders /\ lock' = lock
             \/ Holders = {} /\ Holders' = {t} /\ lock' = 1
             \/ Holders = {t} /\ Holders' = {} /\ lock' = 0
  <2>1. CASE Swap(t)
    BY <2>1 DEF Swap, Goto, Holders
  <2>2. CASE Store(t)
    BY <2>2 DEF Store, Goto, Holders
  <2>3. CASE SpinUnlock(t)
    <3>1. t \in Holders
      BY <2>3 DEF SpinUnlock, Goto, Holders
    <3>2. lock = 1
      BY <3>1
    <3>3. QED  BY <2>3, <3>2 DEF SpinUnlock, Goto, Holders
  <2>4. CASE SpinLock(t) \/ WaitInc(t) \/ WaitSeesFree(t) \/ WaitDec(t)
             \/ CheckWaiters(t)
    BY <2>4 DEF SpinLock, WaitInc, WaitSeesFree, WaitDec, CheckWaiters, Goto,
                Holders
  <2>5. QED  BY <1>2, <2>1, <2>2, <2>3, <2>4 DEF Step
<1>3. QED  BY <1>1, <1>2 DEF Next

(* Mutual exclusion holds in every reachable state.                        *)
THEOREM LockCorrect == Spec => [](MutualExclusion /\ LockWordTellsHolder)
<1>1. Init => LockInv
  BY DEF Init, LockInv, MutualExclusion, LockWordTellsHolder, Holders
<1>2. TypeOK /\ LockInv /\ [Next]_vars => LockInv'
  <2> SUFFICES ASSUME TypeOK, LockInv, [Next]_vars PROVE LockInv'
    OBVIOUS
  <2>1. CASE Holders' = Holders /\ lock' = lock
    BY <2>1 DEF LockInv, MutualExclusion, LockWordTellsHolder
  <2>2. CASE \E t \in Tasks : Holders = {} /\ Holders' = {t} /\ lock' = 1
    BY <2>2 DEF LockInv, MutualExclusion, LockWordTellsHolder
  <2>3. CASE \E t \in Tasks : Holders = {t} /\ Holders' = {} /\ lock' = 0
    BY <2>3 DEF LockInv, MutualExclusion, LockWordTellsHolder
  <2>4. QED  BY <2>1, <2>2, <2>3, HoldersStep
<1>3. QED  BY <1>1, <1>2, TypeCorrect, PTL DEF Spec, LockInv

(* The word lock[1] never drifts from the number of spinning tasks.        *)
THEOREM WaitersCorrect == Spec => []WaitersExact
<1>1. Init => WaitersExact
  <2>1. Init => Spinners = {}
    BY DEF Init, Spinners
  <2>2. QED  BY <2>1, FS_EmptySet DEF Init, WaitersExact
<1>2. TypeOK /\ WaitersExact /\ [Next]_vars => WaitersExact'
  <2> SUFFICES ASSUME TypeOK, WaitersExact, [Next]_vars PROVE WaitersExact'
    OBVIOUS
  <2>1. IsFiniteSet(Spinners)
    BY TasksAssumption, FS_Subset DEF Spinners
  <2>2. CASE UNCHANGED vars
    BY <2>2 DEF vars, WaitersExact, Spinners
  <2>3. ASSUME NEW t \in Tasks, SpinLock(t) \/ Step(t) PROVE WaitersExact'
    <3>1. CASE WaitInc(t)
      <4>1. t \notin Spinners /\ Spinners' = Spinners \cup {t}
        BY <3>1 DEF WaitInc, Goto, Spinners, TypeOK
      <4>2. Cardinality(Spinners') = Cardinality(Spinners) + 1
        BY <4>1, <2>1, FS_AddElement
      <4>3. QED  BY <4>2, <3>1 DEF WaitInc, WaitersExact
    <3>2. CASE WaitDec(t)
      <4>1. t \in Spinners /\ Spinners' = Spinners \ {t}
        BY <3>2 DEF WaitDec, Goto, Spinners, TypeOK
      <4>2. Cardinality(Spinners') = Cardinality(Spinners) - 1
        BY <4>1, <2>1, FS_RemoveElement
      <4>3. QED  BY <4>2, <3>2 DEF WaitDec, WaitersExact
    <3>3. CASE SpinLock(t) \/ Swap(t) \/ WaitSeesFree(t) \/ SpinUnlock(t)
               \/ Store(t) \/ CheckWaiters(t)
      <4>1. Spinners' = Spinners /\ waiters' = waiters
        BY <3>3 DEF SpinLock, Swap, WaitSeesFree, SpinUnlock, Store,
                    CheckWaiters, Goto, Spinners, TypeOK
      <4>2. QED  BY <4>1 DEF WaitersExact
    <3>4. QED  BY <2>3, <3>1, <3>2, <3>3 DEF Step
  <2>4. QED  BY <2>2, <2>3 DEF Next
<1>3. QED  BY <1>1, <1>2, TypeCorrect, PTL DEF Spec

(* Whoever uses spin_lock and spin_unlock may reason with Mutex instead.   *)
THEOREM SpinLockImplementsMutex == Spec => ImplementsMutex
<1>1. Init => Abstract!Init
  BY DEF Init, Abstract!Init, Holders
<1>2. TypeOK /\ LockInv /\ [Next]_vars => [Abstract!Next]_Holders
  <2> SUFFICES ASSUME TypeOK, LockInv, [Next]_vars
               PROVE  [Abstract!Next]_Holders
    OBVIOUS
  <2>1. QED
    BY HoldersStep DEF Abstract!Next, Abstract!Enter, Abstract!Leave
<1>3. QED
  BY <1>1, <1>2, TypeCorrect, LockCorrect, PTL
  DEF Spec, ImplementsMutex, Abstract!Spec, LockInv
=============================================================================
