------------------------------ MODULE SpinLock ------------------------------
(***************************************************************************)
(* The kernel's spin lock (src/task/spin.cpp).  A spin_lock_t is two       *)
(* words: lock[0] is 1 while the lock is held, lock[1] counts the tasks    *)
(* that spin in spin_wait.  Every access to a word is one step, so the     *)
(* timer may preempt a task between any two of them.                       *)
(*                                                                         *)
(* switch_task(1), called by a spinning task and by an unlocking task that *)
(* sees waiters, changes no word of the lock: here it only lets another    *)
(* task take the next step.                                                *)
(***************************************************************************)
EXTENDS Integers, FiniteSets

CONSTANT Tasks          \* the tasks that use the lock

ASSUME TasksAssumption == IsFiniteSet(Tasks)

VARIABLES
  lock,                 \* lock[0]
  waiters,              \* lock[1]
  pc                    \* where each task is in spin_lock / spin_unlock

vars == <<lock, waiters, pc>>

(***************************************************************************)
(* "idle"     outside the lock            "critical" the lock is taken     *)
(* "swap"     about to xchg lock[0]       "store"    about to clear lock[0]*)
(* "inc"      about to count itself       "check"    about to test lock[1] *)
(* "spin"     in the loop of spin_wait, reading lock[0]                    *)
(* "dec"      about to uncount itself                                      *)
(***************************************************************************)
Labels == {"idle", "swap", "inc", "spin", "dec", "critical", "store", "check"}

Goto(t, from, to) == /\ pc[t] = from
                     /\ pc' = [pc EXCEPT ![t] = to]

-----------------------------------------------------------------------------

(* spin_init *)
Init == /\ lock = 0
        /\ waiters = 0
        /\ pc = [t \in Tasks |-> "idle"]

SpinLock(t) == /\ Goto(t, "idle", "swap")
               /\ UNCHANGED <<lock, waiters>>

(* Mutation: the test and the set are two steps, the set comes too late. *)
SwapTestOnly(t) == /\ Goto(t, "swap", IF lock = 0 THEN "critical" ELSE "inc")
                   /\ UNCHANGED <<lock, waiters>>

(* while (arch_atomic_swap(lock, 1)): the old value decides. *)
Swap(t) == /\ Goto(t, "swap", IF lock = 0 THEN "critical" ELSE "inc")
           /\ lock' = 1
           /\ UNCHANGED waiters

WaitInc(t) == /\ Goto(t, "inc", "spin")
              /\ waiters' = waiters + 1
              /\ UNCHANGED lock

(* The loop of spin_wait is left when the lock is seen free. *)
WaitSeesFree(t) == /\ lock = 0
                   /\ Goto(t, "spin", "dec")
                   /\ UNCHANGED <<lock, waiters>>

(* Mutation: spin_lock takes the lock after waiting, without a new swap. *)
WaitDecIf(t) == /\ Goto(t, "dec", "critical")
                /\ waiters' = waiters - 1
                /\ UNCHANGED lock

(* Mutation: the waiter is never uncounted. *)
WaitDecForgotten(t) == /\ Goto(t, "dec", "swap")
                       /\ UNCHANGED <<lock, waiters>>

(* ... and spin_lock tries the swap again. *)
WaitDec(t) == /\ Goto(t, "dec", "swap")
              /\ waiters' = waiters - 1
              /\ UNCHANGED lock

(* spin_unlock does nothing when lock[0] is already clear. *)
SpinUnlock(t) == /\ Goto(t, "critical", IF lock # 0 THEN "store" ELSE "idle")
                 /\ UNCHANGED <<lock, waiters>>

(* Mutation: the waiters are looked at, the word is not cleared. *)
StoreForgotten(t) == /\ Goto(t, "store", "check")
                     /\ UNCHANGED <<lock, waiters>>

Store(t) == /\ Goto(t, "store", "check")
            /\ lock' = 0
            /\ UNCHANGED waiters

CheckWaiters(t) == /\ Goto(t, "check", "idle")
                   /\ UNCHANGED <<lock, waiters>>

(* The steps a task takes once it has called spin_lock. *)
Step(t) == \/ Swap(t) \/ WaitInc(t) \/ WaitSeesFree(t) \/ WaitDec(t)
           \/ SpinUnlock(t) \/ Store(t) \/ CheckWaiters(t)

Next == \E t \in Tasks : SpinLock(t) \/ Step(t)

(* Round robin preemption runs every task again and again (Scheduler.tla). *)
Spec == /\ Init /\ [][Next]_vars
        /\ \A t \in Tasks : WF_vars(Step(t))

-----------------------------------------------------------------------------

TypeOK == /\ lock \in {0, 1}
          /\ waiters \in Int
          /\ pc \in [Tasks -> Labels]

Holders == {t \in Tasks : pc[t] \in {"critical", "store"}}

Spinners == {t \in Tasks : pc[t] \in {"spin", "dec"}}

(* Two tasks are never inside the lock together, whatever the timer does   *)
(* between the exchange, the spinning and the store of spin.cpp.           *)
MutualExclusion == \A s, t \in Holders : s = t

(* lock[0] is set exactly while some task is inside: the unconditional     *)
(* exchange of a losing task never makes a free lock look taken for good.  *)
LockWordTellsHolder == lock = 1 <=> Holders # {}

(* lock[1] is the number of tasks inside spin_wait, so spin_unlock yields  *)
(* exactly when somebody counted itself as waiting.                        *)
WaitersExact == waiters = Cardinality(Spinners)

(* A task that wants the lock does not wait while the lock stays free: some*)
(* task gets in (which one is not promised, an arriving task may overtake).*)
SomebodyEnters ==
  (\E t \in Tasks : pc[t] \in {"swap", "inc", "spin", "dec"}) ~> (Holders # {})

(* The detailed lock implements the abstract one. *)
Abstract == INSTANCE Mutex WITH holders <- Holders

ImplementsMutex == Abstract!Spec
=============================================================================
