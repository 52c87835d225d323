-------------------------------- MODULE Mutex --------------------------------
(***************************************************************************)
(* What a lock of the kernel promises to the code between spin_lock and    *)
(* spin_unlock: at any moment at most one task is inside.                  *)
(***************************************************************************)
CONSTANT Tasks

VARIABLE holders        \* the tasks inside the critical section

Init == holders = {}

Enter(t) == /\ holders = {}
            /\ holders' = {t}

Leave(t) == /\ holders = {t}
            /\ holders' = {}

Next == \E t \in Tasks : Enter(t) \/ Leave(t)

Spec == Init /\ [][Next]_holders
=============================================================================
