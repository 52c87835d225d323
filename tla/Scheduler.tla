----------------------------- MODULE Scheduler -----------------------------
(***************************************************************************)
(* The task scheduler: the ready queue, the wait queues and the life of a  *)
(* task (src/task/task.cpp, src/task/process.cpp).                         *)
(*                                                                         *)
(* One CPU runs current_task.  The timer (Tick) may preempt it between any *)
(* two steps taken with interrupts on.  Interrupts are off from the entry  *)
(* into the kernel of a user task (all gates are interrupt gates) until it *)
(* sleeps: switch_task comes back with interrupts on.  kinit (Root) and    *)
(* the tasklets (KernelThreads) run kernel code with interrupts on, so     *)
(* they can be preempted anywhere in sleep_on, wakeup_queue and waitpid.   *)
(* The short sections under a spin lock are single steps.                  *)
(*                                                                         *)
(* A list is the sequence of the tasks whose node is in it.  That stands   *)
(* for the linked list as long as no node is in two lists (ListsIntact):   *)
(* a second list_append of a node ruins the links, and the model stops.    *)
(*                                                                         *)
(* Not modelled here: signals (send_signal has no reachable caller, so     *)
(* every signal_queue is empty and switch_task's signal parts do nothing), *)
(* thread groups, page directories, FPU and stacks.                        *)
(***************************************************************************)
EXTENDS Integers, SequencesExt

CONSTANTS
  Tasks,          \* the task_t structures
  Root,           \* main_task: the first task, pid 1, kinit
  KernelThreads,  \* the tasks that run kernel code with interrupts on
  Queues,         \* the wait queues of the devices (pipes, ring buffers)
  IrqQueues,      \* those of them an interrupt handler wakes
  Waker,          \* the task that wakes each of the others
  Sleeps,         \* the pairs <<t, q>>: t may call sleep_on(q)
  Throttles,      \* the pairs <<t, duty>>: task_set_ttl may give t that percentage
  MAX_TTL,        \* the frequency scale of the duty cycle (2000 in task.h)
  Waiters,        \* the tasks that call waitpid
  Delays,         \* the tasks that call sleep_until and switch_task(0)
  RootExits,      \* whether kinit itself calls kexit
  NoTask          \* the null pointer

ASSUME SchedulerAssumption ==
  /\ Root \in Tasks
  /\ KernelThreads \subseteq Tasks \ {Root}
  /\ Queues \cap Tasks = {}
  /\ IrqQueues \subseteq Queues
  /\ Waker \in [Queues \ IrqQueues -> Tasks]
  /\ Sleeps \subseteq (Tasks \ {Root}) \X Queues
  /\ Throttles \subseteq (Tasks \ {Root}) \X (0 .. 100)
  /\ MAX_TTL \in Nat \ {0}
  /\ Waiters \subseteq Tasks \ {Root}
  /\ Delays \subseteq Tasks \ {Root}
  /\ RootExits \in BOOLEAN
  /\ NoTask \notin Tasks \cup Queues

VARIABLES
  current,        \* current_task
  ready,          \* task_queue
  waitq,          \* the wait lists: waitq[q], and the wait_queue of task t
  sleepq,         \* the tasks with a node in sleep_queue
  pc,             \* what each task is doing
  target,         \* the list a task is sleeping on or waking
  popped,         \* the task a waker has popped and not yet made ready
  parent,         \* the parent in task_tree
  reaped,         \* the tasks waitpid has freed
  ttl,            \* ttl_pwm_mode, ttl, ttl_start of each task
  resumed,        \* the tasks that slept in the call they are in
  preempted       \* history: the task was preempted inside a call

vars == <<current, ready, waitq, sleepq, pc, target, popped, parent, reaped,
          ttl, resumed, preempted>>

(* Every task has a wait_queue of its own, for waitpid. *)
Lists == Queues \cup Tasks

(***************************************************************************)
(* "cradle"   not spawned yet                                              *)
(* "run"      outside the calls below                                      *)
(* "enqueued" on a list, about to call switch_task(0); then "asleep"       *)
(* "check"    at the while of wakeup_queue; then about to list_pop ("pop") *)
(*            and holding the popped task ("holds")                        *)
(* "scan"     in the loop of waitpid; then about to sleep ("scanned")      *)
(* "grave"    finished, in the for(;;) of task_return_grave                *)
(***************************************************************************)
Places == {"cradle", "run", "enqueued", "asleep", "check", "pop", "holds",
           "scan", "scanned", "grave"}

-----------------------------------------------------------------------------
(* Mutation: the preload itself is still skipped. *)
SkippedTooLong(t) == IF ttl[t].pwm THEN ttl[t].count <= ttl[t].start
                                   ELSE ttl[t].count <= MAX_TTL

(* task_ttl_canlive (TRUE: the task is skipped); every pid is non-zero.    *)
Skipped(t) == IF ttl[t].pwm THEN ttl[t].count < ttl[t].start
                            ELSE ttl[t].count < MAX_TTL

TtlAfterSkip(r) == [r EXCEPT !.count = @ + 1]

(* Mutation: the counter is never restarted. *)
TtlNotRestarted(r) == [r EXCEPT !.count = @ + 1]

TtlAfterRun(r) ==
  IF r.pwm THEN [r EXCEPT !.count = IF @ + 1 >= MAX_TTL THEN 0 ELSE @ + 1]
           ELSE [r EXCEPT !.count = r.start]

(***************************************************************************)
(* The loop of switch_task over fetch_next_task, with r in the task queue: *)
(* the tasks before the chosen one have been dequeued and are dropped; an  *)
(* empty queue yields main_task.  A task descheduled by switch_task(0)     *)
(* returns from it, and from sleep_on, to the loop of waitpid if it slept  *)
(* on its own wait_queue.                                                  *)
(***************************************************************************)
Dispatch(r, p) ==
  \E k \in 1 .. Len(r) + 1 :
    LET next == IF k <= Len(r) THEN r[k] ELSE Root
    IN /\ \A i \in 1 .. k - 1 : Skipped(r[i])
       /\ k <= Len(r) => ~Skipped(r[k])
       /\ current' = next
       /\ ready' = SubSeq(r, k + 1, Len(r))
       /\ resumed' = IF p[next] = "asleep" THEN resumed \cup {next} ELSE resumed
       /\ pc' = IF p[next] = "asleep"
                THEN [p EXCEPT ![next] = IF target[next] = next THEN "scan"
                                                                ELSE "run"]
                ELSE p
       /\ ttl' = [t \in Tasks |->
                    IF t = next THEN TtlAfterRun(ttl[t])
                    ELSE IF \E i \in 1 .. k - 1 : r[i] = t
                         THEN TtlAfterSkip(ttl[t]) ELSE ttl[t]]

(* list_delete of t's sleep_node from the wait list that holds it, if any. *)
Without(s, t) == IF Contains(s, t)
                 THEN RemoveAt(s, CHOOSE i \in 1 .. Len(s) : s[i] = t)
                 ELSE s

-----------------------------------------------------------------------------
(* tasking_install, spawn_rootproc *)
Init ==
  /\ current = Root
  /\ ready = <<>>
  /\ waitq = [q \in Lists |-> <<>>]
  /\ sleepq = {}
  /\ pc = [t \in Tasks |-> IF t = Root THEN "run" ELSE "cradle"]
  /\ target = [t \in Tasks |-> NoTask]
  /\ popped = [t \in Tasks |-> NoTask]
  /\ parent = [t \in Tasks |-> NoTask]
  /\ reaped = {}
  /\ ttl = [t \in Tasks |-> [pwm |-> TRUE, count |-> 0, start |-> 0]]
  /\ resumed = {}
  /\ preempted = [t \in Tasks |-> FALSE]

(* The task is the one that runs and it is at p. *)
At(t, p) == current = t /\ pc[t] = p

Outside == {"run", "grave"}

(* Interrupts are on: the current task is not in a call of its own, or it  *)
(* runs kernel code with interrupts on, or has slept in the call.          *)
InterruptsOn == \/ pc[current] \in Outside
                \/ current \in KernelThreads \cup {Root} \cup resumed

(* The task begins a call. *)
Begin(t) == /\ resumed' = resumed \ {t}
            /\ preempted' = [preempted EXCEPT ![t] = FALSE]

(* Mutation: make_task_ready leaves the node of sleep_queue alone. *)
TickKeepsTimer ==
  /\ InterruptsOn
  /\ \E expired \in SUBSET sleepq : sleepq' = sleepq \ expired
  /\ waitq' = [q \in Lists |-> Without(waitq[q], current)]
  /\ preempted' = [preempted EXCEPT ![current] = pc[current] \notin Outside]
  /\ Dispatch(Append(ready, current), pc)
  /\ UNCHANGED <<target, popped, parent, reaped>>

(* wakeup_sleepers takes the expired nodes out of sleep_queue; the call of  *)
(* make_task_ready that woke their tasks is commented out.                  *)
WakeupSleepers(expired) == sleepq \ expired

(***************************************************************************)
(* pit_switch_task: wakeup_sleepers, then                                  *)
(* switch_task(TASKST_READY) makes the current task ready, which first     *)
(* takes it off whatever list its sleep_node is in.                        *)
(***************************************************************************)
Tick ==
  /\ InterruptsOn
  /\ \E expired \in SUBSET sleepq :
       sleepq' = WakeupSleepers(expired) \ {current}
  /\ waitq' = [q \in Lists |-> Without(waitq[q], current)]
  /\ preempted' = [preempted EXCEPT ![current] = pc[current] \notin Outside]
  /\ Dispatch(Append(ready, current), pc)
  /\ UNCHANGED <<target, popped, parent, reaped>>

(* What a whole wakeup_queue makes ready when nothing comes in between:    *)
(* list_pop takes the last node first.  A finished task is not made ready, *)
(* but none is ever on a wait list (FinishedNeverWait).                    *)
WokenFrom(q) == Reverse(waitq[q])

(* Mutation: the whole list is taken, one task is made ready. *)
IrqWakeupOne(q) ==
  /\ InterruptsOn
  /\ waitq[q] # <<>>
  /\ ready' = Append(ready, Last(waitq[q]))
  /\ waitq' = [waitq EXCEPT ![q] = <<>>]
  /\ UNCHANGED <<current, sleepq, pc, target, popped, parent, reaped, ttl,
                 resumed, preempted>>

(* An interrupt handler (keyboard, mouse, serial) has written to a pipe.   *)
IrqWakeup(q) ==
  /\ InterruptsOn
  /\ waitq[q] # <<>>
  /\ ready' = ready \o WokenFrom(q)
  /\ waitq' = [waitq EXCEPT ![q] = <<>>]
  /\ UNCHANGED <<current, sleepq, pc, target, popped, parent, reaped, ttl,
                 resumed, preempted>>

-----------------------------------------------------------------------------
(* sleep_on up to the call of switch_task: append the sleep_node. *)
Enqueue(t, q) ==
  /\ waitq' = [waitq EXCEPT ![q] = Append(@, t)]
  /\ pc' = [pc EXCEPT ![t] = "enqueued"]
  /\ target' = [target EXCEPT ![t] = q]
  /\ UNCHANGED <<current, ready, sleepq, popped, parent, reaped, ttl>>

SleepOn(t, q) == /\ At(t, "run")
                 /\ Enqueue(t, q)
                 /\ Begin(t)

(* sleep_until, as the speaker driver calls it. *)
SleepUntil(t) ==
  /\ At(t, "run")
  /\ sleepq' = sleepq \cup {t}
  /\ pc' = [pc EXCEPT ![t] = "enqueued"]
  /\ target' = [target EXCEPT ![t] = NoTask]
  /\ Begin(t)
  /\ UNCHANGED <<current, ready, waitq, popped, parent, reaped, ttl>>

(* switch_task(0): the task is not put back into the task queue. *)
Deschedule(t) ==
  /\ At(t, "enqueued")
  /\ Dispatch(ready, [pc EXCEPT ![t] = "asleep"])
  /\ UNCHANGED <<waitq, sleepq, target, popped, parent, reaped, preempted>>

-----------------------------------------------------------------------------
(* wakeup_queue, called by a task. *)
Wakeup(t, q) ==
  /\ At(t, "run")
  /\ pc' = [pc EXCEPT ![t] = "check"]
  /\ target' = [target EXCEPT ![t] = q]
  /\ Begin(t)
  /\ UNCHANGED <<current, ready, waitq, sleepq, popped, parent, reaped, ttl>>

(* Mutation: >= 0; the test lets an empty list through. *)
WakeCheckAlways(t) ==
  /\ At(t, "check")
  /\ pc' = [pc EXCEPT ![t] = "pop"]
  /\ UNCHANGED <<current, ready, waitq, sleepq, target, popped, parent, reaped,
                 ttl, resumed, preempted>>

(* Mutation: > 1; the last sleeper is never woken. *)
WakeCheckOffByOne(t) ==
  /\ At(t, "check")
  /\ pc' = [pc EXCEPT ![t] = IF Len(waitq[target[t]]) > 1 THEN "pop" ELSE "run"]
  /\ UNCHANGED <<current, ready, waitq, sleepq, target, popped, parent, reaped,
                 ttl, resumed, preempted>>

(* while (queue->length > 0), read outside the lock *)
WakeCheck(t) ==
  /\ At(t, "check")
  /\ pc' = [pc EXCEPT ![t] = IF Len(waitq[target[t]]) > 0 THEN "pop" ELSE "run"]
  /\ UNCHANGED <<current, ready, waitq, sleepq, target, popped, parent, reaped,
                 ttl, resumed, preempted>>

(* Mutation: the node is read and left in the list. *)
WakePeek(t) ==
  /\ At(t, "pop")
  /\ waitq[target[t]] # <<>>
  /\ popped' = [popped EXCEPT ![t] = Last(waitq[target[t]])]
  /\ pc' = [pc EXCEPT ![t] = "holds"]
  /\ UNCHANGED <<current, ready, waitq, sleepq, target, parent, reaped, ttl,
                 resumed, preempted>>

(* list_pop; on an empty list it would return 0, which is dereferenced. *)
WakePop(t) ==
  LET q == target[t]
  IN /\ At(t, "pop")
     /\ waitq[q] # <<>>
     /\ waitq' = [waitq EXCEPT ![q] = Front(@)]
     /\ popped' = [popped EXCEPT ![t] = Last(waitq[q])]
     /\ pc' = [pc EXCEPT ![t] = "holds"]
     /\ UNCHANGED <<current, ready, sleepq, target, parent, reaped, ttl,
                    resumed, preempted>>

(* make_task_ready of the popped task, unless it has finished. *)
WakeReady(t) ==
  /\ At(t, "holds")
  /\ ready' = IF pc[popped[t]] # "grave" THEN Append(ready, popped[t])
                                         ELSE ready
  /\ popped' = [popped EXCEPT ![t] = NoTask]
  /\ pc' = [pc EXCEPT ![t] = "check"]
  /\ UNCHANGED <<current, waitq, sleepq, target, parent, reaped, ttl,
                 resumed, preempted>>

-----------------------------------------------------------------------------
(* spawn_proc and make_task_ready, with interrupts off throughout. *)
Spawn(t, new) ==
  /\ At(t, "run")
  /\ pc[new] = "cradle"
  /\ pc' = [pc EXCEPT ![new] = "run"]
  /\ parent' = [parent EXCEPT ![new] = t]
  /\ ready' = Append(ready, new)
  /\ UNCHANGED <<current, waitq, sleepq, target, popped, reaped, ttl,
                 resumed, preempted>>

(* get_next_pid restarts at 1 for the root process. *)
RootPid == 1

(* Mutation: the dying task wakes its own wait_queue. *)
ExitWakesSelf(t) ==
  /\ At(t, "run")
  /\ pc' = [pc EXCEPT ![t] = "grave"]
  /\ ready' = ready \o WokenFrom(t)
  /\ waitq' = [waitq EXCEPT ![t] = <<>>]
  /\ UNCHANGED <<current, sleepq, target, popped, parent, reaped, ttl,
                 resumed, preempted>>

(* kexit, task_return_grave, task_exit: the task becomes a zombie and wakes *)
(* the tasks that wait for a child of its parent.                           *)
Exit(t) ==
  /\ At(t, "run")
  /\ t = Root => RootPid # 0
  /\ pc' = [pc EXCEPT ![t] = "grave"]
  /\ IF parent[t] = NoTask
     THEN UNCHANGED <<ready, waitq>>
     ELSE /\ ready' = ready \o WokenFrom(parent[t])
          /\ waitq' = [waitq EXCEPT ![parent[t]] = <<>>]
  /\ UNCHANGED <<current, sleepq, target, popped, parent, reaped, ttl,
                 resumed, preempted>>

-----------------------------------------------------------------------------
(* waitpid(-1, &status, 0) *)
Waitpid(t) ==
  /\ At(t, "run")
  /\ pc' = [pc EXCEPT ![t] = "scan"]
  /\ Begin(t)
  /\ UNCHANGED <<current, ready, waitq, sleepq, target, popped, parent, reaped,
                 ttl>>

Children(t) == {c \in Tasks \ reaped : parent[c] = t}

Zombies(t) == {c \in Children(t) : pc[c] = "grave"}

(* No child: -ECHILD.  Nobody to reap: go to sleep. *)
ScanFindsNone(t) ==
  /\ At(t, "scan")
  /\ Zombies(t) = {}
  /\ pc' = [pc EXCEPT ![t] = IF Children(t) = {} THEN "run" ELSE "scanned"]
  /\ preempted' = [preempted EXCEPT ![t] = FALSE]
  /\ UNCHANGED <<current, ready, waitq, sleepq, target, popped, parent, reaped,
                 ttl, resumed>>

(* Mutation: the node is freed, its children are not moved. *)
ReapKeepsChildren(t, c) ==
  /\ At(t, "scan")
  /\ reaped' = reaped \cup {c}
  /\ pc' = [pc EXCEPT ![t] = "run"]
  /\ UNCHANGED <<current, ready, waitq, sleepq, target, popped, parent, ttl,
                 resumed, preempted>>

(* task_reap: out of the tree, its children go to the root, freed. *)
Reap(t, c) ==
  /\ At(t, "scan")
  /\ reaped' = reaped \cup {c}
  /\ parent' = [x \in Tasks |-> IF parent[x] = c THEN Root ELSE parent[x]]
  /\ pc' = [pc EXCEPT ![t] = "run"]
  /\ UNCHANGED <<current, ready, waitq, sleepq, target, popped, ttl, resumed,
                 preempted>>

WaitForChild(t) == /\ At(t, "scanned")
                   /\ Enqueue(t, t)
                   /\ UNCHANGED <<resumed, preempted>>

-----------------------------------------------------------------------------
(* task_set_ttl(t, duty), by whoever runs. *)
SetTtl(t, duty) ==
  /\ pc[current] = "run"
  /\ ttl' = [ttl EXCEPT ![t] =
       LET part == (duty * MAX_TTL) \div 100
       IN IF @.pwm THEN [@ EXCEPT !.start = MAX_TTL - part, !.count = 0]
                   ELSE [@ EXCEPT !.start = part, !.count = part]]
  /\ UNCHANGED <<current, ready, waitq, sleepq, pc, target, popped, parent,
                 reaped, resumed, preempted>>

(* task_set_ttl_mode(t, pwm) *)
SetTtlMode(t, pwm) ==
  /\ pc[current] = "run"
  /\ LET full == IF pwm THEN 0 ELSE MAX_TTL
     IN ttl' = [ttl EXCEPT ![t] = [pwm |-> pwm, count |-> full, start |-> full]]
  /\ UNCHANGED <<current, ready, waitq, sleepq, pc, target, popped, parent,
                 reaped, resumed, preempted>>

-----------------------------------------------------------------------------
(* Every node is in at most one place of one list. *)
ListsIntact ==
  /\ IsInjective(ready)
  /\ \A q \in Lists : IsInjective(waitq[q])
  /\ \A p, q \in Lists : p # q => ToSet(waitq[p]) \cap ToSet(waitq[q]) = {}

(* The rest of a call a task is in. *)
Continue(t) ==
  \/ Deschedule(t) \/ WakeCheck(t) \/ WakePop(t) \/ WakeReady(t)
  \/ ScanFindsNone(t) \/ WaitForChild(t)
  \/ \E c \in Zombies(t) : Reap(t, c)

(* A call a task makes. *)
Call(t) ==
  \/ \E q \in Queues : <<t, q>> \in Sleeps /\ SleepOn(t, q)
  \/ \E q \in Queues \ IrqQueues : Waker[q] = t /\ Wakeup(t, q)
  \/ t \in Delays /\ SleepUntil(t)
  \/ t \in Waiters /\ Waitpid(t)
  \/ \E new \in Tasks : Spawn(t, new)
  \/ t \in KernelThreads /\ Exit(t)
  \/ RootExits /\ t = Root /\ Exit(t)

Interrupt == Tick \/ \E q \in IrqQueues : IrqWakeup(q)

Throttle == \E given \in Throttles :
              \/ SetTtl(given[1], given[2])
              \/ \E pwm \in BOOLEAN : SetTtlMode(given[1], pwm)

Next == ListsIntact /\ (Interrupt \/ Throttle
                        \/ \E t \in Tasks : Call(t) \/ Continue(t))

(***************************************************************************)
(* The interrupt controller keeps the request of the timer until           *)
(* interrupts are on, so a tick that is possible again and again happens;  *)
(* and a time slice (a period of the timer) is long enough for a task that *)
(* gets one again and again to take the next step of the call it is in.    *)
(***************************************************************************)
Fairness == /\ SF_vars(Tick)
            /\ \A t \in Tasks : SF_vars(Continue(t))

Spec == Init /\ [][Next]_vars /\ Fairness

-----------------------------------------------------------------------------

TypeOK ==
  /\ current \in Tasks
  /\ ready \in Seq(Tasks)
  /\ waitq \in [Lists -> Seq(Tasks)]
  /\ sleepq \subseteq Tasks
  /\ pc \in [Tasks -> Places]
  /\ target \in [Tasks -> Lists \cup {NoTask}]
  /\ popped \in [Tasks -> Tasks \cup {NoTask}]
  /\ parent \in [Tasks -> Tasks \cup {NoTask}]
  /\ reaped \subseteq Tasks
  /\ ttl \in [Tasks -> [pwm : BOOLEAN, count : 0 .. MAX_TTL, start : 0 .. MAX_TTL]]
  /\ resumed \subseteq Tasks
  /\ preempted \in [Tasks -> BOOLEAN]

Queued(t) == Contains(ready, t)

Waiting(t) == t \in sleepq \/ \E q \in Lists : Contains(waitq[q], t)

InHand(t) == \E w \in Tasks : popped[w] = t

(* An unfinished task nothing refers to: it will never run again. *)
Lost(t) == /\ pc[t] \notin {"cradle", "grave"}
           /\ current # t
           /\ ~Queued(t) /\ ~Waiting(t) /\ ~InHand(t)

(* No sequence of sleeping, waking, preempting, spawning and exiting       *)
(* leaves an unfinished task on no list of process.cpp.  The one exception *)
(* is a task the timer preempts between the list_append of sleep_on and    *)
(* its switch_task(0): make_task_ready takes it off the wait list, and     *)
(* switch_task(0) then takes it off the CPU for good.                      *)
NobodyLost == \A t \in Tasks : Lost(t) => pc[t] = "asleep" /\ preempted[t]

(* A task is made ready once: it is never in the task queue while it runs, *)
(* waits on a list or is in the hand of a waker, so make_task_ready never  *)
(* appends a sched_node that is already linked.                            *)
ReadyOnce ==
  \A t \in Tasks :
    /\ Queued(t) => t # current /\ ~Waiting(t) /\ ~InHand(t)
    /\ \A v, w \in Tasks : popped[v] = t /\ popped[w] = t => v = w

(* A finished task is on no wait list, so wakeup_queue's test of finished  *)
(* never matters and no freed task is ever popped from a list.             *)
FinishedNeverWait == \A t \in Tasks : pc[t] = "grave" => ~Waiting(t)

(* A parent does not sleep in waitpid while a child is there to be reaped: *)
(* kexit wakes it, unless the timer came between the scan of the children  *)
(* and the list_append of sleep_on, which no lock covers.                  *)
NoMissedChild ==
  \A t \in Tasks : pc[t] = "asleep" /\ Contains(waitq[t], t) /\ Zombies(t) # {}
                     => preempted[t]

(* wakeup_queue tests the length before it takes the lock: with one waker  *)
(* per list, list_pop still finds a node, whatever sleepers and the timer  *)
(* do in between.                                                          *)
PopFindsNode == \A t \in Tasks : pc[t] = "pop" => waitq[target[t]] # <<>>

(* Only a finished child of its own parent is reaped, and with its subtree *)
(* handed to the root no unfinished task is left with a freed parent.      *)
NoFreedParent == \A t \in Tasks : parent[t] \notin reaped

(* Given less than the full duty cycle: start > 0, or in counting mode a   *)
(* preload below the scale.                                                *)
Throttled(t) == IF ttl[t].pwm THEN ttl[t].start > 0 ELSE ttl[t].start < MAX_TTL

(* The task queue is fair: a ready task gets the CPU, and task_set_ttl     *)
(* takes it only from one that was given less than 100 percent (switch_task*)
(* drops such a task when it skips it).                                    *)
ReadyRuns == \A t \in Tasks : Queued(t) ~> current = t \/ Throttled(t)

(* A task that sleeps when wakeup_queue starts is taken off the list: the  *)
(* loop neither stops early nor is starved by the timer.  For one sleeper  *)
(* per list: list_pop takes the last node first, so a second sleeper that  *)
(* comes back to the list each time it is woken is popped for ever.        *)
WakeupReaches ==
  \A q \in Queues \ IrqQueues : \A t \in Tasks :
    /\ pc[Waker[q]] = "check" /\ target[Waker[q]] = q
    /\ Contains(waitq[q], t)
    ~> ~Contains(waitq[q], t)

-----------------------------------------------------------------------------
(* What comments of the code say of it.                                    *)

(* "Node is already in a list." (list.cpp): no node is appended twice.     *)
NoNodeAppendedTwice == ListsIntact

(* "this 'for' won't be actually running" (task.cpp): a finished task does *)
(* not get the CPU again.                                                  *)
ZombieNeverRuns ==
  [][\A t \in Tasks : pc[t] = "grave" /\ current # t => current' # t]_vars
=============================================================================
