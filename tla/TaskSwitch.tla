----------------------------- MODULE TaskSwitch -----------------------------
(***************************************************************************)
(* What the tasks share of the processor, and what a switch keeps of it    *)
(* for each: the interrupt flag with the nesting depth of int_disable and  *)
(* int_resume (arch/x86/irq/irq.cpp), and the registers of the FPU, which  *)
(* are left in place and moved when another task touches them              *)
(* (modules/fpu.cpp).                                                      *)
(*                                                                         *)
(* Which task runs next is the Scheduler's business: here it may be any.   *)
(* A task is its task_t, that is an address: when a task has ended and was *)
(* reaped, the next one may get the same.                                  *)
(***************************************************************************)
EXTENDS Integers, Sequences

CONSTANTS
  Tasks,      \* the addresses of tasks
  First,      \* the task that runs when tasking starts
  None,       \* no task
  Values,     \* what the registers of the FPU may hold
  Clean,      \* what init_fpu makes of them
  MaxFrames   \* bound: how deep sections and handlers nest

ASSUME SwitchAssumption ==
  /\ First \in Tasks /\ None \notin Tasks
  /\ Clean \in Values
  /\ MaxFrames \in Nat

VARIABLES
  current,    \* current_task
  alive,      \* the tasks there are
  done,       \* those that returned and are not reaped
  on,         \* the interrupt flag
  depth,      \* sync_depth
  frames,     \* the sections and handlers each task is inside of
  across,     \* history: how many of them it has been switched away in
  trap,       \* CR0.TS: the FPU is disabled
  owner,      \* fpu_thread
  regs,       \* the registers of the FPU
  area,       \* fp_regs
  used,       \* fpu_enabled
  mine,       \* history: what each task last left in the registers
  heirs       \* history: tasks whose address was fpu_thread before they were

flags == <<on, depth, frames, across>>
fpu == <<trap, owner, regs, area, used, mine, heirs>>
tasks == <<current, alive, done>>
vars == <<tasks, flags, fpu>>

Init ==
  /\ current = First /\ alive = {First} /\ done = {}
  /\ on = TRUE /\ depth = 0
  /\ frames = [t \in Tasks |-> <<>>] /\ across = [t \in Tasks |-> 0]
  /\ trap = TRUE /\ owner = None /\ regs \in Values
  /\ area = [t \in Tasks |-> Clean] /\ used = [t \in Tasks |-> FALSE]
  /\ mine = [t \in Tasks |-> Clean] /\ heirs = {}

-----------------------------------------------------------------------------
(* Mutation: the depth starts at one every time. *)
DisabledFlat == 1

(* The depth after int_disable *)
Disabled == IF on THEN 1 ELSE depth + 1

(* int_resume: the last level enables interrupts, and stays counted. *)
IntResume == IF depth \in {0, 1} THEN on' = TRUE /\ depth' = depth
                                 ELSE on' = on /\ depth' = depth - 1

Top == frames[current][Len(frames[current])]

Push(frame) ==
  /\ Len(frames[current]) < MaxFrames
  /\ frames' = [frames EXCEPT ![current] = Append(@, frame)]
  /\ UNCHANGED <<tasks, across, fpu>>

Pop(frame) ==
  LET n == Len(frames[current])
  IN /\ n > 0
     /\ Top = frame
     /\ frames' = [frames EXCEPT ![current] = SubSeq(@, 1, n - 1)]
     /\ across' = [across EXCEPT ![current] = IF @ = n THEN n - 1 ELSE @]
     /\ UNCHANGED <<tasks, fpu>>

(* IRQ_OFF and IRQ_RES in a task, or in a handler on top of it. *)
Off == /\ current \notin done
       /\ Push("section")
       /\ on' = FALSE /\ depth' = Disabled

Res == Pop("section") /\ IntResume

(* The processor clears the flag, and irq_handler calls int_disable. *)
Irq == on /\ Push("handler") /\ on' = FALSE /\ depth' = depth + 1

(* int_resume at the end of irq_handler; iret brings the flag back. *)
IrqEnd == /\ Pop("handler")
          /\ depth' = IF depth \in {0, 1} THEN depth ELSE depth - 1
          /\ on' = TRUE

(* switch_task: its int_disable has no int_resume, "sti" takes its place;  *)
(* switch_fpu makes the next use of the FPU trap.                          *)
Switch(t) ==
  /\ t \in alive
  /\ current' = t
  /\ on' = TRUE
  /\ depth' = Disabled
  /\ across' = [across EXCEPT ![current] = Len(frames[current])]
  /\ trap' = TRUE
  /\ UNCHANGED <<alive, done, frames, owner, regs, area, used, mine, heirs>>

(* The task returns: task_return_grave and task_exit, a section that ends  *)
(* like any other.  Then it goes round in a loop, but the timer still      *)
(* interrupts it.                                                          *)
Exit ==
  /\ current \notin done \cup {First}
  /\ frames[current] = <<>>
  /\ done' = done \cup {current}
  /\ on' = TRUE /\ depth' = Disabled
  /\ UNCHANGED <<current, alive, frames, across, fpu>>

(* Its parent frees the task_t; nobody tells fpu.cpp. *)
Reap(t) ==
  /\ t \in done \ {current}
  /\ alive' = alive \ {t} /\ done' = done \ {t}
  /\ frames' = [frames EXCEPT ![t] = <<>>]
  /\ across' = [across EXCEPT ![t] = 0]
  /\ UNCHANGED <<current, on, depth, fpu>>

(* spawn_proc: new task_t, all zero, where another one may have been. *)
Spawn(t) ==
  /\ current \notin done
  /\ t \notin alive
  /\ alive' = alive \cup {t}
  /\ area' = [area EXCEPT ![t] = Clean]
  /\ used' = [used EXCEPT ![t] = FALSE]
  /\ mine' = [mine EXCEPT ![t] = Clean]
  /\ heirs' = IF owner = t THEN heirs \cup {t} ELSE heirs \ {t}
  /\ UNCHANGED <<current, done, flags, trap, owner, regs>>

-----------------------------------------------------------------------------
(* Mutation: the registers of the last owner are not saved. *)
TrapUnsaved ==
  /\ trap /\ current \notin done
  /\ trap' = FALSE
  /\ owner' = current
  /\ regs' = IF used[current] THEN area[current] ELSE Clean
  /\ used' = [used EXCEPT ![current] = TRUE]
  /\ UNCHANGED <<tasks, flags, area, mine, heirs>>

(* fpu_inv_op: the registers go to the last owner (who may be gone), and   *)
(* come from the task itself, or are clean when it never had any.          *)
Trap ==
  /\ trap /\ current \notin done
  /\ trap' = FALSE
  /\ IF owner = current THEN UNCHANGED <<owner, regs, area, used>>
     ELSE /\ owner' = current
          /\ area' = IF owner = None THEN area ELSE [area EXCEPT ![owner] = regs]
          /\ regs' = IF used[current] THEN area[current] ELSE Clean
          /\ used' = [used EXCEPT ![current] = TRUE]
  /\ UNCHANGED <<tasks, flags, mine, heirs>>

(* An instruction of the FPU, enabled *)
Compute(v) ==
  /\ ~trap /\ current \notin done
  /\ regs' = v
  /\ mine' = [mine EXCEPT ![current] = v]
  /\ UNCHANGED <<tasks, flags, trap, owner, area, used, heirs>>

Next ==
  \/ Off \/ Res \/ Irq \/ IrqEnd \/ Exit \/ Trap
  \/ \E t \in Tasks : Switch(t) \/ Reap(t) \/ Spawn(t)
  \/ \E v \in Values : Compute(v)

Spec == Init /\ [][Next]_vars

-----------------------------------------------------------------------------
TypeOK ==
  /\ current \in alive /\ done \subseteq alive \ {First} /\ alive \subseteq Tasks
  /\ on \in BOOLEAN /\ depth \in Nat
  /\ frames \in [Tasks -> Seq({"section", "handler"})]
  /\ across \in [Tasks -> Nat]
  /\ trap \in BOOLEAN /\ owner \in Tasks \cup {None} /\ regs \in Values
  /\ area \in [Tasks -> Values] /\ used \in [Tasks -> BOOLEAN]
  /\ mine \in [Tasks -> Values] /\ heirs \subseteq Tasks

(* Interrupts are off from int_disable to the int_resume that belongs to   *)
(* it, whatever nests in between, although one depth serves all tasks and  *)
(* no switch saves it; they are on again afterwards.  A task that was      *)
(* switched away inside a section has them on for the rest of it.          *)
SectionsClosed == on <=> across[current] = Len(frames[current])

(* A task finds in the FPU what it left there, or a clean one.  Not so one *)
(* that got the address of the task that used the FPU last: it is taken    *)
(* for that task, so that its registers are not cleared, nor, since it     *)
(* never had them by fpu_enabled, brought back the first time.             *)
RegistersOwn == ~trap /\ current \notin heirs => regs = mine[current]
=============================================================================
