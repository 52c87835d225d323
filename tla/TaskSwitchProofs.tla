-------------------------- MODULE TaskSwitchProofs --------------------------
(***************************************************************************)
(* Proofs about TaskSwitch, for any tasks, values and depth of nesting.    *)
(*                                                                         *)
(* SectionsClosed speaks of the interrupt flag; what makes it inductive is *)
(* what sync_depth counts.  Above the frames a task was switched away in   *)
(* there is a run of sections, perhaps with one handler below them: a      *)
(* handler starts only while interrupts are on.  Is the lowest a section,  *)
(* it set the depth to one and the depth is exact; is it a handler, the    *)
(* depth came from another task and is only large enough.                  *)
(***************************************************************************)
EXTENDS TaskSwitch, TLAPS

Frame == {"section", "handler"}

(* Opening and closing a frame leaves sequences of frames.                 *)
LEMMA FramesTypes ==
  ASSUME TypeOK, NEW f \in Frame, Push(f) \/ Pop(f), on' \in BOOLEAN, depth' \in Nat
  PROVE  TypeOK'
<1>1. current \in Tasks /\ frames[current] \in Seq(Frame)
  BY DEF TypeOK, Frame
<1>2. CASE Push(f)
  <2>1. Append(frames[current], f) \in Seq(Frame)
    BY <1>1
  <2>2. frames' \in [Tasks -> Seq(Frame)]
    BY <1>1, <1>2, <2>1 DEF Push, TypeOK, Frame
  <2>. QED  BY <1>2, <2>2 DEF Push, TypeOK, tasks, fpu, Frame
<1>3. CASE Pop(f)
  <2>1. Len(frames[current]) \in Nat /\ Len(frames[current]) > 0
    BY <1>1, <1>3 DEF Pop
  <2>2. SubSeq(frames[current], 1, Len(frames[current]) - 1) \in Seq(Frame)
    BY <1>1, <2>1
  <2>3. frames' \in [Tasks -> Seq(Frame)]
    BY <1>1, <1>3, <2>2 DEF Pop, TypeOK, Frame
  <2>4. across' \in [Tasks -> Nat]
    BY <1>1, <1>3, <2>1 DEF Pop, TypeOK
  <2>. QED  BY <1>3, <2>3, <2>4 DEF Pop, TypeOK, tasks, fpu, Frame
<1>. QED  BY <1>2, <1>3

LEMMA LenFrames ==
  ASSUME TypeOK
  PROVE  \A t \in Tasks : Len(frames[t]) \in Nat /\ across[t] \in Nat
BY DEF TypeOK

(* Every variable keeps its type.                                          *)
LEMMA SwitchTypes == Spec => []TypeOK
<1>1. Init => TypeOK
  BY SwitchAssumption DEF Init, TypeOK
<1>2. TypeOK /\ [Next]_vars => TypeOK'
  <2> SUFFICES ASSUME TypeOK, [Next]_vars PROVE TypeOK'
    OBVIOUS
  <2>0. depth \in Nat /\ on \in BOOLEAN
    BY DEF TypeOK
  <2>1. CASE Off
    <3>1. Push("section") /\ on' = FALSE /\ depth' \in Nat
      BY <2>0, <2>1 DEF Off, Disabled
    <3>. QED  BY <3>1, FramesTypes DEF Frame
  <2>2. CASE Res
    <3>1. Pop("section") /\ on' \in BOOLEAN
      BY <2>0, <2>2 DEF Res, IntResume
    <3>2. depth' \in Nat
      BY <2>0, <2>2 DEF Res, IntResume
    <3>. QED  BY <3>1, <3>2, FramesTypes DEF Frame
  <2>3. CASE Irq
    <3>1. Push("handler") /\ on' = FALSE /\ depth' \in Nat
      BY <2>0, <2>3 DEF Irq
    <3>. QED  BY <3>1, FramesTypes DEF Frame
  <2>4. CASE IrqEnd
    <3>1. Pop("handler") /\ on' = TRUE /\ depth' \in Nat
      BY <2>0, <2>4 DEF IrqEnd
    <3>. QED  BY <3>1, FramesTypes DEF Frame
  <2>5. CASE Exit
    BY <2>5 DEF Exit, Disabled, TypeOK, fpu
  <2>6. CASE Trap
    <3>1. used' \in [Tasks -> BOOLEAN] /\ trap' = FALSE
      BY <2>6, Zenon DEF Trap, TypeOK
    <3>2. current \in Tasks /\ regs \in Values /\ area[current] \in Values
      BY DEF TypeOK
    <3>3. owner' \in Tasks \cup {None} /\ regs' \in Values
      BY <2>6, <3>2, SwitchAssumption DEF Trap, TypeOK
    <3>4. area' \in [Tasks -> Values]
      BY <2>6, <3>2 DEF Trap, TypeOK
    <3>. QED  BY <2>6, <3>1, <3>3, <3>4 DEF Trap, TypeOK, tasks, flags
  <2>7. ASSUME NEW t \in Tasks, Switch(t) PROVE TypeOK'
    <3>1. across' \in [Tasks -> Nat]
      BY <2>7, LenFrames DEF Switch, TypeOK
    <3>2. UNCHANGED <<alive, done, frames, owner, regs, area, used, mine, heirs>>
          /\ current' = t /\ t \in alive /\ on' = TRUE /\ trap' = TRUE
          /\ depth' = Disabled
      BY <2>7 DEF Switch
    <3>. QED  BY <3>1, <3>2 DEF Disabled, TypeOK
  <2>8. ASSUME NEW t \in Tasks, Reap(t) PROVE TypeOK'
    BY <2>8 DEF Reap, TypeOK, fpu
  <2>9. ASSUME NEW t \in Tasks, Spawn(t) PROVE TypeOK'
    BY <2>9, SwitchAssumption DEF Spawn, TypeOK, flags
  <2>10. ASSUME NEW v \in Values, Compute(v) PROVE TypeOK'
    BY <2>10 DEF Compute, TypeOK, tasks, flags
  <2>11. CASE UNCHANGED vars
    BY <2>11 DEF vars, TypeOK, tasks, flags, fpu
  <2>. QED  BY <2>1, <2>2, <2>3, <2>4, <2>5, <2>6, <2>7, <2>8, <2>9, <2>10, <2>11
            DEF Next
<1>. QED  BY <1>1, <1>2, PTL DEF Spec

-----------------------------------------------------------------------------
(* Interrupts                                                              *)

Open == Len(frames[current]) - across[current]

Lowest == frames[current][across[current] + 1]

DepthInv ==
  /\ \A t \in Tasks \ {current} : across[t] = Len(frames[t])
  /\ Open >= 0
  /\ on <=> Open = 0
  /\ \A i \in across[current] + 2 .. Len(frames[current]) :
        frames[current][i] = "section"
  /\ Open > 0 => /\ depth >= Open
                 /\ Lowest = "section" => depth = Open

(* What opening a section or a handler does to the frames of the task.     *)
LEMMA PushFrames ==
  ASSUME TypeOK, NEW f \in Frame, Push(f)
  PROVE  /\ current' = current
         /\ across' = across
         /\ \A t \in Tasks \ {current} : frames'[t] = frames[t]
         /\ Len(frames'[current]) = Len(frames[current]) + 1
         /\ frames'[current][Len(frames[current]) + 1] = f
         /\ \A i \in 1 .. Len(frames[current]) :
               frames'[current][i] = frames[current][i]
<1>1. frames[current] \in Seq(Frame) /\ current \in Tasks
  BY DEF TypeOK, Frame
<1>2. frames'[current] = Append(frames[current], f)
  BY <1>1 DEF Push, TypeOK
<1>3. current' = current /\ across' = across
      /\ \A t \in Tasks \ {current} : frames'[t] = frames[t]
  BY DEF Push, tasks, TypeOK
<1>. QED  BY <1>1, <1>2, <1>3

(* What closing one does.                                                  *)
LEMMA PopFrames ==
  ASSUME TypeOK, NEW f \in Frame, Pop(f)
  PROVE  /\ current' = current
         /\ \A t \in Tasks \ {current} : frames'[t] = frames[t]
                                         /\ across'[t] = across[t]
         /\ Len(frames[current]) > 0
         /\ frames[current][Len(frames[current])] = f
         /\ Len(frames'[current]) = Len(frames[current]) - 1
         /\ \A i \in 1 .. Len(frames[current]) - 1 :
               frames'[current][i] = frames[current][i]
         /\ across'[current] = IF across[current] = Len(frames[current])
                               THEN Len(frames[current]) - 1 ELSE across[current]
<1>1. frames[current] \in Seq(Frame) /\ current \in Tasks
  BY DEF TypeOK, Frame
<1>2. Len(frames[current]) > 0 /\ frames[current][Len(frames[current])] = f
  BY DEF Pop, Top
<1>3. frames'[current] = SubSeq(frames[current], 1, Len(frames[current]) - 1)
  BY <1>1 DEF Pop, TypeOK
<1>4. current' = current
      /\ \A t \in Tasks \ {current} : frames'[t] = frames[t]
                                      /\ across'[t] = across[t]
  BY DEF Pop, tasks, TypeOK
<1>5. across'[current] = IF across[current] = Len(frames[current])
                         THEN Len(frames[current]) - 1 ELSE across[current]
  BY <1>1 DEF Pop, TypeOK
<1>. QED  BY <1>1, <1>2, <1>3, <1>4, <1>5

(* The invariant after a frame was opened, with interrupts off from then on *)
LEMMA DepthAfterPush ==
  ASSUME TypeOK, DepthInv, NEW f \in Frame, Push(f), on' = FALSE, depth' \in Nat,
         Open = 0 => depth' >= 1 /\ (f = "section" => depth' = 1),
         Open > 0 => f = "section" /\ depth' = depth + 1
  PROVE  DepthInv'
<1>0. /\ current' = current /\ across' = across
      /\ \A t \in Tasks \ {current} : frames'[t] = frames[t]
      /\ Len(frames'[current]) = Len(frames[current]) + 1
      /\ frames'[current][Len(frames[current]) + 1] = f
      /\ \A i \in 1 .. Len(frames[current]) :
            frames'[current][i] = frames[current][i]
  BY PushFrames
<1>1. /\ current \in Tasks /\ depth \in Nat /\ Open \in Nat
      /\ Len(frames[current]) \in Nat /\ across[current] \in Nat
  BY LenFrames DEF TypeOK, DepthInv, Open
<1>2. Open' = Open + 1 /\ Open' > 0
  BY <1>1, <1>0 DEF Open
<1>3. \A i \in across'[current'] + 2 .. Len(frames'[current']) :
         frames'[current'][i] = "section"
  <2> SUFFICES ASSUME NEW i \in across[current] + 2 .. Len(frames[current]) + 1
               PROVE  frames'[current][i] = "section"
    BY <1>0
  <2>1. CASE i <= Len(frames[current])
    BY <1>1, <2>1, <1>0 DEF DepthInv
  <2>2. CASE i = Len(frames[current]) + 1
    BY <1>1, <2>2, <1>0 DEF Open
  <2>. QED  BY <1>1, <2>1, <2>2
<1>4. depth' >= Open' /\ (Lowest' = "section" => depth' = Open')
  <2>1. CASE Open = 0
    <3>1. across[current] = Len(frames[current])
      BY <1>1, <2>1 DEF Open
    <3>2. Lowest' = f
      BY <1>0, <3>1 DEF Lowest
    <3>. QED  BY <1>1, <1>2, <2>1, <3>2
  <2>2. CASE Open > 0
    <3>0. across[current] + 1 \in 1 .. Len(frames[current])
      BY <1>1, <2>2 DEF Open
    <3>1. Lowest' = Lowest
      BY <1>0, <3>0 DEF Lowest
    <3>. QED  BY <1>1, <1>2, <2>2, <3>1 DEF DepthInv
  <2>. QED  BY <1>1, <2>1, <2>2
<1>5. \A t \in Tasks \ {current'} : across'[t] = Len(frames'[t])
  BY <1>0 DEF DepthInv
<1>. QED  BY <1>2, <1>3, <1>4, <1>5, <1>1 DEF DepthInv

(* The invariant after a frame was closed                                  *)
LEMMA DepthAfterPop ==
  ASSUME TypeOK, DepthInv, NEW f \in Frame, Pop(f), depth' \in Nat,
         Open <= 1 => on' = TRUE,
         Open > 1 => on' = FALSE /\ depth' = depth - 1
  PROVE  DepthInv'
<1>0. /\ current' = current
      /\ \A t \in Tasks \ {current} : frames'[t] = frames[t]
                                      /\ across'[t] = across[t]
      /\ Len(frames[current]) > 0
      /\ Len(frames'[current]) = Len(frames[current]) - 1
      /\ \A i \in 1 .. Len(frames[current]) - 1 :
            frames'[current][i] = frames[current][i]
      /\ across'[current] = IF across[current] = Len(frames[current])
                            THEN Len(frames[current]) - 1 ELSE across[current]
  BY PopFrames
<1>1. /\ current \in Tasks /\ depth \in Nat /\ Open \in Nat
      /\ Len(frames[current]) \in Nat /\ across[current] \in Nat
  BY LenFrames DEF TypeOK, DepthInv, Open
<1>2. Open' = IF Open = 0 THEN 0 ELSE Open - 1
  BY <1>1, <1>0 DEF Open
<1>3. \A i \in across'[current'] + 2 .. Len(frames'[current']) :
         frames'[current'][i] = "section"
  <2> SUFFICES ASSUME NEW i \in across'[current] + 2 .. Len(frames'[current])
               PROVE  frames'[current][i] = "section"
    BY <1>0
  <2>1. across[current] < Len(frames[current])
    BY <1>0, <1>1
  <2>2. /\ i \in across[current] + 2 .. Len(frames[current])
        /\ i \in 1 .. Len(frames[current]) - 1
    BY <1>0, <1>1, <2>1
  <2>. QED  BY <1>0, <2>2 DEF DepthInv
<1>4. ASSUME Open' > 0
      PROVE  depth' >= Open' /\ (Lowest' = "section" => depth' = Open')
  <2>1. Open > 1
    BY <1>1, <1>2, <1>4
  <2>2. Lowest' = Lowest
    BY <1>1, <2>1, <1>0 DEF Lowest, Open
  <2>. QED  BY <1>1, <1>2, <2>1, <2>2 DEF DepthInv
<1>5. \A t \in Tasks \ {current'} : across'[t] = Len(frames'[t])
  BY <1>0 DEF DepthInv
<1>6. Open' >= 0 /\ (on' <=> Open' = 0)
  BY <1>1, <1>2
<1>. QED  BY <1>3, <1>4, <1>5, <1>6 DEF DepthInv

LEMMA DepthStep == TypeOK /\ DepthInv /\ [Next]_vars => DepthInv'
<1> SUFFICES ASSUME TypeOK, DepthInv, [Next]_vars PROVE DepthInv'
  OBVIOUS
<1>0. /\ current \in Tasks /\ depth \in Nat /\ on \in BOOLEAN /\ Open \in Nat
      /\ \A t \in Tasks : Len(frames[t]) \in Nat /\ across[t] \in Nat
  BY LenFrames DEF TypeOK, DepthInv, Open
<1>00. /\ on <=> Open = 0
       /\ Open > 0 => depth >= Open /\ (Lowest = "section" => depth = Open)
  BY DEF DepthInv
<1>1. CASE Off
  <2>1. Push("section") /\ on' = FALSE /\ depth' = IF on THEN 1 ELSE depth + 1
    BY <1>1 DEF Off, Disabled
  <2>2. /\ depth' \in Nat
        /\ Open = 0 => depth' = 1
        /\ Open > 0 => depth' = depth + 1
    BY <2>1, <1>0, <1>00
  <2>3. /\ Open = 0 => depth' >= 1 /\ ("section" = "section" => depth' = 1)
        /\ Open > 0 => "section" = "section" /\ depth' = depth + 1
    BY <2>2
  <2>4. "section" \in Frame
    BY DEF Frame
  <2>. QED  BY <2>1, <2>2, <2>3, <2>4, DepthAfterPush
<1>2. CASE Res
  <2>1. Pop("section") /\ depth' \in Nat
    BY <1>2, <1>0 DEF Res, IntResume
  <2>2. IF depth \in {0, 1} THEN on' = TRUE /\ depth' = depth
                            ELSE on' = on /\ depth' = depth - 1
    BY <1>2 DEF Res, IntResume
  <2>3. Open = 0 => on' = TRUE
    BY <2>2, <1>00
  <2>4. Open = 1 => on' = TRUE
    <3> HAVE Open = 1
    <3>1. Lowest = "section"
      BY <2>1, <1>0, PopFrames DEF Lowest, Open, Frame
    <3>. QED  BY <2>2, <3>1, <1>00
  <2>5. Open > 1 => on' = FALSE /\ depth' = depth - 1
    BY <2>2, <1>0, <1>00
  <2>6. Open <= 1 => on' = TRUE
    BY <2>3, <2>4, <1>0
  <2>. QED  BY <2>1, <2>5, <2>6, DepthAfterPop DEF Frame
<1>3. CASE Irq
  <2>1. Push("handler") /\ on /\ on' = FALSE /\ depth' = depth + 1
    BY <1>3 DEF Irq
  <2>2. depth' \in Nat /\ Open = 0 /\ depth' >= 1
    BY <2>1, <1>0, <1>00
  <2>3. /\ Open = 0 => depth' >= 1 /\ ("handler" = "section" => depth' = 1)
        /\ Open > 0 => "handler" = "section" /\ depth' = depth + 1
    BY <2>2
  <2>4. "handler" \in Frame
    BY DEF Frame
  <2>. QED  BY <2>1, <2>2, <2>3, <2>4, DepthAfterPush
<1>4. CASE IrqEnd
  <2>1. Pop("handler") /\ on' = TRUE /\ depth' \in Nat
    BY <1>4, <1>0 DEF IrqEnd
  <2>2. ~(Open > 1)
    <3> SUFFICES ASSUME Open > 1 PROVE FALSE
      OBVIOUS
    <3>1. Len(frames[current]) \in across[current] + 2 .. Len(frames[current])
      BY <1>0 DEF Open
    <3>2. frames[current][Len(frames[current])] = "section"
      BY <3>1 DEF DepthInv
    <3>. QED  BY <2>1, <3>2, PopFrames DEF Frame
  <2>. QED  BY <2>1, <2>2, <1>0, DepthAfterPop DEF Frame
<1>5. CASE Exit
  <2>1. frames[current] = <<>> /\ Len(frames[current]) = 0
    BY <1>5 DEF Exit
  <2>2. current' = current /\ frames' = frames /\ across' = across /\ on' = TRUE
    BY <1>5 DEF Exit
  <2>. QED  BY <2>1, <2>2, <1>0 DEF DepthInv, Open
<1>6. ASSUME NEW t \in Tasks, Switch(t) PROVE DepthInv'
  <2>1. current' = t /\ frames' = frames /\ on' = TRUE
        /\ across' = [across EXCEPT ![current] = Len(frames[current])]
    BY <1>6 DEF Switch
  <2>2. \A u \in Tasks : across'[u] = Len(frames'[u])
    BY <2>1, <1>0 DEF TypeOK, DepthInv
  <2>. QED  BY <2>1, <2>2, <1>0 DEF DepthInv, Open
<1>7. ASSUME NEW t \in Tasks, Reap(t) PROVE DepthInv'
  <2>1. /\ t # current /\ current' = current /\ on' = on /\ depth' = depth
        /\ frames' = [frames EXCEPT ![t] = <<>>]
        /\ across' = [across EXCEPT ![t] = 0]
    BY <1>7 DEF Reap
  <2>2. frames'[t] = <<>> /\ across'[t] = 0
    BY <2>1 DEF TypeOK
  <2>3. \A u \in Tasks \ {t} : frames'[u] = frames[u] /\ across'[u] = across[u]
    BY <2>1 DEF TypeOK
  <2>. QED  BY <2>1, <2>2, <2>3, <1>0 DEF DepthInv, Open, Lowest
<1>8. CASE Trap \/ (\E t \in Tasks : Spawn(t)) \/ (\E v \in Values : Compute(v))
           \/ UNCHANGED vars
  BY <1>8 DEF Trap, Spawn, Compute, vars, tasks, flags, DepthInv, Open, Lowest
<1>. QED  BY <1>1, <1>2, <1>3, <1>4, <1>5, <1>6, <1>7, <1>8 DEF Next

(* Interrupts are off from int_disable to its int_resume, however sections *)
(* and handlers nest, and are on again afterwards, although one depth      *)
(* serves all tasks; the rest of a section that was switched away is the   *)
(* only exception.                                                         *)
THEOREM InterruptsCorrect == Spec => []SectionsClosed
<1>1. Init => DepthInv
  BY SwitchAssumption DEF Init, DepthInv, Open, Lowest
<1>2. TypeOK /\ DepthInv => SectionsClosed
  BY DEF TypeOK, DepthInv, Open, SectionsClosed
<1>. QED  BY <1>1, <1>2, DepthStep, SwitchTypes, PTL DEF Spec

-----------------------------------------------------------------------------
(* The registers of the FPU                                                *)

(* Where the registers of a task are, unless it is an heir.                *)
Kept(t) ==
  /\ owner = t => used[t] /\ regs = mine[t]
  /\ owner # t /\ used[t] => area[t] = mine[t]
  /\ ~used[t] => mine[t] = Clean

FpuInv ==
  /\ \A t \in Tasks \ heirs : Kept(t)
  /\ ~trap => owner = current

LEMMA FpuStep == TypeOK /\ FpuInv /\ [Next]_vars => FpuInv'
<1> SUFFICES ASSUME TypeOK, FpuInv, [Next]_vars PROVE FpuInv'
  OBVIOUS
<1> USE SwitchAssumption DEF FpuInv, Kept
<1>0. current \in Tasks
  BY DEF TypeOK
<1>1. CASE Trap
  <2>1. CASE owner = current
    BY <1>1, <2>1 DEF Trap, tasks
  <2>2. CASE owner # current
    <3>1. /\ owner' = current /\ ~trap' /\ current' = current
          /\ heirs' = heirs /\ mine' = mine
          /\ area' = IF owner = None THEN area ELSE [area EXCEPT ![owner] = regs]
          /\ regs' = IF used[current] THEN area[current] ELSE Clean
          /\ used' = [used EXCEPT ![current] = TRUE]
      BY <1>1, <2>2 DEF Trap, tasks
    <3>2. ASSUME NEW t \in Tasks \ heirs PROVE Kept(t)'
      <4>1. CASE t = current
        <5>1. used'[t] /\ regs' = mine[t]
          BY <3>1, <2>2, <4>1, <1>0 DEF TypeOK
        <5>. QED  BY <3>1, <4>1, <5>1
      <4>2. CASE t # current
        <5>1. used'[t] = used[t] /\ owner' # t
          BY <3>1, <4>2 DEF TypeOK
        <5>2. used[t] => area'[t] = mine[t]
          BY <3>1, <4>2 DEF TypeOK
        <5>. QED  BY <3>1, <5>1, <5>2
      <4>. QED  BY <4>1, <4>2
    <3>. QED  BY <3>1, <3>2
  <2>. QED  BY <2>1, <2>2
<1>2. ASSUME NEW v \in Values, Compute(v) PROVE FpuInv'
  <2>1. /\ owner = current /\ regs' = v /\ mine' = [mine EXCEPT ![current] = v]
        /\ UNCHANGED <<current, trap, owner, area, used, heirs>>
    BY <1>2 DEF Compute, tasks
  <2>2. ASSUME NEW t \in Tasks \ heirs PROVE Kept(t)'
    <3>1. CASE t = current
      BY <2>1, <3>1, <1>0 DEF TypeOK
    <3>2. CASE t # current
      BY <2>1, <3>2, <1>0 DEF TypeOK
    <3>. QED  BY <3>1, <3>2
  <2>. QED  BY <2>1, <2>2
<1>3. ASSUME NEW u \in Tasks, Spawn(u) PROVE FpuInv'
  <2>1. /\ UNCHANGED <<current, trap, owner, regs>>
        /\ area' = [area EXCEPT ![u] = Clean]
        /\ used' = [used EXCEPT ![u] = FALSE]
        /\ mine' = [mine EXCEPT ![u] = Clean]
        /\ heirs' = IF owner = u THEN heirs \cup {u} ELSE heirs \ {u}
    BY <1>3 DEF Spawn
  <2>2. ASSUME NEW t \in Tasks \ heirs' PROVE Kept(t)'
    <3>1. CASE t = u
      BY <2>1, <3>1 DEF TypeOK
    <3>2. CASE t # u
      BY <2>1, <3>2 DEF TypeOK
    <3>. QED  BY <3>1, <3>2
  <2>. QED  BY <2>1, <2>2
<1>4. ASSUME NEW t \in Tasks, Switch(t) PROVE FpuInv'
  BY <1>4 DEF Switch
<1>5. CASE Off \/ Res \/ Irq \/ IrqEnd \/ Exit
           \/ (\E t \in Tasks : Reap(t)) \/ UNCHANGED vars
  BY <1>5 DEF Off, Res, Irq, IrqEnd, Exit, Reap, Push, Pop, vars, tasks, fpu
<1>. QED  BY <1>1, <1>2, <1>3, <1>4, <1>5 DEF Next

(* The registers a task finds in the FPU are its own, or clean, wherever   *)
(* the lazy switch left them, unless its address belonged to their owner.  *)
THEOREM RegistersCorrect == Spec => []RegistersOwn
<1>1. Init => FpuInv
  BY SwitchAssumption DEF Init, FpuInv, Kept
<1>2. TypeOK /\ FpuInv => RegistersOwn
  BY DEF TypeOK, FpuInv, Kept, RegistersOwn
<1>. QED  BY <1>1, <1>2, FpuStep, SwitchTypes, PTL DEF Spec
=============================================================================
