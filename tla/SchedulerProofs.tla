-------------------------- MODULE SchedulerProofs --------------------------
(***************************************************************************)
(* Theorems about the scheduler of Scheduler.tla, for any number of tasks  *)
(* and wait queues.                                                        *)
(***************************************************************************)
EXTENDS Scheduler, SequenceTheorems, TLAPS

-----------------------------------------------------------------------------
(***************************************************************************)
(* What the operations on a list (the sequence of the tasks in it) do to   *)
(* its members and to its having no member twice.                          *)
(***************************************************************************)

(* list_append *)
LEMMA AppendMembers ==
  ASSUME NEW S, NEW s \in Seq(S), NEW e \in S
  PROVE  /\ Append(s, e) \in Seq(S)
         /\ ToSet(Append(s, e)) = ToSet(s) \cup {e}
         /\ IsInjective(s) /\ e \notin ToSet(s) => IsInjective(Append(s, e))
<1>1. /\ Append(s, e) \in Seq(S)
      /\ DOMAIN Append(s, e) = 1 .. Len(s) + 1
      /\ DOMAIN s = 1 .. Len(s)
      /\ \A i \in 1 .. Len(s) : Append(s, e)[i] = s[i]
      /\ Append(s, e)[Len(s) + 1] = e
      /\ Len(s) \in Nat
  BY AppendProperties, LenProperties
<1>2. ToSet(Append(s, e)) = ToSet(s) \cup {e}
  BY <1>1 DEF ToSet
<1>3. ASSUME IsInjective(s), e \notin ToSet(s)
      PROVE  IsInjective(Append(s, e))
  BY <1>1, <1>3 DEF IsInjective, ToSet
<1>. QED  BY <1>1, <1>2, <1>3

(* A part of a list. *)
LEMMA SubSeqMembers ==
  ASSUME NEW S, NEW s \in Seq(S), NEW m \in Nat \ {0}, NEW n \in 0 .. Len(s)
  PROVE  /\ SubSeq(s, m, n) \in Seq(S)
         /\ ToSet(SubSeq(s, m, n)) = {s[i] : i \in m .. n}
         /\ IsInjective(s) => IsInjective(SubSeq(s, m, n))
<1>. DEFINE u == SubSeq(s, m, n)
<1>0. Len(s) \in Nat /\ DOMAIN s = 1 .. Len(s) /\ \A i \in m .. n : s[i] \in S
  BY LenProperties, ElementOfSeq
<1>1. /\ u \in Seq(S)
      /\ Len(u) = IF m <= n THEN n - m + 1 ELSE 0
      /\ \A i \in 1 .. n - m + 1 : u[i] = s[m + i - 1]
  BY <1>0, SubSeqProperties
<1>2. DOMAIN u = 1 .. n - m + 1
  BY <1>1, LenProperties
<1>3. \A j \in m .. n : j - m + 1 \in 1 .. n - m + 1 /\ u[j - m + 1] = s[j]
  <2>. TAKE j \in m .. n
  <2>1. j - m + 1 \in 1 .. n - m + 1 /\ m + (j - m + 1) - 1 = j
    OBVIOUS
  <2>. QED  BY <1>1, <2>1
<1>4. ToSet(u) = {s[i] : i \in m .. n}
  <2>1. ASSUME NEW x \in ToSet(u) PROVE x \in {s[i] : i \in m .. n}
    <3>1. PICK i \in 1 .. n - m + 1 : x = u[i]  BY <1>2 DEF ToSet
    <3>2. m + i - 1 \in m .. n  OBVIOUS
    <3>. QED  BY <1>1, <3>1, <3>2
  <2>2. ASSUME NEW x \in {s[i] : i \in m .. n} PROVE x \in ToSet(u)
    BY <1>2, <1>3 DEF ToSet
  <2>. QED  BY <2>1, <2>2
<1>5. ASSUME IsInjective(s) PROVE IsInjective(u)
  <2>. SUFFICES ASSUME NEW i \in 1 .. n - m + 1, NEW j \in 1 .. n - m + 1,
                       u[i] = u[j]
                PROVE  i = j
    BY <1>2 DEF IsInjective
  <2>1. m + i - 1 \in 1 .. Len(s) /\ m + j - 1 \in 1 .. Len(s)
    BY <1>0
  <2>2. s[m + i - 1] = s[m + j - 1]
    BY <1>1
  <2>3. m + i - 1 = m + j - 1
    BY <1>0, <1>5, <2>1, <2>2 DEF IsInjective
  <2>. QED  BY <2>3
<1>. QED  BY <1>1, <1>4, <1>5

(* list_pop *)
LEMMA FrontMembers ==
  ASSUME NEW S, NEW s \in Seq(S), s # <<>>
  PROVE  /\ Front(s) \in Seq(S)
         /\ Last(s) \in ToSet(s)
         /\ Last(s) \in S
         /\ ToSet(s) = ToSet(Front(s)) \cup {Last(s)}
         /\ IsInjective(s) => /\ IsInjective(Front(s))
                              /\ Last(s) \notin ToSet(Front(s))
<1>1. Len(s) \in Nat \ {0} /\ DOMAIN s = 1 .. Len(s)
  BY LenProperties, EmptySeq
<1>2. /\ Front(s) \in Seq(S)
      /\ ToSet(Front(s)) = {s[i] : i \in 1 .. Len(s) - 1}
      /\ IsInjective(s) => IsInjective(Front(s))
  BY <1>1, SubSeqMembers DEF Front
<1>3. ToSet(s) = ToSet(Front(s)) \cup {s[Len(s)]}
  <2>1. 1 .. Len(s) = (1 .. Len(s) - 1) \cup {Len(s)}
    BY <1>1
  <2>. QED  BY <1>1, <1>2, <2>1 DEF ToSet
<1>4. s[Len(s)] \in S
  BY <1>1, ElementOfSeq
<1>5. IsInjective(s) => s[Len(s)] \notin ToSet(Front(s))
  BY <1>1, <1>2 DEF IsInjective
<1>. QED  BY <1>2, <1>3, <1>4, <1>5 DEF Last

(* One list behind another. *)
LEMMA ConcatMembers ==
  ASSUME NEW S, NEW s \in Seq(S), NEW u \in Seq(S)
  PROVE  /\ s \o u \in Seq(S)
         /\ ToSet(s \o u) = ToSet(s) \cup ToSet(u)
         /\ IsInjective(s) /\ IsInjective(u) /\ ToSet(s) \cap ToSet(u) = {}
              => IsInjective(s \o u)
<1>1. /\ Len(s) \in Nat /\ DOMAIN s = 1 .. Len(s)
      /\ Len(u) \in Nat /\ DOMAIN u = 1 .. Len(u)
  BY LenProperties
<1>2. /\ s \o u \in Seq(S)
      /\ Len(s \o u) = Len(s) + Len(u)
      /\ \A i \in 1 .. Len(s) + Len(u) :
           (s \o u)[i] = IF i <= Len(s) THEN s[i] ELSE u[i - Len(s)]
  BY ConcatProperties
<1>3. DOMAIN (s \o u) = 1 .. Len(s) + Len(u)
  BY <1>2, LenProperties
<1>4. \A i \in 1 .. Len(s) : i \in 1 .. Len(s) + Len(u) /\ (s \o u)[i] = s[i]
  BY <1>1, <1>2
<1>5. \A i \in 1 .. Len(u) : /\ Len(s) + i \in 1 .. Len(s) + Len(u)
                             /\ (s \o u)[Len(s) + i] = u[i]
  <2>. TAKE i \in 1 .. Len(u)
  <2>1. /\ Len(s) + i \in 1 .. Len(s) + Len(u)
        /\ ~(Len(s) + i <= Len(s))
        /\ Len(s) + i - Len(s) = i
    BY <1>1
  <2>. QED  BY <1>2, <2>1
<1>6. \A k \in 1 .. Len(s) + Len(u) :
        \/ k \in 1 .. Len(s) /\ (s \o u)[k] = s[k]
        \/ k - Len(s) \in 1 .. Len(u) /\ (s \o u)[k] = u[k - Len(s)]
  BY <1>1, <1>2
<1>7. ToSet(s \o u) = ToSet(s) \cup ToSet(u)
  <2>1. ToSet(s \o u) \subseteq ToSet(s) \cup ToSet(u)
    BY <1>1, <1>3, <1>6 DEF ToSet
  <2>2. ToSet(s) \subseteq ToSet(s \o u)
    BY <1>1, <1>3, <1>4 DEF ToSet
  <2>3. ToSet(u) \subseteq ToSet(s \o u)
    BY <1>1, <1>3, <1>5 DEF ToSet
  <2>. QED  BY <2>1, <2>2, <2>3
<1>8. ASSUME IsInjective(s), IsInjective(u), ToSet(s) \cap ToSet(u) = {}
      PROVE  IsInjective(s \o u)
  <2>. SUFFICES ASSUME NEW i \in 1 .. Len(s) + Len(u),
                       NEW j \in 1 .. Len(s) + Len(u),
                       (s \o u)[i] = (s \o u)[j]
                PROVE  i = j
    BY <1>3 DEF IsInjective
  <2>1. CASE i \in 1 .. Len(s) /\ j \in 1 .. Len(s)
    BY <1>1, <1>4, <1>8, <2>1 DEF IsInjective
  <2>2. CASE i - Len(s) \in 1 .. Len(u) /\ j - Len(s) \in 1 .. Len(u)
    <3>1. u[i - Len(s)] = u[j - Len(s)]  BY <1>1, <1>2, <2>2
    <3>2. i - Len(s) = j - Len(s)  BY <1>1, <1>8, <2>2, <3>1 DEF IsInjective
    <3>. QED  BY <1>1, <3>2
  <2>3. CASE i \in 1 .. Len(s) /\ j - Len(s) \in 1 .. Len(u)
    <3>1. s[i] = u[j - Len(s)]  BY <1>1, <1>2, <2>3
    <3>. QED  BY <1>1, <1>8, <2>3, <3>1 DEF ToSet
  <2>4. CASE i - Len(s) \in 1 .. Len(u) /\ j \in 1 .. Len(s)
    <3>1. s[j] = u[i - Len(s)]  BY <1>1, <1>2, <2>4
    <3>. QED  BY <1>1, <1>8, <2>4, <3>1 DEF ToSet
  <2>. QED  BY <1>1, <2>1, <2>2, <2>3, <2>4
<1>. QED  BY <1>2, <1>7, <1>8

(* A list popped until it is empty. *)
LEMMA ReverseMembers ==
  ASSUME NEW S, NEW s \in Seq(S)
  PROVE  /\ Reverse(s) \in Seq(S)
         /\ ToSet(Reverse(s)) = ToSet(s)
         /\ IsInjective(s) => IsInjective(Reverse(s))
<1>1. Len(s) \in Nat /\ DOMAIN s = 1 .. Len(s) /\ s \in [1 .. Len(s) -> S]
  BY LenProperties
<1>2. \A i \in 1 .. Len(s) : Len(s) - i + 1 \in 1 .. Len(s)
  BY <1>1
<1>3. DOMAIN Reverse(s) = 1 .. Len(s)
  BY DEF Reverse
<1>4. \A i \in 1 .. Len(s) : Reverse(s)[i] = s[Len(s) - i + 1]
  BY <1>1 DEF Reverse
<1>5. Reverse(s) \in Seq(S)
  <2>1. \A i \in 1 .. Len(s) : s[Len(s) - i + 1] \in S
    BY <1>1, <1>2, ElementOfSeq
  <2>2. Reverse(s) \in [1 .. Len(s) -> S]
    BY <2>1 DEF Reverse
  <2>. QED  BY <1>1, <2>2, SeqDef
<1>6. \A i \in 1 .. Len(s) : Reverse(s)[Len(s) - i + 1] = s[i]
  <2>. TAKE i \in 1 .. Len(s)
  <2>1. Len(s) - (Len(s) - i + 1) + 1 = i  BY <1>1
  <2>. QED  BY <1>2, <1>4, <2>1
<1>7. ToSet(Reverse(s)) = ToSet(s)
  <2>1. ToSet(Reverse(s)) \subseteq ToSet(s)
    BY <1>1, <1>2, <1>3, <1>4 DEF ToSet
  <2>2. ToSet(s) \subseteq ToSet(Reverse(s))
    BY <1>1, <1>2, <1>3, <1>6 DEF ToSet
  <2>. QED  BY <2>1, <2>2
<1>8. ASSUME IsInjective(s) PROVE IsInjective(Reverse(s))
  <2>. SUFFICES ASSUME NEW i \in 1 .. Len(s), NEW j \in 1 .. Len(s),
                       Reverse(s)[i] = Reverse(s)[j]
                PROVE  i = j
    BY <1>3 DEF IsInjective
  <2>1. s[Len(s) - i + 1] = s[Len(s) - j + 1]
    BY <1>4
  <2>2. Len(s) - i + 1 = Len(s) - j + 1
    BY <1>1, <1>2, <1>8, <2>1 DEF IsInjective
  <2>. QED  BY <1>1, <2>2
<1>. QED  BY <1>5, <1>7, <1>8

(* list_delete of the node at position k. *)
LEMMA RemoveMembers ==
  ASSUME NEW S, NEW s \in Seq(S), NEW k \in 1 .. Len(s)
  PROVE  /\ RemoveAt(s, k) \in Seq(S)
         /\ ToSet(RemoveAt(s, k)) \subseteq ToSet(s)
         /\ ToSet(s) \subseteq ToSet(RemoveAt(s, k)) \cup {s[k]}
         /\ IsInjective(s) => /\ IsInjective(RemoveAt(s, k))
                              /\ s[k] \notin ToSet(RemoveAt(s, k))
<1>. DEFINE a == SubSeq(s, 1, k - 1)
            b == SubSeq(s, k + 1, Len(s))
<1>1. Len(s) \in Nat /\ DOMAIN s = 1 .. Len(s) /\ k - 1 \in 0 .. Len(s)
  BY LenProperties
<1>2. /\ a \in Seq(S)
      /\ ToSet(a) = {s[i] : i \in 1 .. k - 1}
      /\ IsInjective(s) => IsInjective(a)
  BY <1>1, SubSeqMembers
<1>3. /\ b \in Seq(S)
      /\ ToSet(b) = {s[i] : i \in k + 1 .. Len(s)}
      /\ IsInjective(s) => IsInjective(b)
  BY <1>1, SubSeqMembers
<1>4. RemoveAt(s, k) = a \o b
  BY DEF RemoveAt
<1>5. ToSet(a \o b) = ToSet(a) \cup ToSet(b) /\ a \o b \in Seq(S)
  <2>. HIDE DEF a, b
  <2>1. a \in Seq(S) /\ b \in Seq(S)
    BY <1>2, <1>3
  <2>. QED  BY <2>1, ConcatMembers
<1>6. ToSet(s) = ToSet(a) \cup ToSet(b) \cup {s[k]}
  <2>1. 1 .. Len(s) = (1 .. k - 1) \cup (k + 1 .. Len(s)) \cup {k}
    BY <1>1
  <2>2. ToSet(s) = {s[i] : i \in 1 .. Len(s)}
    BY <1>1 DEF ToSet
  <2>. QED  BY <1>2, <1>3, <2>1, <2>2
<1>7. ASSUME IsInjective(s)
      PROVE  ToSet(a) \cap ToSet(b) = {} /\ s[k] \notin ToSet(a) \cup ToSet(b)
  <2>1. \A i \in 1 .. k - 1 : \A j \in k .. Len(s) : s[i] # s[j]
    BY <1>1, <1>7 DEF IsInjective
  <2>2. \A j \in k + 1 .. Len(s) : s[j] # s[k]
    BY <1>1, <1>7 DEF IsInjective
  <2>. QED  BY <1>1, <1>2, <1>3, <2>1, <2>2
<1>8. IsInjective(s) => IsInjective(a \o b)
  BY <1>2, <1>3, <1>7, ConcatMembers
<1>. QED  BY <1>4, <1>5, <1>6, <1>7, <1>8

-----------------------------------------------------------------------------

(* A tasklet does not sleep on a list an interrupt handler wakes: without  *)
(* this, NoNodeAppendedTwice is violated.                                  *)
QuietSleepers ==
  \A t \in KernelThreads : \A q \in IrqQueues : <<t, q>> \notin Sleeps

-----------------------------------------------------------------------------
(* The inductive invariant.                                                *)

OnList(t) == t \in sleepq \/ \E q \in Lists : t \in ToSet(waitq[q])

(* Descheduled, or about to be. *)
Down(t) == pc[t] = "asleep" \/ (pc[t] = "enqueued" /\ t = current)

(* Who is in wakeup_queue works on the list it alone wakes, and between    *)
(* the test of the length and list_pop a descheduled task stays in it.     *)
WakerInv ==
  \A t \in Tasks :
    /\ pc[t] \in {"check", "pop", "holds"} =>
         target[t] \in Queues \ IrqQueues /\ Waker[target[t]] = t
    /\ pc[t] = "pop" => \E s \in ToSet(waitq[target[t]]) : pc[s] = "asleep"

(* A task on a list is down, and the list is the one of its last sleep_on. *)
WaitInv ==
  /\ \A q \in Lists : /\ IsInjective(waitq[q])
                      /\ \A t \in ToSet(waitq[q]) : target[t] = q /\ Down(t)
  /\ \A t \in sleepq : target[t] = NoTask /\ Down(t)

ReadyInv ==
  /\ IsInjective(ready)
  /\ \A t \in ToSet(ready) :
       t # current /\ pc[t] # "cradle" /\ ~OnList(t) /\ ~InHand(t)

HandInv ==
  \A w \in Tasks :
    /\ popped[w] # NoTask <=> pc[w] = "holds"
    /\ popped[w] # NoTask => pc[popped[w]] = "asleep" /\ ~OnList(popped[w])
    /\ \A v \in Tasks : popped[v] = popped[w] /\ popped[w] # NoTask => v = w

(* A task about to sleep on a device has had interrupts off all along,     *)
(* unless it is a tasklet.                                                 *)
EnqueuedInv ==
  \A t \in Tasks :
    pc[t] = "enqueued" /\ target[t] \in Queues =>
      <<t, target[t]>> \in Sleeps /\ t \notin resumed

CurrentInv == /\ pc[current] \notin {"cradle", "asleep"}
              /\ pc[Root] \in {"run", "check", "pop", "holds", "grave"}

IInv == /\ TypeOK /\ WakerInv /\ WaitInv /\ ReadyInv /\ HandInv /\ EnqueuedInv
        /\ CurrentInv

-----------------------------------------------------------------------------
(* list_delete of the sleep_node, for a task on the list or not. *)
LEMMA WithoutMembers ==
  ASSUME NEW s \in Seq(Tasks), NEW t \in Tasks
  PROVE  /\ Without(s, t) \in Seq(Tasks)
         /\ IsInjective(s) => /\ IsInjective(Without(s, t))
                              /\ ToSet(Without(s, t)) = ToSet(s) \ {t}
<1>0. Len(s) \in Nat /\ DOMAIN s = 1 .. Len(s)
  BY LenProperties
<1>1. CASE Contains(s, t)
  <2>. DEFINE k == CHOOSE i \in 1 .. Len(s) : s[i] = t
  <2>1. k \in 1 .. Len(s) /\ s[k] = t
    BY <1>1 DEF Contains
  <2>. HIDE DEF k
  <2>2. /\ RemoveAt(s, k) \in Seq(Tasks)
        /\ ToSet(RemoveAt(s, k)) \subseteq ToSet(s)
        /\ ToSet(s) \subseteq ToSet(RemoveAt(s, k)) \cup {t}
        /\ IsInjective(s) => /\ IsInjective(RemoveAt(s, k))
                             /\ t \notin ToSet(RemoveAt(s, k))
    BY <2>1, RemoveMembers
  <2>3. Without(s, t) = RemoveAt(s, k)
    BY <1>1 DEF Without, k
  <2>. QED  BY <2>2, <2>3
<1>2. CASE ~Contains(s, t)
  <2>1. t \notin ToSet(s)
    BY <1>0, <1>2 DEF Contains, ToSet
  <2>. QED  BY <1>2, <2>1 DEF Without
<1>. QED  BY <1>1, <1>2

(* The two ways to say that a list holds a task. *)
LEMMA ContainsIsMember ==
  ASSUME NEW S, NEW s \in Seq(S), NEW e
  PROVE  Contains(s, e) <=> e \in ToSet(s)
<1>1. DOMAIN s = 1 .. Len(s)
  BY LenProperties
<1>. QED  BY <1>1 DEF Contains, ToSet

TTL == [pwm : BOOLEAN, count : 0 .. MAX_TTL, start : 0 .. MAX_TTL]

(* The duty cycle counter stays on its scale. *)
LEMMA TtlStep ==
  ASSUME SchedulerAssumption, NEW r \in TTL
  PROVE  /\ TtlAfterRun(r) \in TTL
         /\ (IF r.pwm THEN r.count < r.start ELSE r.count < MAX_TTL)
               => TtlAfterSkip(r) \in TTL
<1>1. MAX_TTL \in Nat \ {0} /\ r.count \in 0 .. MAX_TTL /\ r.start \in 0 .. MAX_TTL
  BY DEF SchedulerAssumption, TTL
<1>2. \A c \in 0 .. MAX_TTL : [r EXCEPT !.count = c] \in TTL
  BY DEF TTL
<1>3. TtlAfterRun(r) \in TTL
  <2>. DEFINE next == IF r.count + 1 >= MAX_TTL THEN 0 ELSE r.count + 1
  <2>1. next \in 0 .. MAX_TTL
    BY <1>1
  <2>. HIDE DEF next, TTL
  <2>2. [r EXCEPT !.count = next] \in TTL /\ [r EXCEPT !.count = r.start] \in TTL
    BY <1>1, <1>2, <2>1
  <2>. QED  BY <2>2 DEF TtlAfterRun, next
<1>4. (IF r.pwm THEN r.count < r.start ELSE r.count < MAX_TTL)
        => TtlAfterSkip(r) \in TTL
  <2>1. SUFFICES ASSUME IF r.pwm THEN r.count < r.start ELSE r.count < MAX_TTL
                 PROVE  TtlAfterSkip(r) \in TTL
    OBVIOUS
  <2>2. r.count + 1 \in 0 .. MAX_TTL
    BY <1>1, <2>1
  <2>. QED  BY <1>2, <2>2 DEF TtlAfterSkip
<1>. QED  BY <1>3, <1>4

(* switch_task chooses a task of the queue, or kinit from an empty one.    *)
LEMMA DispatchStep ==
  ASSUME SchedulerAssumption, TypeOK,
         NEW r \in Seq(Tasks), NEW p \in [Tasks -> Places],
         IsInjective(r), Dispatch(r, p)
  PROVE  /\ current' \in Tasks
         /\ ready' \in Seq(Tasks)
         /\ IsInjective(ready')
         /\ ToSet(ready') \subseteq ToSet(r) \ {current'}
         /\ current' \in ToSet(r) \/ (current' = Root /\ ready' = <<>>)
         /\ resumed' = IF p[current'] = "asleep" THEN resumed \cup {current'}
                                                 ELSE resumed
         /\ \/ p[current'] # "asleep" /\ pc' = p
            \/ /\ p[current'] = "asleep"
               /\ \E l \in {"scan", "run"} :
                    /\ pc' = [p EXCEPT ![current'] = l]
                    /\ l = "scan" => target[current'] = current'
         /\ ttl' \in [Tasks -> TTL]
<1>0. Len(r) \in Nat /\ DOMAIN r = 1 .. Len(r) /\ \A i \in 1 .. Len(r) : r[i] \in Tasks
  BY LenProperties, ElementOfSeq
<1>1. PICK k \in 1 .. Len(r) + 1 :
        LET next == IF k <= Len(r) THEN r[k] ELSE Root
        IN /\ \A i \in 1 .. k - 1 : Skipped(r[i])
           /\ k <= Len(r) => ~Skipped(r[k])
           /\ current' = next
           /\ ready' = SubSeq(r, k + 1, Len(r))
           /\ resumed' = IF p[next] = "asleep" THEN resumed \cup {next} ELSE resumed
           /\ pc' = IF p[next] = "asleep"
                    THEN [p EXCEPT ![next] = IF target[next] = next THEN "scan"
                                                                    ELSE "run"]
                    ELSE p
           /\ ttl' = [t \in Tasks |->
                        IF t = next THEN TtlAfterRun(ttl[t])
                        ELSE IF \E i \in 1 .. k - 1 : r[i] = t
                             THEN TtlAfterSkip(ttl[t]) ELSE ttl[t]]
  BY DEF Dispatch
<1>2. current' \in Tasks
  BY <1>0, <1>1 DEF SchedulerAssumption
<1>3. /\ ready' \in Seq(Tasks)
      /\ IsInjective(ready')
      /\ ToSet(ready') = {r[i] : i \in k + 1 .. Len(r)}
  <2>1. k + 1 \in Nat \ {0} /\ Len(r) \in 0 .. Len(r)
    BY <1>0
  <2>2. /\ SubSeq(r, k + 1, Len(r)) \in Seq(Tasks)
        /\ ToSet(SubSeq(r, k + 1, Len(r))) = {r[i] : i \in k + 1 .. Len(r)}
        /\ IsInjective(SubSeq(r, k + 1, Len(r)))
    BY <2>1, SubSeqMembers
  <2>. QED  BY <1>1, <2>2
<1>4. ToSet(ready') \subseteq ToSet(r)
  BY <1>0, <1>1, <1>3 DEF ToSet
<1>5. /\ current' \in ToSet(r) \/ (current' = Root /\ ready' = <<>>)
      /\ ToSet(ready') \subseteq ToSet(r) \ {current'}
  <2>1. CASE k <= Len(r)
    <3>1. current' = r[k] /\ k \in 1 .. Len(r)
      BY <1>1, <2>1
    <3>2. ASSUME NEW i \in k + 1 .. Len(r) PROVE r[i] # r[k]
      <4>1. i \in 1 .. Len(r) /\ i # k
        BY <1>0, <3>1
      <4>. QED  BY <1>0, <3>1, <4>1 DEF IsInjective
    <3>3. r[k] \in ToSet(r)
      BY <1>0, <3>1 DEF ToSet
    <3>. QED  BY <1>3, <1>4, <3>1, <3>2, <3>3
  <2>2. CASE ~(k <= Len(r))
    <3>1. current' = Root /\ k + 1 > Len(r)
      BY <1>0, <1>1, <2>2
    <3>2. ready' = <<>>
      BY <1>0, <1>1, <3>1, SubSeqEmpty
    <3>. QED  BY <3>1, <3>2, EmptySeq DEF ToSet
  <2>. QED  BY <2>1, <2>2
<1>6. ttl' \in [Tasks -> TTL]
  <2>. HIDE DEF TTL
  <2>1. ASSUME NEW t \in Tasks
        PROVE  (IF t = current' THEN TtlAfterRun(ttl[t])
                ELSE IF \E i \in 1 .. k - 1 : r[i] = t
                     THEN TtlAfterSkip(ttl[t]) ELSE ttl[t]) \in TTL
    <3>1. ttl[t] \in TTL
      BY DEF TypeOK, TTL
    <3>2. (\E i \in 1 .. k - 1 : r[i] = t) => Skipped(t)
      BY <1>1
    <3>3. TtlAfterRun(ttl[t]) \in TTL /\ (Skipped(t) => TtlAfterSkip(ttl[t]) \in TTL)
      BY <3>1, TtlStep DEF Skipped
    <3>. QED  BY <3>1, <3>2, <3>3
  <2>. QED  BY <1>1, <2>1
<1>7. resumed' = IF p[current'] = "asleep" THEN resumed \cup {current'} ELSE resumed
  BY <1>1
<1>8. \/ p[current'] # "asleep" /\ pc' = p
      \/ /\ p[current'] = "asleep"
         /\ \E l \in {"scan", "run"} : /\ pc' = [p EXCEPT ![current'] = l]
                                       /\ l = "scan" => target[current'] = current'
  BY <1>1
<1>. QED  BY <1>2, <1>3, <1>5, <1>6, <1>7, <1>8

-----------------------------------------------------------------------------
(* The wait lists hold tasks. *)
LEMMA WaitMembers ==
  ASSUME TypeOK, NEW q \in Lists
  PROVE  waitq[q] \in Seq(Tasks) /\ ToSet(waitq[q]) \subseteq Tasks
<1>1. waitq[q] \in Seq(Tasks)
  BY DEF TypeOK
<1>. QED  BY <1>1, LenProperties, ElementOfSeq DEF ToSet

(* The task queue holds tasks. *)
LEMMA ReadyMembers ==
  ASSUME TypeOK
  PROVE  ready \in Seq(Tasks) /\ ToSet(ready) \subseteq Tasks
<1>1. ready \in Seq(Tasks)
  BY DEF TypeOK
<1>. QED  BY <1>1, LenProperties, ElementOfSeq DEF ToSet

(* WakerInv is kept when the sleepers of a list a waker is about to pop    *)
(* stay asleep and in the list.                                            *)
LEMMA WakerKept ==
  ASSUME SchedulerAssumption, TypeOK, WakerInv,
         \A w \in Tasks :
           /\ pc'[w] \in {"check", "pop", "holds"} =>
                target'[w] \in Queues \ IrqQueues /\ Waker[target'[w]] = w
           /\ pc'[w] = "pop" => pc[w] = "pop" /\ target'[w] = target[w],
         \A s \in Tasks : pc[s] = "asleep" => pc'[s] = "asleep",
         \A q \in Lists : \A s \in ToSet(waitq[q]) :
           pc[s] = "asleep" => s \in ToSet(waitq'[q])
  PROVE  WakerInv'
<1>1. ASSUME NEW w \in Tasks, pc'[w] = "pop"
      PROVE  \E s \in ToSet(waitq'[target'[w]]) : pc'[s] = "asleep"
  <2>1. pc[w] = "pop" /\ target'[w] = target[w] /\ target[w] \in Queues
    BY <1>1 DEF WakerInv
  <2>2. PICK s \in ToSet(waitq[target[w]]) : pc[s] = "asleep"
    BY <2>1 DEF WakerInv
  <2>3. s \in Tasks /\ target[w] \in Lists
    BY <2>1, <2>2, WaitMembers DEF Lists
  <2>. QED  BY <2>1, <2>2, <2>3
<1>. QED  BY <1>1 DEF WakerInv

(* A percentage of the scale is on the scale. *)
LEMMA PartOfScale ==
  ASSUME NEW n \in Nat, NEW d \in 0 .. 100
  PROVE  (d * n) \div 100 \in 0 .. n
<1>1. d * n \in Nat /\ d * n <= 100 * n
  OBVIOUS
<1>. QED  BY <1>1

(* Every action keeps the invariant. *)

(* wakeup_queue is entered. *)
LEMMA WakeupStep ==
  ASSUME SchedulerAssumption, IInv, NEW t \in Tasks,
         NEW q \in Queues \ IrqQueues, Wakeup(t, q), Waker[q] = t
  PROVE  IInv'
<1>. USE DEF IInv
<1>1. TypeOK'
  BY DEF SchedulerAssumption, TypeOK, Places, Lists, Wakeup, At, Begin
<1>2. WakerInv'
  <2>1. \A w \in Tasks : pc'[w] = "pop" => pc[w] = "pop" /\ target'[w] = target[w]
    BY DEF TypeOK, Wakeup, At, Begin
  <2>2. \A s \in Tasks : pc[s] = "asleep" => pc'[s] = "asleep"
    BY DEF TypeOK, Wakeup, At, Begin
  <2>3. waitq' = waitq
    BY DEF Wakeup
  <2>4. \A w \in Tasks : pc'[w] \in {"check", "pop", "holds"} =>
          target'[w] \in Queues \ IrqQueues /\ Waker[target'[w]] = w
    BY DEF TypeOK, WakerInv, Wakeup, At, Begin
  <2>. QED  BY <2>1, <2>2, <2>3, <2>4, WakerKept DEF Lists
<1>3. WaitInv'
  BY DEF TypeOK, WaitInv, Down, Wakeup, At, Begin, SchedulerAssumption, Lists,
         Places
<1>4. ReadyInv'
  BY DEF TypeOK, ReadyInv, OnList, InHand, WaitInv, Down, HandInv, Wakeup, At,
         Begin, SchedulerAssumption, Lists, Places
<1>5. HandInv'
  BY DEF TypeOK, HandInv, OnList, InHand, WaitInv, Down, ReadyInv, Wakeup, At,
         Begin, SchedulerAssumption, Lists, Places
<1>6. EnqueuedInv'
  BY DEF TypeOK, EnqueuedInv, Wakeup, At, Begin, SchedulerAssumption, Lists,
         Places
<1>7. CurrentInv'
  BY DEF TypeOK, CurrentInv, Wakeup, At, Begin, SchedulerAssumption, Lists,
         Places
<1>. QED  BY <1>1, <1>2, <1>3, <1>4, <1>5, <1>6, <1>7

(* Its test of the length. *)
LEMMA WakeCheckStep ==
  ASSUME SchedulerAssumption, IInv, NEW t \in Tasks, WakeCheck(t)
  PROVE  IInv'
<1>. USE DEF IInv
<1>1. TypeOK'
  BY DEF SchedulerAssumption, TypeOK, Places, Lists, WakeCheck, At
<1>2. WakerInv'
  <2>1. ASSUME NEW w \in Tasks, pc'[w] = "pop"
        PROVE  \E s \in ToSet(waitq'[target'[w]]) : pc'[s] = "asleep"
    <3>1. CASE w = t
      <4>1. /\ target[t] \in Queues /\ pc[t] = "check" /\ current = t
            /\ Len(waitq[target[t]]) > 0 /\ target' = target /\ waitq' = waitq
        BY <2>1, <3>1 DEF WakeCheck, At, WakerInv, TypeOK
      <4>2. /\ waitq[target[t]] \in Seq(Tasks) 
            /\ ToSet(waitq[target[t]]) \subseteq Tasks
        BY <4>1, WaitMembers DEF Lists
      <4>3. waitq[target[t]][1] \in ToSet(waitq[target[t]])
        BY <4>1, <4>2, LenProperties DEF ToSet
      <4>4. pc[waitq[target[t]][1]] = "asleep"
        BY <4>1, <4>3 DEF WaitInv, Down, Lists
      <4>5. pc'[waitq[target[t]][1]] = "asleep"
        BY <4>1, <4>2, <4>3, <4>4 DEF WakeCheck, TypeOK
      <4>. QED  BY <3>1, <4>1, <4>3, <4>5
    <3>2. CASE w # t
      <4>1. /\ pc[w] = "pop" /\ pc[t] = "check" /\ target[w] \in Queues
            /\ target' = target /\ waitq' = waitq
        BY <2>1, <3>2 DEF WakeCheck, At, WakerInv, TypeOK
      <4>2. PICK s \in ToSet(waitq[target[w]]) : pc[s] = "asleep"
        BY <4>1 DEF WakerInv
      <4>3. s \in Tasks
        BY <4>1, <4>2, WaitMembers DEF Lists
      <4>4. pc'[s] = "asleep"
        BY <4>1, <4>2, <4>3 DEF WakeCheck, TypeOK
      <4>. QED  BY <4>1, <4>2, <4>4
    <3>. QED  BY <3>1, <3>2
  <2>2. \A w \in Tasks : pc'[w] \in {"check", "pop", "holds"} =>
          target'[w] \in Queues \ IrqQueues /\ Waker[target'[w]] = w
    BY DEF TypeOK, WakerInv, WakeCheck, At
  <2>. QED  BY <2>1, <2>2 DEF WakerInv
<1>3. WaitInv'
  BY DEF TypeOK, WaitInv, Down, WakeCheck, At, SchedulerAssumption, Lists,
         Places
<1>4. ReadyInv'
  BY DEF TypeOK, ReadyInv, OnList, InHand, WaitInv, Down, HandInv, WakeCheck,
         At, SchedulerAssumption, Lists, Places
<1>5. HandInv'
  <2>1. /\ pc[t] = "check" /\ pc'[t] \in {"pop", "run"}
        /\ \A s \in Tasks \ {t} : pc'[s] = pc[s]
        /\ popped' = popped /\ waitq' = waitq /\ sleepq' = sleepq
    BY DEF TypeOK, WakeCheck, At
  <2>2. \A w \in Tasks : popped[w] \in Tasks \cup {NoTask}
    BY DEF TypeOK
  <2>3. ASSUME NEW w \in Tasks
        PROVE  (/\ popped[w] # NoTask <=> pc[w] = "holds"
                /\ popped[w] # NoTask => pc[popped[w]] = "asleep" /\ ~OnList(popped[w])
                /\ \A v \in Tasks : popped[v] = popped[w] /\ popped[w] # NoTask
                                      => v = w)'
    <3>. HIDE DEF IInv
    <3>1. HandInv
      BY DEF IInv
    <3>. QED  BY <2>1, <2>2, <3>1 DEF HandInv, OnList
  <2>. QED  BY <2>3 DEF HandInv
<1>6. EnqueuedInv'
  BY DEF TypeOK, EnqueuedInv, WakeCheck, At, SchedulerAssumption, Lists, Places
<1>7. CurrentInv'
  BY DEF TypeOK, CurrentInv, WakeCheck, At, SchedulerAssumption, Lists, Places
<1>. QED  BY <1>1, <1>2, <1>3, <1>4, <1>5, <1>6, <1>7

(* waitpid is entered. *)
LEMMA WaitpidStep ==
  ASSUME SchedulerAssumption, IInv, NEW t \in Tasks, t # Root, Waitpid(t)
  PROVE  IInv'
<1>. USE DEF IInv
<1>1. TypeOK'
  BY DEF SchedulerAssumption, TypeOK, Places, Lists, Waitpid, At, Begin
<1>2. WakerInv'
  <2>1. \A w \in Tasks : pc'[w] = "pop" => pc[w] = "pop" /\ target'[w] = target[w]
    BY DEF TypeOK, Waitpid, At, Begin
  <2>2. \A s \in Tasks : pc[s] = "asleep" => pc'[s] = "asleep"
    BY DEF TypeOK, Waitpid, At, Begin
  <2>3. waitq' = waitq
    BY DEF Waitpid
  <2>4. \A w \in Tasks : pc'[w] \in {"check", "pop", "holds"} =>
          target'[w] \in Queues \ IrqQueues /\ Waker[target'[w]] = w
    BY DEF TypeOK, WakerInv, Waitpid, At, Begin
  <2>. QED  BY <2>1, <2>2, <2>3, <2>4, WakerKept DEF Lists
<1>3. WaitInv'
  BY DEF TypeOK, WaitInv, Down, Waitpid, At, Begin, SchedulerAssumption, Lists,
         Places
<1>4. ReadyInv'
  BY DEF TypeOK, ReadyInv, OnList, InHand, WaitInv, Down, HandInv, Waitpid, At,
         Begin, SchedulerAssumption, Lists, Places
<1>5. HandInv'
  BY DEF TypeOK, HandInv, OnList, InHand, WaitInv, Down, ReadyInv, Waitpid, At,
         Begin, SchedulerAssumption, Lists, Places
<1>6. EnqueuedInv'
  BY DEF TypeOK, EnqueuedInv, Waitpid, At, Begin, SchedulerAssumption, Lists,
         Places
<1>7. CurrentInv'
  BY DEF TypeOK, CurrentInv, Waitpid, At, Begin, SchedulerAssumption, Lists,
         Places
<1>. QED  BY <1>1, <1>2, <1>3, <1>4, <1>5, <1>6, <1>7

(* waitpid finds nobody to reap. *)
LEMMA ScanStep ==
  ASSUME SchedulerAssumption, IInv, NEW t \in Tasks, ScanFindsNone(t)
  PROVE  IInv'
<1>. USE DEF IInv
<1>1. TypeOK'
  BY DEF SchedulerAssumption, TypeOK, Places, Lists, ScanFindsNone, At
<1>2. WakerInv'
  <2>1. \A w \in Tasks : pc'[w] = "pop" => pc[w] = "pop" /\ target'[w] = target[w]
    BY DEF TypeOK, ScanFindsNone, At
  <2>2. \A s \in Tasks : pc[s] = "asleep" => pc'[s] = "asleep"
    BY DEF TypeOK, ScanFindsNone, At
  <2>3. waitq' = waitq
    BY DEF ScanFindsNone
  <2>4. \A w \in Tasks : pc'[w] \in {"check", "pop", "holds"} =>
          target'[w] \in Queues \ IrqQueues /\ Waker[target'[w]] = w
    BY DEF TypeOK, WakerInv, ScanFindsNone, At
  <2>. QED  BY <2>1, <2>2, <2>3, <2>4, WakerKept DEF Lists
<1>3. WaitInv'
  BY DEF TypeOK, WaitInv, Down, ScanFindsNone, At, SchedulerAssumption, Lists,
         Places
<1>4. ReadyInv'
  BY DEF TypeOK, ReadyInv, OnList, InHand, WaitInv, Down, HandInv,
         ScanFindsNone, At, SchedulerAssumption, Lists, Places
<1>5. HandInv'
  BY DEF TypeOK, HandInv, OnList, InHand, WaitInv, Down, ReadyInv,
         ScanFindsNone, At, SchedulerAssumption, Lists, Places
<1>6. EnqueuedInv'
  BY DEF TypeOK, EnqueuedInv, ScanFindsNone, At, SchedulerAssumption, Lists,
         Places
<1>7. CurrentInv'
  BY DEF TypeOK, CurrentInv, ScanFindsNone, At, SchedulerAssumption, Lists,
         Places
<1>. QED  BY <1>1, <1>2, <1>3, <1>4, <1>5, <1>6, <1>7

(* task_reap. *)
LEMMA ReapStep ==
  ASSUME SchedulerAssumption, IInv, NEW t \in Tasks, NEW c \in Tasks, Reap(t,
         c)
  PROVE  IInv'
<1>. USE DEF IInv
<1>1. TypeOK'
  BY DEF SchedulerAssumption, TypeOK, Places, Lists, Reap, At
<1>2. WakerInv'
  <2>1. \A w \in Tasks : pc'[w] = "pop" => pc[w] = "pop" /\ target'[w] = target[w]
    BY DEF TypeOK, Reap, At
  <2>2. \A s \in Tasks : pc[s] = "asleep" => pc'[s] = "asleep"
    BY DEF TypeOK, Reap, At
  <2>3. waitq' = waitq
    BY DEF Reap
  <2>4. \A w \in Tasks : pc'[w] \in {"check", "pop", "holds"} =>
          target'[w] \in Queues \ IrqQueues /\ Waker[target'[w]] = w
    BY DEF TypeOK, WakerInv, Reap, At
  <2>. QED  BY <2>1, <2>2, <2>3, <2>4, WakerKept DEF Lists
<1>3. WaitInv'
  BY DEF TypeOK, WaitInv, Down, Reap, At, SchedulerAssumption, Lists, Places
<1>4. ReadyInv'
  BY DEF TypeOK, ReadyInv, OnList, InHand, WaitInv, Down, HandInv, Reap, At,
         SchedulerAssumption, Lists, Places
<1>5. HandInv'
  BY DEF TypeOK, HandInv, OnList, InHand, WaitInv, Down, ReadyInv, Reap, At,
         SchedulerAssumption, Lists, Places
<1>6. EnqueuedInv'
  BY DEF TypeOK, EnqueuedInv, Reap, At, SchedulerAssumption, Lists, Places
<1>7. CurrentInv'
  BY DEF TypeOK, CurrentInv, Reap, At, SchedulerAssumption, Lists, Places
<1>. QED  BY <1>1, <1>2, <1>3, <1>4, <1>5, <1>6, <1>7

(* task_set_ttl. *)
LEMMA SetTtlStep ==
  ASSUME SchedulerAssumption, IInv, NEW t \in Tasks, NEW duty \in 0 .. 100,
         SetTtl(t, duty)
  PROVE  IInv'
<1>. USE DEF IInv
<1>1. TypeOK'
  <2>1. (duty * MAX_TTL) \div 100 \in 0 .. MAX_TTL
    BY PartOfScale DEF SchedulerAssumption
  <2>. DEFINE part == (duty * MAX_TTL) \div 100
              new == IF ttl[t].pwm
                     THEN [ttl[t] EXCEPT !.start = MAX_TTL - part, !.count = 0]
                     ELSE [ttl[t] EXCEPT !.start = part, !.count = part]
  <2>2. ttl' = [ttl EXCEPT ![t] = new] /\ ttl \in [Tasks -> TTL]
    BY DEF SetTtl, TypeOK, TTL
  <2>3. new \in TTL
    <3>. HIDE DEF part
    <3>1. part \in 0 .. MAX_TTL  BY <2>1 DEF part
    <3>2. ttl[t] \in TTL  BY <2>2
    <3>3. MAX_TTL - part \in 0 .. MAX_TTL /\ 0 \in 0 .. MAX_TTL
      BY <3>1 DEF SchedulerAssumption
    <3>4. \A r \in TTL : \A i, j \in 0 .. MAX_TTL :
            [r EXCEPT !.start = i, !.count = j] \in TTL
      BY DEF TTL
    <3>. QED  BY <3>1, <3>2, <3>3, <3>4
  <2>4. ttl' \in [Tasks -> TTL]
    <3>. HIDE DEF new
    <3>. QED  BY <2>2, <2>3
  <2>. QED  BY <2>4 DEF TypeOK, SetTtl, TTL
<1>2. WakerInv'
  <2>1. \A w \in Tasks : pc'[w] = "pop" => pc[w] = "pop" /\ target'[w] = target[w]
    BY DEF TypeOK, SetTtl
  <2>2. \A s \in Tasks : pc[s] = "asleep" => pc'[s] = "asleep"
    BY DEF TypeOK, SetTtl
  <2>3. waitq' = waitq
    BY DEF SetTtl
  <2>4. \A w \in Tasks : pc'[w] \in {"check", "pop", "holds"} =>
          target'[w] \in Queues \ IrqQueues /\ Waker[target'[w]] = w
    BY DEF TypeOK, WakerInv, SetTtl
  <2>. QED  BY <2>1, <2>2, <2>3, <2>4, WakerKept DEF Lists
<1>3. WaitInv'
  BY DEF TypeOK, WaitInv, Down, SetTtl, SchedulerAssumption, Lists, Places
<1>4. ReadyInv'
  BY DEF TypeOK, ReadyInv, OnList, InHand, WaitInv, Down, HandInv, SetTtl,
         SchedulerAssumption, Lists, Places
<1>5. HandInv'
  BY DEF TypeOK, HandInv, OnList, InHand, WaitInv, Down, ReadyInv, SetTtl,
         SchedulerAssumption, Lists, Places
<1>6. EnqueuedInv'
  BY DEF TypeOK, EnqueuedInv, SetTtl, SchedulerAssumption, Lists, Places
<1>7. CurrentInv'
  BY DEF TypeOK, CurrentInv, SetTtl, SchedulerAssumption, Lists, Places
<1>. QED  BY <1>1, <1>2, <1>3, <1>4, <1>5, <1>6, <1>7

(* task_set_ttl_mode. *)
LEMMA SetTtlModeStep ==
  ASSUME SchedulerAssumption, IInv, NEW t \in Tasks, NEW pwm \in BOOLEAN,
         SetTtlMode(t, pwm)
  PROVE  IInv'
<1>. USE DEF IInv
<1>1. TypeOK'
  BY DEF SchedulerAssumption, TypeOK, Places, Lists, SetTtlMode
<1>2. WakerInv'
  <2>1. \A w \in Tasks : pc'[w] = "pop" => pc[w] = "pop" /\ target'[w] = target[w]
    BY DEF TypeOK, SetTtlMode
  <2>2. \A s \in Tasks : pc[s] = "asleep" => pc'[s] = "asleep"
    BY DEF TypeOK, SetTtlMode
  <2>3. waitq' = waitq
    BY DEF SetTtlMode
  <2>4. \A w \in Tasks : pc'[w] \in {"check", "pop", "holds"} =>
          target'[w] \in Queues \ IrqQueues /\ Waker[target'[w]] = w
    BY DEF TypeOK, WakerInv, SetTtlMode
  <2>. QED  BY <2>1, <2>2, <2>3, <2>4, WakerKept DEF Lists
<1>3. WaitInv'
  BY DEF TypeOK, WaitInv, Down, SetTtlMode, SchedulerAssumption, Lists, Places
<1>4. ReadyInv'
  BY DEF TypeOK, ReadyInv, OnList, InHand, WaitInv, Down, HandInv, SetTtlMode,
         SchedulerAssumption, Lists, Places
<1>5. HandInv'
  BY DEF TypeOK, HandInv, OnList, InHand, WaitInv, Down, ReadyInv, SetTtlMode,
         SchedulerAssumption, Lists, Places
<1>6. EnqueuedInv'
  BY DEF TypeOK, EnqueuedInv, SetTtlMode, SchedulerAssumption, Lists, Places
<1>7. CurrentInv'
  BY DEF TypeOK, CurrentInv, SetTtlMode, SchedulerAssumption, Lists, Places
<1>. QED  BY <1>1, <1>2, <1>3, <1>4, <1>5, <1>6, <1>7

(* list_pop in wakeup_queue. *)
LEMMA WakePopStep ==
  ASSUME SchedulerAssumption, IInv, NEW t \in Tasks, WakePop(t)
  PROVE  IInv'
<1>. DEFINE q == target[t]
            l == Last(waitq[q])
<1>. USE DEF IInv
<1>1. /\ current = t /\ pc[t] = "pop" /\ popped[t] = NoTask
      /\ q \in Queues \ IrqQueues /\ q \in Lists /\ Waker[q] = t
  BY DEF WakePop, At, WakerInv, HandInv, Lists
<1>2. waitq[q] \in Seq(Tasks) /\ waitq[q] # <<>> /\ IsInjective(waitq[q])
  BY <1>1 DEF TypeOK, WakePop, WaitInv
<1>3. /\ Front(waitq[q]) \in Seq(Tasks)
      /\ l \in Tasks
      /\ ToSet(waitq[q]) = ToSet(Front(waitq[q])) \cup {l}
      /\ IsInjective(Front(waitq[q]))
      /\ l \notin ToSet(Front(waitq[q]))
  BY <1>2, FrontMembers
<1>4. pc[l] = "asleep" /\ target[l] = q /\ l # t
  BY <1>1, <1>3 DEF WaitInv, Down
<1>5. /\ waitq' = [waitq EXCEPT ![q] = Front(waitq[q])]
      /\ popped' = [popped EXCEPT ![t] = l]
      /\ pc' = [pc EXCEPT ![t] = "holds"]
      /\ UNCHANGED <<current, ready, sleepq, target, parent, reaped, ttl, resumed,
                     preempted>>
  BY DEF WakePop
<1>. HIDE DEF q, l
<1>6. /\ \A x \in Lists : /\ waitq'[x] \in Seq(Tasks)
                          /\ IsInjective(waitq'[x])
                          /\ ToSet(waitq'[x]) \subseteq ToSet(waitq[x])
                          /\ x # q => waitq'[x] = waitq[x]
                          /\ l \notin ToSet(waitq'[x])
  BY <1>1, <1>3, <1>4, <1>5 DEF TypeOK, WaitInv
<1>7. l \notin sleepq /\ OnList(l)
  BY <1>1, <1>3, <1>4 DEF WaitInv, OnList, SchedulerAssumption, Lists
<1>8. TypeOK'
  BY <1>1, <1>3, <1>5, <1>6 DEF TypeOK, Places
<1>9. WakerInv'
  <2>1. ASSUME NEW w \in Tasks, pc'[w] = "pop"
        PROVE  \E s \in ToSet(waitq'[target'[w]]) : pc'[s] = "asleep"
    <3>1. w # t /\ pc[w] = "pop" /\ target[w] \in Queues \ IrqQueues
      BY <1>1, <1>5, <2>1 DEF TypeOK, WakerInv
    <3>2. target[w] # q /\ target[w] \in Lists
      BY <1>1, <3>1 DEF WakerInv, Lists
    <3>3. PICK s \in ToSet(waitq[target[w]]) : pc[s] = "asleep"
      BY <3>1 DEF WakerInv
    <3>4. s \in Tasks
      BY <3>2, <3>3, WaitMembers
    <3>. QED  BY <1>1, <1>5, <1>6, <3>2, <3>3, <3>4 DEF TypeOK
  <2>2. \A w \in Tasks : pc'[w] \in {"check", "pop", "holds"} =>
          target'[w] \in Queues \ IrqQueues /\ Waker[target'[w]] = w
    BY <1>1, <1>5 DEF TypeOK, WakerInv
  <2>. QED  BY <2>1, <2>2 DEF WakerInv
<1>10. WaitInv'
  <2>1. \A x \in Lists : ToSet(waitq[x]) \subseteq Tasks
    BY WaitMembers
  <2>. QED  BY <1>1, <1>5, <1>6, <2>1 DEF WaitInv, TypeOK, Down
<1>11. ReadyInv'
  BY <1>1, <1>5, <1>6, <1>7 DEF ReadyInv, TypeOK, OnList, InHand
<1>12. HandInv'
  BY <1>1, <1>3, <1>4, <1>5, <1>6, <1>7
     DEF HandInv, TypeOK, OnList, SchedulerAssumption
<1>13. EnqueuedInv'
  BY <1>1, <1>5 DEF EnqueuedInv, TypeOK
<1>14. CurrentInv'
  BY <1>1, <1>5 DEF CurrentInv, TypeOK
<1>. QED  BY <1>8, <1>9, <1>10, <1>11, <1>12, <1>13, <1>14

(* make_task_ready in wakeup_queue. *)
LEMMA WakeReadyStep ==
  ASSUME SchedulerAssumption, IInv, NEW t \in Tasks, WakeReady(t)
  PROVE  IInv'
<1>. DEFINE l == popped[t]
<1>. USE DEF IInv
<1>1. /\ current = t /\ pc[t] = "holds" /\ l \in Tasks /\ l # NoTask
      /\ pc[l] = "asleep" /\ ~OnList(l) /\ l # t
      /\ \A v \in Tasks : popped[v] = l => v = t
  BY DEF WakeReady, At, HandInv, TypeOK
<1>2. l \notin ToSet(ready)
  BY <1>1 DEF ReadyInv, InHand
<1>3. /\ ready' = Append(ready, l)
      /\ popped' = [popped EXCEPT ![t] = NoTask]
      /\ pc' = [pc EXCEPT ![t] = "check"]
      /\ UNCHANGED <<current, waitq, sleepq, target, parent, reaped, ttl, resumed,
                     preempted>>
  BY <1>1 DEF WakeReady
<1>4. /\ ready' \in Seq(Tasks)
      /\ ToSet(ready') = ToSet(ready) \cup {l}
      /\ IsInjective(ready')
  BY <1>1, <1>2, <1>3, AppendMembers DEF TypeOK, ReadyInv
<1>. HIDE DEF l
<1>5. TypeOK'
  BY <1>1, <1>3, <1>4 DEF TypeOK, Places
<1>6. WakerInv'
  <2>1. \A w \in Tasks : pc'[w] = "pop" => pc[w] = "pop" /\ target'[w] = target[w]
    BY <1>1, <1>3 DEF TypeOK
  <2>2. \A w \in Tasks : pc'[w] \in {"check", "pop", "holds"} =>
          target'[w] \in Queues \ IrqQueues /\ Waker[target'[w]] = w
    BY <1>1, <1>3 DEF TypeOK, WakerInv
  <2>3. \A s \in Tasks : pc[s] = "asleep" => pc'[s] = "asleep"
    BY <1>1, <1>3 DEF TypeOK
  <2>. QED  BY <1>3, <2>1, <2>2, <2>3, WakerKept
<1>7. WaitInv'
  BY <1>1, <1>3 DEF WaitInv, TypeOK, Down
<1>8. ReadyInv'
  <2>1. ASSUME NEW s \in ToSet(ready')
        PROVE  s # current' /\ pc'[s] # "cradle" /\ ~OnList(s)' /\ ~InHand(s)'
    <3>1. s # NoTask /\ s \in Tasks
      BY <1>1, <1>4, ReadyMembers DEF SchedulerAssumption
    <3>2. CASE s = l
      BY <1>1, <1>3, <3>1, <3>2 DEF TypeOK, OnList, InHand
    <3>3. CASE s # l
      <4>1. s \in ToSet(ready)
        BY <1>4, <3>3
      <4>. QED  BY <1>1, <1>3, <3>1, <4>1 DEF ReadyInv, TypeOK, OnList, InHand
    <3>. QED  BY <3>2, <3>3
  <2>. QED  BY <1>4, <2>1 DEF ReadyInv
<1>9. HandInv'
  BY <1>1, <1>3 DEF HandInv, TypeOK, OnList
<1>10. EnqueuedInv'
  BY <1>1, <1>3 DEF EnqueuedInv, TypeOK
<1>11. CurrentInv'
  BY <1>1, <1>3 DEF CurrentInv, TypeOK
<1>. QED  BY <1>5, <1>6, <1>7, <1>8, <1>9, <1>10, <1>11

(* spawn_proc and make_task_ready of the new task. *)
LEMMA SpawnStep ==
  ASSUME SchedulerAssumption, IInv, NEW t \in Tasks, NEW new \in Tasks,
         Spawn(t, new)
  PROVE  IInv'
<1>. USE DEF IInv
<1>1. /\ current = t /\ pc[t] = "run" /\ pc[new] = "cradle" /\ new # t
      /\ new \notin ToSet(ready) /\ ~OnList(new) /\ ~InHand(new)
  BY DEF Spawn, At, ReadyInv, WaitInv, HandInv, InHand, OnList, Down, TypeOK,
         SchedulerAssumption
<1>2. /\ ready' = Append(ready, new)
      /\ pc' = [pc EXCEPT ![new] = "run"]
      /\ parent' = [parent EXCEPT ![new] = t]
      /\ UNCHANGED <<current, waitq, sleepq, target, popped, reaped, ttl, resumed,
                     preempted>>
  BY DEF Spawn
<1>3. /\ ready' \in Seq(Tasks)
      /\ ToSet(ready') = ToSet(ready) \cup {new}
      /\ IsInjective(ready')
  BY <1>1, <1>2, AppendMembers DEF TypeOK, ReadyInv
<1>4. TypeOK'
  BY <1>1, <1>2, <1>3 DEF TypeOK, Places
<1>5. WakerInv'
  <2>1. \A w \in Tasks : pc'[w] = "pop" => pc[w] = "pop" /\ target'[w] = target[w]
    BY <1>1, <1>2 DEF TypeOK
  <2>2. \A w \in Tasks : pc'[w] \in {"check", "pop", "holds"} =>
          target'[w] \in Queues \ IrqQueues /\ Waker[target'[w]] = w
    BY <1>1, <1>2 DEF TypeOK, WakerInv
  <2>3. \A s \in Tasks : pc[s] = "asleep" => pc'[s] = "asleep"
    BY <1>1, <1>2 DEF TypeOK
  <2>. QED  BY <1>2, <2>1, <2>2, <2>3, WakerKept
<1>6. WaitInv'
  BY <1>1, <1>2 DEF WaitInv, TypeOK, Down, OnList
<1>7. ReadyInv'
  BY <1>1, <1>2, <1>3 DEF ReadyInv, TypeOK, OnList, InHand
<1>8. HandInv'
  BY <1>1, <1>2 DEF HandInv, TypeOK, OnList, InHand, SchedulerAssumption
<1>9. EnqueuedInv'
  BY <1>1, <1>2 DEF EnqueuedInv, TypeOK
<1>10. CurrentInv'
  BY <1>1, <1>2 DEF CurrentInv, TypeOK
<1>. QED  BY <1>4, <1>5, <1>6, <1>7, <1>8, <1>9, <1>10

(* sleep_on, from a device or from waitpid. *)
LEMMA EnqueueStep ==
  ASSUME SchedulerAssumption, IInv, NEW t \in Tasks, NEW q \in Lists,
         t # Root, current = t, pc[t] \in {"run", "scanned"},
         resumed' \subseteq resumed, preempted' \in [Tasks -> BOOLEAN],
         q \in Queues => <<t, q>> \in Sleeps /\ t \notin resumed',
         Enqueue(t, q)
  PROVE  IInv'
<1>. USE DEF IInv
<1>1. ~OnList(t) /\ t \notin ToSet(ready) /\ ~InHand(t)
  BY DEF WaitInv, OnList, Down, ReadyInv, HandInv, InHand, SchedulerAssumption
<1>2. /\ waitq' = [waitq EXCEPT ![q] = Append(waitq[q], t)]
      /\ pc' = [pc EXCEPT ![t] = "enqueued"]
      /\ target' = [target EXCEPT ![t] = q]
      /\ UNCHANGED <<current, ready, sleepq, popped, parent, reaped, ttl>>
  BY DEF Enqueue
<1>3. /\ Append(waitq[q], t) \in Seq(Tasks)
      /\ IsInjective(Append(waitq[q], t))
      /\ ToSet(Append(waitq[q], t)) = ToSet(waitq[q]) \cup {t}
  BY <1>1, AppendMembers, WaitMembers DEF WaitInv, OnList
<1>4. ASSUME NEW x \in Lists
      PROVE  /\ waitq'[x] \in Seq(Tasks)
             /\ IsInjective(waitq'[x])
             /\ ToSet(waitq[x]) \subseteq Tasks \ {t}
             /\ ToSet(waitq[x]) \subseteq ToSet(waitq'[x])
             /\ \A s \in ToSet(waitq'[x]) :
                  s \in ToSet(waitq[x]) \/ (s = t /\ x = q)
  <2>1. /\ waitq[x] \in Seq(Tasks)
        /\ IsInjective(waitq[x])
        /\ ToSet(waitq[x]) \subseteq Tasks \ {t}
    BY <1>1, WaitMembers DEF WaitInv, OnList
  <2>2. CASE x = q
    <3>1. waitq'[x] = Append(waitq[q], t)
      BY <1>2, <2>2 DEF TypeOK
    <3>. QED  BY <1>3, <2>1, <2>2, <3>1
  <2>3. CASE x # q
    <3>1. waitq'[x] = waitq[x]
      BY <1>2, <2>3 DEF TypeOK
    <3>. QED  BY <2>1, <2>3, <3>1
  <2>. QED  BY <2>2, <2>3
<1>5. TypeOK'
  BY <1>2, <1>4 DEF TypeOK, Places, Lists
<1>6. WakerInv'
  <2>1. \A w \in Tasks : pc'[w] = "pop" => pc[w] = "pop" /\ target'[w] = target[w]
    BY <1>2 DEF TypeOK
  <2>2. \A w \in Tasks : pc'[w] \in {"check", "pop", "holds"} =>
          target'[w] \in Queues \ IrqQueues /\ Waker[target'[w]] = w
    BY <1>2 DEF TypeOK, WakerInv
  <2>3. \A s \in Tasks : pc[s] = "asleep" => pc'[s] = "asleep"
    BY <1>2 DEF TypeOK
  <2>4. \A x \in Lists : \A s \in ToSet(waitq[x]) : s \in ToSet(waitq'[x])
    BY <1>4
  <2>. QED  BY <2>1, <2>2, <2>3, <2>4, WakerKept
<1>7. WaitInv'
  <2>1. ASSUME NEW x \in Lists, NEW s \in ToSet(waitq'[x])
        PROVE  target'[s] = x /\ Down(s)'
    <3>1. CASE s \in ToSet(waitq[x])
      BY <1>2, <1>4, <2>1, <3>1 DEF WaitInv, TypeOK, Down
    <3>2. CASE s = t /\ x = q
      BY <1>2, <3>2 DEF TypeOK, Down
    <3>. QED  BY <1>4, <2>1, <3>1, <3>2
  <2>2. ASSUME NEW s \in sleepq'
        PROVE  target'[s] = NoTask /\ Down(s)'
    BY <1>1, <1>2, <2>2 DEF WaitInv, TypeOK, Down, OnList
  <2>. QED  BY <1>4, <2>1, <2>2 DEF WaitInv
<1>8. \A s \in Tasks : s # t /\ ~OnList(s) => ~OnList(s)'
  BY <1>2, <1>4 DEF OnList
<1>9. ReadyInv'
  BY <1>1, <1>2, <1>8, ReadyMembers DEF ReadyInv, TypeOK, InHand
<1>10. HandInv'
  BY <1>1, <1>2, <1>8 DEF HandInv, TypeOK, InHand
<1>11. EnqueuedInv'
  BY <1>2 DEF EnqueuedInv, TypeOK
<1>12. CurrentInv'
  BY <1>2 DEF CurrentInv, TypeOK
<1>. QED  BY <1>5, <1>6, <1>7, <1>9, <1>10, <1>11, <1>12

(* sleep_until. *)
LEMMA SleepUntilStep ==
  ASSUME SchedulerAssumption, IInv, NEW t \in Tasks, t # Root, SleepUntil(t)
  PROVE  IInv'
<1>. USE DEF IInv
<1>1. /\ current = t /\ pc[t] = "run"
      /\ ~OnList(t) /\ t \notin ToSet(ready) /\ ~InHand(t)
  BY DEF SleepUntil, At, WaitInv, OnList, Down, ReadyInv, HandInv, InHand,
         SchedulerAssumption
<1>2. /\ sleepq' = sleepq \cup {t}
      /\ pc' = [pc EXCEPT ![t] = "enqueued"]
      /\ target' = [target EXCEPT ![t] = NoTask]
      /\ resumed' = resumed \ {t}
      /\ preempted' = [preempted EXCEPT ![t] = FALSE]
      /\ UNCHANGED <<current, ready, waitq, popped, parent, reaped, ttl>>
  BY DEF SleepUntil, Begin
<1>3. TypeOK'
  BY <1>2 DEF TypeOK, Places, Lists
<1>4. WakerInv'
  <2>1. \A w \in Tasks : pc'[w] = "pop" => pc[w] = "pop" /\ target'[w] = target[w]
    BY <1>2 DEF TypeOK
  <2>2. \A w \in Tasks : pc'[w] \in {"check", "pop", "holds"} =>
          target'[w] \in Queues \ IrqQueues /\ Waker[target'[w]] = w
    BY <1>2 DEF TypeOK, WakerInv
  <2>3. \A s \in Tasks : pc[s] = "asleep" => pc'[s] = "asleep"
    BY <1>1, <1>2 DEF TypeOK
  <2>. QED  BY <1>2, <2>1, <2>2, <2>3, WakerKept
<1>5. WaitInv'
  BY <1>1, <1>2 DEF WaitInv, TypeOK, Down, OnList
<1>6. ReadyInv'
  BY <1>1, <1>2, ReadyMembers DEF ReadyInv, TypeOK, OnList, InHand
<1>7. HandInv'
  BY <1>1, <1>2 DEF HandInv, TypeOK, OnList, InHand
<1>8. EnqueuedInv'
  BY <1>2 DEF EnqueuedInv, TypeOK, SchedulerAssumption
<1>9. CurrentInv'
  BY <1>1, <1>2 DEF CurrentInv, TypeOK
<1>. QED  BY <1>3, <1>4, <1>5, <1>6, <1>7, <1>8, <1>9

(* What wakeup_queue makes ready when it is not interrupted.               *)
LEMMA WokenMembers ==
  ASSUME TypeOK, WaitInv, ReadyInv, NEW q \in Lists
  PROVE  /\ ready \o WokenFrom(q) \in Seq(Tasks)
         /\ IsInjective(ready \o WokenFrom(q))
         /\ ToSet(ready \o WokenFrom(q)) = ToSet(ready) \cup ToSet(waitq[q])
<1>1. ready \in Seq(Tasks) /\ waitq[q] \in Seq(Tasks)
  BY ReadyMembers, WaitMembers
<1>2. /\ WokenFrom(q) \in Seq(Tasks)
      /\ ToSet(WokenFrom(q)) = ToSet(waitq[q])
      /\ IsInjective(WokenFrom(q))
  BY <1>1, ReverseMembers DEF WokenFrom, WaitInv
<1>3. ToSet(ready) \cap ToSet(waitq[q]) = {} /\ IsInjective(ready)
  BY DEF ReadyInv, OnList
<1>. QED  BY <1>1, <1>2, <1>3, ConcatMembers

(* A whole list has become ready, in an interrupt handler or in kexit; the *)
(* running task is not on it.                                              *)
LEMMA WokenStep ==
  ASSUME SchedulerAssumption, IInv, NEW q \in Lists,
         q \notin Queues \ IrqQueues,
         current \notin ToSet(waitq[q]), NEW l \in {"run", "grave"},
         pc' = pc \/ (pc[current] = "run" /\ pc' = [pc EXCEPT ![current] = l]),
         ready' = ready \o WokenFrom(q),
         waitq' = [waitq EXCEPT ![q] = <<>>],
         UNCHANGED <<current, sleepq, target, popped, parent, reaped, ttl, resumed,
                     preempted>>
  PROVE  IInv'
<1>. USE DEF IInv
<1>1. /\ ready' \in Seq(Tasks)
      /\ IsInjective(ready')
      /\ ToSet(ready') = ToSet(ready) \cup ToSet(waitq[q])
      /\ ToSet(ready') \subseteq Tasks
  BY WokenMembers, WaitMembers, ReadyMembers
<1>2. <<>> \in Seq(Tasks) /\ IsInjective(<<>>) /\ ToSet(<<>>) = {}
  BY DEF IsInjective, ToSet
<1>3. \A x \in Lists : /\ waitq'[x] \in Seq(Tasks)
                       /\ IsInjective(waitq'[x])
                       /\ ToSet(waitq'[x]) = IF x = q THEN {} ELSE ToSet(waitq[x])
                       /\ ToSet(waitq[x]) \subseteq Tasks
  BY <1>2, WaitMembers DEF TypeOK, WaitInv
<1>4. /\ \A s \in Tasks : pc'[s] = pc[s] \/ (s = current /\ pc[s] = "run" /\ pc'[s] = l)
      /\ pc' \in [Tasks -> Places]
  <2>1. pc \in [Tasks -> Places] /\ l \in Places /\ current \in Tasks
    BY DEF TypeOK, Places
  <2>. HIDE DEF IInv
  <2>. QED  BY <2>1
<1>5. TypeOK'
  <2>1. waitq' \in [Lists -> Seq(Tasks)]
    BY <1>2 DEF TypeOK
  <2>2. /\ current \in Tasks /\ sleepq \subseteq Tasks
        /\ target \in [Tasks -> Lists \cup {NoTask}]
        /\ popped \in [Tasks -> Tasks \cup {NoTask}]
        /\ parent \in [Tasks -> Tasks \cup {NoTask}]
        /\ reaped \subseteq Tasks /\ resumed \subseteq Tasks
        /\ ttl \in [Tasks -> [pwm : BOOLEAN, count : 0 .. MAX_TTL,
                              start : 0 .. MAX_TTL]]
        /\ preempted \in [Tasks -> BOOLEAN]
    BY DEF TypeOK
  <2>. HIDE DEF IInv
  <2>. QED  BY <1>1, <1>4, <2>1, <2>2 DEF TypeOK
<1>6. WakerInv'
  <2>1. ASSUME NEW w \in Tasks, pc'[w] = "pop"
        PROVE  \E s \in ToSet(waitq'[target'[w]]) : pc'[s] = "asleep"
    <3>1. /\ pc[w] = "pop" /\ target[w] \in Queues \ IrqQueues /\ target' = target
          /\ target[w] \in Lists
      BY <1>4, <2>1 DEF WakerInv, Lists
    <3>2. PICK s \in ToSet(waitq[target[w]]) : pc[s] = "asleep"
      BY <3>1 DEF WakerInv
    <3>. QED  BY <1>3, <1>4, <3>1, <3>2
  <2>2. \A w \in Tasks : pc'[w] \in {"check", "pop", "holds"} =>
          target'[w] \in Queues \ IrqQueues /\ Waker[target'[w]] = w
    BY <1>4 DEF WakerInv
  <2>. QED  BY <2>1, <2>2 DEF WakerInv
<1>7. WaitInv'
  BY <1>3, <1>4 DEF WaitInv, TypeOK, Down
<1>8. ReadyInv'
  <2>1. ASSUME NEW s \in ToSet(ready')
        PROVE  s # current' /\ pc'[s] # "cradle" /\ ~OnList(s)' /\ ~InHand(s)'
    <3>1. CASE s \in ToSet(ready)
      BY <1>1, <1>3, <1>4, <3>1 DEF ReadyInv, OnList, InHand
    <3>2. CASE s \in ToSet(waitq[q])
      <4>1. target[s] = q /\ Down(s) /\ s # current /\ s \in Tasks
        BY <1>1, <3>2 DEF WaitInv
      <4>2. ~OnList(s)'
        BY <1>3, <4>1 DEF OnList, WaitInv, SchedulerAssumption, Lists
      <4>3. ~InHand(s)
        BY <3>2, <4>1 DEF HandInv, InHand, OnList, SchedulerAssumption
      <4>4. pc'[s] # "cradle" /\ s # current'
        BY <1>4, <4>1 DEF Down
      <4>. QED  BY <4>2, <4>3, <4>4 DEF InHand
    <3>. QED  BY <1>1, <3>1, <3>2
  <2>. QED  BY <1>1, <2>1 DEF ReadyInv
<1>9. HandInv'
  BY <1>3, <1>4 DEF HandInv, TypeOK, OnList
<1>10. EnqueuedInv'
  BY <1>4 DEF EnqueuedInv
<1>11. CurrentInv'
  BY <1>4 DEF CurrentInv, TypeOK, SchedulerAssumption
<1>. QED  BY <1>5, <1>6, <1>7, <1>8, <1>9, <1>10, <1>11

(* The running task has left the CPU: it is at its new place p, and r is   *)
(* the task queue the next task is taken from.                             *)
Left(r, p) ==
  /\ r \in Seq(Tasks) /\ p \in [Tasks -> Places] /\ IsInjective(r)
  /\ Dispatch(r, p)
  /\ UNCHANGED <<target, popped, parent, reaped>>
  /\ waitq' \in [Lists -> Seq(Tasks)] /\ sleepq' \subseteq Tasks
  /\ preempted' \in [Tasks -> BOOLEAN]
  /\ \A t \in ToSet(r) : p[t] # "cradle" /\ ~OnList(t)' /\ ~InHand(t)
  /\ \A q \in Lists : /\ IsInjective(waitq'[q])
                      /\ \A t \in ToSet(waitq'[q]) :
                           t \in Tasks /\ target[t] = q /\ p[t] = "asleep"
  /\ \A t \in sleepq' : target[t] = NoTask /\ p[t] = "asleep"
  /\ \A w \in Tasks :
       /\ popped[w] # NoTask <=> p[w] = "holds"
       /\ \A x \in Tasks : popped[w] = x => p[x] = "asleep" /\ ~OnList(x)'
       /\ \A v \in Tasks : popped[v] = popped[w] /\ popped[w] # NoTask => v = w
  /\ \A w \in Tasks :
       /\ p[w] \in {"check", "pop", "holds"} =>
            target[w] \in Queues \ IrqQueues /\ Waker[target[w]] = w
       /\ p[w] = "pop" => \E s \in ToSet(waitq'[target[w]]) : p[s] = "asleep"
  /\ \A t \in Tasks : p[t] = "enqueued" /\ target[t] \in Queues =>
                        <<t, target[t]>> \in Sleeps /\ t \notin resumed
  /\ p[Root] \in {"run", "check", "pop", "holds", "grave"}

(* The choice of the next task then restores the invariant. *)
LEMMA SwitchStep ==
  ASSUME SchedulerAssumption, TypeOK, NEW r, NEW p, Left(r, p)
  PROVE  IInv'
<1>. USE DEF Left
<1>1. /\ current' \in Tasks
      /\ ready' \in Seq(Tasks)
      /\ IsInjective(ready')
      /\ ToSet(ready') \subseteq ToSet(r) \ {current'}
      /\ current' \in ToSet(r) \/ (current' = Root /\ ready' = <<>>)
      /\ resumed' = IF p[current'] = "asleep" THEN resumed \cup {current'}
                                              ELSE resumed
      /\ \/ p[current'] # "asleep" /\ pc' = p
         \/ /\ p[current'] = "asleep"
            /\ \E l \in {"scan", "run"} :
                 /\ pc' = [p EXCEPT ![current'] = l]
                 /\ l = "scan" => target[current'] = current'
      /\ ttl' \in [Tasks -> TTL]
  BY DispatchStep
<1>2. ToSet(r) \subseteq Tasks
  BY LenProperties, ElementOfSeq DEF ToSet
<1>3. /\ pc' \in [Tasks -> Places]
      /\ \A t \in Tasks : \/ pc'[t] = p[t]
                          \/ /\ t = current' /\ t \in ToSet(r) /\ p[t] = "asleep"
                             /\ pc'[t] \in {"scan", "run"}
      /\ pc'[current'] # "asleep" /\ pc'[current'] # "cradle"
  <2>1. CASE p[current'] # "asleep" /\ pc' = p
    <3>1. p[current'] # "cradle"
      BY <1>1, <2>1 DEF SchedulerAssumption
    <3>. QED  BY <2>1, <3>1
  <2>2. ASSUME p[current'] = "asleep", NEW l \in {"scan", "run"},
               pc' = [p EXCEPT ![current'] = l]
        PROVE  <1>3
    <3>1. current' \in ToSet(r)
      BY <1>1, <2>2
    <3>. QED  BY <1>1, <2>2, <3>1 DEF Places
  <2>. QED  BY <1>1, <2>1, <2>2
<1>4. TypeOK'
  <2>1. current' \in Tasks /\ ready' \in Seq(Tasks)
    BY <1>1
  <2>2. pc' \in [Tasks -> Places] /\ ttl' \in [Tasks -> TTL]
    BY <1>1, <1>3
  <2>3. resumed' \subseteq Tasks
    <3>1. resumed \subseteq Tasks
      BY DEF TypeOK
    <3>. QED  BY <1>1, <3>1
  <2>. QED  BY <1>1, <2>1, <2>2, <2>3 DEF TypeOK, TTL
<1>5. WakerInv'
  <2>1. ASSUME NEW w \in Tasks, pc'[w] = "pop"
        PROVE  \E s \in ToSet(waitq'[target'[w]]) : pc'[s] = "asleep"
    <3>1. p[w] = "pop" /\ target[w] \in Queues \ IrqQueues /\ target' = target
          /\ target[w] \in Lists
      BY <1>3, <2>1 DEF Lists
    <3>2. PICK s \in ToSet(waitq'[target[w]]) : p[s] = "asleep"
      BY <3>1
    <3>3. s \in Tasks /\ OnList(s)'
      BY <3>1, <3>2 DEF OnList
    <3>. QED  BY <1>3, <3>1, <3>2, <3>3
  <2>2. \A w \in Tasks : pc'[w] \in {"check", "pop", "holds"} =>
          target'[w] \in Queues \ IrqQueues /\ Waker[target'[w]] = w
    BY <1>3
  <2>. QED  BY <2>1, <2>2 DEF WakerInv
<1>6. WaitInv'
  <2>1. ASSUME NEW q \in Lists, NEW t \in ToSet(waitq'[q])
        PROVE  target'[t] = q /\ Down(t)'
    <3>1. t \in Tasks /\ OnList(t)'
      BY <2>1 DEF OnList
    <3>. QED  BY <1>3, <2>1, <3>1 DEF Down
  <2>2. ASSUME NEW t \in sleepq'
        PROVE  target'[t] = NoTask /\ Down(t)'
    <3>1. t \in Tasks /\ OnList(t)'
      BY <2>2 DEF OnList
    <3>. QED  BY <1>3, <2>2, <3>1 DEF Down
  <2>. QED  BY <2>1, <2>2 DEF WaitInv
<1>7. ReadyInv'
  <2>1. ASSUME NEW t \in ToSet(ready')
        PROVE  t # current' /\ pc'[t] # "cradle" /\ ~OnList(t)' /\ ~InHand(t)'
    <3>1. t \in ToSet(r) /\ t \in Tasks /\ t # current'
      BY <1>1, <1>2, <2>1
    <3>. QED  BY <1>3, <3>1 DEF InHand
  <2>. QED  BY <1>1, <2>1 DEF ReadyInv
<1>8. HandInv'
  <2>1. ASSUME NEW w \in Tasks
        PROVE  /\ popped'[w] # NoTask <=> pc'[w] = "holds"
               /\ \A x \in Tasks :
                    popped'[w] = x => pc'[x] = "asleep" /\ ~OnList(x)'
    <3>1. popped'[w] # NoTask <=> pc'[w] = "holds"
      BY <1>3
    <3>2. ASSUME NEW x \in Tasks, popped'[w] = x
          PROVE  pc'[x] = "asleep" /\ ~OnList(x)'
      <4>1. popped[w] = x /\ InHand(x)
        BY <3>2 DEF InHand
      <4>. QED  BY <1>3, <4>1
    <3>. QED  BY <3>1, <3>2
  <2>2. \A v, w \in Tasks : popped'[v] = popped'[w] /\ popped'[w] # NoTask => v = w
    OBVIOUS
  <2>3. popped' \in [Tasks -> Tasks \cup {NoTask}]
    BY DEF TypeOK
  <2>. QED  BY <2>1, <2>2, <2>3 DEF HandInv, OnList
<1>9. EnqueuedInv'
  BY <1>1, <1>3 DEF EnqueuedInv
<1>10. CurrentInv'
  BY <1>3 DEF CurrentInv, SchedulerAssumption
<1>. QED  BY <1>4, <1>5, <1>6, <1>7, <1>8, <1>9, <1>10 DEF IInv

(* switch_task(0). *)
LEMMA DescheduleStep ==
  ASSUME SchedulerAssumption, IInv, NEW t \in Tasks, Deschedule(t)
  PROVE  IInv'
<1>. DEFINE p == [pc EXCEPT ![t] = "asleep"]
<1>. USE DEF IInv
<1>1. /\ current = t /\ pc[t] = "enqueued" /\ Dispatch(ready, p)
      /\ UNCHANGED <<waitq, sleepq, target, popped, parent, reaped, preempted>>
  BY DEF Deschedule, At
<1>2. /\ p \in [Tasks -> Places] /\ p[t] = "asleep"
      /\ \A s \in Tasks \ {t} : p[s] = pc[s]
  BY DEF TypeOK, Places
<1>. HIDE DEF p
<1>3. /\ ready \in Seq(Tasks) /\ ToSet(ready) \subseteq Tasks \ {t}
      /\ IsInjective(ready)
  BY <1>1, ReadyMembers DEF ReadyInv
<1>4. /\ \A s : OnList(s)' <=> OnList(s)
      /\ waitq' \in [Lists -> Seq(Tasks)] /\ sleepq' \subseteq Tasks
      /\ preempted' \in [Tasks -> BOOLEAN]
  BY <1>1 DEF OnList, TypeOK
<1>5. \A s \in ToSet(ready) : p[s] # "cradle" /\ ~OnList(s)' /\ ~InHand(s)
  BY <1>2, <1>3, <1>4 DEF ReadyInv
<1>6. /\ \A q \in Lists : /\ IsInjective(waitq'[q])
                          /\ \A s \in ToSet(waitq'[q]) :
                               s \in Tasks /\ target[s] = q /\ p[s] = "asleep"
      /\ \A s \in sleepq' : target[s] = NoTask /\ p[s] = "asleep"
  BY <1>1, <1>2, WaitMembers DEF WaitInv, Down, TypeOK
<1>7. \A w \in Tasks :
        /\ popped[w] # NoTask <=> p[w] = "holds"
        /\ \A x \in Tasks : popped[w] = x => p[x] = "asleep" /\ ~OnList(x)'
        /\ \A v \in Tasks : popped[v] = popped[w] /\ popped[w] # NoTask => v = w
  <2>1. \A w, x \in Tasks : popped[w] = x => pc[x] = "asleep" /\ ~OnList(x)
    BY DEF HandInv, SchedulerAssumption
  <2>. QED  BY <1>1, <1>2, <1>4, <2>1 DEF HandInv, TypeOK
<1>8. \A w \in Tasks :
        /\ p[w] \in {"check", "pop", "holds"} =>
             target[w] \in Queues \ IrqQueues /\ Waker[target[w]] = w
        /\ p[w] = "pop" => \E s \in ToSet(waitq'[target[w]]) : p[s] = "asleep"
  <2>1. ASSUME NEW w \in Tasks, p[w] = "pop"
        PROVE  \E s \in ToSet(waitq'[target[w]]) : p[s] = "asleep"
    <3>1. pc[w] = "pop" /\ target[w] \in Lists
      BY <1>2, <2>1 DEF WakerInv, Lists
    <3>2. PICK s \in ToSet(waitq[target[w]]) : pc[s] = "asleep"
      BY <3>1 DEF WakerInv
    <3>3. s \in Tasks
      BY <3>1, <3>2, WaitMembers
    <3>. QED  BY <1>1, <1>2, <3>2, <3>3
  <2>2. ASSUME NEW w \in Tasks, p[w] \in {"check", "pop", "holds"}
        PROVE  target[w] \in Queues \ IrqQueues /\ Waker[target[w]] = w
    BY <1>2, <2>2 DEF WakerInv
  <2>. QED  BY <2>1, <2>2
<1>9. \A s \in Tasks : p[s] = "enqueued" /\ target[s] \in Queues =>
                         <<s, target[s]>> \in Sleeps /\ s \notin resumed
  BY <1>2 DEF EnqueuedInv
<1>10. p[Root] \in {"run", "check", "pop", "holds", "grave"}
  BY <1>1, <1>2 DEF CurrentInv, SchedulerAssumption
<1>11. Left(ready, p)
  BY <1>1, <1>2, <1>3, <1>4, <1>5, <1>6, <1>7, <1>8, <1>9, <1>10 DEF Left
<1>. QED  BY <1>11, SwitchStep

(* The timer. *)
LEMMA TickStep ==
  ASSUME SchedulerAssumption, IInv, Tick
  PROVE  IInv'
<1>. DEFINE r == Append(ready, current)
<1>. USE DEF IInv
<1>1. /\ Dispatch(r, pc)
      /\ sleepq' \subseteq sleepq \ {current}
      /\ waitq' = [q \in Lists |-> Without(waitq[q], current)]
      /\ preempted' = [preempted EXCEPT ![current] = pc[current] \notin Outside]
      /\ UNCHANGED <<target, popped, parent, reaped>>
  BY DEF Tick, WakeupSleepers
<1>2. /\ current \in Tasks /\ pc \in [Tasks -> Places]
      /\ preempted' \in [Tasks -> BOOLEAN] /\ sleepq' \subseteq Tasks
  BY <1>1 DEF TypeOK
<1>3. /\ r \in Seq(Tasks) /\ IsInjective(r) /\ ToSet(r) = ToSet(ready) \cup {current}
      /\ ToSet(ready) \subseteq Tasks \ {current}
  BY <1>2, ReadyMembers, AppendMembers DEF ReadyInv
<1>. HIDE DEF r
<1>4. \A q \in Lists : /\ waitq'[q] \in Seq(Tasks)
                       /\ IsInjective(waitq'[q])
                       /\ ToSet(waitq'[q]) = ToSet(waitq[q]) \ {current}
                       /\ ToSet(waitq[q]) \subseteq Tasks
  BY <1>1, <1>2, WaitMembers, WithoutMembers DEF WaitInv
<1>5. /\ \A s : OnList(s)' => OnList(s) /\ s # current
      /\ waitq' \in [Lists -> Seq(Tasks)]
  <2>1. \A s : OnList(s)' => OnList(s) /\ s # current
    BY <1>1, <1>4 DEF OnList
  <2>2. waitq' \in [Lists -> Seq(Tasks)]
    BY <1>1, <1>4
  <2>. QED  BY <2>1, <2>2
<1>6. \A s \in ToSet(r) : pc[s] # "cradle" /\ ~OnList(s)' /\ ~InHand(s)
  BY <1>2, <1>3, <1>5
     DEF ReadyInv, CurrentInv, HandInv, InHand, SchedulerAssumption
<1>7. /\ \A q \in Lists : /\ IsInjective(waitq'[q])
                          /\ \A s \in ToSet(waitq'[q]) :
                               s \in Tasks /\ target[s] = q /\ pc[s] = "asleep"
      /\ \A s \in sleepq' : target[s] = NoTask /\ pc[s] = "asleep"
  <2>1. ASSUME NEW q \in Lists, NEW s \in ToSet(waitq'[q])
        PROVE  s \in Tasks /\ target[s] = q /\ pc[s] = "asleep"
    <3>1. s \in ToSet(waitq[q]) /\ s # current /\ s \in Tasks
      BY <1>4, <2>1
    <3>. QED  BY <3>1 DEF WaitInv, Down
  <2>2. \A s \in sleepq' : target[s] = NoTask /\ pc[s] = "asleep"
    BY <1>1 DEF WaitInv, Down
  <2>. QED  BY <1>4, <2>1, <2>2
<1>8. \A w \in Tasks :
        /\ popped[w] # NoTask <=> pc[w] = "holds"
        /\ \A x \in Tasks : popped[w] = x => pc[x] = "asleep" /\ ~OnList(x)'
        /\ \A v \in Tasks : popped[v] = popped[w] /\ popped[w] # NoTask => v = w
  <2>1. \A w, x \in Tasks : popped[w] = x => pc[x] = "asleep" /\ ~OnList(x)
    BY DEF HandInv, SchedulerAssumption
  <2>. QED  BY <1>5, <2>1 DEF HandInv
<1>9. \A w \in Tasks :
        /\ pc[w] \in {"check", "pop", "holds"} =>
             target[w] \in Queues \ IrqQueues /\ Waker[target[w]] = w
        /\ pc[w] = "pop" => \E s \in ToSet(waitq'[target[w]]) : pc[s] = "asleep"
  <2>1. ASSUME NEW w \in Tasks, pc[w] = "pop"
        PROVE  \E s \in ToSet(waitq'[target[w]]) : pc[s] = "asleep"
    <3>1. target[w] \in Lists
      BY <2>1 DEF WakerInv, Lists
    <3>2. PICK s \in ToSet(waitq[target[w]]) : pc[s] = "asleep"
      BY <2>1 DEF WakerInv
    <3>3. s # current
      BY <3>2 DEF CurrentInv
    <3>. QED  BY <1>4, <3>1, <3>2, <3>3
  <2>. QED  BY <2>1 DEF WakerInv
<1>10. \A s \in Tasks : pc[s] = "enqueued" /\ target[s] \in Queues =>
                          <<s, target[s]>> \in Sleeps /\ s \notin resumed
  BY DEF EnqueuedInv
<1>11. pc[Root] \in {"run", "check", "pop", "holds", "grave"}
  BY DEF CurrentInv
<1>12. Left(r, pc)
  BY <1>1, <1>2, <1>3, <1>5, <1>6, <1>7, <1>8, <1>9, <1>10, <1>11 DEF Left
<1>. QED  BY <1>12, SwitchStep

(* An interrupt handler does not find the interrupted task on its list.    *)
LEMMA IrqFindsOthers ==
  ASSUME SchedulerAssumption, QuietSleepers, IInv, NEW q \in IrqQueues,
         InterruptsOn
  PROVE  current \notin ToSet(waitq[q])
<1>1. q \in Queues /\ q \in Lists
  BY DEF SchedulerAssumption, Lists
<1>2. SUFFICES ASSUME current \in ToSet(waitq[q]) PROVE FALSE
  OBVIOUS
<1>3. pc[current] = "enqueued" /\ target[current] = q /\ current \in Tasks
  BY <1>1, <1>2 DEF IInv, WaitInv, Down, CurrentInv, TypeOK
<1>4. <<current, q>> \in Sleeps /\ current \notin resumed
  BY <1>1, <1>3 DEF IInv, EnqueuedInv
<1>5. current \in KernelThreads \cup {Root}
  BY <1>3, <1>4 DEF InterruptsOn, Outside
<1>. QED  BY <1>4, <1>5 DEF QuietSleepers, SchedulerAssumption

(* An interrupt handler wakes a list. *)
LEMMA IrqWakeupStep ==
  ASSUME SchedulerAssumption, QuietSleepers, IInv, NEW q \in IrqQueues,
         IrqWakeup(q)
  PROVE  IInv'
<1>1. q \in Lists /\ q \notin Queues \ IrqQueues
  BY DEF SchedulerAssumption, Lists
<1>2. current \notin ToSet(waitq[q])
  BY IrqFindsOthers DEF IrqWakeup
<1>. QED  BY <1>1, <1>2, WokenStep DEF IrqWakeup

(* kexit wakes the parent. *)
LEMMA ExitStep ==
  ASSUME SchedulerAssumption, IInv, NEW t \in Tasks, Exit(t)
  PROVE  IInv'
<1>1. current = t /\ pc[t] = "run" /\ pc' = [pc EXCEPT ![t] = "grave"]
  BY DEF Exit, At
<1>2. CASE parent[t] = NoTask
  <2>. USE DEF IInv
  <2>1. UNCHANGED <<current, ready, waitq, sleepq, target, popped, parent, reaped,
                    ttl, resumed, preempted>>
    BY <1>2 DEF Exit
  <2>2. TypeOK'
    BY <1>1, <2>1 DEF TypeOK, Places
  <2>3. WakerInv'
    <3>1. \A w \in Tasks : pc'[w] = "pop" => pc[w] = "pop" /\ target'[w] = target[w]
      BY <1>1, <2>1 DEF TypeOK
    <3>2. \A w \in Tasks : pc'[w] \in {"check", "pop", "holds"} =>
            target'[w] \in Queues \ IrqQueues /\ Waker[target'[w]] = w
      BY <1>1, <2>1 DEF TypeOK, WakerInv
    <3>3. \A s \in Tasks : pc[s] = "asleep" => pc'[s] = "asleep"
      BY <1>1 DEF TypeOK
    <3>. QED  BY <2>1, <3>1, <3>2, <3>3, WakerKept
  <2>4. WaitInv'
    BY <1>1, <2>1 DEF WaitInv, TypeOK, Down
  <2>5. ReadyInv'
    BY <1>1, <2>1 DEF ReadyInv, TypeOK, OnList, InHand
  <2>6. HandInv'
    BY <1>1, <2>1 DEF HandInv, TypeOK, OnList
  <2>7. EnqueuedInv'
    BY <1>1, <2>1 DEF EnqueuedInv, TypeOK
  <2>8. CurrentInv'
    BY <1>1, <2>1 DEF CurrentInv, TypeOK
  <2>. QED  BY <2>2, <2>3, <2>4, <2>5, <2>6, <2>7, <2>8
<1>3. CASE parent[t] # NoTask
  <2>1. parent[t] \in Lists /\ parent[t] \notin Queues
    BY <1>3 DEF IInv, TypeOK, SchedulerAssumption, Lists
  <2>2. current \notin ToSet(waitq[parent[t]])
    BY <1>1, <2>1 DEF IInv, WaitInv, Down
  <2>. QED  BY <1>1, <1>3, <2>1, <2>2, WokenStep DEF Exit
<1>. QED  BY <1>2, <1>3

(* The calls of a task. *)
LEMMA CallStep ==
  ASSUME SchedulerAssumption, IInv, NEW t \in Tasks, Call(t)
  PROVE  IInv'
<1>1. ASSUME NEW q \in Queues, <<t, q>> \in Sleeps, SleepOn(t, q)
      PROVE  IInv'
  <2>1. /\ current = t /\ pc[t] = "run" /\ t # Root /\ q \in Lists
        /\ resumed' = resumed \ {t}
        /\ preempted' = [preempted EXCEPT ![t] = FALSE]
        /\ Enqueue(t, q)
    BY <1>1 DEF SleepOn, At, Begin, SchedulerAssumption, Lists
  <2>2. preempted' \in [Tasks -> BOOLEAN] /\ resumed' \subseteq resumed
    BY <2>1 DEF IInv, TypeOK
  <2>. QED  BY <1>1, <2>1, <2>2, EnqueueStep
<1>2. ASSUME NEW q \in Queues \ IrqQueues, Waker[q] = t, Wakeup(t, q)
      PROVE  IInv'
  BY <1>2, WakeupStep
<1>3. CASE t \in Delays /\ SleepUntil(t)
  BY <1>3, SleepUntilStep DEF SchedulerAssumption
<1>4. CASE t \in Waiters /\ Waitpid(t)
  BY <1>4, WaitpidStep DEF SchedulerAssumption
<1>5. ASSUME NEW new \in Tasks, Spawn(t, new)
      PROVE  IInv'
  BY <1>5, SpawnStep
<1>6. CASE Exit(t)
  BY <1>6, ExitStep
<1>. QED  BY <1>1, <1>2, <1>3, <1>4, <1>5, <1>6 DEF Call

(* The rest of the calls a task is in. *)
LEMMA ContinueStep ==
  ASSUME SchedulerAssumption, IInv, NEW t \in Tasks, Continue(t)
  PROVE  IInv'
<1>1. CASE Deschedule(t)
  BY <1>1, DescheduleStep
<1>2. CASE WakeCheck(t)
  BY <1>2, WakeCheckStep
<1>3. CASE WakePop(t)
  BY <1>3, WakePopStep
<1>4. CASE WakeReady(t)
  BY <1>4, WakeReadyStep
<1>5. CASE ScanFindsNone(t)
  BY <1>5, ScanStep
<1>6. CASE WaitForChild(t)
  <2>1. /\ current = t /\ pc[t] = "scanned" /\ t # Root /\ t \in Lists
        /\ t \notin Queues /\ resumed' = resumed /\ Enqueue(t, t)
        /\ preempted' = preempted
    BY <1>6 DEF WaitForChild, At, IInv, CurrentInv, SchedulerAssumption, Lists
  <2>2. preempted' \in [Tasks -> BOOLEAN]
    BY <2>1 DEF IInv, TypeOK
  <2>. QED  BY <2>1, <2>2, EnqueueStep
<1>7. ASSUME NEW c \in Zombies(t), Reap(t, c)
      PROVE  IInv'
  BY <1>7, ReapStep DEF Zombies, Children
<1>. QED  BY <1>1, <1>2, <1>3, <1>4, <1>5, <1>6, <1>7 DEF Continue

(* A duty cycle is set. *)
LEMMA ThrottleStep ==
  ASSUME SchedulerAssumption, IInv, Throttle
  PROVE  IInv'
  <1>1. PICK given \in Throttles : \/ SetTtl(given[1], given[2])
                                \/ \E pwm \in BOOLEAN : SetTtlMode(given[1], pwm)
  BY DEF Throttle
<1>2. given[1] \in Tasks /\ given[2] \in 0 .. 100
  BY DEF SchedulerAssumption
<1>. QED  BY <1>1, <1>2, SetTtlStep, SetTtlModeStep

(* The invariant holds when kinit has been made the first task. *)
LEMMA InitInv ==
  ASSUME SchedulerAssumption, Init
  PROVE  IInv
<1>1. <<>> \in Seq(Tasks) /\ IsInjective(<<>>) /\ ToSet(<<>>) = {}
  BY DEF IsInjective, ToSet
<1>2. \A q \in Lists : waitq[q] = <<>>
  BY DEF Init
<1>3. TypeOK
  BY <1>1 DEF Init, TypeOK, Places, SchedulerAssumption
<1>4. WakerInv /\ EnqueuedInv /\ CurrentInv
  BY DEF Init, WakerInv, EnqueuedInv, CurrentInv, SchedulerAssumption
<1>5. WaitInv
  BY <1>1, <1>2 DEF Init, WaitInv
<1>6. ReadyInv
  BY <1>1 DEF Init, ReadyInv
<1>7. HandInv
  BY DEF Init, HandInv
<1>. QED  BY <1>3, <1>4, <1>5, <1>6, <1>7 DEF IInv

(* Every step keeps the invariant. *)
LEMMA NextInv ==
  ASSUME SchedulerAssumption, QuietSleepers, IInv, [Next]_vars
  PROVE  IInv'
<1>1. CASE Interrupt
  BY <1>1, TickStep, IrqWakeupStep DEF Interrupt
<1>2. CASE Throttle
  BY <1>2, ThrottleStep
<1>3. ASSUME NEW t \in Tasks, Call(t) \/ Continue(t)
      PROVE  IInv'
  BY <1>3, CallStep, ContinueStep
<1>4. CASE UNCHANGED vars
  BY <1>4 DEF vars, IInv, TypeOK, WakerInv, WaitInv, Down, ReadyInv, OnList,
              InHand,
              HandInv, EnqueuedInv, CurrentInv
<1>. QED  BY <1>1, <1>2, <1>3, <1>4 DEF Next

-----------------------------------------------------------------------------

(* Every list is well formed, every unfinished task is where its place in   *)
(* sleep_on, wakeup_queue or waitpid says it is, and a waker holds only     *)
(* tasks it has popped: the inductive invariant the theorems below rest on. *)
THEOREM Invariance ==
  ASSUME QuietSleepers
  PROVE  Spec => []IInv
<1>1. Init => IInv
  BY SchedulerAssumption, InitInv
<1>2. IInv /\ [Next]_vars => IInv'
  BY SchedulerAssumption, NextInv
<1>. QED  BY <1>1, <1>2, PTL DEF Spec

(* The state of process.cpp and task.cpp keeps its type: the task queue    *)
(* and the wait lists hold tasks, the duty cycle counters stay on the      *)
(* scale of task_set_ttl.                                                  *)
THEOREM TypeCorrect ==
  ASSUME QuietSleepers
  PROVE  Spec => []TypeOK
<1>1. IInv => TypeOK
  BY DEF IInv
<1>. QED  BY <1>1, Invariance, PTL

(* Waiting and Queued in terms of the members of the lists. *)
LEMMA ListMembers ==
  ASSUME TypeOK
  PROVE  /\ \A t : Waiting(t) <=> OnList(t)
         /\ \A t : Queued(t) <=> t \in ToSet(ready)
  BY ContainsIsMember, WaitMembers, ReadyMembers DEF Waiting, OnList, Queued

(* For any number of tasks, wait queues, sleepers and timer ticks: no      *)
(* sched_node or sleep_node is ever linked twice, a task is ready in one   *)
(* way only, wakeup_queue never pops from an empty list and never finds a  *)
(* finished task.                                                          *)
THEOREM ListsCorrect ==
  ASSUME QuietSleepers
  PROVE  Spec => [](/\ NoNodeAppendedTwice /\ ReadyOnce
                    /\ PopFindsNode /\ FinishedNeverWait)
<1>1. ASSUME IInv
      PROVE  NoNodeAppendedTwice /\ ReadyOnce /\ PopFindsNode /\ FinishedNeverWait
  <2>. USE <1>1, SchedulerAssumption DEF IInv
  <2>1. NoNodeAppendedTwice
    BY DEF NoNodeAppendedTwice, ListsIntact, ReadyInv, WaitInv
  <2>2. ReadyOnce
    BY ListMembers DEF ReadyOnce, ReadyInv, HandInv, SchedulerAssumption
  <2>3. PopFindsNode
    <3>1. ToSet(<<>>) = {}
      BY DEF ToSet
    <3>. QED  BY <3>1 DEF PopFindsNode, WakerInv
  <2>4. FinishedNeverWait
    BY ListMembers DEF FinishedNeverWait, OnList, WaitInv, Down
  <2>. QED  BY <2>1, <2>2, <2>3, <2>4
<1>. QED  BY <1>1, Invariance, PTL

-----------------------------------------------------------------------------
(* Nobody is lost, when no duty cycle is set and nobody sleeps on the timer *)
(* (both lose tasks: switch_task drops a throttled one, and wakeup_sleepers *)
(* makes none ready).                                                       *)

NoThrottleNoDelay == Throttles = {} /\ Delays = {}

(* Where a task can be found. *)
Found(t) == t = current \/ t \in ToSet(ready) \/ OnList(t) \/ InHand(t)

PlaceInv ==
  /\ sleepq = {}
  /\ \A t \in Tasks : ttl[t].pwm /\ ttl[t].start = 0
  /\ \A t \in Tasks :
       pc[t] \notin {"cradle", "grave"} =>
         Found(t) \/ (pc[t] = "asleep" /\ preempted[t])
  /\ \A t \in Tasks : pc[t] = "enqueued" => OnList(t) \/ preempted[t]

(* Without a duty cycle switch_task drops nobody from the task queue.      *)
LEMMA DispatchDropsNobody ==
  ASSUME SchedulerAssumption, TypeOK,
         \A t \in Tasks : ttl[t].pwm /\ ttl[t].start = 0,
         NEW r \in Seq(Tasks), NEW p \in [Tasks -> Places], Dispatch(r, p)
  PROVE  /\ ToSet(r) \subseteq ToSet(ready') \cup {current'}
         /\ \A t \in Tasks : ttl'[t].pwm /\ ttl'[t].start = 0
<1>0. Len(r) \in Nat /\ DOMAIN r = 1 .. Len(r) /\ \A i \in 1 .. Len(r) : r[i] \in Tasks
  BY LenProperties, ElementOfSeq
<1>1. PICK k \in 1 .. Len(r) + 1 :
        /\ \A i \in 1 .. k - 1 : Skipped(r[i])
        /\ current' = IF k <= Len(r) THEN r[k] ELSE Root
        /\ ready' = SubSeq(r, k + 1, Len(r))
        /\ ttl' = [t \in Tasks |->
                     IF t = IF k <= Len(r) THEN r[k] ELSE Root
                     THEN TtlAfterRun(ttl[t])
                     ELSE IF \E i \in 1 .. k - 1 : r[i] = t
                          THEN TtlAfterSkip(ttl[t]) ELSE ttl[t]]
  BY Zenon DEF Dispatch
<1>2. \A t \in Tasks : ttl[t] \in TTL /\ ~Skipped(t)
  <2>1. ASSUME NEW t \in Tasks
        PROVE  ttl[t] \in TTL /\ ttl[t].count \in Nat
    BY DEF TypeOK, TTL
  <2>. QED  BY <2>1 DEF Skipped
<1>3. k = 1
  <2>1. SUFFICES ASSUME k # 1 PROVE FALSE
    OBVIOUS
  <2>2. 1 \in 1 .. k - 1 /\ 1 \in 1 .. Len(r)
    BY <1>0, <2>1
  <2>. QED  BY <1>0, <1>1, <1>2, <2>2
<1>4. ToSet(r) \subseteq ToSet(ready') \cup {current'}
  <2>1. CASE Len(r) = 0
    BY <1>0, <2>1 DEF ToSet
  <2>2. CASE Len(r) # 0
    <3>1. k + 1 \in Nat \ {0} /\ Len(r) \in 0 .. Len(r) /\ current' = r[1]
      BY <1>0, <1>1, <1>3, <2>2
    <3>2. ToSet(ready') = {r[i] : i \in k + 1 .. Len(r)}
      BY <1>1, <3>1, SubSeqMembers
    <3>3. \A i \in 1 .. Len(r) : i = 1 \/ i \in k + 1 .. Len(r)
      BY <1>0, <1>3
    <3>. QED  BY <1>0, <3>1, <3>2, <3>3 DEF ToSet
  <2>. QED  BY <1>0, <2>1, <2>2
<1>5. \A t \in Tasks : ttl'[t].pwm /\ ttl'[t].start = 0
  <2>1. ASSUME NEW t \in Tasks
        PROVE  /\ TtlAfterRun(ttl[t]).pwm /\ TtlAfterRun(ttl[t]).start = 0
               /\ TtlAfterSkip(ttl[t]).pwm /\ TtlAfterSkip(ttl[t]).start = 0
    BY <1>2 DEF TTL, TtlAfterRun, TtlAfterSkip
  <2>. QED  BY <1>1, <2>1
<1>. QED  BY <1>4, <1>5

(* A switch of tasks after which everybody is found, or lost as allowed.   *)
LEMMA SwitchPlace ==
  ASSUME SchedulerAssumption, TypeOK, PlaceInv,
         NEW r \in Seq(Tasks), NEW p \in [Tasks -> Places],
         IsInjective(r), Dispatch(r, p), sleepq' = {}, popped' = popped,
         \A t \in Tasks : p[t] \notin {"cradle", "grave"} =>
           \/ t \in ToSet(r) \/ OnList(t)' \/ InHand(t)
           \/ p[t] = "asleep" /\ preempted'[t],
         \A t \in Tasks : p[t] = "enqueued" => OnList(t)' \/ preempted'[t]
  PROVE  PlaceInv'
<1>1. /\ current' \in Tasks
      /\ \/ p[current'] # "asleep" /\ pc' = p
         \/ /\ p[current'] = "asleep"
            /\ \E l \in {"scan", "run"} : pc' = [p EXCEPT ![current'] = l]
  BY DispatchStep
<1>2. /\ ToSet(r) \subseteq ToSet(ready') \cup {current'}
      /\ \A t \in Tasks : ttl'[t].pwm /\ ttl'[t].start = 0
  BY DispatchDropsNobody DEF PlaceInv
<1>3. \A t \in Tasks : \/ pc'[t] = p[t]
                       \/ t = current' /\ pc'[t] \in {"scan", "run"}
  BY <1>1
<1>4. ASSUME NEW t \in Tasks, pc'[t] \notin {"cradle", "grave"}
      PROVE  Found(t)' \/ (pc'[t] = "asleep" /\ preempted'[t])
  <2>1. CASE t = current'
    BY <2>1 DEF Found
  <2>2. CASE t # current'
    <3>1. pc'[t] = p[t]
      BY <1>3, <2>2
    <3>2. \/ t \in ToSet(r) \/ OnList(t)' \/ InHand(t)
          \/ p[t] = "asleep" /\ preempted'[t]
      BY <1>4, <3>1
    <3>. QED  BY <1>2, <2>2, <3>1, <3>2 DEF Found, InHand
  <2>. QED  BY <2>1, <2>2
<1>5. ASSUME NEW t \in Tasks, pc'[t] = "enqueued"
      PROVE  OnList(t)' \/ preempted'[t]
  BY <1>3, <1>5
<1>. QED  BY <1>2, <1>4, <1>5 DEF PlaceInv

(* The timer loses nobody but a task on its way to sleep. *)
LEMMA TickPlace ==
  ASSUME SchedulerAssumption, IInv, PlaceInv, Tick
  PROVE  PlaceInv'
<1>. DEFINE r == Append(ready, current)
<1>. USE DEF IInv
<1>1. /\ Dispatch(r, pc) /\ sleepq' = {} /\ popped' = popped
      /\ waitq' = [q \in Lists |-> Without(waitq[q], current)]
      /\ preempted' = [preempted EXCEPT ![current] = pc[current] \notin Outside]
  BY DEF Tick, WakeupSleepers, PlaceInv
<1>2. current \in Tasks /\ pc \in [Tasks -> Places] /\ preempted \in [Tasks -> BOOLEAN]
  BY DEF TypeOK
<1>3. r \in Seq(Tasks) /\ IsInjective(r) /\ ToSet(r) = ToSet(ready) \cup {current}
  BY <1>2, ReadyMembers, AppendMembers DEF ReadyInv
<1>. HIDE DEF r
<1>4. \A q \in Lists : ToSet(waitq'[q]) = ToSet(waitq[q]) \ {current}
  BY <1>1, <1>2, WaitMembers, WithoutMembers DEF WaitInv
<1>5. \A t \in Tasks \ {current} : OnList(t) => OnList(t)'
  BY <1>1, <1>4 DEF OnList, PlaceInv
<1>6. ASSUME NEW t \in Tasks, pc[t] \notin {"cradle", "grave"}
      PROVE  \/ t \in ToSet(r) \/ OnList(t)' \/ InHand(t)
             \/ pc[t] = "asleep" /\ preempted'[t]
  BY <1>1, <1>2, <1>3, <1>5, <1>6 DEF PlaceInv, Found
<1>7. ASSUME NEW t \in Tasks, pc[t] = "enqueued"
      PROVE  OnList(t)' \/ preempted'[t]
  <2>1. CASE t = current
    BY <1>1, <1>2, <1>7, <2>1 DEF Outside
  <2>2. CASE t # current
    BY <1>1, <1>2, <1>5, <1>7, <2>2 DEF PlaceInv
  <2>. QED  BY <2>1, <2>2
<1>. QED  BY <1>1, <1>2, <1>3, <1>6, <1>7, SwitchPlace

(* switch_task(0) loses nobody who is on a list. *)
LEMMA DeschedulePlace ==
  ASSUME SchedulerAssumption, IInv, PlaceInv, NEW t \in Tasks, Deschedule(t)
  PROVE  PlaceInv'
<1>. DEFINE p == [pc EXCEPT ![t] = "asleep"]
<1>. USE DEF IInv
<1>1. /\ current = t /\ pc[t] = "enqueued" /\ Dispatch(ready, p)
      /\ UNCHANGED <<waitq, sleepq, popped, preempted>> /\ sleepq' = {}
  BY DEF Deschedule, At, PlaceInv
<1>2. /\ p \in [Tasks -> Places] /\ p[t] = "asleep"
      /\ \A s \in Tasks \ {t} : p[s] = pc[s]
  BY DEF TypeOK, Places
<1>. HIDE DEF p
<1>3. ready \in Seq(Tasks) /\ IsInjective(ready)
  BY ReadyMembers DEF ReadyInv
<1>4. \A s : OnList(s)' <=> OnList(s)
  BY <1>1 DEF OnList
<1>5. ASSUME NEW s \in Tasks, p[s] \notin {"cradle", "grave"}
      PROVE  \/ s \in ToSet(ready) \/ OnList(s)' \/ InHand(s)
             \/ p[s] = "asleep" /\ preempted'[s]
  <2>1. CASE s = t
    BY <1>1, <1>2, <1>4, <2>1 DEF PlaceInv
  <2>2. CASE s # t
    BY <1>1, <1>2, <1>4, <1>5, <2>2 DEF PlaceInv, Found
  <2>. QED  BY <2>1, <2>2
<1>6. ASSUME NEW s \in Tasks, p[s] = "enqueued"
      PROVE  OnList(s)' \/ preempted'[s]
  BY <1>1, <1>2, <1>4, <1>6 DEF PlaceInv
<1>. QED  BY <1>1, <1>2, <1>3, <1>5, <1>6, SwitchPlace

(* A list that becomes ready: its tasks are found in the task queue.       *)
LEMMA WokenPlace ==
  ASSUME SchedulerAssumption, IInv, PlaceInv, NEW q \in Lists,
         current \notin ToSet(waitq[q]),
         \/ pc' = pc
         \/ pc[current] = "run" /\ pc' = [pc EXCEPT ![current] = "grave"],
         ready' = ready \o WokenFrom(q),
         waitq' = [waitq EXCEPT ![q] = <<>>],
         UNCHANGED <<current, sleepq, popped, ttl, preempted>>
  PROVE  PlaceInv'
<1>. USE DEF IInv
<1>1. ToSet(ready') = ToSet(ready) \cup ToSet(waitq[q])
  BY WokenMembers
<1>2. \A x \in Lists : x # q => waitq'[x] = waitq[x]
  OBVIOUS
<1>3. \A t : OnList(t) => OnList(t)' \/ t \in ToSet(waitq[q])
  BY <1>2 DEF OnList
<1>4. \A t \in Tasks : pc'[t] \in {pc[t], "grave"}
  BY DEF TypeOK
<1>5. ASSUME NEW t \in Tasks, pc'[t] = "enqueued"
      PROVE  OnList(t)' \/ preempted'[t]
  <2>1. pc[t] = "enqueued"
    BY <1>4, <1>5
  <2>2. t \in ToSet(waitq[q]) => Down(t)
    <3>. HIDE DEF IInv
    <3>. QED  BY DEF WaitInv, IInv
  <2>3. OnList(t) \/ preempted[t]
    BY <2>1 DEF PlaceInv
  <2>. QED  BY <1>3, <2>1, <2>2, <2>3 DEF Down
<1>6. ASSUME NEW t \in Tasks, pc'[t] \notin {"cradle", "grave"}
      PROVE  Found(t)' \/ (pc'[t] = "asleep" /\ preempted'[t])
  <2>1. pc'[t] = pc[t]
    BY <1>4, <1>6
  <2>2. Found(t) \/ (pc[t] = "asleep" /\ preempted[t])
    <3>. HIDE DEF IInv, Found
    <3>. QED  BY <1>6, <2>1 DEF PlaceInv
  <2>3. CASE Found(t)
    <3>1. CASE OnList(t)
      BY <1>1, <1>3, <3>1 DEF Found
    <3>2. CASE t = current \/ t \in ToSet(ready) \/ InHand(t)
      BY <1>1, <3>2 DEF Found, InHand
    <3>. QED  BY <2>3, <3>1, <3>2 DEF Found
  <2>4. CASE pc[t] = "asleep" /\ preempted[t]
    BY <2>1, <2>4
  <2>. QED  BY <2>2, <2>3, <2>4
<1>. QED  BY <1>5, <1>6 DEF PlaceInv

(* sleep_on puts the task on a list. *)
LEMMA EnqueuePlace ==
  ASSUME SchedulerAssumption, IInv, PlaceInv, NEW t \in Tasks, NEW q \in Lists,
         current = t, Enqueue(t, q),
         \A s \in Tasks \ {t} : preempted'[s] = preempted[s]
  PROVE  PlaceInv'
<1>. USE DEF IInv
<1>1. ToSet(Append(waitq[q], t)) = ToSet(waitq[q]) \cup {t}
  BY AppendMembers, WaitMembers
<1>2. OnList(t)' /\ \A s : OnList(s) => OnList(s)'
  BY <1>1 DEF Enqueue, OnList, TypeOK
<1>. QED  BY <1>2 DEF Enqueue, PlaceInv, Found, InHand, TypeOK

(* An interrupt handler moves a whole list to the task queue. *)
LEMMA IrqWakeupPlace ==
  ASSUME SchedulerAssumption, QuietSleepers, IInv, PlaceInv,
         NEW q \in IrqQueues, IrqWakeup(q)
  PROVE  PlaceInv'
<1>1. q \in Lists
  BY DEF SchedulerAssumption, Lists
<1>2. current \notin ToSet(waitq[q])
  BY IrqFindsOthers DEF IrqWakeup
<1>. QED  BY <1>1, <1>2, WokenPlace DEF IrqWakeup

(* The running task goes on inside a call, nothing else changes.           *)
LEMMA CallerPlace ==
  ASSUME IInv, PlaceInv, NEW t \in Tasks, current = t,
         NEW l \in Places \ {"enqueued"}, pc' = [pc EXCEPT ![t] = l],
         UNCHANGED <<current, ready, waitq, sleepq, popped, ttl>>,
         \A s \in Tasks \ {t} : preempted'[s] = preempted[s]
  PROVE  PlaceInv'
<1>1. \A s : (OnList(s)' <=> OnList(s)) /\ (InHand(s)' <=> InHand(s))
  BY DEF OnList, InHand
<1>2. /\ \A s \in Tasks \ {t} : pc'[s] = pc[s]
      /\ pc'[t] = l
  BY DEF IInv, TypeOK
<1>. QED  BY <1>1, <1>2 DEF PlaceInv, Found

(* A call loses nobody. *)
LEMMA CallPlace ==
  ASSUME SchedulerAssumption, NoThrottleNoDelay, IInv, PlaceInv,
         NEW t \in Tasks, Call(t)
  PROVE  PlaceInv'
<1>. USE DEF IInv
<1>1. ASSUME NEW q \in Queues, SleepOn(t, q)
      PROVE  PlaceInv'
  <2>1. current = t /\ Enqueue(t, q) /\ q \in Lists
    BY <1>1 DEF SleepOn, At, Lists
  <2>2. \A s \in Tasks \ {t} : preempted'[s] = preempted[s]
    BY <1>1 DEF SleepOn, Begin, TypeOK
  <2>. QED  BY <2>1, <2>2, EnqueuePlace
<1>2. ASSUME NEW q \in Queues, Wakeup(t, q)
      PROVE  PlaceInv'
  BY <1>2, CallerPlace DEF Wakeup, At, Begin, TypeOK, Places
<1>3. CASE Waitpid(t)
  BY <1>3, CallerPlace DEF Waitpid, At, Begin, TypeOK, Places
<1>4. ASSUME NEW new \in Tasks, Spawn(t, new)
      PROVE  PlaceInv'
  <2>1. ToSet(ready') = ToSet(ready) \cup {new}
    BY <1>4, ReadyMembers, AppendMembers DEF Spawn
  <2>2. /\ pc'[new] = "run"
        /\ \A s \in Tasks \ {new} : pc'[s] = pc[s]
        /\ UNCHANGED <<current, waitq, sleepq, popped, preempted, ttl>>
    BY <1>4 DEF Spawn, TypeOK
  <2>. HIDE DEF IInv
  <2>. QED  BY <2>1, <2>2 DEF PlaceInv, Found, OnList, InHand
<1>5. CASE Exit(t)
  <2>1. CASE parent[t] = NoTask
    <3>1. /\ pc'[t] = "grave" /\ pc[t] = "run"
          /\ \A s \in Tasks \ {t} : pc'[s] = pc[s]
          /\ UNCHANGED <<current, ready, waitq, sleepq, popped, preempted, ttl>>
      BY <1>5, <2>1 DEF Exit, At, TypeOK
    <3>. HIDE DEF IInv
    <3>. QED  BY <3>1 DEF PlaceInv, Found, OnList, InHand
  <2>2. CASE parent[t] # NoTask
    <3>1. parent[t] \in Lists
      BY <2>2 DEF TypeOK, Lists
    <3>2. current \notin ToSet(waitq[parent[t]])
      BY <1>5, <3>1 DEF Exit, At, WaitInv, Down
    <3>. QED  BY <1>5, <2>2, <3>1, <3>2, WokenPlace DEF Exit, At
  <2>. QED  BY <2>1, <2>2
<1>. QED  BY <1>1, <1>2, <1>3, <1>4, <1>5 DEF Call, NoThrottleNoDelay

(* The rest of a call loses nobody. *)
LEMMA ContinuePlace ==
  ASSUME SchedulerAssumption, IInv, PlaceInv, NEW t \in Tasks, Continue(t)
  PROVE  PlaceInv'
<1>. USE DEF IInv
<1>1. CASE WakeCheck(t)
  BY <1>1, CallerPlace DEF WakeCheck, At, Places
<1>2. CASE WakePop(t)
  <2>. DEFINE q == target[t]
  <2>1. /\ waitq[q] \in Seq(Tasks) /\ waitq[q] # <<>> /\ q \in Lists /\ pc[t] = "pop"
    BY <1>2 DEF WakePop, At, WakerInv, Lists, TypeOK
  <2>2. ToSet(waitq[q]) = ToSet(Front(waitq[q])) \cup {Last(waitq[q])}
    BY <2>1, FrontMembers
  <2>3. popped[t] = NoTask
    BY <2>1 DEF HandInv
  <2>4. /\ waitq' = [waitq EXCEPT ![q] = Front(waitq[q])]
        /\ popped' = [popped EXCEPT ![t] = Last(waitq[q])]
        /\ pc' = [pc EXCEPT ![t] = "holds"]
        /\ UNCHANGED <<current, ready, sleepq, ttl, preempted>>
    BY <1>2 DEF WakePop
  <2>5. current = t /\ pc[Last(waitq[q])] = "asleep"
    BY <1>2, <2>1, <2>2 DEF WakePop, At, WaitInv, Down
  <2>. HIDE DEF q
  <2>6. ASSUME NEW s, OnList(s), s # Last(waitq[q])
        PROVE  OnList(s)'
    <3>1. waitq \in [Lists -> Seq(Tasks)] /\ sleepq = {}
      BY DEF TypeOK, PlaceInv
    <3>2. PICK x \in Lists : s \in ToSet(waitq[x])
      BY <2>6, <3>1 DEF OnList
    <3>3. s \in ToSet(waitq'[x])
      BY <2>1, <2>2, <2>4, <2>6, <3>1, <3>2
    <3>. QED  BY <3>2, <3>3 DEF OnList
  <2>7. \A s \in Tasks : s = Last(waitq[q]) \/ InHand(s) => InHand(s)'
    <3>1. \A s \in Tasks : s # NoTask
      BY DEF SchedulerAssumption
    <3>. QED  BY <2>3, <2>4, <3>1 DEF InHand, TypeOK
  <2>8. /\ \A s \in Tasks \ {t} : pc'[s] = pc[s]
        /\ pc'[t] = "holds"
    BY <2>4 DEF TypeOK
  <2>9. ASSUME NEW s \in Tasks, pc'[s] \notin {"cradle", "grave"}
        PROVE  Found(s)' \/ (pc'[s] = "asleep" /\ preempted'[s])
    BY <2>4, <2>5, <2>6, <2>7, <2>8, <2>9 DEF PlaceInv, Found
  <2>10. ASSUME NEW s \in Tasks, pc'[s] = "enqueued"
         PROVE  OnList(s)' \/ preempted'[s]
    BY <2>4, <2>5, <2>6, <2>8, <2>10 DEF PlaceInv
  <2>. QED  BY <2>4, <2>9, <2>10 DEF PlaceInv
<1>3. CASE WakeReady(t)
  <2>1. popped[t] \in Tasks /\ pc[popped[t]] = "asleep"
    BY <1>3 DEF WakeReady, At, HandInv, TypeOK
  <2>2. ToSet(ready') = ToSet(ready) \cup {popped[t]}
    BY <1>3, <2>1, ReadyMembers, AppendMembers DEF WakeReady
  <2>3. /\ pc'[t] = "check" /\ current = t /\ pc[t] = "holds"
        /\ \A s \in Tasks \ {t} : pc'[s] = pc[s] /\ popped'[s] = popped[s]
        /\ UNCHANGED <<current, waitq, sleepq, preempted, ttl>>
    BY <1>3 DEF WakeReady, At, TypeOK
  <2>. HIDE DEF IInv
  <2>4. ASSUME NEW s \in Tasks, Found(s), pc[s] \notin {"cradle", "grave"}
        PROVE  Found(s)'
    BY <2>1, <2>2, <2>3, <2>4 DEF Found, OnList, InHand
  <2>. QED  BY <2>2, <2>3, <2>4 DEF PlaceInv, OnList
<1>4. CASE WaitForChild(t)
  BY <1>4, EnqueuePlace DEF WaitForChild, At, Lists
<1>5. ASSUME NEW c \in Zombies(t), Reap(t, c)
      PROVE  PlaceInv'
  BY <1>5, CallerPlace DEF Reap, At, Places
<1>6. CASE ScanFindsNone(t)
  BY <1>6, CallerPlace DEF ScanFindsNone, At, TypeOK, Places
<1>. QED  BY <1>1, <1>2, <1>3, <1>4, <1>5, <1>6, DeschedulePlace DEF Continue

(* For any number of tasks and wait queues, an unfinished task is always   *)
(* running, in the task queue, on a wait list or in the hand of a waker,   *)
(* except one the timer caught between list_append and switch_task(0).     *)
THEOREM NobodyIsLost ==
  ASSUME QuietSleepers, NoThrottleNoDelay
  PROVE  Spec => []NobodyLost
<1>1. Init => PlaceInv
  BY SchedulerAssumption DEF Init, PlaceInv, Found, SchedulerAssumption
<1>2. ASSUME IInv, PlaceInv, [Next]_vars
      PROVE  PlaceInv'
  <2>1. CASE Interrupt
    BY <1>2, <2>1, SchedulerAssumption, TickPlace, IrqWakeupPlace DEF Interrupt
  <2>2. CASE Throttle
    BY <2>2 DEF Throttle, NoThrottleNoDelay
  <2>3. ASSUME NEW t \in Tasks, Call(t) \/ Continue(t)
        PROVE  PlaceInv'
    BY <1>2, <2>3, SchedulerAssumption, CallPlace, ContinuePlace
  <2>4. CASE UNCHANGED vars
    BY <1>2, <2>4 DEF vars, PlaceInv, Found, OnList, InHand
  <2>. QED  BY <1>2, <2>1, <2>2, <2>3, <2>4 DEF Next
<1>3. ASSUME IInv, PlaceInv
      PROVE  NobodyLost
  <2>1. TypeOK
    BY <1>3 DEF IInv
  <2>. QED  BY <1>3, <2>1, ListMembers DEF NobodyLost, Lost, PlaceInv, Found
<1>. QED  BY <1>1, <1>2, <1>3, Invariance, PTL DEF Spec

-----------------------------------------------------------------------------
(***************************************************************************)
(* Parents and children: who may be freed, and who sleeps in waitpid.      *)
(*                                                                         *)
(* NoFreedParent needs that the tasks that were freed have finished and    *)
(* that kinit, who gets their children, is never one of them.              *)
(* NoMissedChild needs what waitpid knows between the scan and the sleep:  *)
(* only the task that runs can have found no child and be sure of it.      *)
(***************************************************************************)

TreeInv ==
  /\ parent[Root] = NoTask
  /\ Root \notin reaped
  /\ NoFreedParent
  /\ \A c \in reaped : pc[c] = "grave"

(* In waitpid, or in any other call that sleeps, up to switch_task(0) *)
Sure(t) ==
  /\ pc[t] \in {"scanned", "enqueued"} /\ ~preempted[t] => t = current
  /\ pc[t] = "scanned" /\ ~preempted[t] => Zombies(t) = {}
  /\ pc[t] \in {"enqueued", "asleep"} /\ ~preempted[t] /\ t \in ToSet(waitq[t])
       => Zombies(t) = {}

ChildInv == \A t \in Tasks \ {Root} : Sure(t)

FInv == IInv /\ TreeInv /\ ChildInv

-----------------------------------------------------------------------------
(* What a step may do to the tree when it neither spawns nor reaps         *)
LEMMA SameTree ==
  ASSUME TypeOK, TreeInv, UNCHANGED <<parent, reaped>>,
         \A c \in Tasks : pc[c] = "grave" => pc'[c] = "grave"
  PROVE  TreeInv'
BY DEF TypeOK, TreeInv, NoFreedParent

(* No new zombie, when nobody ends.                                        *)
LEMMA SameZombies ==
  ASSUME UNCHANGED <<parent, reaped>>,
         \A c \in Tasks : pc'[c] = "grave" => pc[c] = "grave"
  PROVE  \A u \in Tasks : Zombies(u)' \subseteq Zombies(u)
BY DEF Zombies, Children

(* A task that does not run, while another one takes a step.               *)
LEMMA OthersSure ==
  ASSUME NEW u \in Tasks, u # current, Sure(u),
         pc'[u] = pc[u], preempted'[u] = preempted[u],
         u \in ToSet(waitq'[u]) => u \in ToSet(waitq[u]),
         Zombies(u)' \subseteq Zombies(u)
  PROVE  Sure(u)'
BY DEF Sure

(* A switch of tasks: whoever is switched to wakes up, nobody else moves.  *)
LEMMA SwitchTree ==
  ASSUME SchedulerAssumption, FInv,
         NEW r \in Seq(Tasks), NEW p \in [Tasks -> Places], IsInjective(r),
         Dispatch(r, p), UNCHANGED <<parent, reaped>>,
         \A c \in Tasks \ {current} : p[c] = pc[c],
         \/ p[current] = pc[current]
         \/ pc[current] = "enqueued" /\ p[current] = "asleep",
         \A c \in Tasks \ {current} : preempted'[c] = preempted[c],
         p[current] # "asleep" => preempted'[current] = (pc[current] \notin Outside),
         p[current] = "asleep" => preempted'[current] = preempted[current],
         \A c \in Tasks : c \in ToSet(waitq'[c]) => c \in ToSet(waitq[c])
  PROVE  TreeInv' /\ ChildInv'
<1>. USE DEF FInv, IInv
<1>1. \A c \in Tasks : \/ pc'[c] = p[c]
                       \/ p[c] = "asleep" /\ pc'[c] \in {"scan", "run"}
  <2>1. /\ current' \in Tasks
        /\ \/ p[current'] # "asleep" /\ pc' = p
           \/ /\ p[current'] = "asleep"
              /\ \E l \in {"scan", "run"} : pc' = [p EXCEPT ![current'] = l]
    BY DispatchStep
  <2>2. CASE pc' = p
    BY <2>2
  <2>3. ASSUME NEW l \in {"scan", "run"}, pc' = [p EXCEPT ![current'] = l],
               p[current'] = "asleep", NEW c \in Tasks
        PROVE  \/ pc'[c] = p[c]
               \/ p[c] = "asleep" /\ pc'[c] \in {"scan", "run"}
    BY <2>3
  <2>. QED  BY <2>1, <2>2, <2>3
<1>2. current \in Tasks /\ pc[current] # "asleep"
  BY DEF TypeOK, CurrentInv
<1>3. \A c \in Tasks : pc[c] = "grave" <=> pc'[c] = "grave"
  BY <1>1, <1>2
<1>4. TreeInv'
  BY <1>3, SameTree
<1>5. \A u \in Tasks : Zombies(u)' \subseteq Zombies(u)
  BY <1>3, SameZombies
<1>6. ASSUME NEW u \in Tasks \ {Root} PROVE Sure(u)'
  <2>0. Sure(u)
    BY DEF ChildInv
  <2>1. CASE pc'[u] \in {"scan", "run"}
    BY <2>1 DEF Sure
  <2>2. CASE u # current /\ pc'[u] = pc[u]
    BY <2>2, <2>0, <1>5, OthersSure
  <2>3. CASE u = current /\ pc'[u] = p[u]
    <3>1. CASE p[u] = "asleep"
      BY <2>0, <2>3, <3>1, <1>2, <1>5 DEF Sure
    <3>2. CASE p[u] # "asleep"
      <4>1. pc'[u] \in Outside \/ preempted'[u]
        BY <2>3, <3>2
      <4>. QED  BY <4>1, <2>3, <3>2 DEF Sure, Outside
    <3>. QED  BY <3>1, <3>2
  <2>. QED  BY <1>1, <2>1, <2>2, <2>3
<1>. QED  BY <1>4, <1>6 DEF ChildInv

(* A step of a call of t that neither spawns, nor ends, nor reaps.         *)
LEMMA OwnTree ==
  ASSUME FInv, NEW t \in Tasks, t = current, UNCHANGED <<current, parent, reaped>>,
         \A c \in Tasks \ {t} : pc'[c] = pc[c] /\ preempted'[c] = preempted[c],
         pc[t] # "grave", pc'[t] # "grave",
         \A c \in Tasks \ {t} : c \in ToSet(waitq'[c]) => c \in ToSet(waitq[c]),
         Sure(t)' \/ t = Root
  PROVE  TreeInv' /\ ChildInv'
<1>. USE DEF FInv, IInv
<1>1. \A c \in Tasks : pc[c] = "grave" <=> pc'[c] = "grave"
  OBVIOUS
<1>2. TreeInv'
  BY <1>1, SameTree
<1>3. \A u \in Tasks : Zombies(u)' \subseteq Zombies(u)
  BY <1>1, SameZombies
<1>4. ASSUME NEW u \in Tasks \ {Root} PROVE Sure(u)'
  <2>1. CASE u = t
    BY <2>1
  <2>2. CASE u # t
    BY <2>2, <1>3, OthersSure DEF ChildInv
  <2>. QED  BY <2>1, <2>2
<1>. QED  BY <1>2, <1>4 DEF ChildInv

-----------------------------------------------------------------------------
(* The actions                                                             *)

LEMMA TickTree ==
  ASSUME SchedulerAssumption, FInv, Tick
  PROVE  TreeInv' /\ ChildInv'
<1>. DEFINE r == Append(ready, current)
<1>. USE DEF FInv, IInv
<1>1. /\ Dispatch(r, pc)
      /\ waitq' = [q \in Lists |-> Without(waitq[q], current)]
      /\ preempted' = [preempted EXCEPT ![current] = pc[current] \notin Outside]
      /\ UNCHANGED <<parent, reaped>>
  BY DEF Tick
<1>2. /\ current \in Tasks /\ pc \in [Tasks -> Places]
      /\ preempted \in [Tasks -> BOOLEAN] /\ pc[current] # "asleep"
  BY DEF TypeOK, CurrentInv
<1>3. r \in Seq(Tasks) /\ IsInjective(r)
  BY <1>2, ReadyMembers, AppendMembers DEF ReadyInv
<1>. HIDE DEF r
<1>4. \A c \in Tasks : c \in ToSet(waitq'[c]) => c \in ToSet(waitq[c])
  <2>1. \A q \in Lists : ToSet(waitq'[q]) = ToSet(waitq[q]) \ {current}
    BY <1>1, <1>2, WaitMembers, WithoutMembers DEF WaitInv
  <2>. QED  BY <2>1 DEF Lists
<1>5. /\ \A c \in Tasks \ {current} : preempted'[c] = preempted[c]
      /\ preempted'[current] = (pc[current] \notin Outside)
  BY <1>1, <1>2
<1>. QED  BY <1>1, <1>2, <1>3, <1>4, <1>5, SwitchTree

LEMMA DescheduleTree ==
  ASSUME SchedulerAssumption, FInv, NEW t \in Tasks, Deschedule(t)
  PROVE  TreeInv' /\ ChildInv'
<1>. DEFINE p == [pc EXCEPT ![t] = "asleep"]
<1>. USE DEF FInv, IInv
<1>1. /\ current = t /\ pc[t] = "enqueued" /\ Dispatch(ready, p)
      /\ UNCHANGED <<waitq, parent, reaped, preempted>>
  BY DEF Deschedule, At
<1>2. /\ p \in [Tasks -> Places] /\ p[t] = "asleep"
      /\ \A s \in Tasks \ {t} : p[s] = pc[s]
  BY DEF TypeOK, Places
<1>. HIDE DEF p
<1>3. ready \in Seq(Tasks) /\ IsInjective(ready)
  BY ReadyMembers DEF ReadyInv
<1>. QED  BY <1>1, <1>2, <1>3, SwitchTree

(* Somebody's children come to wait no longer than they did.               *)
LEMMA IrqWakeupTree ==
  ASSUME FInv, NEW q \in IrqQueues, SchedulerAssumption, IrqWakeup(q)
  PROVE  TreeInv' /\ ChildInv'
<1>. USE DEF FInv, IInv
<1>1. /\ q \in Lists /\ q \notin Tasks /\ waitq' = [waitq EXCEPT ![q] = <<>>]
      /\ UNCHANGED <<current, pc, parent, reaped, preempted>>
  BY DEF IrqWakeup, Lists, SchedulerAssumption
<1>2. \A u \in Tasks : waitq'[u] = waitq[u]
  BY <1>1 DEF TypeOK, Lists
<1>3. \A u \in Tasks : Zombies(u)' = Zombies(u)
  BY <1>1 DEF Zombies, Children
<1>. QED  BY <1>1, <1>2, <1>3 DEF TreeInv, NoFreedParent, ChildInv, Sure

LEMMA ThrottleTree ==
  ASSUME FInv, UNCHANGED <<current, pc, parent, reaped, preempted, waitq>>
  PROVE  TreeInv' /\ ChildInv'
<1>1. \A u \in Tasks : Zombies(u)' = Zombies(u)
  BY DEF Zombies, Children
<1>. QED  BY <1>1 DEF FInv, TreeInv, NoFreedParent, ChildInv, Sure

LEMMA SpawnTree ==
  ASSUME FInv, NEW t \in Tasks, NEW new \in Tasks, Spawn(t, new)
  PROVE  TreeInv' /\ ChildInv'
<1>. USE DEF FInv, IInv
<1>1. /\ current = t /\ pc[t] = "run" /\ pc[new] = "cradle"
      /\ pc' = [pc EXCEPT ![new] = "run"]
      /\ parent' = [parent EXCEPT ![new] = t]
      /\ UNCHANGED <<current, waitq, reaped, preempted>>
  BY DEF Spawn, At
<1>2. new # Root /\ t \notin reaped /\ new \notin reaped
  BY <1>1 DEF CurrentInv, TreeInv
<1>3. /\ parent'[new] = t /\ pc'[new] = "run"
      /\ \A c \in Tasks \ {new} : parent'[c] = parent[c] /\ pc'[c] = pc[c]
  BY <1>1 DEF TypeOK
<1>4. TreeInv'
  <2>1. \A c \in Tasks : parent'[c] \notin reaped
    BY <1>2, <1>3 DEF TreeInv, NoFreedParent
  <2>2. \A c \in reaped : pc'[c] = "grave"
    BY <1>2, <1>3 DEF TreeInv, TypeOK
  <2>3. parent'[Root] = NoTask /\ Root \notin reaped
    BY <1>2, <1>3, SchedulerAssumption DEF TreeInv, SchedulerAssumption
  <2>. QED  BY <1>1, <2>1, <2>2, <2>3 DEF TreeInv, NoFreedParent
<1>5. \A u \in Tasks : Zombies(u)' \subseteq Zombies(u)
  BY <1>1, <1>3 DEF Zombies, Children
<1>6. ASSUME NEW u \in Tasks \ {Root} PROVE Sure(u)'
  <2>0. Sure(u)
    BY DEF ChildInv
  <2>1. CASE u = new
    BY <2>1, <1>3 DEF Sure
  <2>2. CASE u # new
    BY <2>0, <2>2, <1>1, <1>3, <1>5 DEF Sure
  <2>. QED  BY <2>1, <2>2
<1>. QED  BY <1>4, <1>6 DEF ChildInv

(* The parent of the task that ends is not about to sleep for its children *)
(* without knowing: it does not run, so it was preempted or is on its list,*)
(* and the list is emptied.                                                *)
LEMMA ExitTree ==
  ASSUME SchedulerAssumption, FInv, NEW t \in Tasks, Exit(t)
  PROVE  TreeInv' /\ ChildInv'
<1>. USE DEF FInv, IInv
<1>1. /\ current = t /\ pc[t] = "run" /\ pc' = [pc EXCEPT ![t] = "grave"]
      /\ UNCHANGED <<current, parent, reaped, preempted>>
  BY DEF Exit, At
<1>2. pc'[t] = "grave" /\ \A c \in Tasks \ {t} : pc'[c] = pc[c]
  BY <1>1 DEF TypeOK
<1>3. TreeInv'
  BY <1>1, <1>2, SameTree
<1>4. \A u \in Tasks : u # parent[t] => Zombies(u)' \subseteq Zombies(u)
  BY <1>1, <1>2 DEF Zombies, Children
<1>5. \A u \in Tasks : IF u = parent[t] THEN waitq'[u] = <<>>
                                        ELSE waitq'[u] = waitq[u]
  <2>1. parent[t] \in Tasks \cup {NoTask} /\ NoTask \notin Tasks
    BY DEF TypeOK, SchedulerAssumption
  <2>2. CASE parent[t] = NoTask
    BY <2>1, <2>2 DEF Exit
  <2>3. CASE parent[t] # NoTask
    <3>1. waitq' = [waitq EXCEPT ![parent[t]] = <<>>]
      BY <2>3 DEF Exit
    <3>. QED  BY <2>1, <2>3, <3>1 DEF TypeOK, Lists
  <2>. QED  BY <2>2, <2>3
<1>6. ASSUME NEW u \in Tasks \ {Root} PROVE Sure(u)'
  <2>0. Sure(u)
    BY DEF ChildInv
  <2>1. CASE u = t
    BY <2>1, <1>2 DEF Sure
  <2>2. CASE u # t /\ u # parent[t]
    BY <2>0, <2>2, <1>1, <1>2, <1>4, <1>5, OthersSure
  <2>3. CASE u # t /\ u = parent[t]
    <3>1. u \notin ToSet(waitq'[u])
      BY <2>3, <1>5, EmptySeq DEF ToSet
    <3>. QED  BY <2>0, <2>3, <3>1, <1>1, <1>2 DEF Sure
  <2>. QED  BY <2>1, <2>2, <2>3
<1>. QED  BY <1>3, <1>6 DEF ChildInv

(* Who is reaped has finished and is not kinit; its children are kinit's,  *)
(* and kinit never sleeps.                                                 *)
LEMMA ReapTree ==
  ASSUME SchedulerAssumption, FInv, NEW t \in Tasks, NEW c \in Zombies(t), Reap(t, c)
  PROVE  TreeInv' /\ ChildInv'
<1>. USE DEF FInv, IInv
<1>1. /\ current = t /\ pc[t] = "scan" /\ reaped' = reaped \cup {c}
      /\ parent' = [x \in Tasks |-> IF parent[x] = c THEN Root ELSE parent[x]]
      /\ pc' = [pc EXCEPT ![t] = "run"]
      /\ UNCHANGED <<current, waitq, preempted>>
  BY DEF Reap, At
<1>2. c \in Tasks /\ parent[c] = t /\ pc[c] = "grave" /\ c # Root /\ c # NoTask
  BY DEF Zombies, Children, TreeInv, SchedulerAssumption
<1>3. pc'[t] = "run" /\ \A x \in Tasks \ {t} : pc'[x] = pc[x]
  BY <1>1 DEF TypeOK
<1>4. TreeInv'
  <2>1. \A x \in Tasks : parent'[x] \notin reaped'
    BY <1>1, <1>2 DEF TreeInv, NoFreedParent
  <2>2. \A x \in reaped' : pc'[x] = "grave"
    BY <1>1, <1>2, <1>3 DEF TreeInv, TypeOK
  <2>3. parent'[Root] = NoTask /\ Root \notin reaped'
    BY <1>1, <1>2 DEF TreeInv, SchedulerAssumption
  <2>. QED  BY <2>1, <2>2, <2>3 DEF TreeInv, NoFreedParent
<1>5. \A u \in Tasks \ {Root} : Zombies(u)' \subseteq Zombies(u)
  BY <1>1, <1>3 DEF Zombies, Children
<1>6. ASSUME NEW u \in Tasks \ {Root} PROVE Sure(u)'
  <2>0. Sure(u)
    BY DEF ChildInv
  <2>1. CASE u = t
    BY <2>1, <1>3 DEF Sure
  <2>2. CASE u # t
    BY <2>0, <2>2, <1>1, <1>3, <1>5, OthersSure
  <2>. QED  BY <2>1, <2>2
<1>. QED  BY <1>4, <1>6 DEF ChildInv

(* What t does in a call leaves it neither sure of its children nor asleep.*)
LEMMA CallerTree ==
  ASSUME FInv, NEW t \in Tasks, current = t, pc[t] # "grave",
         UNCHANGED <<current, parent, reaped>>,
         NEW l \in Places \ {"scanned", "enqueued", "asleep", "grave"},
         pc' = [pc EXCEPT ![t] = l],
         \/ preempted' = preempted
         \/ preempted' = [preempted EXCEPT ![t] = FALSE],
         \A c \in Tasks \ {t} : c \in ToSet(waitq'[c]) => c \in ToSet(waitq[c])
  PROVE  TreeInv' /\ ChildInv'
<1>. USE DEF FInv, IInv
<1>1. pc'[t] = l /\ \A c \in Tasks \ {t} : pc'[c] = pc[c]
  BY DEF TypeOK
<1>2. \A c \in Tasks \ {t} : preempted'[c] = preempted[c]
  BY DEF TypeOK
<1>3. Sure(t)'
  BY <1>1 DEF Sure
<1>. QED  BY <1>1, <1>2, <1>3, OwnTree

(* sleep_on appends the task itself; where it is sure, waitpid was.        *)
LEMMA EnqueueTree ==
  ASSUME SchedulerAssumption, FInv, NEW t \in Tasks, NEW q \in Lists, Enqueue(t, q),
         current = t, pc[t] \in {"run", "scanned"},
         \A c \in Tasks \ {t} : preempted'[c] = preempted[c],
         q = t => pc[t] = "scanned" /\ preempted' = preempted
  PROVE  TreeInv' /\ ChildInv'
<1>. USE DEF FInv, IInv
<1>1. /\ waitq' = [waitq EXCEPT ![q] = Append(@, t)]
      /\ pc' = [pc EXCEPT ![t] = "enqueued"]
      /\ UNCHANGED <<current, parent, reaped>>
  BY DEF Enqueue
<1>2. pc'[t] = "enqueued" /\ \A c \in Tasks \ {t} : pc'[c] = pc[c]
  BY <1>1 DEF TypeOK
<1>3. ToSet(waitq'[q]) = ToSet(waitq[q]) \cup {t}
      /\ \A c \in Lists \ {q} : waitq'[c] = waitq[c]
  BY <1>1, WaitMembers, AppendMembers DEF TypeOK
<1>4. \A c \in Tasks \ {t} : c \in ToSet(waitq'[c]) => c \in ToSet(waitq[c])
  BY <1>3 DEF Lists
<1>6. Zombies(t)' \subseteq Zombies(t)
  BY <1>1, <1>2, SameZombies
<1>7. CASE q = t
  <2>0. t # Root
    BY <1>7 DEF CurrentInv
  <2>1. ~preempted'[t] => Zombies(t) = {}
    BY <2>0, <1>7 DEF ChildInv, Sure
  <2>2. Sure(t)'
    BY <2>1, <1>1, <1>2, <1>6 DEF Sure
  <2>. QED  BY <2>2, <1>1, <1>2, <1>4, OwnTree
<1>8. CASE q # t
  <2>1. t \notin ToSet(waitq'[t])
    <3>1. waitq'[t] = waitq[t] /\ t \in Lists
      BY <1>3, <1>8 DEF Lists
    <3>2. t \notin ToSet(waitq[t])
      <4>1. pc[t] = "scanned" \/ pc[t] = "run"
        OBVIOUS
      <4>. QED  BY <3>1, <4>1 DEF WaitInv, Down
    <3>. QED  BY <3>1, <3>2
  <2>2. Sure(t)'
    BY <2>1, <1>1, <1>2 DEF Sure
  <2>. QED  BY <2>2, <1>1, <1>2, <1>4, OwnTree
<1>. QED  BY <1>7, <1>8

LEMMA SleepUntilTree ==
  ASSUME SchedulerAssumption, FInv, NEW t \in Tasks, SleepUntil(t)
  PROVE  TreeInv' /\ ChildInv'
<1>. USE DEF FInv, IInv
<1>1. /\ current = t /\ pc[t] = "run"
      /\ pc' = [pc EXCEPT ![t] = "enqueued"]
      /\ preempted' = [preempted EXCEPT ![t] = FALSE]
      /\ UNCHANGED <<current, waitq, parent, reaped>>
  BY DEF SleepUntil, At, Begin
<1>2. pc'[t] = "enqueued" /\ \A c \in Tasks \ {t} : pc'[c] = pc[c]
      /\ preempted'[c] = preempted[c]
  BY <1>1 DEF TypeOK
<1>3. t \notin ToSet(waitq[t])
  BY <1>1 DEF WaitInv, Down, Lists
<1>4. Sure(t)'
  BY <1>1, <1>2, <1>3 DEF Sure
<1>. QED  BY <1>1, <1>2, <1>4, OwnTree

(* The scan of waitpid: no zombie among the children.                      *)
LEMMA ScanTree ==
  ASSUME FInv, NEW t \in Tasks, ScanFindsNone(t)
  PROVE  TreeInv' /\ ChildInv'
<1>. USE DEF FInv, IInv
<1>1. /\ current = t /\ pc[t] = "scan" /\ Zombies(t) = {}
      /\ preempted' = [preempted EXCEPT ![t] = FALSE]
      /\ UNCHANGED <<current, waitq, parent, reaped>>
  BY DEF ScanFindsNone, At
<1>2. /\ pc'[t] \in {"run", "scanned"}
      /\ \A c \in Tasks \ {t} : pc'[c] = pc[c] /\ preempted'[c] = preempted[c]
  BY <1>1 DEF TypeOK, ScanFindsNone
<1>3. Zombies(t)' = {}
  BY <1>1, <1>2, SameZombies
<1>4. Sure(t)'
  BY <1>1, <1>2, <1>3 DEF Sure
<1>. QED  BY <1>1, <1>2, <1>4, OwnTree

(* Every other step of wakeup_queue and waitpid.                           *)
LEMMA RestTree ==
  ASSUME SchedulerAssumption, FInv, NEW t \in Tasks,
         \/ WakeCheck(t) \/ WakeReady(t) \/ Waitpid(t)
         \/ \E q \in Queues \ IrqQueues : Wakeup(t, q)
  PROVE  TreeInv' /\ ChildInv'
<1>1. /\ current = t /\ pc[t] \in {"run", "check", "holds"}
      /\ UNCHANGED <<current, parent, reaped, waitq>>
      /\ \/ preempted' = preempted
         \/ preempted' = [preempted EXCEPT ![t] = FALSE]
      /\ \E l \in {"run", "pop", "check", "scan"} : pc' = [pc EXCEPT ![t] = l]
  BY DEF WakeCheck, WakeReady, Waitpid, Wakeup, At, Begin
<1>. QED  BY <1>1, CallerTree DEF Places

LEMMA WakePopTree ==
  ASSUME SchedulerAssumption, FInv, NEW t \in Tasks, WakePop(t)
  PROVE  TreeInv' /\ ChildInv'
<1>. DEFINE q == target[t]
<1>1. /\ current = t /\ pc[t] = "pop" /\ waitq[q] # <<>>
      /\ waitq' = [waitq EXCEPT ![q] = Front(@)]
      /\ pc' = [pc EXCEPT ![t] = "holds"]
      /\ UNCHANGED <<current, parent, reaped, preempted>>
  BY DEF WakePop, At
<1>2. q \in Queues \ IrqQueues
  BY <1>1 DEF FInv, IInv, WakerInv
<1>3. \A c \in Tasks : waitq'[c] = waitq[c]
  BY <1>1, <1>2 DEF FInv, IInv, TypeOK, SchedulerAssumption, Lists
<1>. QED  BY <1>1, <1>3, CallerTree DEF Places

-----------------------------------------------------------------------------
LEMMA TreeNext == SchedulerAssumption /\ FInv /\ [Next]_vars => TreeInv' /\ ChildInv'
<1> SUFFICES ASSUME SchedulerAssumption, FInv, [Next]_vars
             PROVE  TreeInv' /\ ChildInv'
  OBVIOUS
<1>1. CASE Interrupt
  BY <1>1, TickTree, IrqWakeupTree DEF Interrupt
<1>2. CASE Throttle
  <2>1. UNCHANGED <<current, pc, parent, reaped, preempted, waitq>>
    BY <1>2 DEF Throttle, SetTtl, SetTtlMode
  <2>. QED  BY <2>1, ThrottleTree
<1>3. ASSUME NEW t \in Tasks, Call(t) PROVE TreeInv' /\ ChildInv'
  <2>1. ASSUME NEW q \in Queues, SleepOn(t, q) PROVE TreeInv' /\ ChildInv'
    <3>1. /\ current = t /\ pc[t] = "run" /\ Enqueue(t, q)
          /\ preempted' = [preempted EXCEPT ![t] = FALSE]
      BY <2>1 DEF SleepOn, At, Begin
    <3>2. q \in Lists /\ q # t
      BY DEF Lists, SchedulerAssumption
    <3>3. \A c \in Tasks \ {t} : preempted'[c] = preempted[c]
      BY <3>1 DEF FInv, IInv, TypeOK
    <3>. QED  BY <3>1, <3>2, <3>3, EnqueueTree
  <2>2. CASE SleepUntil(t)
    BY <2>2, SleepUntilTree
  <2>3. ASSUME NEW new \in Tasks, Spawn(t, new) PROVE TreeInv' /\ ChildInv'
    BY <2>3, SpawnTree
  <2>4. CASE Exit(t)
    BY <2>4, ExitTree
  <2>. QED  BY <1>3, <2>1, <2>2, <2>3, <2>4, RestTree DEF Call
<1>4. ASSUME NEW t \in Tasks, Continue(t) PROVE TreeInv' /\ ChildInv'
  <2>1. CASE WaitForChild(t)
    <3>1. /\ current = t /\ pc[t] = "scanned" /\ Enqueue(t, t)
          /\ preempted' = preempted
      BY <2>1 DEF WaitForChild, At
    <3>2. t \in Lists
      BY DEF Lists
    <3>. QED  BY <3>1, <3>2, EnqueueTree
  <2>2. ASSUME NEW c \in Zombies(t), Reap(t, c) PROVE TreeInv' /\ ChildInv'
    BY <2>2, ReapTree
  <2>. QED  BY <1>4, <2>1, <2>2, DescheduleTree, WakePopTree, ScanTree, RestTree
            DEF Continue
<1>5. CASE UNCHANGED vars
  BY <1>5, ThrottleTree DEF vars
<1>. QED  BY <1>1, <1>2, <1>3, <1>4, <1>5 DEF Next

LEMMA TreeInvariance ==
  ASSUME QuietSleepers
  PROVE  Spec => [](IInv /\ TreeInv /\ ChildInv)
<1>1. Init => TreeInv /\ ChildInv
  BY SchedulerAssumption DEF Init, TreeInv, NoFreedParent, ChildInv, Sure,
     SchedulerAssumption
<1>2. IInv /\ TreeInv /\ ChildInv /\ [Next]_vars => TreeInv' /\ ChildInv'
  BY SchedulerAssumption, TreeNext DEF FInv
<1>. QED  BY <1>1, <1>2, Invariance, PTL DEF Spec

(* waitpid frees a task only when no other task has it for a parent: its   *)
(* children were handed to kinit, who is never freed.                      *)
THEOREM ParentsAlive ==
  ASSUME QuietSleepers
  PROVE  Spec => []NoFreedParent
<1>1. TreeInv => NoFreedParent
  BY DEF TreeInv
<1>. QED  BY <1>1, TreeInvariance, PTL

(* A parent that sleeps in waitpid has no child to reap, unless the timer  *)
(* struck between its scan of the children and its sleep.                  *)
THEOREM ChildrenReaped ==
  ASSUME QuietSleepers
  PROVE  Spec => []NoMissedChild
<1>1. IInv /\ ChildInv => NoMissedChild
  <2> SUFFICES ASSUME IInv, ChildInv, NEW t \in Tasks, pc[t] = "asleep",
                      Contains(waitq[t], t), Zombies(t) # {}
               PROVE  preempted[t]
    BY DEF NoMissedChild
  <2>1. t \in ToSet(waitq[t])
    BY WaitMembers, ContainsIsMember DEF IInv, Lists
  <2>2. t # Root
    BY DEF IInv, CurrentInv
  <2>. QED  BY <2>1, <2>2 DEF ChildInv, Sure
<1>. QED  BY <1>1, TreeInvariance, PTL
=============================================================================
