----------------------------- MODULE HeapProofs -----------------------------
(***************************************************************************)
(* Proofs about Heap, for any size of the pages, of the headers and of the *)
(* heap, any number of bins and of levels of the skip list, and any sizes  *)
(* that are asked for.                                                     *)
(***************************************************************************)
EXTENDS Heap, SequenceTheorems, FiniteSetTheorems, WellFoundedInduction, TLAPS

(* A set of numbers has a least one.                                       *)
LEMMA LeastNumber ==
  ASSUME NEW S \in SUBSET Nat, S # {}
  PROVE  \E n \in S : \A m \in S : n <= m
<1> DEFINE Less == {ss \in Nat \X Nat : ss[1] < ss[2]}
<1>1. IsWellFoundedOn(Less, Nat)
  BY NatLessThanWellFounded DEF OpToRel
<1>2. \E n \in S : \A m \in S : ~ (<<m, n>> \in Less)
  <2> HIDE DEF Less
  <2>. QED  BY <1>1, WFMin
<1>3. PICK n \in S : \A m \in S : ~ (<<m, n>> \in Less)
  BY <1>2
<1>4. \A m \in S : n <= m
  <2> SUFFICES ASSUME NEW m \in S PROVE n <= m
    OBVIOUS
  <2>1. n \in Nat /\ m \in Nat
    OBVIOUS
  <2>2. ~ (m < n)
    BY <1>3, <2>1
  <2>. QED  BY <2>1, <2>2
<1>. QED  BY <1>4

(* What is said of the powers of two: those of the 30 bits of a size.      *)
LEMMA Powers ==
  ASSUME NEW k \in 0 .. 29
  PROVE  2 ^ (k + 1) = 2 * 2 ^ k /\ 2 ^ k \in Nat \ {0}
<1> DEFINE E(n) == 2 ^ n
<1>1. /\ E(0) = 1 /\ E(1) = 2 /\ E(2) = 4 /\ E(3) = 8 /\ E(4) = 16 /\ E(5) = 32
      /\ E(6) = 64 /\ E(7) = 128 /\ E(8) = 256 /\ E(9) = 512 /\ E(10) = 1024
      /\ E(11) = 2048 /\ E(12) = 4096 /\ E(13) = 8192 /\ E(14) = 16384
      /\ E(15) = 32768 /\ E(16) = 65536 /\ E(17) = 131072 /\ E(18) = 262144
      /\ E(19) = 524288 /\ E(20) = 1048576 /\ E(21) = 2097152 /\ E(22) = 4194304
      /\ E(23) = 8388608 /\ E(24) = 16777216 /\ E(25) = 33554432
      /\ E(26) = 67108864 /\ E(27) = 134217728 /\ E(28) = 268435456
      /\ E(29) = 536870912 /\ E(30) = 1073741824
  OBVIOUS
<1>. HIDE DEF E
<1>2. E(k + 1) = 2 * E(k) /\ E(k) \in Nat \ {0}
  BY <1>1
<1>. QED  BY <1>2 DEF E

-----------------------------------------------------------------------------
(* The skip list.                                                          *)

(* The types of the fields of the allocator.                               *)
Typed(h) ==
  h \in [brk : Nat, level : Levels, bucket : [Pages -> Nat \cup {Nil}],
         cells : [Pages -> Seq(Nat)], bins : [0 .. BIG_BIN - 1 -> Seq(Pages)],
         forward : [Pages \cup {List} -> [Levels -> Pages \cup {Nil}]]]

(* On a level, q comes behind n: the ranks fall along the list.            *)
After(rank, n, q) == n = List \/ rank[q] < rank[n]

(* The first of the pages S behind n, in the order of the ranks.           *)
IsNext(rank, S, n, next) ==
  IF next = Nil THEN \A q \in S : ~ After(rank, n, q)
  ELSE /\ next \in S /\ After(rank, n, next)
       /\ \A q \in S : After(rank, n, q) => rank[q] <= rank[next]

(* The pages on[i] stand on level i, in the order of the ranks, which is   *)
(* one of the sizes.                                                       *)
Linked(h, rank, on) ==
  /\ rank \in [Pages -> Nat] /\ on \in [Levels -> SUBSET Pages]
  /\ \A i \in Levels : /\ i < SKIP_MAX_LEVEL => on[i + 1] \subseteq on[i]
                       /\ i > h.level => on[i] = {}
  /\ \A p \in on[0] : h.bucket[p] \in Nat
  /\ \A p, q \in on[0] : /\ rank[p] = rank[q] => p = q
                         /\ rank[q] < rank[p] => h.bucket[p] <= h.bucket[q]
  /\ \A i \in Levels : \A n \in on[i] \cup {List} :
       IsNext(rank, on[i], n, h.forward[n][i])

(* The walk of one level is what its recursive definition says it is.      *)
LEMMA WalkStep ==
  ASSUME NEW h, Typed(h), NEW i \in Levels, NEW s, NEW n \in Pages \cup {List}
  PROVE  Walk(h, n, i, s) =
           IF h.forward[n][i] # Nil /\ h.bucket[h.forward[n][i]] < s
           THEN Walk(h, h.forward[n][i], i, s) ELSE n
<1> DEFINE D == Pages \cup {List}
           Goes(m) == h.forward[m][i] # Nil /\ h.bucket[h.forward[m][i]] < s
           F(walk) == [m \in D |->
                         LET next == h.forward[m][i]
                         IN IF next # Nil /\ h.bucket[next] < s THEN walk[next] ELSE m]
           W == CHOOSE walk : walk = F(walk)
<1>1. \A m : Walk(h, m, i, s) = W[m]
  BY DEF Walk
<1>2. \A m \in D : Goes(m) => h.forward[m][i] \in D
  BY DEF Typed
<1>3. \E w : w = F(w)
  <2> DEFINE next(m) == h.forward[m][i]
             Closed(C) == \A m \in C : Goes(m) => next(m) \in C
             R(m) == {e \in D : \A C \in SUBSET D : m \in C /\ Closed(C) => e \in C}
             Ends(m) == {e \in R(m) : ~ Goes(e)}
             w == [m \in D |-> CHOOSE e : e \in Ends(m)]
  <2>1. ASSUME NEW m \in D, ~ Goes(m) PROVE w[m] = m
    <3>1. Closed({m})
      BY <2>1
    <3>2. R(m) = {m}
      <4>. HIDE DEF Closed
      <4>. QED  BY <3>1
    <3>3. Ends(m) = {m}
      <4>. HIDE DEF R, Goes
      <4>. QED  BY <2>1, <3>2
    <3>4. w[m] = CHOOSE e : e \in Ends(m)
      OBVIOUS
    <3>. HIDE DEF w, Ends
    <3>. QED  BY <3>3, <3>4
  <2>2. ASSUME NEW m \in D, Goes(m) PROVE w[m] = w[next(m)]
    <3>0. next(m) \in D
      BY <1>2, <2>2
    <3>1. ASSUME NEW e \in Ends(m) PROVE e \in Ends(next(m))
      <4>1. e \in D /\ ~ Goes(e) /\ e # m
        BY <2>2, <3>1
      <4>2. ASSUME NEW C \in SUBSET D, next(m) \in C, Closed(C) PROVE e \in C
        <5>1. Closed(C \cup {m}) /\ C \cup {m} \in SUBSET D
          <6>. HIDE DEF Goes, next
          <6>. QED  BY <4>2
        <5>2. e \in C \cup {m}
          <6>. HIDE DEF Closed, Goes
          <6>. QED  BY <3>1, <5>1
        <5>. QED  BY <4>1, <5>2
      <4>. HIDE DEF Goes, next, Closed
      <4>. QED  BY <4>1, <4>2
    <3>2. ASSUME NEW e \in Ends(next(m)) PROVE e \in Ends(m)
      <4>. HIDE DEF Goes, next
      <4>. QED  BY <2>2, <3>2
    <3>3. Ends(m) = Ends(next(m))
      <4>. HIDE DEF Ends
      <4>. QED  BY <3>1, <3>2
    <3>4. /\ w[m] = CHOOSE e : e \in Ends(m)
          /\ w[next(m)] = CHOOSE e : e \in Ends(next(m))
      <4>. HIDE DEF Ends, next
      <4>. QED  BY <3>0
    <3>. HIDE DEF w, Ends, next
    <3>. QED  BY <3>3, <3>4
  <2>3. w = F(w)
    <3>1. w = [m \in D |-> w[m]]
      <4>. HIDE DEF Ends
      <4>. QED OBVIOUS
    <3>2. \A m \in D : w[m] = IF Goes(m) THEN w[next(m)] ELSE m
      <4>. HIDE DEF w, Goes, next
      <4>. QED  BY <2>1, <2>2
    <3>. HIDE DEF w
    <3>. QED  BY <3>1, <3>2
  <2>. HIDE DEF w, F
  <2>. QED  BY <2>3
<1>4. W = F(W)
  <2>. HIDE DEF F
  <2>. QED  BY <1>3
<1>5. \A m \in D : W[m] = IF Goes(m) THEN W[h.forward[m][i]] ELSE m
  <2>. HIDE DEF W
  <2>. QED  BY <1>4
<1>. HIDE DEF W
<1>. QED  BY <1>1, <1>5

(* Where the walk of level i for the size s is to end: the next page, if   *)
(* there is one, is not smaller than s, and u itself is.                   *)
Reached(h, on, i, s, u) ==
  /\ u \in on[i] \cup {List}
  /\ u # List => h.bucket[u] < s
  /\ h.forward[u][i] # Nil => ~ (h.bucket[h.forward[u][i]] < s)

LEMMA Constants ==
  /\ PAGE_SIZE \in Nat \ {0} /\ NUM_BINS \in Nat \ {0} /\ Header \in Nat \ {0}
  /\ BigHeader \in Nat \ {0} /\ MaxPages \in Nat \ {0}
  /\ SMALLEST_BIN_LOG \in Nat /\ SKIP_MAX_LEVEL \in Nat
  /\ Header < BigHeader /\ BigHeader < PAGE_SIZE /\ NUM_BINS < PAGE_SIZE - BigHeader
  /\ 1 < NUM_BINS /\ SMALLEST_BIN_LOG + NUM_BINS <= 30
  /\ Nil \notin Nat /\ Nil \notin Pages /\ List \notin Pages /\ Nil # List
  /\ 0 \in Levels /\ BIG_BIN \in Nat \ {0} /\ BIG_BIN < NUM_BINS
  BY HeapAssumption, SizeAssumption DEF Pages, List, Levels, BIG_BIN

LEMMA WalkEnds ==
  ASSUME NEW h, Typed(h), NEW rank, NEW on, Linked(h, rank, on), NEW i \in Levels,
         NEW s, NEW n \in on[i] \cup {List}, n # List => h.bucket[n] < s
  PROVE  Reached(h, on, i, s, Walk(h, n, i, s))
<1> DEFINE Fine(m) == Reached(h, on, i, s, Walk(h, m, i, s))
           next(m) == h.forward[m][i]
           bad == {m \in on[i] : h.bucket[m] < s /\ ~ Fine(m)}
<1>0. on[i] \subseteq Pages
  BY DEF Linked
<1>1. ASSUME NEW m \in on[i] \cup {List}, m # List => h.bucket[m] < s, ~ Fine(m)
      PROVE  /\ next(m) \in bad /\ After(rank, m, next(m))
  <2>1. Walk(h, m, i, s) = IF next(m) # Nil /\ h.bucket[next(m)] < s
                           THEN Walk(h, next(m), i, s) ELSE m
    BY <1>0, WalkStep
  <2>2. CASE ~ (next(m) # Nil /\ h.bucket[next(m)] < s)
    <3>1. Walk(h, m, i, s) = m
      BY <2>1, <2>2
    <3>. QED  BY <1>1, <2>2, <3>1 DEF Reached
  <2>3. CASE next(m) # Nil /\ h.bucket[next(m)] < s
    <3>1. next(m) \in on[i] /\ After(rank, m, next(m))
      BY <2>3 DEF Linked, IsNext
    <3>2. ~ Fine(next(m))
      BY <1>1, <2>1, <2>3
    <3>. HIDE DEF next, Fine
    <3>. QED  BY <2>3, <3>1, <3>2
  <2>. QED  BY <2>2, <2>3
<1>2. bad = {}
  <2> SUFFICES ASSUME bad # {} PROVE FALSE
    OBVIOUS
  <2> DEFINE S == {rank[m] : m \in bad}
  <2>1. \A m \in bad : m \in on[i] /\ m \in Pages /\ rank[m] \in Nat
    <3>. HIDE DEF Fine
    <3>. QED  BY <1>0 DEF Linked
  <2>2. S \in SUBSET Nat /\ S # {}
    <3>. HIDE DEF bad
    <3>. QED  BY <2>1
  <2>3. PICK r \in S : \A k \in S : r <= k
    <3>. HIDE DEF S
    <3>. QED  BY <2>2, LeastNumber
  <2>4. PICK m \in bad : rank[m] = r
    <3>. HIDE DEF bad
    <3>. QED  OBVIOUS
  <2>5. next(m) \in bad /\ After(rank, m, next(m))
    <3>1. m \in on[i] /\ h.bucket[m] < s /\ ~ Fine(m)
      <4>. HIDE DEF Fine
      <4>. QED  OBVIOUS
    <3>. HIDE DEF Fine, next, bad
    <3>. QED  BY <1>1, <3>1
  <2>6. rank[next(m)] < rank[m] /\ rank[next(m)] \in Nat /\ rank[m] \in Nat
    <3>1. m # List
      BY <2>1, Constants
    <3>. HIDE DEF next, bad
    <3>. QED  BY <2>1, <2>5, <3>1 DEF After
  <2>7. rank[m] <= rank[next(m)]
    <3>. HIDE DEF next, bad
    <3>. QED  BY <2>3, <2>4, <2>5
  <2>. QED  BY <2>6, <2>7
<1>3. Fine(n)
  <2>. HIDE DEF Fine, next, bad
  <2>. QED  BY <1>1, <1>2
<1>. QED  BY <1>3

(* update[] is what its recursive definition says it is.                   *)
LEMMA UpdateStep ==
  ASSUME NEW h, h.level \in Nat, NEW s, NEW i \in 0 .. h.level
  PROVE  Update(h, s)[i] =
           Walk(h, IF i = h.level THEN List ELSE Update(h, s)[i + 1], i, s)
<1> DEFINE L == h.level
           F(update) ==
             [j \in 0 .. h.level |->
                Walk(h, IF j = h.level THEN List ELSE update[j + 1], j, s)]
           W(n, j) == Walk(h, n, j, s)
           From(g, j) == W(IF j = L THEN List ELSE g[j + 1], j)
           Good(k) == \E g : \A j \in L - k .. L : g[j] = From(g, j)
           bad == {k \in 0 .. L : ~ Good(k)}
<1>0. L \in Nat
  OBVIOUS
<1>1. Update(h, s) = CHOOSE update : update = F(update)
  BY DEF Update
<1>. HIDE DEF W
<1>. HIDE DEF L
<1>2. ASSUME NEW k \in bad PROVE k > 0 /\ k - 1 \in bad
  <2>1. k # 0
    <3> SUFFICES ASSUME k = 0 PROVE FALSE
      OBVIOUS
    <3> DEFINE g == [j \in {L} |-> W(List, j)]
    <3>1. \A j \in L - k .. L : j = L
      BY <1>0
    <3>2. g[L] = W(List, L)
      OBVIOUS
    <3>. HIDE DEF g
    <3>3. Good(k)
      BY <3>1, <3>2
    <3>. QED  BY <3>3
  <2>2. k - 1 \in 0 .. L
    BY <1>0, <2>1
  <2>3. ASSUME Good(k - 1) PROVE Good(k)
    <3>1. PICK f : \A j \in L - (k - 1) .. L : f[j] = From(f, j)
      BY <2>3
    <3> DEFINE b == L - k
               g == [j \in 0 .. L |-> IF j = b THEN W(f[j + 1], j) ELSE f[j]]
    <3>2. b \in 0 .. L /\ b # L /\ k \in Nat
      BY <1>0, <2>1
    <3>3. g[b] = W(f[b + 1], b)
      BY <3>2
    <3>4. \A j \in 0 .. L : j # b => g[j] = f[j]
      OBVIOUS
    <3>5. \A j \in b + 1 .. L : j \in L - (k - 1) .. L /\ j \in 0 .. L /\ j # b
      BY <1>0, <3>2
    <3>. HIDE DEF g
    <3>6. ASSUME NEW j \in b + 1 .. L PROVE g[j] = From(g, j)
      <4>1. g[j] = f[j] /\ f[j] = From(f, j)
        BY <3>1, <3>4, <3>5
      <4>2. CASE j = L
        BY <4>1, <4>2
      <4>3. CASE j # L
        <5>1. j + 1 \in b + 1 .. L
          BY <1>0, <3>2, <4>3
        <5>2. g[j + 1] = f[j + 1]
          BY <3>4, <3>5, <5>1
        <5>. QED  BY <4>1, <4>3, <5>2
      <4>. QED  BY <4>2, <4>3
    <3>7. g[b] = From(g, b)
      <4>1. b + 1 \in b + 1 .. L
        BY <1>0, <3>2
      <4>2. g[b + 1] = f[b + 1]
        BY <3>4, <3>5, <4>1
      <4>. QED  BY <3>2, <3>3, <4>2
    <3>8. \A j \in L - k .. L : j = b \/ j \in b + 1 .. L
      BY <1>0, <3>2
    <3>. HIDE DEF b
    <3>9. \A j \in L - k .. L : g[j] = From(g, j)
      <4>. HIDE DEF From
      <4>. QED  BY <3>6, <3>7, <3>8
    <3>. QED  BY <3>9
  <2>. HIDE DEF Good
  <2>. QED  BY <2>1, <2>2, <2>3
<1>3. bad = {}
  <2> SUFFICES ASSUME bad # {} PROVE FALSE
    OBVIOUS
  <2>1. bad \in SUBSET Nat
    <3>. HIDE DEF Good
    <3>. QED  BY <1>0
  <2>. HIDE DEF bad
  <2>2. PICK k \in bad : \A m \in bad : k <= m
    BY <2>1, LeastNumber
  <2>3. k \in Nat /\ k - 1 \in bad
    BY <1>2, <2>1
  <2>. QED  BY <2>2, <2>3
<1>4. \E w : w = F(w)
  <2>1. Good(L)
    <3>. HIDE DEF Good
    <3>. QED  BY <1>0, <1>3
  <2>2. PICK g : \A j \in L - L .. L : g[j] = From(g, j)
    BY <2>1
  <2> DEFINE w == [j \in 0 .. L |-> g[j]]
  <2>3. ASSUME NEW j \in 0 .. L PROVE w[j] = From(w, j)
    <3>1. j \in L - L .. L /\ w[j] = g[j]
      BY <1>0
    <3>2. j # L => w[j + 1] = g[j + 1]
      BY <1>0
    <3>3. g[j] = From(g, j)
      BY <2>2, <3>1
    <3>. HIDE DEF w
    <3>. QED  BY <3>1, <3>2, <3>3
  <2>4. w = [j \in 0 .. L |-> w[j]]
    OBVIOUS
  <2>. HIDE DEF w
  <2>5. w = [j \in 0 .. L |-> From(w, j)]
    <3>. HIDE DEF From
    <3>. QED  BY <2>3, <2>4
  <2>6. w = F(w)
    BY <2>5 DEF W, L
  <2>. HIDE DEF F
  <2>. QED  BY <2>6
<1> DEFINE U == CHOOSE update : update = F(update)
<1>5. U = F(U)
  <2>. HIDE DEF F
  <2>. QED  BY <1>4
<1>. HIDE DEF U
<1>6. U[i] = Walk(h, IF i = h.level THEN List ELSE U[i + 1], i, s)
  BY <1>5
<1>. QED  BY <1>1, <1>6 DEF U

(* Every entry of update[] is where the walk of its level is to end.       *)
LEMMA UpdateEnds ==
  ASSUME NEW h, Typed(h), NEW rank, NEW on, Linked(h, rank, on),
         NEW s, NEW i \in 0 .. h.level
  PROVE  Reached(h, on, i, s, Update(h, s)[i])
<1> DEFINE L == h.level
           Fine(j) == Reached(h, on, j, s, Update(h, s)[j])
           bad == {k \in 0 .. L : ~ Fine(L - k)}
<1>0. L \in Nat /\ L <= SKIP_MAX_LEVEL /\ SKIP_MAX_LEVEL \in Nat
  BY Constants DEF Typed, Levels
<1>1. ASSUME NEW k \in bad PROVE k > 0 /\ k - 1 \in bad
  <2> DEFINE j == L - k
             n == IF j = L THEN List ELSE Update(h, s)[j + 1]
  <2>1. j \in 0 .. L /\ j \in Levels /\ k \in 0 .. L /\ ~ Fine(j)
    BY <1>0 DEF Levels
  <2>2. Update(h, s)[j] = Walk(h, n, j, s)
    BY <1>0, <2>1, UpdateStep
  <2>3. ~ (n \in on[j] \cup {List} /\ (n # List => h.bucket[n] < s))
    <3>. HIDE DEF n, j
    <3>. QED  BY <2>1, <2>2, WalkEnds
  <2>4. j # L
    BY <2>3
  <2>5. j + 1 \in 0 .. L /\ j + 1 = L - (k - 1) /\ j < SKIP_MAX_LEVEL
    BY <1>0, <2>1, <2>4
  <2>6. on[j + 1] \subseteq on[j]
    <3>. HIDE DEF j
    <3>. QED  BY <2>1, <2>5 DEF Linked
  <2>7. ~ Fine(j + 1)
    <3> SUFFICES ASSUME Fine(j + 1) PROVE FALSE
      OBVIOUS
    <3>1. n \in on[j + 1] \cup {List} /\ (n # List => h.bucket[n] < s)
      BY <2>4 DEF Reached
    <3>. HIDE DEF n, j
    <3>. QED  BY <2>3, <2>6, <3>1
  <2>8. k - 1 \in 0 .. L /\ k > 0
    BY <1>0, <2>1, <2>4
  <2>. HIDE DEF Fine
  <2>. QED  BY <2>5, <2>7, <2>8
<1>2. bad = {}
  <2> SUFFICES ASSUME bad # {} PROVE FALSE
    OBVIOUS
  <2>1. bad \in SUBSET Nat
    <3>. HIDE DEF Fine
    <3>. QED  BY <1>0
  <2>. HIDE DEF bad
  <2>2. PICK k \in bad : \A m \in bad : k <= m
    BY <2>1, LeastNumber
  <2>3. k \in Nat /\ k - 1 \in bad
    BY <1>1, <2>1
  <2>. QED  BY <2>2, <2>3
<1>3. L - i \in 0 .. L /\ L - (L - i) = i
  BY <1>0
<1>4. Fine(i)
  <2>. HIDE DEF Fine
  <2>. QED  BY <1>2, <1>3
<1>. QED  BY <1>4

(* Every level is a part of the lowest.                                    *)
LEMMA LevelsNested ==
  ASSUME NEW h, NEW rank, NEW on, Linked(h, rank, on), NEW i \in Levels
  PROVE  on[i] \subseteq on[0]
<1> DEFINE bad == {k \in Levels : ~ (on[k] \subseteq on[0])}
<1>1. bad \in SUBSET Nat
  BY Constants DEF Levels
<1>2. ASSUME bad # {} PROVE FALSE
  <2>1. PICK k \in bad : \A m \in bad : k <= m
    <3>. HIDE DEF bad
    <3>. QED  BY <1>1, <1>2, LeastNumber
  <2>2. k \in 1 .. SKIP_MAX_LEVEL /\ ~ (on[k] \subseteq on[0])
    BY Constants DEF Levels
  <2>3. k - 1 \in Levels /\ k - 1 \notin bad /\ k - 1 < SKIP_MAX_LEVEL /\ (k - 1) + 1 = k
    <3>1. k - 1 \notin bad
      <4>. HIDE DEF bad
      <4>. QED  BY <2>1, <2>2
    <3>. QED  BY <2>2, <3>1, Constants DEF Levels
  <2>4. on[k] \subseteq on[k - 1]
    BY <2>3 DEF Linked
  <2>. QED  BY <2>2, <2>3, <2>4
<1>. QED  BY <1>2

(* x is the first of the pages S that is not smaller than s.               *)
IsFirst(h, rank, S, s, x) ==
  IF x = Nil THEN \A q \in S : h.bucket[q] < s
  ELSE /\ x \in S /\ s <= h.bucket[x]
       /\ \A q \in S : s <= h.bucket[q] => rank[q] <= rank[x]

(* The place that update[] points out on a level is where s belongs.       *)
LEMMA PlaceOf ==
  ASSUME NEW h, NEW rank, NEW on, Linked(h, rank, on), NEW s \in Nat,
         NEW i \in Levels, NEW u, Reached(h, on, i, s, u)
  PROVE  /\ u \in on[i] \cup {List}
         /\ \A q \in on[i] : After(rank, u, q) <=> s <= h.bucket[q]
         /\ IsFirst(h, rank, on[i], s, h.forward[u][i])
<1> DEFINE next == h.forward[u][i]
           S == on[i]
<1>1. /\ u \in S \cup {List}
      /\ u # List => h.bucket[u] < s
      /\ next # Nil => ~ (h.bucket[next] < s)
  BY DEF Reached
<1>2. /\ \A q \in S : h.bucket[q] \in Nat /\ rank[q] \in Nat
      /\ \A p, q \in S : /\ rank[p] = rank[q] => p = q
                         /\ rank[q] < rank[p] => h.bucket[p] <= h.bucket[q]
  <2>1. S \subseteq on[0] /\ S \subseteq Pages
    BY LevelsNested DEF Linked
  <2>2. \A q \in on[0] : h.bucket[q] \in Nat
    BY DEF Linked
  <2>3. \A p, q \in on[0] : /\ rank[p] = rank[q] => p = q
                            /\ rank[q] < rank[p] => h.bucket[p] <= h.bucket[q]
    BY DEF Linked
  <2>4. rank \in [Pages -> Nat]
    BY DEF Linked
  <2>. HIDE DEF S
  <2>. QED  BY <2>1, <2>2, <2>3, <2>4
<1>3. IsNext(rank, S, u, next)
  BY <1>1 DEF Linked
<1>. HIDE DEF S, next
<1>4. ASSUME NEW q \in S, After(rank, u, q) PROVE s <= h.bucket[q]
  <2>1. next # Nil /\ next \in S /\ rank[q] <= rank[next]
    BY <1>3, <1>4 DEF IsNext
  <2>2. s <= h.bucket[next]
    BY <1>1, <1>2, <2>1
  <2>3. q = next \/ rank[q] < rank[next]
    BY <1>2, <2>1
  <2>4. q # next => h.bucket[next] <= h.bucket[q]
    BY <1>2, <2>1, <2>3
  <2>. QED  BY <1>2, <2>1, <2>2, <2>4
<1>5. ASSUME NEW q \in S, ~ After(rank, u, q) PROVE ~ (s <= h.bucket[q])
  <2>1. u # List /\ u \in S /\ ~ (rank[q] < rank[u])
    BY <1>1, <1>5 DEF After
  <2>2. q = u \/ rank[u] < rank[q]
    BY <1>2, <2>1
  <2>3. h.bucket[u] < s
    BY <1>1, <2>1
  <2>4. h.bucket[q] <= h.bucket[u]
    BY <1>2, <2>1, <2>2
  <2>. QED  BY <1>2, <2>1, <2>3, <2>4
<1>6. IsFirst(h, rank, S, s, next)
  <2>1. CASE next = Nil
    <3>1. \A q \in S : ~ After(rank, u, q)
      BY <1>3, <2>1 DEF IsNext
    <3>2. \A q \in S : h.bucket[q] < s
      BY <1>2, <1>5, <3>1
    <3>. QED  BY <2>1, <3>2 DEF IsFirst
  <2>2. CASE next # Nil
    <3>1. next \in S /\ \A q \in S : After(rank, u, q) => rank[q] <= rank[next]
      BY <1>3, <2>2 DEF IsNext
    <3>2. s <= h.bucket[next]
      BY <1>1, <1>2, <2>2, <3>1
    <3>3. \A q \in S : s <= h.bucket[q] => rank[q] <= rank[next]
      BY <1>5, <3>1
    <3>. QED  BY <2>2, <3>1, <3>2, <3>3 DEF IsFirst
  <2>. QED  BY <2>1, <2>2
<1>. QED  BY <1>1, <1>4, <1>5, <1>6 DEF S, next

(* klmalloc_skip_list_findbest finds the smallest block that is enough.    *)
LEMMA FindBestFits ==
  ASSUME NEW h, Typed(h), NEW rank, NEW on, Linked(h, rank, on), NEW s \in Nat
  PROVE  IsFirst(h, rank, on[0], s, FindBest(h, s))
<1>1. 0 \in 0 .. h.level /\ 0 \in Levels
  BY Constants DEF Typed, Levels
<1>2. Reached(h, on, 0, s, Update(h, s)[0])
  BY <1>1, UpdateEnds
<1>. QED  BY <1>1, <1>2, PlaceOf DEF FindBest

(* The level of the list after a block was taken off.                      *)
LEMMA LevelFalls ==
  ASSUME NEW forward, NEW level \in Nat
  PROVE  /\ LevelOf(forward, level) \in 0 .. level
         /\ \A i \in LevelOf(forward, level) + 1 .. level : forward[List][i] = Nil
<1> DEFINE Empty(l) == \A i \in l + 1 .. level : forward[List][i] = Nil
           S == {l \in 0 .. level : Empty(l)}
           Q(l) == (l = 0 \/ forward[List][l] # Nil) /\ Empty(l)
<1>1. level \in S
  OBVIOUS
<1>2. S \in SUBSET Nat /\ S # {}
  <2>. HIDE DEF Empty
  <2>. QED  BY <1>1
<1>3. PICK l \in S : \A m \in S : l <= m
  <2>. HIDE DEF S
  <2>. QED  BY <1>2, LeastNumber
<1>4. l = 0 \/ forward[List][l] # Nil
  <2> SUFFICES ASSUME l # 0, forward[List][l] = Nil PROVE FALSE
    OBVIOUS
  <2>1. l \in 1 .. level /\ Empty(l)
    OBVIOUS
  <2>2. \A i \in (l - 1) + 1 .. level : i = l \/ i \in l + 1 .. level
    BY <2>1
  <2>3. l - 1 \in S
    BY <2>1, <2>2
  <2>. HIDE DEF S
  <2>. QED  BY <1>3, <2>1, <2>3
<1>5. l \in 0 .. level /\ Q(l)
  BY <1>4
<1>6. LevelOf(forward, level) = CHOOSE k \in 0 .. level : Q(k)
  BY DEF LevelOf
<1>7. LevelOf(forward, level) \in 0 .. level /\ Q(LevelOf(forward, level))
  <2>. HIDE DEF Q
  <2>. QED  BY <1>5, <1>6
<1>. QED  BY <1>7

(* What update[] is on a level of the list, by its place.                  *)
LEMMA UpdatePlace ==
  ASSUME NEW h, Typed(h), NEW rank, NEW on, Linked(h, rank, on), NEW s \in Nat,
         NEW i \in 0 .. h.level
  PROVE  LET u == Update(h, s)[i]
         IN /\ u \in on[i] \cup {List}
            /\ \A q \in on[i] : After(rank, u, q) <=> s <= h.bucket[q]
            /\ IsFirst(h, rank, on[i], s, h.forward[u][i])
            /\ IsNext(rank, on[i], u, h.forward[u][i])
<1>1. i \in Levels
  BY Constants DEF Typed, Levels
<1>2. Reached(h, on, i, s, Update(h, s)[i])
  BY UpdateEnds
<1>3. Update(h, s)[i] \in on[i] \cup {List}
  BY <1>1, <1>2, PlaceOf
<1>4. IsNext(rank, on[i], Update(h, s)[i], h.forward[Update(h, s)[i]][i])
  BY <1>1, <1>3 DEF Linked
<1>. QED  BY <1>1, <1>2, <1>4, PlaceOf

(* klmalloc_skip_list_delete takes a block that is the first of its size   *)
(* off every level it is on, and no other.                                 *)
LEMMA DeleteLinks ==
  ASSUME NEW h, Typed(h), NEW rank, NEW on, Linked(h, rank, on), NEW v \in on[0],
         \A q \in on[0] : h.bucket[v] <= h.bucket[q] => rank[q] <= rank[v]
  PROVE  /\ Typed(Delete(h, v))
         /\ Linked(Delete(h, v), rank, [i \in Levels |-> on[i] \ {v}])
         /\ Delete(h, v).brk = h.brk /\ Delete(h, v).bucket = h.bucket
         /\ Delete(h, v).cells = h.cells /\ Delete(h, v).bins = h.bins
<1> DEFINE s == h.bucket[v]
           update == Update(h, s)
           N == Pages \cup {List}
           Found(i) == \A j \in 0 .. i : h.forward[update[j]][j] = v
           forward == [n \in N |-> [i \in Levels |->
                        IF i <= h.level /\ n = update[i] /\ Found(i)
                        THEN h.forward[v][i] ELSE h.forward[n][i]]]
           d == Delete(h, v)
           on2 == [i \in Levels |-> on[i] \ {v}]
<1>0. /\ h.level \in Levels /\ h.level \in Nat /\ SKIP_MAX_LEVEL \in Nat
      /\ Levels = 0 .. SKIP_MAX_LEVEL /\ s \in Nat /\ v \in Pages /\ v # Nil /\ v # List
      /\ List \notin Pages /\ Nil \notin Pages
      /\ rank \in [Pages -> Nat] /\ on \in [Levels -> SUBSET Pages]
      /\ \A i \in Levels : on[i] \subseteq on[0]
  <2>1. h.level \in Levels
    BY DEF Typed
  <2>2. rank \in [Pages -> Nat] /\ on \in [Levels -> SUBSET Pages] /\ h.bucket[v] \in Nat
    BY DEF Linked
  <2>3. v \in Pages
    BY <2>2, Constants
  <2>. QED  BY <2>1, <2>2, <2>3, Constants, LevelsNested DEF Levels
<1>1. \A i \in Levels : v \in on[i] => i \in 0 .. h.level
  <2>1. \A i \in Levels : i > h.level => on[i] = {}
    BY DEF Linked
  <2>. QED  BY <1>0, <2>1
<1>2. d = [h EXCEPT !.forward = forward, !.level = LevelOf(forward, @)]
  BY DEF Delete
<1>3. /\ d.brk = h.brk /\ d.bucket = h.bucket /\ d.cells = h.cells /\ d.bins = h.bins
      /\ d.forward = forward /\ d.level = LevelOf(forward, h.level)
  <2>. HIDE DEF forward, d
  <2>. QED  BY <1>2 DEF Typed
<1>. HIDE DEF d
<1>4. ASSUME NEW i \in 0 .. h.level PROVE h.forward[update[i]][i] = v <=> v \in on[i]
  <2> DEFINE x == h.forward[update[i]][i]
  <2>1. IsFirst(h, rank, on[i], s, x) /\ i \in Levels
    BY <1>0, UpdatePlace
  <2>. HIDE DEF x
  <2>2. \A p, q \in on[0] : /\ rank[p] = rank[q] => p = q
                            /\ h.bucket[p] \in Nat /\ rank[p] \in Nat
    BY <1>0 DEF Linked
  <2>3. ASSUME v \in on[i] PROVE x = v
    <3>1. x # Nil /\ x \in on[i] /\ s <= h.bucket[x] /\ rank[v] <= rank[x]
      BY <1>0, <2>1, <2>2, <2>3 DEF IsFirst
    <3>2. x \in on[0] /\ rank[x] <= rank[v]
      BY <1>0, <2>1, <3>1
    <3>. QED  BY <2>2, <3>1, <3>2
  <2>4. x = v => v \in on[i]
    BY <1>0, <2>1 DEF IsFirst
  <2>. QED  BY <2>3, <2>4 DEF x
<1>5. ASSUME NEW i \in 0 .. h.level PROVE Found(i) <=> v \in on[i]
  <2>1. Found(i) => v \in on[i]
    BY <1>4
  <2>2. ASSUME v \in on[i] PROVE Found(i)
    <3> SUFFICES ASSUME NEW j \in 0 .. i PROVE v \in on[j]
      <4>1. \A j \in 0 .. i : j \in 0 .. h.level
        BY <1>0
      <4>. HIDE DEF update
      <4>. QED  BY <1>4, <4>1
    <3> DEFINE bad == {k \in 0 .. i : v \notin on[i - k]}
    <3>1. ASSUME bad # {} PROVE FALSE
      <4>1. bad \in SUBSET Nat
        OBVIOUS
      <4>2. PICK k \in bad : \A m \in bad : k <= m
        <5>. HIDE DEF bad
        <5>. QED  BY <3>1, <4>1, LeastNumber
      <4>3. k \in 1 .. i /\ v \notin on[i - k]
        BY <2>2
      <4>4. k - 1 \notin bad
        <5>. HIDE DEF bad
        <5>. QED  BY <4>2, <4>3
      <4>5. v \in on[i - (k - 1)] /\ i - (k - 1) = (i - k) + 1
        BY <4>3, <4>4
      <4>6. i - k \in Levels /\ i - k < SKIP_MAX_LEVEL
        BY <1>0, <4>3
      <4>7. on[(i - k) + 1] \subseteq on[i - k]
        BY <4>6 DEF Linked
      <4>. QED  BY <4>3, <4>5, <4>7
    <3>2. i - j \in 0 .. i /\ i - (i - j) = j
      OBVIOUS
    <3>. QED  BY <3>1, <3>2
  <2>. QED  BY <2>1, <2>2
<1>6. ASSUME NEW n \in N, NEW i \in Levels
      PROVE  forward[n][i] = IF v \in on[i] /\ n = update[i]
                             THEN h.forward[v][i] ELSE h.forward[n][i]
  <2>1. v \in on[i] => i \in 0 .. h.level
    BY <1>1
  <2>2. forward[n][i] = IF i <= h.level /\ n = update[i] /\ Found(i)
                        THEN h.forward[v][i] ELSE h.forward[n][i]
    <3>. HIDE DEF Found, update
    <3>. QED  OBVIOUS
  <2>. HIDE DEF forward, Found, update
  <2>. QED  BY <1>0, <1>5, <2>1, <2>2
<1>7. forward \in [N -> [Levels -> Pages \cup {Nil}]]
  <2>1. h.forward \in [N -> [Levels -> Pages \cup {Nil}]] /\ v \in N
    BY <1>0 DEF Typed
  <2>. HIDE DEF Found, update
  <2>. QED  BY <2>1
<1>. HIDE DEF forward, Found, N
<1>8. ASSUME NEW i \in Levels, NEW n \in on2[i] \cup {List}
      PROVE  IsNext(rank, on2[i], n, forward[n][i])
  <2> DEFINE S == on[i]
             x == h.forward[n][i]
  <2>1. n \in S \cup {List} /\ n # v /\ n \in N /\ on2[i] = S \ {v}
    BY <1>0 DEF N
  <2>2. IsNext(rank, S, n, x)
    BY <2>1 DEF Linked
  <2>3. \A p, q \in S : /\ rank[p] \in Nat /\ rank[q] \in Nat
                        /\ rank[p] = rank[q] => p = q
    <3>1. \A p, q \in on[0] : rank[p] = rank[q] => p = q
      BY DEF Linked
    <3>. QED  BY <1>0, <3>1
  <2>4. CASE v \notin S
    BY <1>6, <2>1, <2>2, <2>4
  <2>5. CASE v \in S /\ n = update[i]
    <3>1. forward[n][i] = h.forward[v][i] /\ x = v
      <4>1. i \in 0 .. h.level
        BY <1>1, <2>5
      <4>. QED  BY <1>4, <1>6, <2>1, <2>5, <4>1
    <3>2. IsNext(rank, S, v, h.forward[v][i])
      BY <2>5 DEF Linked
    <3> DEFINE y == h.forward[v][i]
    <3>. HIDE DEF S, x, y
    <3>3. After(rank, n, v) /\ \A q \in S : After(rank, n, q) => rank[q] <= rank[v]
      BY <1>0, <2>2, <3>1 DEF IsNext
    <3>4. \A q \in S \ {v} : After(rank, n, q) <=> After(rank, v, q)
      BY <1>0, <2>1, <2>3, <2>5, <3>3 DEF After
    <3>5. IsNext(rank, S \ {v}, n, y)
      <4>1. IsNext(rank, S, v, y)
        BY <3>2 DEF y
      <4>2. ~ After(rank, v, v)
        BY <1>0, <2>3, <2>5 DEF After
      <4>. QED  BY <3>4, <4>1, <4>2 DEF IsNext
    <3>. QED  BY <2>1, <3>1, <3>5 DEF y
  <2>6. CASE v \in S /\ n # update[i]
    <3> DEFINE u == update[i]
    <3>1. forward[n][i] = x
      BY <1>6, <2>1, <2>6
    <3>2. i \in 0 .. h.level
      BY <1>1, <2>6
    <3>3. u \in S \cup {List} /\ IsNext(rank, S, u, v)
      BY <1>0, <1>4, <2>6, <3>2, UpdatePlace
    <3>. HIDE DEF S, x, u
    <3>4. After(rank, u, v) /\ \A q \in S : After(rank, u, q) => rank[q] <= rank[v]
      BY <1>0, <3>3 DEF IsNext
    <3>5. x # v
      <4> SUFFICES ASSUME x = v PROVE FALSE
        OBVIOUS
      <4>1. After(rank, n, v) /\ \A q \in S : After(rank, n, q) => rank[q] <= rank[v]
        BY <1>0, <2>2 DEF IsNext
      <4>2. n # u
        BY <2>6 DEF u
      <4>. QED  BY <1>0, <2>1, <2>3, <2>6, <3>3, <3>4, <4>1, <4>2 DEF After
    <3>6. IsNext(rank, S \ {v}, n, x)
      BY <2>2, <3>5 DEF IsNext
    <3>. QED  BY <2>1, <3>1, <3>6
  <2>. QED  BY <2>4, <2>5, <2>6 DEF S
<1>9. /\ d.level \in 0 .. h.level
      /\ \A i \in d.level + 1 .. h.level : forward[List][i] = Nil
  BY <1>0, <1>3, LevelFalls
<1>10. Typed(d)
  <2>1. d.level \in Levels
    BY <1>0, <1>9
  <2>. QED  BY <1>2, <1>3, <1>7, <2>1 DEF Typed, N
<1>11. on2 \in [Levels -> SUBSET Pages]
  BY <1>0
<1>12. ASSUME NEW i \in Levels
       PROVE  /\ i < SKIP_MAX_LEVEL => on2[i + 1] \subseteq on2[i]
              /\ i > d.level => on2[i] = {}
  <2>1. ASSUME i < SKIP_MAX_LEVEL PROVE on2[i + 1] \subseteq on2[i]
    <3>1. i + 1 \in Levels /\ on[i + 1] \subseteq on[i]
      BY <1>0, <2>1 DEF Linked
    <3>. QED  BY <3>1
  <2>2. ASSUME i > d.level PROVE on2[i] = {}
    <3>1. CASE i > h.level
      BY <3>1 DEF Linked
    <3>2. CASE ~ (i > h.level)
      <4>1. i \in d.level + 1 .. h.level
        BY <1>0, <1>9, <2>2, <3>2
      <4>2. forward[List][i] = Nil
        BY <1>9, <4>1
      <4>3. IsNext(rank, on2[i], List, Nil)
        BY <1>8, <4>2
      <4>. HIDE DEF on2
      <4>. QED  BY <4>3 DEF IsNext, After
    <3>. QED  BY <3>1, <3>2
  <2>. QED  BY <2>1, <2>2
<1>13. on2[0] \subseteq on[0]
  BY <1>0
<1>. HIDE DEF on2
<1>14. /\ \A p \in on2[0] : h.bucket[p] \in Nat
       /\ \A p, q \in on2[0] : /\ rank[p] = rank[q] => p = q
                               /\ rank[q] < rank[p] => h.bucket[p] <= h.bucket[q]
  BY <1>13 DEF Linked
<1>15. Linked(d, rank, on2)
  BY <1>0, <1>3, <1>8, <1>11, <1>12, <1>14 DEF Linked
<1>. QED  BY <1>3, <1>10, <1>15 DEF d, on2

(* klmalloc_skip_list_insert puts a block on the levels up to the one that *)
(* was drawn, before the blocks of its size.  The ranks are doubled to     *)
(* make room for it.                                                       *)
LEMMA InsertLinks ==
  ASSUME NEW h, Typed(h), NEW rank, NEW on, Linked(h, rank, on),
         NEW v \in Pages, v \notin on[0], h.bucket[v] \in Nat, NEW top \in Levels
  PROVE  /\ Typed(Insert(h, v, top))
         /\ \E rank2, on2 : Linked(Insert(h, v, top), rank2, on2)
                            /\ on2[0] = on[0] \cup {v}
         /\ Insert(h, v, top).brk = h.brk /\ Insert(h, v, top).bucket = h.bucket
         /\ Insert(h, v, top).cells = h.cells /\ Insert(h, v, top).bins = h.bins
<1> DEFINE s == h.bucket[v]
           update == Update(h, s)
           N == Pages \cup {List}
           At(i) == IF i <= h.level THEN update[i] ELSE List
           forward == [n \in N |-> [i \in Levels |->
                        IF i > top THEN h.forward[n][i]
                        ELSE IF n = v THEN h.forward[At(i)][i]
                        ELSE IF n = At(i) THEN v ELSE h.forward[n][i]]]
           d == Insert(h, v, top)
           w == FindBest(h, s)
           rank2 == [n \in Pages |-> IF n = v THEN IF w = Nil THEN 0 ELSE 2 * rank[w] + 2
                                     ELSE 2 * rank[n] + 1]
           on2 == [i \in Levels |-> IF i <= top THEN on[i] \cup {v} ELSE on[i]]
<1>0. /\ h.level \in Levels /\ h.level \in Nat /\ SKIP_MAX_LEVEL \in Nat /\ 0 \in Levels
      /\ Levels = 0 .. SKIP_MAX_LEVEL /\ s \in Nat /\ v \in Pages /\ v # Nil /\ v # List
      /\ List \notin Pages /\ Nil \notin Pages
      /\ \A i \in Levels : on[i] \subseteq on[0]
  <2>1. h.level \in Levels
    BY DEF Typed
  <2>. QED  BY <2>1, Constants, LevelsNested DEF Levels
<1>1. /\ rank \in [Pages -> Nat] /\ on \in [Levels -> SUBSET Pages]
      /\ \A i \in Levels : i > h.level => on[i] = {}
      /\ \A i \in Levels : i < SKIP_MAX_LEVEL => on[i + 1] \subseteq on[i]
  BY DEF Linked
<1>2. \A p, q \in on[0] : /\ h.bucket[p] \in Nat /\ rank[p] \in Nat
                          /\ rank[p] = rank[q] => p = q
                          /\ rank[q] < rank[p] => h.bucket[p] <= h.bucket[q]
  <2>1. \A p \in on[0] : h.bucket[p] \in Nat
    BY DEF Linked
  <2>2. \A p, q \in on[0] : /\ rank[p] = rank[q] => p = q
                            /\ rank[q] < rank[p] => h.bucket[p] <= h.bucket[q]
    BY DEF Linked
  <2>. QED  BY <1>0, <1>1, <2>1, <2>2
<1>3. IsFirst(h, rank, on[0], s, w)
  BY <1>0, FindBestFits
<1>4. w # v
  BY <1>0, <1>3 DEF IsFirst
<1>5. d = [h EXCEPT !.level = IF top > @ THEN top ELSE @, !.forward = forward]
  BY <1>4 DEF Insert
<1>6. /\ d.brk = h.brk /\ d.bucket = h.bucket /\ d.cells = h.cells /\ d.bins = h.bins
      /\ d.forward = forward /\ d.level = IF top > h.level THEN top ELSE h.level
  <2>. HIDE DEF forward, d
  <2>. QED  BY <1>5 DEF Typed
<1>. HIDE DEF d
(* The place of v on each level it is put on.                              *)
<1>7. ASSUME NEW i \in Levels
      PROVE  /\ At(i) \in on[i] \cup {List}
             /\ \A q \in on[i] : After(rank, At(i), q) <=> s <= h.bucket[q]
             /\ IsFirst(h, rank, on[i], s, h.forward[At(i)][i])
  <2>1. CASE i <= h.level
    <3>1. i \in 0 .. h.level /\ At(i) = update[i]
      BY <1>0, <2>1
    <3>. QED  BY <1>0, <3>1, UpdatePlace
  <2>2. CASE ~ (i <= h.level)
    <3>1. At(i) = List /\ on[i] = {}
      BY <1>0, <1>1, <2>2
    <3>2. h.forward[List][i] = Nil
      BY <3>1 DEF Linked, IsNext
    <3>. QED  BY <3>1, <3>2 DEF IsFirst
  <2>. QED  BY <2>1, <2>2
<1>. HIDE DEF update, At
(* The new ranks keep the order, and v comes between the sizes.            *)
<1>8. /\ rank2 \in [Pages -> Nat]
      /\ \A q \in on[0] : rank2[q] \in Nat /\ rank2[q] = 2 * rank[q] + 1
      /\ rank2[v] = IF w = Nil THEN 0 ELSE 2 * rank[w] + 2
  <2>1. w # Nil => rank[w] \in Nat
    BY <1>2, <1>3 DEF IsFirst
  <2>2. rank2[v] = IF w = Nil THEN 0 ELSE 2 * rank[w] + 2
    BY <1>0
  <2>3. \A n \in Pages : rank[n] \in Nat /\ 2 * rank[n] + 1 \in Nat
    BY <1>1
  <2>4. (IF w = Nil THEN 0 ELSE 2 * rank[w] + 2) \in Nat
    BY <2>1
  <2>5. rank2 \in [Pages -> Nat]
    BY <2>3, <2>4
  <2>6. \A q \in on[0] : q \in Pages /\ q # v
    BY <1>0, <1>1
  <2>7. \A q \in on[0] : rank2[q] = 2 * rank[q] + 1
    BY <2>6
  <2>. HIDE DEF rank2
  <2>. QED  BY <2>2, <2>5, <2>6, <2>7
<1>. HIDE DEF rank2
<1>9. /\ rank2[v] \in Nat
      /\ \A q \in on[0] : /\ s <= h.bucket[q] => rank2[q] < rank2[v]
                          /\ ~ (s <= h.bucket[q]) => rank2[v] < rank2[q]
  <2>1. rank2[v] \in Nat
    BY <1>0, <1>8
  <2>2. CASE w = Nil
    <3>1. \A q \in on[0] : h.bucket[q] < s
      BY <1>3, <2>2 DEF IsFirst
    <3>2. \A q \in on[0] : ~ (s <= h.bucket[q])
      BY <1>0, <1>2, <3>1
    <3>. QED  BY <1>2, <1>8, <2>1, <2>2, <3>2
  <2>3. CASE w # Nil
    <3>1. /\ w \in on[0] /\ s <= h.bucket[w]
          /\ \A q \in on[0] : s <= h.bucket[q] => rank[q] <= rank[w]
      BY <1>3, <2>3 DEF IsFirst
    <3>2. ASSUME NEW q \in on[0], ~ (s <= h.bucket[q]) PROVE rank[w] < rank[q]
      <4> SUFFICES ASSUME ~ (rank[w] < rank[q]) PROVE FALSE
        OBVIOUS
      <4>1. rank[q] = rank[w] \/ rank[q] < rank[w]
        BY <1>2, <3>1
      <4>2. q # w
        BY <3>1, <3>2
      <4>3. h.bucket[w] <= h.bucket[q]
        BY <1>2, <3>1, <4>1, <4>2
      <4>. QED  BY <1>0, <1>2, <3>1, <3>2, <4>3
    <3>3. rank2[v] = 2 * rank[w] + 2
      BY <1>8, <2>3
    <3>4. ASSUME NEW q \in on[0], s <= h.bucket[q] PROVE rank2[q] < rank2[v]
      <4>1. rank[q] <= rank[w]
        BY <3>1, <3>4
      <4>. QED  BY <1>2, <1>8, <3>1, <3>3, <4>1
    <3>5. ASSUME NEW q \in on[0], ~ (s <= h.bucket[q]) PROVE rank2[v] < rank2[q]
      BY <1>2, <1>8, <3>1, <3>2, <3>3, <3>5
    <3>. QED  BY <2>1, <3>4, <3>5
  <2>. QED  BY <2>2, <2>3
<1>10. \A p, q \in on[0] : /\ rank2[p] = rank2[q] => p = q
                           /\ rank2[p] < rank2[q] <=> rank[p] < rank[q]
                           /\ rank2[p] <= rank2[q] <=> rank[p] <= rank[q]
  BY <1>2, <1>8
<1>11. ASSUME NEW n \in N, NEW i \in Levels
       PROVE  forward[n][i] = IF i > top THEN h.forward[n][i]
                              ELSE IF n = v THEN h.forward[At(i)][i]
                              ELSE IF n = At(i) THEN v ELSE h.forward[n][i]
  OBVIOUS
<1>12. forward \in [N -> [Levels -> Pages \cup {Nil}]]
  <2>1. h.forward \in [N -> [Levels -> Pages \cup {Nil}]]
    BY DEF Typed
  <2>2. \A i \in Levels : At(i) \in N
    BY <1>1, <1>7
  <2>. QED  BY <2>1, <2>2
<1>. HIDE DEF forward
(* The links of a level.                                                   *)
<1>13. ASSUME NEW i \in Levels, NEW n \in on2[i] \cup {List}
       PROVE  IsNext(rank2, on2[i], n, forward[n][i])
  <2> DEFINE S == on[i]
             u == At(i)
             x == h.forward[n][i]
  <2>0. S \subseteq on[0] /\ v \notin S /\ n \in N /\ Nil \notin S /\ List \notin S
    BY <1>0, <1>1
  <2>1. \A p, q \in S : /\ rank2[p] < rank2[q] <=> rank[p] < rank[q]
                        /\ rank2[p] <= rank2[q] <=> rank[p] <= rank[q]
                        /\ rank2[p] \in Nat /\ rank[p] \in Nat
                        /\ rank[p] = rank[q] => p = q
    BY <1>2, <1>8, <1>10, <2>0
  <2>2. \A q \in S : /\ s <= h.bucket[q] => rank2[q] < rank2[v]
                     /\ ~ (s <= h.bucket[q]) => rank2[v] < rank2[q]
    BY <1>9, <2>0
  <2>3. \A m \in S \cup {List} : IsNext(rank, S, m, h.forward[m][i])
    BY DEF Linked
  <2>4. \A m \in S \cup {List}, q \in S : After(rank2, m, q) <=> After(rank, m, q)
    BY <2>1 DEF After
  <2>5. \A m \in S \cup {List} : IsNext(rank2, S, m, h.forward[m][i])
    <3>. HIDE DEF S
    <3>. QED  BY <2>1, <2>3, <2>4 DEF IsNext
  <2>6. CASE i > top
    <3>1. on2[i] = S /\ forward[n][i] = x
      BY <1>0, <1>11, <2>0, <2>6
    <3>. QED  BY <2>5, <3>1
  <2>7. CASE ~ (i > top) /\ n = v
    <3> DEFINE y == h.forward[u][i]
    <3>1. on2[i] = S \cup {v} /\ forward[n][i] = y
      BY <1>0, <1>11, <2>0, <2>7
    <3>2. IsFirst(h, rank, S, s, y)
      BY <1>7
    <3>. HIDE DEF S, y
    <3>3. \A q \in S \cup {v} : After(rank2, v, q) <=> q \in S /\ s <= h.bucket[q]
      BY <1>0, <1>2, <1>9, <2>0, <2>1, <2>2 DEF After
    <3>4. \A q \in S : h.bucket[q] < s <=> ~ (s <= h.bucket[q])
      BY <1>0, <1>2, <2>0
    <3>5. IsNext(rank2, S \cup {v}, v, y)
      <4>1. CASE y = Nil
        BY <3>2, <3>3, <3>4, <4>1 DEF IsNext, IsFirst
      <4>2. CASE y # Nil
        BY <2>1, <3>2, <3>3, <4>2 DEF IsNext, IsFirst
      <4>. QED  BY <4>1, <4>2
    <3>. QED  BY <2>7, <3>1, <3>5
  <2>8. CASE ~ (i > top) /\ n # v /\ n = u
    <3>1. on2[i] = S \cup {v} /\ forward[n][i] = v /\ n \in S \cup {List}
      BY <1>0, <1>11, <2>0, <2>8
    <3>2. \A q \in S : After(rank, u, q) <=> s <= h.bucket[q]
      BY <1>7
    <3>. HIDE DEF S, u
    <3>3. After(rank2, n, v)
      <4>1. CASE n = List
        BY <4>1 DEF After
      <4>2. CASE n \in S
        <5>1. ~ After(rank, u, n)
          BY <2>0, <2>1, <2>8, <4>2 DEF After
        <5>2. ~ (s <= h.bucket[n])
          BY <3>2, <4>2, <5>1
        <5>. QED  BY <2>2, <4>2, <5>2 DEF After
      <4>. QED  BY <3>1, <4>1, <4>2
    <3>4. \A q \in S : After(rank2, n, q) => rank2[q] <= rank2[v]
      <4>1. \A q \in S : After(rank2, n, q) => s <= h.bucket[q]
        BY <2>4, <2>8, <3>1, <3>2
      <4>. QED  BY <1>9, <2>1, <2>2, <4>1
    <3>5. IsNext(rank2, S \cup {v}, n, v)
      BY <1>0, <1>9, <3>3, <3>4 DEF IsNext
    <3>. QED  BY <3>1, <3>5
  <2>9. CASE ~ (i > top) /\ n # v /\ n # u
    <3>1. on2[i] = S \cup {v} /\ forward[n][i] = x /\ n \in S \cup {List}
      BY <1>0, <1>11, <2>0, <2>9
    <3>2. u \in S \cup {List} /\ \A q \in S : After(rank, u, q) <=> s <= h.bucket[q]
      BY <1>7
    <3>3. IsNext(rank2, S, n, x) /\ IsNext(rank, S, n, x)
      BY <2>3, <2>5, <3>1
    <3>. HIDE DEF S, u, x
    <3>4. CASE After(rank2, n, v)
      <4>1. n = List \/ ~ (s <= h.bucket[n])
        BY <1>9, <2>0, <2>1, <2>2, <3>1, <3>4 DEF After
      <4>2. u \in S /\ After(rank, n, u)
        <5>1. CASE n = List
          BY <2>9, <3>2, <5>1 DEF After
        <5>2. CASE n # List
          <6>1. n \in S /\ ~ After(rank, u, n)
            BY <3>1, <3>2, <4>1, <5>2
          <6>2. u # List /\ ~ (rank[n] < rank[u])
            BY <6>1 DEF After
          <6>. QED  BY <2>1, <2>9, <3>2, <6>1, <6>2 DEF After
        <5>. QED  BY <5>1, <5>2
      <4>3. x # Nil /\ x \in S /\ After(rank, n, x) /\ rank[u] <= rank[x]
        BY <3>3, <4>2 DEF IsNext
      <4>4. ~ After(rank, u, x)
        BY <2>0, <2>1, <4>2, <4>3 DEF After
      <4>5. rank2[v] < rank2[x]
        BY <2>2, <3>2, <4>3, <4>4
      <4>6. rank2[v] <= rank2[x]
        BY <1>9, <2>1, <4>3, <4>5
      <4>. QED  BY <3>1, <3>3, <4>3, <4>6 DEF IsNext
    <3>5. CASE ~ After(rank2, n, v)
      BY <1>0, <3>1, <3>3, <3>5 DEF IsNext
    <3>. QED  BY <3>4, <3>5
  <2>. QED  BY <2>6, <2>7, <2>8, <2>9
<1>14. /\ on2 \in [Levels -> SUBSET Pages] /\ on2[0] = on[0] \cup {v}
       /\ \A i \in Levels : /\ i < SKIP_MAX_LEVEL => on2[i + 1] \subseteq on2[i]
                            /\ i > d.level => on2[i] = {}
  <2>1. on2 \in [Levels -> SUBSET Pages]
    BY <1>1
  <2>2. on2[0] = on[0] \cup {v}
    BY <1>0
  <2>3. ASSUME NEW i \in Levels, i < SKIP_MAX_LEVEL PROVE on2[i + 1] \subseteq on2[i]
    <3>1. i + 1 \in Levels /\ on[i + 1] \subseteq on[i]
      BY <1>0, <1>1, <2>3
    <3>2. i + 1 <= top => i <= top
      BY <1>0
    <3>. QED  BY <3>1, <3>2
  <2>4. ASSUME NEW i \in Levels, i > d.level PROVE on2[i] = {}
    <3>1. ~ (i <= top) /\ i > h.level
      BY <1>0, <1>6, <2>4
    <3>. QED  BY <1>1, <3>1
  <2>. QED  BY <2>1, <2>2, <2>3, <2>4
<1>. HIDE DEF on2, w
<1>15. \A p \in on2[0] : h.bucket[p] \in Nat
  BY <1>0, <1>2, <1>14
<1>16. ASSUME NEW p \in on2[0], NEW q \in on2[0]
       PROVE  /\ rank2[p] = rank2[q] => p = q
              /\ rank2[q] < rank2[p] => h.bucket[p] <= h.bucket[q]
  <2>1. CASE p = v /\ q = v
    BY <1>9, <2>1
  <2>2. CASE p = v /\ q \in on[0]
    BY <1>0, <1>2, <1>8, <1>9, <2>2
  <2>3. CASE p \in on[0] /\ q = v
    BY <1>0, <1>2, <1>8, <1>9, <2>3
  <2>4. CASE p \in on[0] /\ q \in on[0]
    BY <1>2, <1>10, <2>4
  <2>. QED  BY <1>14, <2>1, <2>2, <2>3, <2>4
<1>17. Linked(d, rank2, on2)
  BY <1>6, <1>8, <1>13, <1>14, <1>15, <1>16 DEF Linked
<1>18. Typed(d)
  <2>1. d.level \in Levels
    BY <1>0, <1>6
  <2>. QED  BY <1>5, <1>6, <1>12, <2>1 DEF Typed, N
<1>. QED  BY <1>6, <1>14, <1>17, <1>18 DEF d

-----------------------------------------------------------------------------
(* Sizes and addresses.                                                    *)

LEMMA PowersGrow ==
  ASSUME NEW j \in 0 .. 30, NEW k \in j .. 30
  PROVE  2 ^ k \in Nat \ {0} /\ 2 ^ j \in Nat \ {0} /\ 2 ^ j <= 2 ^ k
<1> DEFINE E(n) == 2 ^ n
           bad == {m \in j .. 30 : ~ (E(j) <= E(m))}
<1>1. \A m \in 0 .. 30 : E(m) \in Nat \ {0}
  <2> SUFFICES ASSUME NEW m \in 0 .. 30 PROVE E(m) \in Nat \ {0}
    OBVIOUS
  <2>1. CASE m \in 0 .. 29
    BY <2>1, Powers
  <2>2. CASE m = 30
    <3>1. 2 ^ 30 = 1073741824
      OBVIOUS
    <3>. QED  BY <2>2, <3>1
  <2>. QED  BY <2>1, <2>2
<1>2. \A m \in 0 .. 29 : E(m + 1) = 2 * E(m)
  BY Powers
<1>. HIDE DEF E
<1>3. ASSUME bad # {} PROVE FALSE
  <2>1. bad \in SUBSET Nat
    OBVIOUS
  <2>2. PICK m \in bad : \A l \in bad : m <= l
    <3>. HIDE DEF bad
    <3>. QED  BY <1>3, <2>1, LeastNumber
  <2>3. m \in j + 1 .. 30 /\ ~ (E(j) <= E(m))
    BY <1>1
  <2>4. m - 1 \notin bad
    <3>. HIDE DEF bad
    <3>. QED  BY <2>2, <2>3
  <2>5. E(j) <= E(m - 1) /\ m - 1 \in 0 .. 29 /\ (m - 1) + 1 = m
    BY <2>3, <2>4
  <2>6. E(m) = 2 * E(m - 1)
    BY <1>2, <2>5
  <2>. QED  BY <1>1, <2>3, <2>5, <2>6
<1>4. E(j) <= E(k)
  BY <1>3
<1>5. E(k) \in Nat \ {0} /\ E(j) \in Nat \ {0}
  BY <1>1
<1>. QED  BY <1>4, <1>5 DEF E

(* What a cell of a bin holds.                                             *)
LEMMA CellFits ==
  ASSUME NEW b \in 0 .. BIG_BIN - 1
  PROVE  /\ CellSize(b) \in Nat \ {0} /\ CellSize(b) <= PAGE_SIZE - BigHeader
         /\ 2 ^ SMALLEST_BIN_LOG \in Nat \ {0} /\ 2 ^ SMALLEST_BIN_LOG <= CellSize(b)
<1>1. SMALLEST_BIN_LOG + b \in SMALLEST_BIN_LOG .. 30 /\ SMALLEST_BIN_LOG \in 0 .. 30
  BY Constants DEF BIG_BIN
<1>2. b \in 0 .. NUM_BINS - 2
  BY Constants DEF BIG_BIN
<1>. QED  BY <1>1, <1>2, PowersGrow, SizeAssumption DEF CellSize

(* The bits of a number.                                                   *)
LEMMA BitsOf ==
  ASSUME NEW n \in Nat \ {0}, n < 2 ^ 30
  PROVE  LET bits == CHOOSE k \in 1 .. 30 : 2 ^ (k - 1) <= n /\ n < 2 ^ k
         IN bits \in 1 .. 30 /\ 2 ^ (bits - 1) <= n /\ n < 2 ^ bits
<1> DEFINE E(k) == 2 ^ k
           S == {k \in 0 .. 30 : n < E(k)}
           Q(m) == E(m - 1) <= n /\ n < E(m)
<1>1. /\ E(0) = 1 /\ n < E(30)
      /\ \A k \in 0 .. 30 : E(k) \in Nat
  BY PowersGrow
<1>. HIDE DEF E
<1>2. S \in SUBSET Nat /\ 30 \in S
  BY <1>1
<1>3. PICK k \in S : \A m \in S : k <= m
  <2>. HIDE DEF S
  <2>. QED  BY <1>2, LeastNumber
<1>4. k \in 1 .. 30 /\ n < E(k) /\ k - 1 \in 0 .. 30
  BY <1>1
<1>5. k - 1 \notin S
  <2>. HIDE DEF S
  <2>. QED  BY <1>3, <1>4
<1>6. E(k - 1) <= n
  BY <1>1, <1>4, <1>5
<1>7. Q(k) /\ k \in 1 .. 30
  BY <1>4, <1>6
<1>8. (CHOOSE m \in 1 .. 30 : Q(m)) \in 1 .. 30 /\ Q(CHOOSE m \in 1 .. 30 : Q(m))
  <2>. HIDE DEF Q
  <2>. QED  BY <1>7
<1>. QED  BY <1>8 DEF E

(* klmalloc_bin_size: a small request fits into a cell of its bin.         *)
LEMMA BinFits ==
  ASSUME NEW n \in Nat \ {0}, n < 2 ^ 30
  PROVE  /\ BinSize(n) \in 0 .. BIG_BIN
         /\ BinSize(n) < BIG_BIN => n <= CellSize(BinSize(n))
<1> DEFINE bits == CHOOSE k \in 1 .. 30 : 2 ^ (k - 1) <= n /\ n < 2 ^ k
           bin == IF n = 2 ^ (bits - 1) THEN bits ELSE bits + 1
           c == SMALLEST_BIN_LOG + AdjustBin(bin)
<1>1. bits \in 1 .. 30 /\ 2 ^ (bits - 1) <= n /\ n < 2 ^ bits
  BY BitsOf
<1>2. BinSize(n) = AdjustBin(bin)
  BY DEF BinSize
<1>. HIDE DEF bits
<1>3. bin \in 1 .. 31 /\ (bin = 31 => ~ (n = 2 ^ (bits - 1)))
  BY <1>1
<1>4. AdjustBin(bin) \in 0 .. BIG_BIN
  <2>. HIDE DEF bin
  <2>. QED  BY <1>3, Constants DEF AdjustBin
<1>5. ASSUME AdjustBin(bin) < BIG_BIN PROVE c \in 0 .. 30 /\ bin - 1 \in 0 .. c
  <2>. HIDE DEF bin
  <2>. QED  BY <1>3, <1>5, Constants DEF AdjustBin, BIG_BIN
<1>6. n <= 2 ^ (bin - 1)
  <2>1. CASE n = 2 ^ (bits - 1)
    BY <2>1
  <2>2. CASE n # 2 ^ (bits - 1)
    <3>1. bin - 1 = bits
      BY <1>1, <2>2
    <3>2. 2 ^ bits \in Nat
      BY <1>1, PowersGrow
    <3> DEFINE x == 2 ^ bits
    <3>3. x \in Nat /\ n < x /\ 2 ^ (bin - 1) = x
      BY <1>1, <3>1, <3>2
    <3>. HIDE DEF x, bin
    <3>. QED  BY <3>3
  <2>. QED  BY <2>1, <2>2
<1>7. ASSUME AdjustBin(bin) < BIG_BIN PROVE n <= 2 ^ c
  <2>1. c \in 0 .. 30 /\ bin - 1 \in 0 .. c
    BY <1>5, <1>7
  <2>2. bin - 1 \in 0 .. 30 /\ c \in (bin - 1) .. 30
    <3>. HIDE DEF bin, c
    <3>. QED  BY <2>1, <1>3
  <2>3. 2 ^ (bin - 1) <= 2 ^ c /\ 2 ^ (bin - 1) \in Nat /\ 2 ^ c \in Nat
    <3>. HIDE DEF bin, c
    <3>. QED  BY <2>2, PowersGrow
  <2> DEFINE x == 2 ^ (bin - 1)
             y == 2 ^ c
  <2>4. n <= x /\ x <= y /\ x \in Nat /\ y \in Nat
    BY <1>6, <2>3
  <2>. HIDE DEF x, y
  <2>5. n <= y
    BY <2>4
  <2>. QED  BY <2>5 DEF y
<1>. QED  BY <1>2, <1>4, <1>7 DEF CellSize

(* klvalloc asks for so much that the block is a big one.                  *)
LEMMA ValSizeBig ==
  ASSUME NEW n \in Nat \ {0}, ValSize(n) < 2 ^ 30
  PROVE  /\ ValSize(n) \in Nat \ {0} /\ n <= ValSize(n)
         /\ ~ (BinSize(ValSize(n)) < BIG_BIN)
<1>1. ValSize(n) \in Nat \ {0} /\ n <= ValSize(n) /\ ValSize(n) > PAGE_SIZE - BigHeader
  BY Constants DEF ValSize
<1>2. ASSUME BinSize(ValSize(n)) < BIG_BIN PROVE FALSE
  <2> DEFINE b == BinSize(ValSize(n))
  <2>1. b \in 0 .. BIG_BIN /\ b < BIG_BIN /\ ValSize(n) <= CellSize(b)
    BY <1>1, <1>2, BinFits
  <2>. HIDE DEF b
  <2>2. b \in 0 .. BIG_BIN - 1
    BY <2>1, Constants
  <2>3. CellSize(b) \in Nat /\ CellSize(b) <= PAGE_SIZE - BigHeader
    BY <2>2, CellFits
  <2>. QED  BY <1>1, <2>1, <2>3, Constants
<1>. QED  BY <1>1, <1>2

LEMMA Division ==
  ASSUME NEW m \in Nat, NEW c \in Nat \ {0}
  PROVE  \E q \in Nat, r \in 0 .. c - 1 : q = m \div c /\ m = q * c + r
<1> DEFINE q == m \div c
           r == m % c
<1>0. m \in Int /\ c \in Int /\ c > 0 /\ m >= 0
  OBVIOUS
<1>1. q \in Int /\ r \in 0 .. c - 1
  BY <1>0
<1>2. m = c * q + r
  BY <1>0
<1>. HIDE DEF q, r
<1>3. q * c = c * q /\ c * q \in Int
  BY <1>0, <1>1
<1>4. q >= 0
  <2> SUFFICES ASSUME q < 0 PROVE FALSE
    BY <1>1
  <2>1. c * q <= c * (-1)
    BY <1>0, <1>1
  <2>. QED  BY <1>0, <1>1, <1>2, <1>3, <2>1
<1>5. q \in Nat /\ m = q * c + r /\ r \in 0 .. c - 1
  BY <1>0, <1>1, <1>2, <1>3, <1>4
<1>6. q = m \div c
  BY DEF q
<1>. QED  BY <1>5, <1>6

LEMMA Addresses ==
  /\ \A p \in Nat : Address(p) \in Nat /\ Address(p + 1) = Address(p) + PAGE_SIZE
  /\ \A p, q \in Nat : Address(p + q) = Address(p) + Address(q)
  /\ \A p, q \in Nat : p < q => Address(p) + PAGE_SIZE <= Address(q)
  /\ \A p, q \in Nat : p <= q => Address(p) <= Address(q)
<1>0. PAGE_SIZE \in Nat \ {0}
  BY Constants
<1>1. \A p, q \in Nat : Address(p + q) = Address(p) + Address(q)
  BY <1>0 DEF Address
<1>2. \A p \in Nat : Address(p) \in Nat
  BY <1>0 DEF Address
<1>3. Address(1) = PAGE_SIZE
  BY <1>0 DEF Address
<1>4. ASSUME NEW p \in Nat, NEW q \in Nat, p < q
      PROVE  Address(p) + PAGE_SIZE <= Address(q)
  <2>1. PICK k \in Nat : q = (p + 1) + k
    <3>1. q - (p + 1) \in Nat /\ q = (p + 1) + (q - (p + 1))
      BY <1>4
    <3>. QED  BY <3>1
  <2>2. Address(q) = (Address(p) + PAGE_SIZE) + Address(k) /\ Address(k) \in Nat
    <3>1. Address(p + 1) = Address(p) + Address(1)
      BY <1>1
    <3>2. Address((p + 1) + k) = Address(p + 1) + Address(k)
      BY <1>1
    <3>. QED  BY <1>3, <1>2, <2>1, <3>1, <3>2
  <2>3. Address(p) \in Nat /\ Address(q) \in Nat
    BY <1>2
  <2>. QED  BY <1>0, <2>2, <2>3
<1>5. ASSUME NEW p \in Nat, NEW q \in Nat, p <= q
      PROVE  Address(p) <= Address(q)
  <2>1. Address(p) \in Nat /\ Address(q) \in Nat
    BY <1>2
  <2>2. CASE p = q
    BY <2>1, <2>2
  <2>3. CASE p < q
    BY <1>0, <1>4, <2>1, <2>3
  <2>. QED  BY <1>5, <2>2, <2>3
<1>. QED  BY <1>1, <1>3, <1>4, <1>5, <1>2

(* The page of an address.                                                 *)
LEMMA PageFound ==
  ASSUME NEW p \in Nat, NEW d \in 0 .. PAGE_SIZE - 1
  PROVE  PageOf(Address(p) + d) = p /\ (Address(p) + d) % PAGE_SIZE = d
<1> DEFINE a == Address(p) + d
           q == a \div PAGE_SIZE
           r == a % PAGE_SIZE
<1>0. PAGE_SIZE \in Nat \ {0} /\ Address(p) \in Nat /\ a \in Nat
  <2>1. Address(p) \in Nat
    BY Addresses
  <2>. QED  BY <2>1, Constants
<1>1. q \in Nat /\ r \in 0 .. PAGE_SIZE - 1 /\ a = q * PAGE_SIZE + r
  <2>. HIDE DEF a
  <2>. QED  BY <1>0
<1>2. a = Address(q) + r
  BY <1>1 DEF Address
<1>3. q = p
  <2>. HIDE DEF q, r
  <2>1. Address(q) \in Nat
    BY <1>1, Addresses
  <2>2. ~ (q < p)
    <3>1. q < p => Address(q) + PAGE_SIZE <= Address(p)
      BY <1>1, Addresses
    <3>. QED  BY <1>0, <1>1, <1>2, <2>1, <3>1
  <2>3. ~ (p < q)
    <3>1. p < q => Address(p) + PAGE_SIZE <= Address(q)
      BY <1>1, Addresses
    <3>. QED  BY <1>0, <1>1, <1>2, <2>1, <3>1
  <2>. QED  BY <1>1, <2>2, <2>3
<1>4. r = d
  <2>. HIDE DEF q, r
  <2>. QED  BY <1>0, <1>1, <1>2, <1>3
<1>. QED  BY <1>3, <1>4 DEF PageOf

CellSet(p, b) == ToSet(FreshCells(p, b))
BigCell(p) == Address(p) + BigHeader

(* The cells of a page lie behind its header, within it and one after the  *)
(* other.                                                                  *)
LEMMA CellsOfPage ==
  ASSUME NEW p \in Nat, NEW b \in 0 .. BIG_BIN - 1
  PROVE  /\ FreshCells(p, b) \in Seq(Nat) /\ FreshCells(p, b) # <<>>
         /\ IsInjective(FreshCells(p, b))
         /\ \A a \in CellSet(p, b) : /\ a \in Nat /\ Address(p) + Header <= a
                                     /\ a + CellSize(b) <= Address(p) + PAGE_SIZE
         /\ \A a, d \in CellSet(p, b) : a < d => a + CellSize(b) <= d
<1> DEFINE c == CellSize(b)
           N == (PAGE_SIZE - Header) \div c
           base == Address(p) + Header
           cells == FreshCells(p, b)
<1>0. c \in Nat \ {0} /\ c <= PAGE_SIZE - Header /\ base \in Nat /\ PAGE_SIZE - Header \in Nat
  <2>1. Address(p) \in Nat
    BY Addresses
  <2>2. c \in Nat \ {0} /\ c <= PAGE_SIZE - BigHeader
    BY CellFits
  <2>. HIDE DEF c
  <2>. QED  BY <2>1, <2>2, Constants
<1>1. cells = [i \in 1 .. N |-> base + (i - 1) * c]
  BY DEF FreshCells
<1>. HIDE DEF c, base, cells
<1>2. N \in Nat /\ N * c <= PAGE_SIZE - Header /\ PAGE_SIZE - Header < N * c + c
  <2> DEFINE m == PAGE_SIZE - Header
  <2>. HIDE DEF m
  <2>0. m \in Nat /\ c \in Nat \ {0}
    BY <1>0 DEF m
  <2>1. PICK q \in Nat, r \in 0 .. c - 1 : q = m \div c /\ m = q * c + r
    BY <2>0, Division
  <2>2. N = q
    BY <2>1 DEF m
  <2>3. q * c \in Nat
    BY <2>0
  <2>4. q \in Nat /\ q * c <= m /\ m < q * c + c
    BY <2>0, <2>1, <2>3
  <2>. HIDE DEF N
  <2>. QED  BY <2>2, <2>4 DEF m
<1>. HIDE DEF N
<1>3. N >= 1
  BY <1>0, <1>2
<1>4. \A i \in Nat : i * c \in Nat /\ (i + 1) * c = i * c + c
  BY <1>0
<1>5. \A i, j \in Nat : i < j => i * c + c <= j * c
  <2> SUFFICES ASSUME NEW i \in Nat, NEW j \in Nat, i < j PROVE i * c + c <= j * c
    OBVIOUS
  <2>1. PICK k \in Nat : j = (i + 1) + k
    <3>1. j - (i + 1) \in Nat /\ j = (i + 1) + (j - (i + 1))
      OBVIOUS
    <3>. QED  BY <3>1
  <2>2. j * c = (i + 1) * c + k * c
    BY <1>0, <2>1
  <2>. QED  BY <1>0, <1>4, <2>1, <2>2
<1>6. \A i \in 1 .. N : cells[i] \in Nat /\ cells[i] = base + (i - 1) * c
  <2>1. \A i \in 1 .. N : cells[i] = base + (i - 1) * c /\ i - 1 \in Nat
    BY <1>1, <1>2
  <2>. QED  BY <1>0, <1>4, <2>1
<1>7. \A i, j \in 1 .. N : i < j => cells[i] + c <= cells[j]
  <2> SUFFICES ASSUME NEW i \in 1 .. N, NEW j \in 1 .. N, i < j
               PROVE  cells[i] + c <= cells[j]
    OBVIOUS
  <2>1. i - 1 \in Nat /\ j - 1 \in Nat /\ i - 1 < j - 1
    BY <1>2
  <2>2. (i - 1) * c + c <= (j - 1) * c
    BY <1>5, <2>1
  <2>3. (i - 1) * c \in Nat /\ (j - 1) * c \in Nat
    BY <1>4, <2>1
  <2>. HIDE DEF c
  <2>. QED  BY <1>0, <1>6, <2>2, <2>3
<1>8. \A i \in 1 .. N : cells[i] + c <= base + (PAGE_SIZE - Header)
  <2> SUFFICES ASSUME NEW i \in 1 .. N PROVE cells[i] + c <= base + (PAGE_SIZE - Header)
    OBVIOUS
  <2>1. i - 1 \in Nat /\ i - 1 < N
    BY <1>2
  <2>2. (i - 1) * c + c <= N * c /\ (i - 1) * c \in Nat /\ N * c \in Nat
    BY <1>2, <1>4, <1>5, <2>1
  <2>. QED  BY <1>0, <1>2, <1>6, <2>2
<1>9. cells \in [1 .. N -> Nat] /\ DOMAIN cells = 1 .. N
  BY <1>1, <1>6
<1>10. cells \in Seq(Nat) /\ Len(cells) = N /\ cells # <<>>
  <2>1. cells \in Seq(Nat)
    BY <1>2, <1>9, SeqDef
  <2>2. Len(cells) = N
    BY <1>2, <1>9, <2>1
  <2>. QED  BY <1>3, <2>1, <2>2
<1>11. IsInjective(cells)
  <2>1. \A i, j \in 1 .. N : i # j => cells[i] # cells[j]
    BY <1>0, <1>2, <1>6, <1>7
  <2>. QED  BY <1>9, <2>1 DEF IsInjective
<1>12. CellSet(p, b) = {cells[i] : i \in 1 .. N}
  BY <1>9 DEF CellSet, cells, ToSet
<1>13. base + (PAGE_SIZE - Header) = Address(p) + PAGE_SIZE
  BY Constants, Addresses DEF base
<1>14. \A i \in 1 .. N : base <= cells[i]
  <2> SUFFICES ASSUME NEW i \in 1 .. N PROVE base <= cells[i]
    OBVIOUS
  <2>1. i - 1 \in Nat
    BY <1>2
  <2>2. (i - 1) * c \in Nat
    BY <1>4, <2>1
  <2>. QED  BY <1>0, <1>6, <2>2
<1>15. ASSUME NEW a \in CellSet(p, b)
       PROVE  a \in Nat /\ Address(p) + Header <= a /\ a + c <= Address(p) + PAGE_SIZE
  BY <1>6, <1>8, <1>12, <1>13, <1>14, <1>15 DEF base
<1>16. ASSUME NEW a \in CellSet(p, b), NEW d \in CellSet(p, b), a < d
       PROVE  a + c <= d
  <2>1. PICK i \in 1 .. N, j \in 1 .. N : a = cells[i] /\ d = cells[j]
    BY <1>12, <1>16
  <2>2. ~ (j < i) /\ i # j
    <3>1. j < i => cells[j] + c <= cells[i]
      BY <1>7
    <3>. QED  BY <1>0, <1>6, <1>16, <2>1, <3>1
  <2>. QED  BY <1>2, <1>7, <2>1, <2>2
<1>. QED  BY <1>10, <1>11, <1>15, <1>16 DEF c, cells

(* Stacks and lists.                                                       *)
LEMMA TailMembers ==
  ASSUME NEW S, NEW s \in Seq(S), s # <<>>
  PROVE  /\ Tail(s) \in Seq(S) /\ Head(s) \in S /\ Head(s) \in ToSet(s)
         /\ ToSet(s) = ToSet(Tail(s)) \cup {Head(s)}
         /\ IsInjective(s) => /\ IsInjective(Tail(s))
                              /\ ToSet(Tail(s)) = ToSet(s) \ {Head(s)}
<1>1. /\ Tail(s) \in Seq(S) /\ Head(s) = s[1] /\ Len(s) \in Nat \ {0}
      /\ Len(Tail(s)) = Len(s) - 1
      /\ \A i \in 1 .. Len(s) - 1 : Tail(s)[i] = s[i + 1]
  BY HeadTailProperties, LenProperties, EmptySeq
<1>2. DOMAIN s = 1 .. Len(s) /\ DOMAIN Tail(s) = 1 .. Len(s) - 1
  BY <1>1, LenProperties
<1>3. ToSet(s) = {s[i] : i \in 1 .. Len(s)} /\ ToSet(Tail(s)) = {s[i + 1] : i \in 1 .. Len(s) - 1}
  BY <1>1, <1>2 DEF ToSet
<1>4. 1 \in 1 .. Len(s) /\ s[1] \in S
  BY <1>1, LenProperties
<1>5. \A i \in 1 .. Len(s) : i = 1 \/ (i - 1 \in 1 .. Len(s) - 1 /\ (i - 1) + 1 = i)
  BY <1>1
<1>6. \A i \in 1 .. Len(s) - 1 : i + 1 \in 1 .. Len(s) /\ i + 1 # 1
  BY <1>1
<1>7. ToSet(s) = ToSet(Tail(s)) \cup {s[1]}
  BY <1>3, <1>4, <1>5, <1>6
<1>8. ASSUME IsInjective(s)
      PROVE  IsInjective(Tail(s)) /\ s[1] \notin ToSet(Tail(s))
  <2>1. \A i, j \in 1 .. Len(s) : s[i] = s[j] => i = j
    BY <1>2, <1>8 DEF IsInjective
  <2>2. \A i, j \in 1 .. Len(s) - 1 : Tail(s)[i] = Tail(s)[j] => i = j
    BY <1>1, <1>6, <2>1
  <2>. QED  BY <1>2, <1>3, <1>4, <1>6, <2>1, <2>2 DEF IsInjective
<1>. QED  BY <1>1, <1>4, <1>3, <1>7, <1>8

LEMMA OneMember ==
  ASSUME NEW S, NEW e \in S
  PROVE  <<e>> \in Seq(S) /\ ToSet(<<e>>) = {e} /\ IsInjective(<<e>>)
<1>1. <<e>> \in Seq(S) /\ DOMAIN <<e>> = {1} /\ <<e>>[1] = e
  OBVIOUS
<1>2. ToSet(<<e>>) = {e}
  BY <1>1 DEF ToSet
<1>3. IsInjective(<<e>>)
  BY <1>1 DEF IsInjective
<1>. QED  BY <1>1, <1>2, <1>3

LEMMA PushMembers ==
  ASSUME NEW S, NEW s \in Seq(S), NEW e \in S
  PROVE  /\ <<e>> \o s \in Seq(S) /\ <<e>> \o s # <<>>
         /\ ToSet(<<e>> \o s) = ToSet(s) \cup {e}
         /\ IsInjective(s) /\ e \notin ToSet(s) => IsInjective(<<e>> \o s)
<1>. DEFINE t == <<e>> \o s
<1>1. Len(s) \in Nat /\ DOMAIN s = 1 .. Len(s)
  BY LenProperties
<1>2. <<e>> \in Seq(S) /\ Len(<<e>>) = 1 /\ <<e>>[1] = e
  OBVIOUS
<1>3. /\ t \in Seq(S) /\ Len(t) = Len(s) + 1
      /\ t[1] = e
      /\ \A i \in 1 .. Len(s) : i + 1 \in 1 .. Len(s) + 1 /\ t[i + 1] = s[i]
  OBVIOUS
<1>. HIDE DEF t
<1>4. DOMAIN t = 1 .. Len(s) + 1 /\ t # <<>> /\ 1 \in DOMAIN t
  BY <1>1, <1>3, LenProperties, EmptySeq
<1>5. \A j \in DOMAIN t : j = 1 \/ \E i \in 1 .. Len(s) : j = i + 1
  <2>. TAKE j \in DOMAIN t
  <2>1. j # 1 => j - 1 \in 1 .. Len(s) /\ j = j - 1 + 1
    BY <1>1, <1>4
  <2>. QED  BY <2>1
<1>6. ToSet(t) = ToSet(s) \cup {e}
  <2>1. ToSet(t) \subseteq ToSet(s) \cup {e}
    BY <1>1, <1>3, <1>4, <1>5 DEF ToSet
  <2>2. ToSet(s) \subseteq ToSet(t)
    BY <1>1, <1>3, <1>4 DEF ToSet
  <2>3. e \in ToSet(t)
    BY <1>3, <1>4 DEF ToSet
  <2>. QED  BY <2>1, <2>2, <2>3
<1>7. ASSUME IsInjective(s), e \notin ToSet(s) PROVE IsInjective(t)
  <2>1. \A i, j \in 1 .. Len(s) : s[i] = s[j] => i = j
    BY <1>1, <1>7 DEF IsInjective
  <2>2. \A i \in 1 .. Len(s) : s[i] # e
    BY <1>1, <1>7 DEF ToSet
  <2>. QED  BY <1>3, <1>5, <2>1, <2>2 DEF IsInjective
<1>. QED  BY <1>3, <1>4, <1>6, <1>7 DEF t

LEMMA EmptyMembers == ToSet(<<>>) = {} /\ IsInjective(<<>>)
  BY DEF ToSet, IsInjective

LEMMA NoMembers ==
  ASSUME NEW S, NEW s \in Seq(S), ToSet(s) = {}
  PROVE  s = <<>>
  BY TailMembers

-----------------------------------------------------------------------------
(* The pages.                                                              *)

HomeOf(x) == PageOf(IF x.ptr % PAGE_SIZE = 0 THEN x.ptr - 1 ELSE x.ptr)

Here(L, p) == {x \in L : HomeOf(x) = p}

IsSmall(b) == b \in 0 .. BIG_BIN - 1
IsBig(b) == b # Nil /\ b > NUM_BINS

(* A page p without a header is not used.  One of bin b has every cell     *)
(* once, on its stack or as a block in use.  A big block is free or is the *)
(* block of one call, of malloc or of valloc.                              *)
Unused(b, stack, blocks) == b = Nil /\ stack = <<>> /\ blocks = {}

SmallSound(p, b, stack, blocks) ==
  /\ IsSmall(b)
  /\ stack \in Seq(Nat) /\ IsInjective(stack) /\ ToSet(stack) \subseteq CellSet(p, b)
  /\ \A x \in blocks : /\ x.ptr \in CellSet(p, b) \ ToSet(stack)
                       /\ x.size <= CellSize(b)
  /\ \A x, y \in blocks : x.ptr = y.ptr => x = y
  /\ \A a \in CellSet(p, b) : a \in ToSet(stack) \/ \E x \in blocks : x.ptr = a

BigUse(p, b, x) == \/ x.ptr = BigCell(p) /\ x.size <= b
                   \/ x.ptr = Address(p + 1) /\ ValSize(x.size) <= b

BigSound(p, b, stack, blocks) ==
  /\ b \in Nat /\ IsBig(b)
  /\ \/ stack = <<BigCell(p)>> /\ blocks = {}
     \/ stack = <<>> /\ \E x \in blocks : blocks = {x} /\ BigUse(p, b, x)

Sound(p, b, stack, blocks) ==
  Unused(b, stack, blocks) \/ SmallSound(p, b, stack, blocks) \/ BigSound(p, b, stack, blocks)

PagesInv(h, L) ==
  /\ L \subseteq [ptr : Nat, size : Nat \ {0}]
  /\ \A x \in L : HomeOf(x) \in Pages
  /\ \A p \in Pages : Sound(p, h.bucket[p], h.cells[p], Here(L, p))

(* The pages of a block.                                                   *)
Span(h, p) == IF h.bucket[p] > NUM_BINS
              THEN (h.bucket[p] + BigHeader) \div PAGE_SIZE ELSE 1

LayoutInv(h) ==
  \A p \in Pages : h.bucket[p] # Nil =>
    /\ Span(h, p) \in Nat \ {0} /\ p + Span(h, p) <= h.brk + 1
    /\ IsBig(h.bucket[p]) => h.bucket[p] + BigHeader = Address(Span(h, p))
    /\ \A q \in Pages : h.bucket[q] # Nil /\ p < q => p + Span(h, p) <= q

BinsInv(h) ==
  \A b \in 0 .. BIG_BIN - 1 :
    /\ IsInjective(h.bins[b])
    /\ ToSet(h.bins[b]) = {p \in Pages : h.bucket[p] = b /\ h.cells[p] # <<>>}

FreePages(h) == {p \in Pages : IsBig(h.bucket[p]) /\ h.cells[p] # <<>>}

SkipInv(h) == \E rank, on : Linked(h, rank, on) /\ on[0] = FreePages(h)

HeapInv(h, L) == Typed(h) /\ PagesInv(h, L) /\ LayoutInv(h) /\ BinsInv(h) /\ SkipInv(h)

(* The page a block belongs to, by its address.                            *)
LEMMA HomeFound ==
  ASSUME NEW p \in Pages, NEW x
  PROVE  /\ \A b \in 0 .. BIG_BIN - 1 :
              x.ptr \in CellSet(p, b) =>
                HomeOf(x) = p /\ PageOf(x.ptr) = p /\ x.ptr % PAGE_SIZE # 0 /\ x.ptr \in Nat
         /\ x.ptr = BigCell(p) =>
              HomeOf(x) = p /\ PageOf(x.ptr) = p /\ x.ptr % PAGE_SIZE # 0 /\ x.ptr \in Nat
         /\ x.ptr = Address(p + 1) =>
              /\ HomeOf(x) = p /\ PageOf(x.ptr - 1) = p /\ x.ptr % PAGE_SIZE = 0
              /\ PageOf(x.ptr) = p + 1 /\ x.ptr \in Nat
<1>0. /\ p \in Nat /\ p + 1 \in Nat /\ Address(p) \in Nat
      /\ Address(p + 1) = Address(p) + PAGE_SIZE /\ PAGE_SIZE \in Nat \ {0}
  <2>1. p \in Nat
    BY DEF Pages
  <2>. QED  BY <2>1, Addresses, Constants
<1>1. ASSUME NEW d \in 1 .. PAGE_SIZE - 1, x.ptr = Address(p) + d
      PROVE  HomeOf(x) = p /\ PageOf(x.ptr) = p /\ x.ptr % PAGE_SIZE # 0 /\ x.ptr \in Nat
  <2>0. d \in 0 .. PAGE_SIZE - 1
    BY <1>0
  <2>1. PageOf(Address(p) + d) = p /\ (Address(p) + d) % PAGE_SIZE = d
    BY <1>0, <2>0, PageFound
  <2>2. x.ptr % PAGE_SIZE # 0 /\ PageOf(x.ptr) = p
    BY <1>1, <2>1
  <2>. QED  BY <1>0, <1>1, <2>2 DEF HomeOf
<1>2. ASSUME NEW b \in 0 .. BIG_BIN - 1, x.ptr \in CellSet(p, b)
      PROVE  HomeOf(x) = p /\ PageOf(x.ptr) = p /\ x.ptr % PAGE_SIZE # 0 /\ x.ptr \in Nat
  <2>1. /\ x.ptr \in Nat /\ Address(p) + Header <= x.ptr
        /\ x.ptr + CellSize(b) <= Address(p) + PAGE_SIZE
    BY <1>0, <1>2, CellsOfPage
  <2>2. CellSize(b) \in Nat \ {0}
    BY CellFits
  <2>3. x.ptr - Address(p) \in 1 .. PAGE_SIZE - 1
    BY <1>0, <2>1, <2>2, Constants
  <2>4. x.ptr = Address(p) + (x.ptr - Address(p))
    BY <1>0, <2>1
  <2>. QED  BY <1>1, <2>3, <2>4
<1>3. BigHeader \in 1 .. PAGE_SIZE - 1
  BY Constants
<1>4. ASSUME x.ptr = Address(p + 1)
      PROVE  /\ HomeOf(x) = p /\ PageOf(x.ptr - 1) = p /\ x.ptr % PAGE_SIZE = 0
             /\ PageOf(x.ptr) = p + 1 /\ x.ptr \in Nat
  <2>1. PAGE_SIZE - 1 \in 0 .. PAGE_SIZE - 1 /\ 0 \in 0 .. PAGE_SIZE - 1
    BY <1>0
  <2>2. PageOf(Address(p) + (PAGE_SIZE - 1)) = p
    BY <1>0, <2>1, PageFound
  <2>3. PageOf(Address(p + 1) + 0) = p + 1 /\ (Address(p + 1) + 0) % PAGE_SIZE = 0
    BY <1>0, <2>1, PageFound
  <2>4. Address(p + 1) + 0 = x.ptr /\ x.ptr - 1 = Address(p) + (PAGE_SIZE - 1)
    BY <1>0, <1>4
  <2>5. PageOf(x.ptr - 1) = p /\ PageOf(x.ptr) = p + 1 /\ x.ptr % PAGE_SIZE = 0
    BY <2>2, <2>3, <2>4
  <2>. QED  BY <1>0, <1>4, <2>5 DEF HomeOf
<1>. QED  BY <1>1, <1>2, <1>3, <1>4 DEF BigCell

LEMMA HereAdded ==
  ASSUME NEW L, NEW x, NEW p, HomeOf(x) = p
  PROVE  /\ Here(L \cup {x}, p) = Here(L, p) \cup {x}
         /\ Here(L \ {x}, p) = Here(L, p) \ {x}
         /\ \A q : q # p => Here(L \cup {x}, q) = Here(L, q) /\ Here(L \ {x}, q) = Here(L, q)
  BY DEF Here

(* klmalloc_stack_pop                                                      *)
LEMMA PopSound ==
  ASSUME NEW p \in Pages, NEW b \in 0 .. BIG_BIN - 1, NEW stack, NEW blocks,
         SmallSound(p, b, stack, blocks), stack # <<>>,
         NEW n \in Nat \ {0}, n <= CellSize(b)
  PROVE  /\ SmallSound(p, b, Tail(stack), blocks \cup {Block(Head(stack), n)})
         /\ HomeOf(Block(Head(stack), n)) = p
         /\ Head(stack) \in Nat /\ Head(stack) % PAGE_SIZE # 0
         /\ \A x \in blocks : x.ptr # Head(stack)
<1> DEFINE a == Head(stack)
           rest == Tail(stack)
           new == Block(a, n)
<1>1. /\ stack \in Seq(Nat) /\ IsInjective(stack) /\ ToSet(stack) \subseteq CellSet(p, b)
      /\ \A x \in blocks : x.ptr \in CellSet(p, b) \ ToSet(stack) /\ x.size <= CellSize(b)
      /\ \A x, y \in blocks : x.ptr = y.ptr => x = y
      /\ \A c \in CellSet(p, b) : c \in ToSet(stack) \/ \E x \in blocks : x.ptr = c
  BY DEF SmallSound
<1>2. /\ rest \in Seq(Nat) /\ IsInjective(rest) /\ a \in ToSet(stack)
      /\ ToSet(rest) = ToSet(stack) \ {a}
  BY <1>1, TailMembers
<1>3. new.ptr = a /\ new.size = n
  BY DEF Block
<1>4. a \in CellSet(p, b)
  BY <1>1, <1>2
<1>5. HomeOf(new) = p /\ a \in Nat /\ a % PAGE_SIZE # 0
  BY <1>3, <1>4, HomeFound
<1>. HIDE DEF new, a, rest
<1>6. SmallSound(p, b, rest, blocks \cup {new})
  BY <1>1, <1>2, <1>3, <1>4 DEF SmallSound, IsSmall
<1>. QED  BY <1>1, <1>2, <1>5, <1>6 DEF new, a, rest

(* klmalloc_stack_push                                                     *)
LEMMA PushSound ==
  ASSUME NEW p \in Pages, NEW b \in 0 .. BIG_BIN - 1, NEW stack, NEW blocks,
         SmallSound(p, b, stack, blocks), NEW x \in blocks
  PROVE  SmallSound(p, b, <<x.ptr>> \o stack, blocks \ {x})
<1>1. /\ stack \in Seq(Nat) /\ IsInjective(stack) /\ ToSet(stack) \subseteq CellSet(p, b)
      /\ \A y \in blocks : y.ptr \in CellSet(p, b) \ ToSet(stack) /\ y.size <= CellSize(b)
      /\ \A y, z \in blocks : y.ptr = z.ptr => y = z
      /\ \A c \in CellSet(p, b) : c \in ToSet(stack) \/ \E y \in blocks : y.ptr = c
  BY DEF SmallSound
<1>2. x.ptr \in Nat
  BY <1>1, HomeFound
<1>3. /\ <<x.ptr>> \o stack \in Seq(Nat) /\ IsInjective(<<x.ptr>> \o stack)
      /\ ToSet(<<x.ptr>> \o stack) = ToSet(stack) \cup {x.ptr}
  BY <1>1, <1>2, PushMembers
<1>. QED  BY <1>1, <1>3 DEF SmallSound, IsSmall

(* The links do not say what is on the stacks.                             *)
LEMMA LinkedSame ==
  ASSUME NEW h, NEW g, NEW rank, NEW on, Linked(h, rank, on),
         g.forward = h.forward, g.level = h.level,
         \A p \in on[0] : g.bucket[p] = h.bucket[p]
  PROVE  Linked(g, rank, on)
<1>1. \A p \in on[0] : g.bucket[p] \in Nat
  BY DEF Linked
<1>2. \A p, q \in on[0] : /\ rank[p] = rank[q] => p = q
                          /\ rank[q] < rank[p] => g.bucket[p] <= g.bucket[q]
  BY DEF Linked
<1>. QED  BY <1>1, <1>2 DEF Linked

(* Behind the end of the heap no page has a header.                        *)
LEMMA BehindEnd ==
  ASSUME NEW h, Typed(h), LayoutInv(h), NEW p \in Pages, h.bucket[p] # Nil
  PROVE  p <= h.brk
<1>1. Span(h, p) \in Nat \ {0} /\ p + Span(h, p) <= h.brk + 1
  BY DEF LayoutInv
<1>2. h.brk \in Nat /\ p \in Nat
  BY DEF Typed, Pages
<1>. HIDE DEF Span
<1>. QED  BY <1>1, <1>2

(* A small request takes the first cell of a page of its bin, of a new     *)
(* page if the bin has none.                                               *)
LEMMA MallocSmallKeeps ==
  ASSUME NEW h, NEW L, HeapInv(h, L), NEW b \in 0 .. BIG_BIN - 1,
         NEW n \in Nat \ {0}, n <= CellSize(b),
         MallocSmall(h, b).heap.brk <= MaxPages
  PROVE  LET r == MallocSmall(h, b)
         IN /\ HeapInv(r.heap, L \cup {Block(r.ptr, n)})
            /\ r.ptr \in Nat /\ r.ptr % PAGE_SIZE # 0
            /\ \A x \in L : x.ptr # r.ptr
<1> DEFINE r == MallocSmall(h, b)
           new == h.bins[b] = <<>>
           p == IF new THEN h.brk + 1 ELSE Head(h.bins[b])
           stack == IF new THEN FreshCells(p, b) ELSE h.cells[p]
           list == IF new THEN <<p>> ELSE h.bins[b]
           brk2 == IF new THEN p ELSE h.brk
           list2 == IF Tail(stack) = <<>> THEN Tail(list) ELSE list
           g == [h EXCEPT !.brk = brk2, !.bucket = Put(@, p, b),
                          !.cells = Put(@, p, Tail(stack)), !.bins[b] = list2]
           x == Block(Head(stack), n)
<1>0. /\ h.brk \in Nat /\ h.bucket \in [Pages -> Nat \cup {Nil}]
      /\ h.cells \in [Pages -> Seq(Nat)] /\ h.bins \in [0 .. BIG_BIN - 1 -> Seq(Pages)]
      /\ \A q \in Pages : q \in Nat \ {0} /\ q # Nil
      /\ \A q \in Pages : h.bucket[q] # Nil => h.bucket[q] \in Nat
      /\ b \in Nat /\ b # Nil /\ b < NUM_BINS /\ NUM_BINS \in Nat /\ IsSmall(b) /\ ~ IsBig(b)
  <2>1. Typed(h)
    BY DEF HeapInv
  <2>2. \A q \in Pages : q \in Nat \ {0} /\ q # Nil
    BY Constants DEF Pages
  <2>3. b \in Nat /\ b # Nil /\ b < NUM_BINS
    BY Constants
  <2>. QED  BY <2>1, <2>2, <2>3, Constants DEF Typed, IsSmall, IsBig
<1>1. r.ptr = Head(stack) /\ r.heap = g
  BY DEF MallocSmall
<1>2. /\ g.brk = brk2 /\ g.bucket = Put(h.bucket, p, b) /\ g.cells = Put(h.cells, p, Tail(stack))
      /\ g.bins = [h.bins EXCEPT ![b] = list2] /\ g.level = h.level /\ g.forward = h.forward
  <2>. HIDE DEF brk2, list2, p, stack
  <2>. QED  BY DEF HeapInv, Typed
<1>3. /\ p \in Pages
      /\ IF new THEN h.bucket[p] = Nil ELSE h.bucket[p] = b /\ h.cells[p] # <<>>
  <2>1. CASE new
    <3>1. h.brk + 1 <= MaxPages /\ h.brk \in Nat
      BY <1>0, <1>1, <1>2, <2>1
    <3>2. p \in Pages
      <4>1. h.brk + 1 \in 1 .. MaxPages
        <5>. HIDE DEF g
        <5>. QED  BY <3>1, Constants
      <4>. QED  BY <2>1, <4>1 DEF Pages
    <3>3. h.bucket[p] = Nil
      BY <1>0, <2>1, <3>2, BehindEnd DEF HeapInv
    <3>. QED  BY <2>1, <3>2, <3>3
  <2>2. CASE ~ new
    <3>1. Head(h.bins[b]) \in Pages /\ Head(h.bins[b]) \in ToSet(h.bins[b])
      BY <1>0, <2>2, TailMembers
    <3>2. ToSet(h.bins[b]) = {q \in Pages : h.bucket[q] = b /\ h.cells[q] # <<>>}
      BY DEF HeapInv, BinsInv
    <3>. QED  BY <2>2, <3>1, <3>2
  <2>. QED  BY <2>1, <2>2
<1>4. Sound(p, h.bucket[p], h.cells[p], Here(L, p))
  BY <1>3 DEF HeapInv, PagesInv
<1>5. SmallSound(p, b, stack, Here(L, p)) /\ stack \in Seq(Nat) /\ stack # <<>>
  <2>1. CASE new
    <3>1. Here(L, p) = {}
      BY <1>0, <1>3, <1>4, <2>1, Constants DEF Sound, Unused, SmallSound, BigSound, IsSmall
    <3>2. /\ stack \in Seq(Nat) /\ stack # <<>> /\ IsInjective(stack)
          /\ ToSet(stack) = CellSet(p, b)
      BY <1>0, <1>3, <2>1, CellsOfPage DEF CellSet
    <3>. HIDE DEF stack
    <3>. QED  BY <1>0, <3>1, <3>2 DEF SmallSound
  <2>2. CASE ~ new
    <3>1. SmallSound(p, b, h.cells[p], Here(L, p))
      BY <1>0, <1>3, <1>4, <2>2 DEF Sound, Unused, BigSound
    <3>. QED  BY <1>0, <1>3, <2>2, <3>1
  <2>. QED  BY <2>1, <2>2
<1>. HIDE DEF stack
<1>6. /\ SmallSound(p, b, Tail(stack), Here(L, p) \cup {x}) /\ HomeOf(x) = p
      /\ Head(stack) \in Nat /\ Head(stack) % PAGE_SIZE # 0
      /\ \A y \in Here(L, p) : y.ptr # Head(stack)
  <2>. HIDE DEF p
  <2>. QED  BY <1>3, <1>5, PopSound
<1>7. Tail(stack) \in Seq(Nat)
  BY <1>5, TailMembers
<1>. HIDE DEF x
<1>8. x \in [ptr : Nat, size : Nat \ {0}] /\ x.ptr = Head(stack)
  BY <1>6 DEF x, Block
<1>. HIDE DEF g, brk2, list2, p
<1>9. /\ g.bucket[p] = b /\ g.cells[p] = Tail(stack)
      /\ \A q \in Pages \ {p} : g.bucket[q] = h.bucket[q] /\ g.cells[q] = h.cells[q]
  BY <1>2, <1>3 DEF Put
<1>10. PagesInv(g, L \cup {x})
  <2>0. /\ Here(L \cup {x}, p) = Here(L, p) \cup {x}
        /\ \A q : q # p => Here(L \cup {x}, q) = Here(L, q)
    BY <1>6 DEF Here
  <2>1. \A q \in Pages \ {p} : Sound(q, g.bucket[q], g.cells[q], Here(L \cup {x}, q))
    <3>1. \A q \in Pages : Sound(q, h.bucket[q], h.cells[q], Here(L, q))
      BY DEF HeapInv, PagesInv
    <3>. QED  BY <1>9, <2>0, <3>1
  <2>2. Sound(p, g.bucket[p], g.cells[p], Here(L \cup {x}, p))
    BY <1>6, <1>9, <2>0 DEF Sound
  <2>. QED  BY <1>3, <1>6, <1>8, <2>1, <2>2 DEF HeapInv, PagesInv
<1>11. \A y \in L : y.ptr # Head(stack)
  <2> SUFFICES ASSUME NEW y \in L, y.ptr = Head(stack) PROVE FALSE
    OBVIOUS
  <2>1. HomeOf(y) = HomeOf(x)
    BY <1>8 DEF HomeOf
  <2>2. y \in Here(L, p)
    BY <1>6, <2>1 DEF Here
  <2>. QED  BY <1>6, <2>2
<1>12. /\ brk2 \in Nat /\ h.brk <= brk2
       /\ new => p = h.brk + 1 /\ brk2 = p
       /\ ~ new => brk2 = h.brk
  BY <1>0 DEF brk2, p
<1>13. /\ list \in Seq(Pages) /\ list # <<>> /\ IsInjective(list) /\ Head(list) = p
       /\ ToSet(list) = {q \in Pages : h.bucket[q] = b /\ h.cells[q] # <<>>} \cup {p}
  <2>1. /\ h.bins[b] \in Seq(Pages) /\ IsInjective(h.bins[b])
        /\ ToSet(h.bins[b]) = {q \in Pages : h.bucket[q] = b /\ h.cells[q] # <<>>}
    BY <1>0 DEF HeapInv, BinsInv
  <2>2. CASE new
    <3>1. <<p>> \in Seq(Pages) /\ ToSet(<<p>>) = {p} /\ IsInjective(<<p>>)
      BY <1>3, OneMember
    <3>3. list = <<p>> /\ <<p>> # <<>> /\ Head(<<p>>) = p
      BY <2>2
    <3>4. {q \in Pages : h.bucket[q] = b /\ h.cells[q] # <<>>} = {}
      BY <2>1, <2>2, EmptyMembers
    <3>. HIDE DEF list
    <3>. QED  BY <3>1, <3>3, <3>4
  <2>3. CASE ~ new
    <3>1. list = h.bins[b] /\ p = Head(h.bins[b])
      BY <2>3 DEF p
    <3>2. Head(h.bins[b]) \in ToSet(h.bins[b])
      BY <2>1, <2>3, TailMembers
    <3>. QED  BY <2>1, <2>3, <3>1, <3>2
  <2>. QED  BY <2>2, <2>3
<1>. HIDE DEF list
<1>14. /\ list2 \in Seq(Pages) /\ IsInjective(list2)
       /\ ToSet(list2) = {q \in Pages : g.bucket[q] = b /\ g.cells[q] # <<>>}
  <2>1. {q \in Pages : g.bucket[q] = b /\ g.cells[q] # <<>>} =
          IF Tail(stack) = <<>> THEN ToSet(list) \ {p} ELSE ToSet(list)
    BY <1>3, <1>9, <1>13
  <2>2. /\ Tail(list) \in Seq(Pages) /\ IsInjective(Tail(list))
        /\ ToSet(Tail(list)) = ToSet(list) \ {p}
    BY <1>13, TailMembers
  <2>. QED  BY <1>13, <2>1, <2>2 DEF list2
<1>15. BinsInv(g)
  <2> SUFFICES ASSUME NEW c \in 0 .. BIG_BIN - 1
               PROVE  /\ IsInjective(g.bins[c])
                      /\ ToSet(g.bins[c]) =
                           {q \in Pages : g.bucket[q] = c /\ g.cells[q] # <<>>}
    BY DEF BinsInv
  <2>1. CASE c = b
    BY <1>0, <1>2, <1>14, <2>1
  <2>2. CASE c # b
    <3>1. g.bins[c] = h.bins[c]
      BY <1>0, <1>2, <2>2
    <3>2. h.bucket[p] # c
      <4>1. c # Nil
        BY Constants
      <4>. QED  BY <1>3, <2>2, <4>1
    <3>3. {q \in Pages : g.bucket[q] = c /\ g.cells[q] # <<>>} =
            {q \in Pages : h.bucket[q] = c /\ h.cells[q] # <<>>}
      BY <1>9, <2>2, <3>2
    <3>. QED  BY <3>1, <3>3 DEF HeapInv, BinsInv
  <2>. QED  BY <2>1, <2>2
<1>16. \A q \in Pages : q # p => Span(g, q) = Span(h, q)
  BY <1>9 DEF Span
<1>17. Span(g, p) = 1
  BY <1>0, <1>9 DEF Span
<1>18. LayoutInv(g)
  <2>1. \A q \in Pages : h.bucket[q] # Nil =>
          /\ Span(h, q) \in Nat \ {0} /\ q + Span(h, q) <= h.brk + 1
          /\ IsBig(h.bucket[q]) => h.bucket[q] + BigHeader = Address(Span(h, q))
          /\ \A s \in Pages : h.bucket[s] # Nil /\ q < s => q + Span(h, q) <= s
    BY DEF HeapInv, LayoutInv
  <2>2. \A q \in Pages : h.bucket[q] # Nil => q <= h.brk
    BY BehindEnd DEF HeapInv
  <2>3. ~ new => Span(h, p) = 1
    BY <1>0, <1>3 DEF Span
  <2>. HIDE DEF new, Span
  <2> SUFFICES ASSUME NEW q \in Pages, g.bucket[q] # Nil
               PROVE  /\ Span(g, q) \in Nat \ {0} /\ q + Span(g, q) <= g.brk + 1
                      /\ IsBig(g.bucket[q]) => g.bucket[q] + BigHeader = Address(Span(g, q))
                      /\ \A s \in Pages : g.bucket[s] # Nil /\ q < s
                                          => q + Span(g, q) <= s
    BY DEF LayoutInv
  <2>4. CASE q # p
    <3>1. /\ g.bucket[q] = h.bucket[q] /\ Span(g, q) = Span(h, q)
          /\ Span(h, q) \in Nat \ {0} /\ q + Span(h, q) <= h.brk + 1
      BY <1>9, <1>16, <2>1, <2>4
    <3>2. q + Span(g, q) <= g.brk + 1
      BY <1>0, <1>2, <1>12, <3>1
    <3>3. ASSUME NEW s \in Pages, g.bucket[s] # Nil, q < s PROVE q + Span(g, q) <= s
      <4>1. CASE s # p \/ ~ new
        <5>1. h.bucket[s] # Nil
          BY <1>0, <1>3, <1>9, <3>3, <4>1
        <5>. QED  BY <2>1, <2>4, <3>1, <3>3, <5>1, <1>9
      <4>2. CASE s = p /\ new
        BY <1>12, <3>1, <4>2
      <4>. QED  BY <4>1, <4>2
    <3>. QED  BY <2>1, <2>4, <3>1, <3>2, <3>3
  <2>5. CASE q = p
    <3>1. p + 1 <= g.brk + 1
      <4>1. CASE new
        BY <1>0, <1>2, <1>3, <1>12, <4>1
      <4>2. CASE ~ new
        <5>1. p <= h.brk
          BY <1>0, <1>3, <2>2, <4>2
        <5>. QED  BY <1>0, <1>2, <1>3, <1>12, <4>2, <5>1
      <4>. QED  BY <4>1, <4>2
    <3>2. \A s \in Pages : p < s => p + 1 <= s
      BY <1>0, <1>3
    <3>. QED  BY <1>0, <1>9, <1>17, <2>5, <3>1, <3>2
  <2>. QED  BY <2>4, <2>5
<1>19. FreePages(g) = FreePages(h)
  <2>1. ~ IsBig(h.bucket[p])
    BY <1>0, <1>3 DEF IsBig
  <2>. QED  BY <1>0, <1>9, <2>1 DEF FreePages
<1>20. SkipInv(g)
  <2>1. PICK rank, on : Linked(h, rank, on) /\ on[0] = FreePages(h)
    BY DEF HeapInv, SkipInv
  <2>2. \A q \in on[0] : g.bucket[q] = h.bucket[q]
    BY <1>0, <1>3, <1>9, <2>1 DEF FreePages, IsBig
  <2>3. Linked(g, rank, on)
    BY <1>2, <2>1, <2>2, LinkedSame
  <2>. QED  BY <1>19, <2>1, <2>3 DEF SkipInv
<1>21. Typed(g)
  <2>1. g.bucket \in [Pages -> Nat \cup {Nil}] /\ g.cells \in [Pages -> Seq(Nat)]
    BY <1>0, <1>2, <1>7 DEF Put
  <2>2. g.bins \in [0 .. BIG_BIN - 1 -> Seq(Pages)]
    BY <1>0, <1>2, <1>14
  <2>3. g = [h EXCEPT !.brk = g.brk, !.bucket = g.bucket, !.cells = g.cells, !.bins = g.bins]
    BY <1>2 DEF g, HeapInv, Typed
  <2>4. g.brk \in Nat
    BY <1>2, <1>12
  <2>. QED  BY <2>1, <2>2, <2>3, <2>4 DEF HeapInv, Typed
<1>. QED  BY <1>1, <1>6, <1>10, <1>11, <1>15, <1>18, <1>20, <1>21 DEF HeapInv, x

(* What a step on the big block p leaves as it is.                         *)
LEMMA BinsSame ==
  ASSUME NEW h, NEW g, BinsInv(h), g.bins = h.bins, NEW p \in Pages,
         \A q \in Pages \ {p} : g.bucket[q] = h.bucket[q] /\ g.cells[q] = h.cells[q],
         ~ IsSmall(h.bucket[p]), ~ IsSmall(g.bucket[p])
  PROVE  BinsInv(g)
<1> SUFFICES ASSUME NEW c \in 0 .. BIG_BIN - 1
             PROVE  /\ IsInjective(g.bins[c])
                    /\ ToSet(g.bins[c]) = {q \in Pages : g.bucket[q] = c /\ g.cells[q] # <<>>}
  BY DEF BinsInv
<1>1. h.bucket[p] # c /\ g.bucket[p] # c
  BY DEF IsSmall
<1>2. {q \in Pages : g.bucket[q] = c /\ g.cells[q] # <<>>} =
        {q \in Pages : h.bucket[q] = c /\ h.cells[q] # <<>>}
  BY <1>1
<1>. QED  BY <1>2 DEF BinsInv

LEMMA PagesSame ==
  ASSUME NEW h, NEW g, NEW L, NEW M, PagesInv(h, L), NEW p \in Pages,
         \A q \in Pages \ {p} : g.bucket[q] = h.bucket[q] /\ g.cells[q] = h.cells[q],
         \A q \in Pages \ {p} : Here(M, q) = Here(L, q),
         Sound(p, g.bucket[p], g.cells[p], Here(M, p)),
         M \subseteq [ptr : Nat, size : Nat \ {0}], \A x \in M : HomeOf(x) \in Pages
  PROVE  PagesInv(g, M)
<1>1. \A q \in Pages : Sound(q, h.bucket[q], h.cells[q], Here(L, q))
  BY DEF PagesInv
<1>2. \A q \in Pages \ {p} : Sound(q, g.bucket[q], g.cells[q], Here(M, q))
  BY <1>1
<1>3. \A q \in Pages : q = p \/ q \in Pages \ {p}
  OBVIOUS
<1>4. \A q \in Pages : Sound(q, g.bucket[q], g.cells[q], Here(M, q))
  BY <1>2, <1>3
<1>. QED  BY <1>4 DEF PagesInv

(* A big request takes the smallest free block that is enough.             *)
LEMMA MallocBestKeeps ==
  ASSUME NEW h, NEW L, HeapInv(h, L), NEW n \in Nat \ {0}, FindBest(h, n) # Nil
  PROVE  LET r == MallocBig(h, n)
             p == FindBest(h, n)
         IN /\ p \in FreePages(h) /\ n <= h.bucket[p]
            /\ \A q \in FreePages(h) : n <= h.bucket[q] => h.bucket[p] <= h.bucket[q]
            /\ r.ptr = BigCell(p) /\ Here(L, p) = {}
            /\ r.heap.bucket[p] = h.bucket[p]
            /\ \A x \in [ptr : Nat, size : Nat \ {0}] :
                 HomeOf(x) = p /\ BigUse(p, h.bucket[p], x) => HeapInv(r.heap, L \cup {x})
<1> DEFINE r == MallocBig(h, n)
           p == FindBest(h, n)
           d == Delete(h, p)
           g == [d EXCEPT !.cells[p] = Tail(@)]
<1>1. Typed(h) /\ PagesInv(h, L) /\ LayoutInv(h) /\ BinsInv(h) /\ SkipInv(h)
  BY DEF HeapInv
<1>2. r.ptr = Head(h.cells[p]) /\ r.heap = g
  BY DEF MallocBig
<1>. HIDE DEF r
<1>3. PICK rank, on : Linked(h, rank, on) /\ on[0] = FreePages(h)
  BY <1>1 DEF SkipInv
<1>4. IsFirst(h, rank, on[0], n, p)
  BY <1>1, <1>3, FindBestFits
<1>. HIDE DEF p
<1>5. /\ p \in on[0] /\ n <= h.bucket[p]
      /\ \A q \in on[0] : n <= h.bucket[q] => rank[q] <= rank[p]
  BY <1>4 DEF IsFirst, p
<1>6. /\ rank \in [Pages -> Nat] /\ on[0] \subseteq Pages
      /\ \A q \in on[0] : h.bucket[q] \in Nat
      /\ \A q, s \in on[0] : /\ rank[s] = rank[q] => s = q
                             /\ rank[q] < rank[s] => h.bucket[s] <= h.bucket[q]
  BY <1>3, Constants DEF Linked
<1>7. \A q \in on[0] : n <= h.bucket[q] => h.bucket[p] <= h.bucket[q]
  <2> SUFFICES ASSUME NEW q \in on[0], n <= h.bucket[q] PROVE h.bucket[p] <= h.bucket[q]
    OBVIOUS
  <2>1. q = p \/ rank[q] < rank[p]
    BY <1>5, <1>6
  <2>. QED  BY <1>5, <1>6, <2>1
<1>8. \A q \in on[0] : h.bucket[p] <= h.bucket[q] => rank[q] <= rank[p]
  BY <1>5, <1>6
<1>9. /\ Typed(d) /\ Linked(d, rank, [i \in Levels |-> on[i] \ {p}])
      /\ d.brk = h.brk /\ d.bucket = h.bucket /\ d.cells = h.cells /\ d.bins = h.bins
  BY <1>1, <1>3, <1>5, <1>8, DeleteLinks
<1>. HIDE DEF d
<1>10. /\ g.brk = h.brk /\ g.bucket = h.bucket /\ g.bins = h.bins
       /\ g.forward = d.forward /\ g.level = d.level
       /\ g.cells = [h.cells EXCEPT ![p] = Tail(@)]
  BY <1>9 DEF Typed
<1>11. p \in Pages /\ IsBig(h.bucket[p]) /\ h.cells[p] # <<>> /\ ~ IsSmall(h.bucket[p])
  <2>1. p \in Pages /\ IsBig(h.bucket[p]) /\ h.cells[p] # <<>>
    BY <1>3, <1>5 DEF FreePages
  <2>2. h.bucket[p] \in Nat
    BY <1>5, <1>6
  <2>. QED  BY <2>1, <2>2, Constants DEF IsBig, IsSmall
<1>12. /\ h.cells[p] = <<BigCell(p)>> /\ Here(L, p) = {} /\ h.bucket[p] \in Nat
  <2>1. Sound(p, h.bucket[p], h.cells[p], Here(L, p))
    BY <1>1, <1>11 DEF PagesInv
  <2>. QED  BY <1>11, <2>1 DEF Sound, Unused, SmallSound, BigSound
<1>13. g.cells \in [Pages -> Seq(Nat)] /\ g.cells[p] = <<>>
       /\ \A q \in Pages \ {p} : g.cells[q] = h.cells[q]
  <2>1. h.cells \in [Pages -> Seq(Nat)]
    BY <1>1 DEF Typed
  <2>2. Tail(h.cells[p]) = <<>> /\ <<>> \in Seq(Nat)
    BY <1>12
  <2>. HIDE DEF g
  <2>. QED  BY <1>10, <1>11, <2>1, <2>2
<1>14. Typed(g)
  BY <1>9, <1>10, <1>13 DEF Typed
<1>. HIDE DEF g
<1>15. LayoutInv(g)
  BY <1>1, <1>10 DEF LayoutInv, Span
<1>16. BinsInv(g)
  BY <1>1, <1>10, <1>11, <1>13, BinsSame
<1>17. SkipInv(g)
  <2> DEFINE on2 == [i \in Levels |-> on[i] \ {p}]
  <2>1. on2[0] = on[0] \ {p}
    BY Constants
  <2>2. FreePages(g) = FreePages(h) \ {p}
    BY <1>10, <1>13 DEF FreePages
  <2>3. Linked(d, rank, on2)
    BY <1>9
  <2>. HIDE DEF on2
  <2>4. Linked(g, rank, on2)
    BY <1>9, <1>10, <2>3, LinkedSame
  <2>. QED  BY <1>3, <2>1, <2>2, <2>4 DEF SkipInv
<1>18. ASSUME NEW x \in [ptr : Nat, size : Nat \ {0}], HomeOf(x) = p,
              BigUse(p, h.bucket[p], x)
       PROVE  HeapInv(g, L \cup {x})
  <2>1. /\ Here(L \cup {x}, p) = {x}
        /\ \A q \in Pages \ {p} : Here(L \cup {x}, q) = Here(L, q)
    BY <1>12, <1>18 DEF Here
  <2>2. Sound(p, g.bucket[p], g.cells[p], Here(L \cup {x}, p))
    BY <1>10, <1>11, <1>12, <1>13, <1>18, <2>1 DEF Sound, BigSound
  <2>3. /\ L \cup {x} \subseteq [ptr : Nat, size : Nat \ {0}]
        /\ \A y \in L \cup {x} : HomeOf(y) \in Pages
    BY <1>1, <1>11, <1>18 DEF PagesInv
  <2>4. \A q \in Pages \ {p} : g.bucket[q] = h.bucket[q] /\ g.cells[q] = h.cells[q]
    BY <1>10, <1>13
  <2>5. PagesInv(h, L) /\ p \in Pages
    BY <1>1, <1>11
  <2> DEFINE M == L \cup {x}
  <2>6. /\ \A q \in Pages \ {p} : Here(M, q) = Here(L, q)
        /\ Sound(p, g.bucket[p], g.cells[p], Here(M, p))
        /\ M \subseteq [ptr : Nat, size : Nat \ {0}] /\ \A y \in M : HomeOf(y) \in Pages
    BY <2>1, <2>2, <2>3
  <2> HIDE DEF M
  <2>7. PagesInv(g, M)
    BY <2>4, <2>5, <2>6, PagesSame
  <2>. QED  BY <1>14, <1>15, <1>16, <1>17, <2>7 DEF HeapInv, M
<1>19. r.ptr = BigCell(p)
  BY <1>2, <1>12
<1>. QED  BY <1>2, <1>3, <1>5, <1>7, <1>10, <1>12, <1>18, <1>19 DEF r, p

(* The pages that a big request takes from sbrk.                           *)
LEMMA PagesFor ==
  ASSUME NEW n \in Nat \ {0}
  PROVE  LET pages == (n + BigHeader) \div PAGE_SIZE + 1
             b == Address(pages) - BigHeader
         IN /\ pages \in Nat \ {0} /\ b \in Nat /\ n <= b /\ IsBig(b)
            /\ b + BigHeader = Address(pages)
            /\ (b + BigHeader) \div PAGE_SIZE = pages
<1> DEFINE pages == (n + BigHeader) \div PAGE_SIZE + 1
           b == Address(pages) - BigHeader
<1>1. n + BigHeader \in Nat /\ PAGE_SIZE \in Nat \ {0} /\ BigHeader \in Nat \ {0}
  BY Constants
<1>2. PICK q \in Nat, r \in 0 .. PAGE_SIZE - 1 :
        q = (n + BigHeader) \div PAGE_SIZE /\ n + BigHeader = q * PAGE_SIZE + r
  BY <1>1, Division
<1>3. pages = q + 1
  BY <1>2
<1>. HIDE DEF pages
<1>4. /\ Address(q) \in Nat /\ Address(pages) = Address(q) + PAGE_SIZE
      /\ n + BigHeader = Address(q) + r
  <2>1. Address(q) \in Nat /\ Address(q + 1) = Address(q) + PAGE_SIZE
    BY Addresses
  <2>2. n + BigHeader = Address(q) + r
    BY <1>2 DEF Address
  <2>. QED  BY <1>3, <2>1, <2>2
<1>5. pages \in Nat \ {0} /\ Address(pages) \in Nat
  BY <1>1, <1>3, <1>4
<1>6. /\ b \in Nat /\ n <= b /\ b + BigHeader = Address(pages) /\ b > NUM_BINS
  <2>1. n + BigHeader < Address(pages)
    BY <1>1, <1>2, <1>4
  <2>2. PAGE_SIZE <= Address(pages)
    BY <1>1, <1>4
  <2>. QED  BY <1>1, <1>5, <2>1, <2>2, Constants
<1>7. b # Nil
  BY <1>6, Constants
<1>8. PageOf(Address(pages) + 0) = pages
  <2>1. 0 \in 0 .. PAGE_SIZE - 1
    BY <1>1
  <2>. QED  BY <1>5, <2>1, PageFound
<1>9. (b + BigHeader) \div PAGE_SIZE = pages
  <2>1. Address(pages) + 0 = Address(pages)
    BY <1>5
  <2>. QED  BY <1>6, <1>8, <2>1 DEF PageOf
<1>. QED  BY <1>5, <1>6, <1>7, <1>9 DEF IsBig, pages

(* A big request that no free block holds takes new pages.                 *)
LEMMA MallocNewKeeps ==
  ASSUME NEW h, NEW L, HeapInv(h, L), NEW n \in Nat \ {0}, FindBest(h, n) = Nil,
         MallocBig(h, n).heap.brk <= MaxPages
  PROVE  LET r == MallocBig(h, n)
             p == h.brk + 1
         IN /\ \A q \in FreePages(h) : ~ (n <= h.bucket[q])
            /\ r.ptr = BigCell(p) /\ Here(L, p) = {} /\ p \in Pages
            /\ n <= r.heap.bucket[p]
            /\ \A x \in [ptr : Nat, size : Nat \ {0}] :
                 HomeOf(x) = p /\ BigUse(p, r.heap.bucket[p], x)
                 => HeapInv(r.heap, L \cup {x})
<1> DEFINE r == MallocBig(h, n)
           p == h.brk + 1
           pages == (n + BigHeader) \div PAGE_SIZE + 1
           b == Address(pages) - BigHeader
           g == [h EXCEPT !.brk = @ + pages, !.bucket = Put(@, p, b)]
<1>1. Typed(h) /\ PagesInv(h, L) /\ LayoutInv(h) /\ BinsInv(h) /\ SkipInv(h)
  BY DEF HeapInv
<1>2. r.ptr = BigCell(p) /\ r.heap = g /\ r.heap.brk <= MaxPages
  BY DEF MallocBig, BigCell
<1>3. /\ pages \in Nat \ {0} /\ b \in Nat /\ n <= b /\ IsBig(b)
      /\ b + BigHeader = Address(pages) /\ (b + BigHeader) \div PAGE_SIZE = pages
  BY PagesFor
<1>. HIDE DEF r, pages, b
<1>4. \A q \in FreePages(h) : ~ (n <= h.bucket[q])
  <2>1. PICK rank, on : Linked(h, rank, on) /\ on[0] = FreePages(h)
    BY <1>1 DEF SkipInv
  <2>2. IsFirst(h, rank, on[0], n, Nil)
    BY <1>1, <2>1, FindBestFits
  <2>3. \A q \in on[0] : h.bucket[q] \in Nat
    BY <2>1 DEF Linked
  <2>. QED  BY <2>1, <2>2, <2>3 DEF IsFirst
<1>5. /\ g.brk = h.brk + pages /\ g.bucket = Put(h.bucket, p, b) /\ g.cells = h.cells
      /\ g.bins = h.bins /\ g.level = h.level /\ g.forward = h.forward
  BY <1>1 DEF Typed
<1>6. h.brk \in Nat /\ h.bucket \in [Pages -> Nat \cup {Nil}]
  BY <1>1 DEF Typed
<1>7. p \in Pages
  <2>1. h.brk + pages <= MaxPages
    BY <1>2, <1>5
  <2>2. h.brk + 1 \in 1 .. MaxPages
    BY <1>3, <1>6, <2>1, Constants
  <2>. QED  BY <2>2 DEF Pages
<1>8. Typed(g)
  <2>1. g.brk \in Nat
    BY <1>3, <1>5, <1>6
  <2>2. g.bucket \in [Pages -> Nat \cup {Nil}]
    BY <1>3, <1>5, <1>6 DEF Put
  <2>3. g = [h EXCEPT !.brk = g.brk, !.bucket = g.bucket]
    BY <1>5
  <2>. QED  BY <1>1, <2>1, <2>2, <2>3 DEF Typed
<1>. HIDE DEF g
<1>9. h.bucket[p] = Nil
  <2>1. h.bucket[p] # Nil => p <= h.brk
    BY <1>1, <1>7, BehindEnd
  <2>. QED  BY <1>6, <2>1
<1>. HIDE DEF p
<1>10. h.cells[p] = <<>> /\ Here(L, p) = {}
  <2>1. Sound(p, h.bucket[p], h.cells[p], Here(L, p))
    BY <1>1, <1>7 DEF PagesInv
  <2>2. ~ IsSmall(Nil) /\ Nil \notin Nat
    BY Constants DEF IsSmall
  <2>. QED  BY <1>9, <2>1, <2>2 DEF Sound, Unused, SmallSound, BigSound
<1>11. /\ g.bucket[p] = b
       /\ \A q \in Pages \ {p} : g.bucket[q] = h.bucket[q] /\ g.cells[q] = h.cells[q]
  BY <1>5, <1>7 DEF Put
<1>12. ~ IsSmall(h.bucket[p]) /\ ~ IsSmall(g.bucket[p])
  <2>1. ~ IsSmall(Nil)
    BY Constants DEF IsSmall
  <2>2. ~ IsSmall(b)
    BY <1>3, Constants DEF IsSmall, IsBig
  <2>. QED  BY <1>9, <1>11, <2>1, <2>2
<1>13. BinsInv(g)
  BY <1>1, <1>5, <1>7, <1>11, <1>12, BinsSame
<1>14. FreePages(g) = FreePages(h)
  BY <1>5, <1>9, <1>10, <1>11 DEF FreePages, IsBig
<1>15. SkipInv(g)
  <2>1. PICK rank, on : Linked(h, rank, on) /\ on[0] = FreePages(h)
    BY <1>1 DEF SkipInv
  <2>2. \A q \in on[0] : g.bucket[q] = h.bucket[q]
    BY <1>9, <1>11, <2>1 DEF FreePages, IsBig
  <2>3. Linked(g, rank, on)
    BY <1>5, <2>1, <2>2, LinkedSame
  <2>. QED  BY <1>14, <2>1, <2>3 DEF SkipInv
<1>16. /\ Span(g, p) = pages
       /\ \A q \in Pages \ {p} : Span(g, q) = Span(h, q)
  BY <1>3, <1>11 DEF Span, IsBig
<1>17. LayoutInv(g)
  <2>1. \A q \in Pages : h.bucket[q] # Nil =>
          /\ Span(h, q) \in Nat \ {0} /\ q + Span(h, q) <= h.brk + 1
          /\ IsBig(h.bucket[q]) => h.bucket[q] + BigHeader = Address(Span(h, q))
          /\ \A s \in Pages : h.bucket[s] # Nil /\ q < s => q + Span(h, q) <= s
    BY <1>1 DEF LayoutInv
  <2>2. p = h.brk + 1 /\ g.brk = h.brk + pages /\ \A q \in Pages : q \in Nat
    BY <1>5 DEF p, Pages
  <2>. HIDE DEF Span
  <2> SUFFICES ASSUME NEW q \in Pages, g.bucket[q] # Nil
               PROVE  /\ Span(g, q) \in Nat \ {0} /\ q + Span(g, q) <= g.brk + 1
                      /\ IsBig(g.bucket[q]) => g.bucket[q] + BigHeader = Address(Span(g, q))
                      /\ \A s \in Pages : g.bucket[s] # Nil /\ q < s
                                          => q + Span(g, q) <= s
    BY DEF LayoutInv
  <2>3. CASE q = p
    <3>1. \A s \in Pages : g.bucket[s] # Nil /\ p < s => FALSE
      <4> SUFFICES ASSUME NEW s \in Pages, g.bucket[s] # Nil, p < s PROVE FALSE
        OBVIOUS
      <4>1. s # p
        BY <1>6, <2>2
      <4>2. h.bucket[s] # Nil
        BY <1>11, <4>1
      <4>3. s <= h.brk
        BY <1>1, <4>2, BehindEnd
      <4>. QED  BY <1>6, <2>2, <4>3
    <3>2. p + pages <= g.brk + 1
      BY <1>3, <1>6, <2>2
    <3>. QED  BY <1>3, <1>11, <1>16, <2>3, <3>1, <3>2
  <2>4. CASE q # p
    <3>1. /\ g.bucket[q] = h.bucket[q] /\ Span(g, q) = Span(h, q)
          /\ Span(h, q) \in Nat \ {0} /\ q + Span(h, q) <= h.brk + 1
      BY <1>11, <1>16, <2>1, <2>4
    <3>2. q + Span(g, q) <= g.brk + 1
      BY <1>3, <1>6, <2>2, <3>1
    <3>3. ASSUME NEW s \in Pages, g.bucket[s] # Nil, q < s PROVE q + Span(g, q) <= s
      <4>1. CASE s = p
        BY <2>2, <3>1, <4>1
      <4>2. CASE s # p
        <5>1. h.bucket[s] # Nil
          BY <1>11, <3>3, <4>2
        <5>. QED  BY <2>1, <2>4, <3>1, <3>3, <5>1
      <4>. QED  BY <4>1, <4>2
    <3>. QED  BY <2>1, <2>4, <3>1, <3>2, <3>3
  <2>. QED  BY <2>3, <2>4
<1>18. ASSUME NEW x \in [ptr : Nat, size : Nat \ {0}], HomeOf(x) = p, BigUse(p, b, x)
       PROVE  HeapInv(g, L \cup {x})
  <2> DEFINE M == L \cup {x}
  <2>1. /\ Here(M, p) = {x}
        /\ \A q \in Pages \ {p} : Here(M, q) = Here(L, q)
    BY <1>10, <1>18 DEF Here
  <2>2. Sound(p, g.bucket[p], g.cells[p], Here(M, p))
    BY <1>3, <1>5, <1>10, <1>11, <1>18, <2>1 DEF Sound, BigSound
  <2>3. M \subseteq [ptr : Nat, size : Nat \ {0}] /\ \A y \in M : HomeOf(y) \in Pages
    BY <1>1, <1>7, <1>18 DEF PagesInv
  <2>4. PagesInv(h, L) /\ p \in Pages
    BY <1>1, <1>7
  <2>5. \A q \in Pages \ {p} : g.bucket[q] = h.bucket[q] /\ g.cells[q] = h.cells[q]
    BY <1>11
  <2>6. /\ \A q \in Pages \ {p} : Here(M, q) = Here(L, q)
        /\ Sound(p, g.bucket[p], g.cells[p], Here(M, p))
        /\ M \subseteq [ptr : Nat, size : Nat \ {0}] /\ \A y \in M : HomeOf(y) \in Pages
    BY <2>1, <2>2, <2>3
  <2> HIDE DEF M
  <2>7. PagesInv(g, M)
    BY <2>4, <2>5, <2>6, PagesSame
  <2>. QED  BY <1>8, <1>13, <1>15, <1>17, <2>7 DEF HeapInv, M
<1>. QED  BY <1>2, <1>3, <1>4, <1>7, <1>10, <1>11, <1>18 DEF r, p

(* klmalloc of a big size puts the block of any call that fits into the    *)
(* page it takes.                                                          *)
LEMMA MallocBigKeeps ==
  ASSUME NEW h, NEW L, HeapInv(h, L), NEW n \in Nat \ {0},
         MallocBig(h, n).heap.brk <= MaxPages
  PROVE  LET r == MallocBig(h, n)
         IN \E p \in Pages :
              /\ r.ptr = BigCell(p) /\ Here(L, p) = {} /\ n <= r.heap.bucket[p]
              /\ LET fit == {q \in FreePages(h) : n <= h.bucket[q]}
                 IN IF fit = {} THEN p = h.brk + 1
                    ELSE p \in fit /\ \A q \in fit : h.bucket[p] <= h.bucket[q]
              /\ \A x \in [ptr : Nat, size : Nat \ {0}] :
                   HomeOf(x) = p /\ BigUse(p, r.heap.bucket[p], x)
                   => HeapInv(r.heap, L \cup {x})
<1>1. CASE FindBest(h, n) # Nil
  <2> DEFINE r == MallocBig(h, n)
             p == FindBest(h, n)
  <2>1. /\ p \in FreePages(h) /\ n <= h.bucket[p]
        /\ \A q \in FreePages(h) : n <= h.bucket[q] => h.bucket[p] <= h.bucket[q]
        /\ r.ptr = BigCell(p) /\ Here(L, p) = {}
        /\ r.heap.bucket[p] = h.bucket[p]
        /\ \A x \in [ptr : Nat, size : Nat \ {0}] :
             HomeOf(x) = p /\ BigUse(p, h.bucket[p], x) => HeapInv(r.heap, L \cup {x})
    BY <1>1, MallocBestKeeps
  <2>2. p \in Pages
    BY <2>1 DEF FreePages
  <2>. HIDE DEF r, p
  <2>. QED  BY <2>1, <2>2 DEF r
<1>2. CASE FindBest(h, n) = Nil
  <2> DEFINE r == MallocBig(h, n)
             p == h.brk + 1
  <2>1. /\ \A q \in FreePages(h) : ~ (n <= h.bucket[q])
        /\ r.ptr = BigCell(p) /\ Here(L, p) = {} /\ p \in Pages
        /\ n <= r.heap.bucket[p]
        /\ \A x \in [ptr : Nat, size : Nat \ {0}] :
             HomeOf(x) = p /\ BigUse(p, r.heap.bucket[p], x)
             => HeapInv(r.heap, L \cup {x})
    BY <1>2, MallocNewKeeps
  <2>2. p = h.brk + 1
    OBVIOUS
  <2>. HIDE DEF r, p
  <2>. QED  BY <2>1, <2>2 DEF r
<1>. QED  BY <1>1, <1>2

(* malloc *)
LEMMA KmallocKeeps ==
  ASSUME NEW h, NEW L, HeapInv(h, L), NEW n \in Nat \ {0}, n < 2 ^ 30,
         Kmalloc(h, n).heap.brk <= MaxPages
  PROVE  LET r == Kmalloc(h, n)
         IN /\ HeapInv(r.heap, L \cup {Block(r.ptr, n)})
            /\ r.ptr \in Nat /\ r.ptr % PAGE_SIZE # 0
            /\ \A x \in L : x.ptr # r.ptr
<1>0. /\ BinSize(n) \in 0 .. BIG_BIN
      /\ BinSize(n) < BIG_BIN => n <= CellSize(BinSize(n))
  BY BinFits
<1>1. CASE BinSize(n) < BIG_BIN
  <2> DEFINE b == BinSize(n)
  <2>1. b \in 0 .. BIG_BIN - 1 /\ n <= CellSize(b)
    BY <1>0, <1>1, Constants
  <2>2. Kmalloc(h, n) = MallocSmall(h, b)
    BY <1>1 DEF Kmalloc
  <2>. HIDE DEF b
  <2>. QED  BY <2>1, <2>2, MallocSmallKeeps
<1>2. CASE ~ (BinSize(n) < BIG_BIN)
  <2> DEFINE r == Kmalloc(h, n)
             x == Block(r.ptr, n)
  <2>1. r = MallocBig(h, n) /\ r.heap.brk <= MaxPages
    BY <1>2 DEF Kmalloc
  <2>. HIDE DEF r
  <2>2. PICK p \in Pages :
          /\ r.ptr = BigCell(p) /\ Here(L, p) = {} /\ n <= r.heap.bucket[p]
          /\ \A y \in [ptr : Nat, size : Nat \ {0}] :
               HomeOf(y) = p /\ BigUse(p, r.heap.bucket[p], y) => HeapInv(r.heap, L \cup {y})
    BY <2>1, MallocBigKeeps
  <2>3. x.ptr = BigCell(p) /\ x.size = n
    BY <2>2 DEF Block
  <2>4. /\ HomeOf(x) = p /\ x.ptr \in Nat /\ x.ptr % PAGE_SIZE # 0
    BY <2>3, HomeFound
  <2>5. x \in [ptr : Nat, size : Nat \ {0}]
    BY <2>2, <2>3, <2>4 DEF Block
  <2>. HIDE DEF x
  <2>6. HeapInv(r.heap, L \cup {x})
    BY <2>2, <2>3, <2>4, <2>5 DEF BigUse
  <2>7. ASSUME NEW y \in L, y.ptr = r.ptr PROVE FALSE
    <3>1. HomeOf(y) = p
      BY <2>2, <2>7, HomeFound
    <3>. QED  BY <2>2, <2>7, <3>1 DEF Here
  <2>. QED  BY <2>2, <2>3, <2>4, <2>6, <2>7 DEF r, x
<1>. QED  BY <1>1, <1>2

(* valloc *)
LEMMA KvallocKeeps ==
  ASSUME NEW h, NEW L, HeapInv(h, L), NEW n \in Nat \ {0}, ValSize(n) < 2 ^ 30,
         Kmalloc(h, ValSize(n)).heap.brk <= MaxPages
  PROVE  LET r == Kmalloc(h, ValSize(n))
         IN HeapInv(r.heap, L \cup {Block(r.ptr + PAGE_SIZE - BigHeader, n)})
<1> DEFINE m == ValSize(n)
           r == Kmalloc(h, m)
           x == Block(r.ptr + PAGE_SIZE - BigHeader, n)
<1>1. m \in Nat \ {0} /\ ~ (BinSize(m) < BIG_BIN)
  BY ValSizeBig
<1>2. r = MallocBig(h, m) /\ r.heap.brk <= MaxPages
  BY <1>1 DEF Kmalloc
<1>. HIDE DEF r
<1>3. PICK p \in Pages :
        /\ r.ptr = BigCell(p) /\ m <= r.heap.bucket[p]
        /\ \A y \in [ptr : Nat, size : Nat \ {0}] :
             HomeOf(y) = p /\ BigUse(p, r.heap.bucket[p], y) => HeapInv(r.heap, L \cup {y})
  <2>. HIDE DEF m
  <2>. QED  BY <1>1, <1>2, MallocBigKeeps
<1>4. r.ptr + PAGE_SIZE - BigHeader = Address(p + 1)
  <2>1. p \in Nat
    BY DEF Pages
  <2>2. Address(p) \in Nat /\ Address(p + 1) = Address(p) + PAGE_SIZE
    BY <2>1, Addresses
  <2>. QED  BY <1>3, <2>2, Constants DEF BigCell
<1>5. x.ptr = Address(p + 1) /\ x.size = n
  BY <1>4 DEF Block
<1>6. HomeOf(x) = p /\ x.ptr \in Nat
  BY <1>5, HomeFound
<1>7. x \in [ptr : Nat, size : Nat \ {0}]
  BY <1>5, <1>6 DEF Block
<1>. HIDE DEF x
<1>8. BigUse(p, r.heap.bucket[p], x)
  BY <1>3, <1>5 DEF BigUse
<1>9. HeapInv(r.heap, L \cup {x})
  BY <1>3, <1>6, <1>7, <1>8
<1>. QED  BY <1>9 DEF r, x

(* free of a cell puts it on the stack of its page, and the page on the    *)
(* list of its bin if the stack was empty.                                 *)
LEMMA KfreeSmallKeeps ==
  ASSUME NEW h, NEW L, HeapInv(h, L), NEW x \in L, NEW p \in Pages, HomeOf(x) = p,
         NEW b \in 0 .. BIG_BIN - 1, h.bucket[p] = b,
         SmallSound(p, b, h.cells[p], Here(L, p))
  PROVE  LET list == IF h.cells[p] = <<>> THEN <<p>> \o h.bins[b] ELSE h.bins[b]
             g == [h EXCEPT !.bins[b] = list, !.cells[p] = <<x.ptr>> \o @]
         IN HeapInv(g, L \ {x})
<1> DEFINE list == IF h.cells[p] = <<>> THEN <<p>> \o h.bins[b] ELSE h.bins[b]
           stack == <<x.ptr>> \o h.cells[p]
           g == [h EXCEPT !.bins[b] = list, !.cells[p] = <<x.ptr>> \o @]
           M == L \ {x}
<1>1. Typed(h) /\ PagesInv(h, L) /\ LayoutInv(h) /\ BinsInv(h) /\ SkipInv(h)
  BY DEF HeapInv
<1>2. /\ h.cells \in [Pages -> Seq(Nat)] /\ h.bins \in [0 .. BIG_BIN - 1 -> Seq(Pages)]
      /\ ~ IsBig(b)
  BY <1>1, Constants DEF Typed, IsBig
<1>3. SmallSound(p, b, stack, Here(L, p) \ {x})
  <2>1. x \in Here(L, p)
    BY DEF Here
  <2>. QED  BY <2>1, PushSound
<1>4. stack \in Seq(Nat) /\ stack # <<>>
  <2>1. stack \in Seq(Nat)
    BY <1>3 DEF SmallSound
  <2>2. x.ptr \in Nat
    BY <1>1 DEF PagesInv
  <2>. QED  BY <1>2, <2>1, <2>2, PushMembers
<1>5. list \in Seq(Pages) /\ IsInjective(list)
      /\ ToSet(list) = {q \in Pages : h.bucket[q] = b /\ h.cells[q] # <<>>} \cup {p}
  <2>1. /\ h.bins[b] \in Seq(Pages) /\ IsInjective(h.bins[b])
        /\ ToSet(h.bins[b]) = {q \in Pages : h.bucket[q] = b /\ h.cells[q] # <<>>}
    BY <1>1, <1>2 DEF BinsInv
  <2>2. CASE h.cells[p] = <<>>
    <3>1. p \notin ToSet(h.bins[b])
      BY <2>1, <2>2
    <3>2. /\ <<p>> \o h.bins[b] \in Seq(Pages) /\ IsInjective(<<p>> \o h.bins[b])
          /\ ToSet(<<p>> \o h.bins[b]) = ToSet(h.bins[b]) \cup {p}
      BY <2>1, <3>1, PushMembers
    <3>3. list = <<p>> \o h.bins[b]
      BY <2>2
    <3>. HIDE DEF list
    <3>. QED  BY <2>1, <3>2, <3>3
  <2>3. CASE h.cells[p] # <<>>
    <3>1. list = h.bins[b] /\ p \in ToSet(h.bins[b])
      BY <2>1, <2>3
    <3>. HIDE DEF list
    <3>. QED  BY <2>1, <3>1
  <2>. QED  BY <2>2, <2>3
<1>. HIDE DEF list
<1>6. /\ g.brk = h.brk /\ g.bucket = h.bucket /\ g.level = h.level /\ g.forward = h.forward
      /\ g.bins = [h.bins EXCEPT ![b] = list] /\ g.cells = [h.cells EXCEPT ![p] = stack]
  BY <1>1 DEF Typed
<1>. HIDE DEF stack
<1>7. /\ g.cells \in [Pages -> Seq(Nat)] /\ g.bins \in [0 .. BIG_BIN - 1 -> Seq(Pages)]
      /\ g.cells[p] = stack /\ g.bins[b] = list
      /\ \A q \in Pages \ {p} : g.cells[q] = h.cells[q]
      /\ \A c \in 0 .. BIG_BIN - 1 : c # b => g.bins[c] = h.bins[c]
  <2>. HIDE DEF g
  <2>1. /\ g.cells \in [Pages -> Seq(Nat)] /\ g.cells[p] = stack
        /\ \A q \in Pages \ {p} : g.cells[q] = h.cells[q]
    BY <1>2, <1>4, <1>6
  <2>2. list \in Seq(Pages)
    BY <1>5
  <2>3. h.bins \in [0 .. BIG_BIN - 1 -> Seq(Pages)] /\ g.bins = [h.bins EXCEPT ![b] = list]
    BY <1>2, <1>6
  <2>4. g.bins[b] = list /\ \A c \in 0 .. BIG_BIN - 1 : c # b => g.bins[c] = h.bins[c]
    BY <2>3
  <2>5. g.bins \in [0 .. BIG_BIN - 1 -> Seq(Pages)]
    BY <2>2, <2>3
  <2>. QED  BY <2>1, <2>4, <2>5
<1>8. Typed(g)
  <2>1. g = [h EXCEPT !.cells = g.cells, !.bins = g.bins]
    BY <1>6
  <2>. QED  BY <1>1, <1>7, <2>1 DEF Typed
<1>. HIDE DEF g
<1>9. PagesInv(g, M)
  <2>1. /\ Here(M, p) = Here(L, p) \ {x}
        /\ \A q \in Pages \ {p} : Here(M, q) = Here(L, q)
    BY DEF Here
  <2>2. Sound(p, g.bucket[p], g.cells[p], Here(M, p))
    BY <1>3, <1>6, <1>7, <2>1 DEF Sound
  <2>3. M \subseteq [ptr : Nat, size : Nat \ {0}] /\ \A y \in M : HomeOf(y) \in Pages
    BY <1>1 DEF PagesInv
  <2>4. \A q \in Pages \ {p} : g.bucket[q] = h.bucket[q] /\ g.cells[q] = h.cells[q]
    BY <1>6, <1>7
  <2>5. PagesInv(h, L)
    BY <1>1
  <2>. HIDE DEF M
  <2>6. \A q \in Pages \ {p} : Here(M, q) = Here(L, q)
    BY <2>1
  <2>. QED  BY <2>2, <2>3, <2>4, <2>5, <2>6, PagesSame
<1>10. LayoutInv(g)
  BY <1>1, <1>6 DEF LayoutInv, Span
<1>11. BinsInv(g)
  <2> SUFFICES ASSUME NEW c \in 0 .. BIG_BIN - 1
               PROVE  /\ IsInjective(g.bins[c])
                      /\ ToSet(g.bins[c]) =
                           {q \in Pages : g.bucket[q] = c /\ g.cells[q] # <<>>}
    BY DEF BinsInv
  <2>1. CASE c = b
    <3>1. {q \in Pages : g.bucket[q] = c /\ g.cells[q] # <<>>} =
            {q \in Pages : h.bucket[q] = b /\ h.cells[q] # <<>>} \cup {p}
      BY <1>4, <1>6, <1>7, <2>1
    <3>. QED  BY <1>5, <1>7, <2>1, <3>1
  <2>2. CASE c # b
    <3>1. {q \in Pages : g.bucket[q] = c /\ g.cells[q] # <<>>} =
            {q \in Pages : h.bucket[q] = c /\ h.cells[q] # <<>>}
      BY <1>6, <1>7, <2>2
    <3>. QED  BY <1>1, <1>7, <2>2, <3>1 DEF BinsInv
  <2>. QED  BY <2>1, <2>2
<1>12. SkipInv(g)
  <2>1. PICK rank, on : Linked(h, rank, on) /\ on[0] = FreePages(h)
    BY <1>1 DEF SkipInv
  <2>2. Linked(g, rank, on)
    BY <1>6, <2>1, LinkedSame
  <2>3. FreePages(g) = FreePages(h)
    BY <1>2, <1>6, <1>7 DEF FreePages
  <2>. QED  BY <2>1, <2>2, <2>3 DEF SkipInv
<1>. QED  BY <1>8, <1>9, <1>10, <1>11, <1>12 DEF HeapInv, g, list, M

(* free of a big block puts it into the skip list.                         *)
LEMMA KfreeBigKeeps ==
  ASSUME NEW h, NEW L, HeapInv(h, L), NEW x \in L, NEW p \in Pages, HomeOf(x) = p,
         h.bucket[p] \in Nat, IsBig(h.bucket[p]), h.cells[p] = <<>>, Here(L, p) = {x},
         NEW top \in Levels, NEW a, PageOf(a) = p
  PROVE  HeapInv(KfreeAt(h, a, top), L \ {x}) /\ KfreeAt(h, a, top).brk = h.brk
<1> DEFINE d == [h EXCEPT !.cells[p] = <<Address(p) + BigHeader>> \o @]
           g == Insert(d, p, top)
           M == L \ {x}
<1>0. KfreeAt(h, a, top) = g
  BY DEF KfreeAt, IsBig
<1>1. Typed(h) /\ PagesInv(h, L) /\ LayoutInv(h) /\ BinsInv(h) /\ SkipInv(h)
  BY DEF HeapInv
<1>2. h.cells \in [Pages -> Seq(Nat)] /\ BigCell(p) \in Nat
  <2>1. p \in Nat
    BY DEF Pages
  <2>2. Address(p) \in Nat
    BY <2>1, Addresses
  <2>. QED  BY <1>1, <2>2, Constants DEF Typed, BigCell
<1>3. /\ d.brk = h.brk /\ d.bucket = h.bucket /\ d.level = h.level /\ d.forward = h.forward
      /\ d.bins = h.bins /\ d.cells = [h.cells EXCEPT ![p] = <<BigCell(p)>>]
  <2>1. <<Address(p) + BigHeader>> \o h.cells[p] = <<BigCell(p)>>
    BY <1>2 DEF BigCell
  <2>. QED  BY <1>1, <2>1 DEF Typed
<1>4. /\ d.cells \in [Pages -> Seq(Nat)] /\ d.cells[p] = <<BigCell(p)>>
      /\ \A q \in Pages \ {p} : d.cells[q] = h.cells[q]
  <2>1. <<BigCell(p)>> \in Seq(Nat)
    BY <1>2, OneMember
  <2>. HIDE DEF d
  <2>. QED  BY <1>2, <1>3, <2>1
<1>5. Typed(d)
  <2>1. d = [h EXCEPT !.cells = d.cells]
    BY <1>3
  <2>. QED  BY <1>1, <1>4, <2>1 DEF Typed
<1>. HIDE DEF d
<1>6. PICK rank, on : Linked(h, rank, on) /\ on[0] = FreePages(h)
  BY <1>1 DEF SkipInv
<1>7. Linked(d, rank, on) /\ p \notin on[0] /\ d.bucket[p] \in Nat
  <2>1. Linked(d, rank, on)
    BY <1>3, <1>6, LinkedSame
  <2>2. p \notin on[0]
    BY <1>6 DEF FreePages
  <2>. QED  BY <1>3, <2>1, <2>2
<1>8. /\ Typed(g)
      /\ \E rank2, on2 : Linked(g, rank2, on2) /\ on2[0] = on[0] \cup {p}
      /\ g.brk = d.brk /\ g.bucket = d.bucket /\ g.cells = d.cells /\ g.bins = d.bins
  BY <1>5, <1>7, InsertLinks
<1>. HIDE DEF g
<1>9. /\ g.bucket = h.bucket /\ g.brk = h.brk /\ g.bins = h.bins
      /\ g.cells[p] = <<BigCell(p)>> /\ <<BigCell(p)>> # <<>>
      /\ \A q \in Pages \ {p} : g.bucket[q] = h.bucket[q] /\ g.cells[q] = h.cells[q]
  BY <1>3, <1>4, <1>8
<1>10. PagesInv(g, M)
  <2>1. /\ Here(M, p) = {}
        /\ \A q \in Pages \ {p} : Here(M, q) = Here(L, q)
    BY DEF Here
  <2>2. Sound(p, g.bucket[p], g.cells[p], Here(M, p))
    BY <1>9, <2>1 DEF Sound, BigSound
  <2>3. M \subseteq [ptr : Nat, size : Nat \ {0}] /\ \A y \in M : HomeOf(y) \in Pages
    BY <1>1 DEF PagesInv
  <2>4. \A q \in Pages \ {p} : g.bucket[q] = h.bucket[q] /\ g.cells[q] = h.cells[q]
    BY <1>9
  <2>5. PagesInv(h, L)
    BY <1>1
  <2>. HIDE DEF M
  <2>6. \A q \in Pages \ {p} : Here(M, q) = Here(L, q)
    BY <2>1
  <2>. QED  BY <2>2, <2>3, <2>4, <2>5, <2>6, PagesSame
<1>11. LayoutInv(g)
  BY <1>1, <1>9 DEF LayoutInv, Span
<1>12. BinsInv(g)
  <2>1. ~ IsSmall(h.bucket[p]) /\ ~ IsSmall(g.bucket[p])
    BY <1>9, Constants DEF IsSmall, IsBig
  <2>2. \A q \in Pages \ {p} : g.bucket[q] = h.bucket[q] /\ g.cells[q] = h.cells[q]
    BY <1>9
  <2>. QED  BY <1>1, <1>9, <2>1, <2>2, BinsSame
<1>13. SkipInv(g)
  <2>1. FreePages(g) = FreePages(h) \cup {p}
    BY <1>9 DEF FreePages
  <2>. QED  BY <1>6, <1>8, <2>1 DEF SkipInv
<1>. QED  BY <1>0, <1>8, <1>9, <1>10, <1>11, <1>12, <1>13 DEF HeapInv, M

(* free *)
LEMMA KfreeKeeps ==
  ASSUME NEW h, NEW L, HeapInv(h, L), NEW x \in L, NEW top \in Levels
  PROVE  HeapInv(Kfree(h, x.ptr, top), L \ {x}) /\ Kfree(h, x.ptr, top).brk = h.brk
<1> DEFINE a == IF x.ptr % PAGE_SIZE = 0 THEN x.ptr - 1 ELSE x.ptr
           p == PageOf(a)
           b == h.bucket[p]
<1>1. p = HomeOf(x) /\ p \in Pages /\ Kfree(h, x.ptr, top) = KfreeAt(h, a, top)
  BY DEF HomeOf, Kfree, HeapInv, PagesInv
<1>2. Sound(p, b, h.cells[p], Here(L, p)) /\ x \in Here(L, p)
  BY <1>1 DEF HeapInv, PagesInv, Here
<1>3. SmallSound(p, b, h.cells[p], Here(L, p)) \/ BigSound(p, b, h.cells[p], Here(L, p))
  BY <1>2 DEF Sound, Unused
<1>4. CASE SmallSound(p, b, h.cells[p], Here(L, p))
  <2>1. b \in 0 .. BIG_BIN - 1 /\ x.ptr \in CellSet(p, b)
    BY <1>2, <1>4 DEF SmallSound, IsSmall
  <2>2. a = x.ptr
    BY <1>1, <2>1, HomeFound
  <2>3. b # Nil /\ ~ (b > NUM_BINS)
    BY <2>1, Constants
  <2> DEFINE list == IF h.cells[p] = <<>> THEN <<p>> \o h.bins[b] ELSE h.bins[b]
             g == [h EXCEPT !.bins[b] = list, !.cells[p] = <<x.ptr>> \o @]
  <2>4. KfreeAt(h, a, top) = g
    BY <2>1, <2>2, <2>3 DEF KfreeAt, HeapInv, Typed
  <2>5. g.brk = h.brk
    OBVIOUS
  <2>6. HeapInv(g, L \ {x})
    <3>. HIDE DEF p
    <3>. QED  BY <1>1, <1>4, <2>1, KfreeSmallKeeps
  <2>. HIDE DEF g, a
  <2>. QED  BY <1>1, <2>4, <2>5, <2>6
<1>5. CASE BigSound(p, b, h.cells[p], Here(L, p))
  <2>1. b \in Nat /\ IsBig(b) /\ h.cells[p] = <<>> /\ Here(L, p) = {x}
    BY <1>2, <1>5 DEF BigSound
  <2>2. p \in Pages /\ HomeOf(x) = p /\ PageOf(a) = p
    BY <1>1
  <2>. HIDE DEF p, a
  <2>3. HeapInv(KfreeAt(h, a, top), L \ {x}) /\ KfreeAt(h, a, top).brk = h.brk
    BY <2>1, <2>2, KfreeBigKeeps, SMTT(30)
  <2>. QED  BY <1>1, <2>3
<1>. QED  BY <1>3, <1>4, <1>5

(* realloc within the block                                                *)
LEMMA ResizeKeeps ==
  ASSUME NEW h, NEW L, HeapInv(h, L), NEW x \in L, NEW n \in Nat \ {0},
         x.ptr % PAGE_SIZE # 0, n <= Room(h, x.ptr)
  PROVE  HeapInv(h, (L \ {x}) \cup {Block(x.ptr, n)})
<1> DEFINE p == HomeOf(x)
           b == h.bucket[p]
           y == Block(x.ptr, n)
           M == (L \ {x}) \cup {y}
<1>1. /\ p \in Pages /\ PageOf(x.ptr) = p /\ x.ptr \in Nat /\ x \in Here(L, p)
      /\ Sound(p, b, h.cells[p], Here(L, p))
  BY DEF HeapInv, PagesInv, HomeOf, Here
<1>2. y.ptr = x.ptr /\ y.size = n /\ y \in [ptr : Nat, size : Nat \ {0}]
  BY <1>1 DEF Block
<1>3. HomeOf(y) = p
  BY <1>2 DEF HomeOf
<1>4. Room(h, x.ptr) = IF b < BIG_BIN THEN CellSize(b) ELSE b
  BY <1>1 DEF Room
<1>. HIDE DEF y, p
<1>5. /\ Here(M, p) = (Here(L, p) \ {x}) \cup {y}
      /\ \A q \in Pages \ {p} : Here(M, q) = Here(L, q)
  BY <1>3 DEF Here, p
<1>6. Sound(p, b, h.cells[p], Here(M, p))
  <2>1. SmallSound(p, b, h.cells[p], Here(L, p)) \/ BigSound(p, b, h.cells[p], Here(L, p))
    BY <1>1 DEF Sound, Unused
  <2>2. CASE SmallSound(p, b, h.cells[p], Here(L, p))
    <3>1. n <= CellSize(b)
      BY <1>4, <2>2, Constants DEF SmallSound, IsSmall
    <3>2. SmallSound(p, b, h.cells[p], (Here(L, p) \ {x}) \cup {y})
      BY <1>1, <1>2, <2>2, <3>1 DEF SmallSound
    <3>. QED  BY <1>5, <3>2 DEF Sound
  <2>3. CASE BigSound(p, b, h.cells[p], Here(L, p))
    <3>1. /\ b \in Nat /\ IsBig(b) /\ h.cells[p] = <<>> /\ Here(L, p) = {x}
          /\ BigUse(p, b, x)
      BY <1>1, <2>3 DEF BigSound
    <3>2. n <= b
      BY <1>4, <3>1, Constants DEF IsBig
    <3>3. x.ptr = BigCell(p)
      BY <1>1, <3>1, HomeFound DEF BigUse
    <3>4. BigUse(p, b, y)
      BY <1>2, <3>2, <3>3 DEF BigUse
    <3>5. Here(M, p) = {y}
      BY <1>5, <3>1
    <3>. QED  BY <3>1, <3>4, <3>5 DEF Sound, BigSound
  <2>. QED  BY <2>1, <2>2, <2>3
<1>7. M \subseteq [ptr : Nat, size : Nat \ {0}] /\ \A z \in M : HomeOf(z) \in Pages
  BY <1>1, <1>2, <1>3 DEF HeapInv, PagesInv
<1>8. PagesInv(h, L) /\ p \in Pages /\ \A q \in Pages \ {p} : Here(M, q) = Here(L, q)
  BY <1>1, <1>5 DEF HeapInv
<1>. HIDE DEF M
<1>9. PagesInv(h, M)
  BY <1>6, <1>7, <1>8, PagesSame
<1>. QED  BY <1>9 DEF HeapInv, M, y

(* The end of the heap is where malloc left it.                            *)
LEMMA KfreeEnd ==
  ASSUME NEW h, Typed(h), NEW n, NEW a, NEW top
  PROVE  Kfree(Kmalloc(h, n).heap, a, top).brk = Kmalloc(h, n).heap.brk
<1>1. "brk" \in DOMAIN Kmalloc(h, n).heap
  <2>1. "brk" \in DOMAIN h
    BY DEF Typed
  <2>2. \A b : DOMAIN MallocSmall(h, b).heap = DOMAIN h
    BY DEF MallocSmall
  <2>3. \A p : DOMAIN Delete(h, p) = DOMAIN h
    BY DEF Delete
  <2>4. DOMAIN MallocBig(h, n).heap = DOMAIN h
    BY <2>3 DEF MallocBig
  <2>. QED  BY <2>1, <2>2, <2>4 DEF Kmalloc
<1>2. ASSUME NEW g, "brk" \in DOMAIN g, NEW c PROVE KfreeAt(g, c, top).brk = g.brk
  <2>1. \A d, v : "brk" \in DOMAIN d => Insert(d, v, top).brk = d.brk
    BY DEF Insert
  <2> DEFINE p == PageOf(c)
             d == [g EXCEPT !.cells[p] = <<Address(p) + BigHeader>> \o @]
  <2>2. "brk" \in DOMAIN d /\ d.brk = g.brk
    BY <1>2
  <2>. HIDE DEF d
  <2>3. Insert(d, p, top).brk = g.brk
    BY <2>1, <2>2
  <2>. QED  BY <1>2, <2>3 DEF KfreeAt, d
<1>. QED  BY <1>1, <1>2 DEF Kfree

-----------------------------------------------------------------------------
(* The invariant.                                                          *)

Inv == /\ HeapInv(heap, live) /\ heap.brk \in 0 .. MaxPages /\ held \in BOOLEAN

LEMMA InitInv == Init => Inv
<1> SUFFICES ASSUME Init PROVE Inv
  OBVIOUS
<1>1. /\ heap.brk = 0 /\ heap.level = 0 /\ live = {} /\ held = FALSE
      /\ heap.bucket = [p \in Pages |-> Nil] /\ heap.cells = [p \in Pages |-> <<>>]
      /\ heap.bins = [b \in 0 .. BIG_BIN - 1 |-> <<>>]
      /\ heap.forward = [n \in Pages \cup {List} |-> [i \in Levels |-> Nil]]
  BY DEF Init
<1>2. Typed(heap)
  <2>1. \A S : <<>> \in Seq(S)
    OBVIOUS
  <2>. QED  BY <1>1, <2>1, Constants DEF Init, Typed
<1>3. \A p \in Pages : heap.bucket[p] = Nil /\ heap.cells[p] = <<>>
  BY <1>1
<1>4. PagesInv(heap, live)
  BY <1>1, <1>3 DEF PagesInv, Sound, Unused, Here
<1>5. LayoutInv(heap)
  BY <1>3 DEF LayoutInv
<1>6. BinsInv(heap)
  <2>1. \A b \in 0 .. BIG_BIN - 1 : heap.bins[b] = <<>>
    BY <1>1
  <2>2. \A b \in 0 .. BIG_BIN - 1 :
          {p \in Pages : heap.bucket[p] = b /\ heap.cells[p] # <<>>} = {}
    BY <1>3
  <2>. QED  BY <2>1, <2>2, EmptyMembers DEF BinsInv
<1>7. SkipInv(heap)
  <2> DEFINE rank == [p \in Pages |-> 0]
             on == [i \in Levels |-> {}]
  <2>1. /\ rank \in [Pages -> Nat] /\ on \in [Levels -> SUBSET Pages]
        /\ \A i \in Levels : on[i] = {}
    OBVIOUS
  <2>2. \A i \in Levels : heap.forward[List][i] = Nil
    BY <1>1
  <2>3. \A i \in Levels : i < SKIP_MAX_LEVEL => i + 1 \in Levels
    BY Constants DEF Levels
  <2>4. on[0] = {} /\ FreePages(heap) = {}
    BY <1>3, <2>1, Constants DEF FreePages
  <2>. HIDE DEF rank, on
  <2>5. Linked(heap, rank, on)
    BY <2>1, <2>2, <2>3, <2>4 DEF Linked, IsNext
  <2>. QED  BY <2>4, <2>5 DEF SkipInv
<1>8. heap.brk \in 0 .. MaxPages /\ held \in BOOLEAN
  <2>1. heap.brk = 0 /\ held = FALSE
    BY <1>1
  <2>2. 0 \in 0 .. MaxPages
    BY Constants
  <2>. QED  BY <2>1, <2>2
<1>. QED  BY <1>2, <1>4, <1>5, <1>6, <1>7, <1>8 DEF Inv, HeapInv

(* The sizes that are asked for have fewer than 30 bits.                   *)
LEMMA SizesFit ==
  /\ \A n \in Sizes : n \in Nat \ {0} /\ n < 2 ^ 30 /\ ValSize(n) < 2 ^ 30
  /\ \A n \in Resizes : n \in Nat /\ n < 2 ^ 30
<1> DEFINE E == 2 ^ 30
<1>1. E \in Nat
  OBVIOUS
<1>. HIDE DEF E
<1>2. \A n \in Sizes \cup Resizes : n \in Nat /\ n + PAGE_SIZE < E
  BY HeapAssumption, SizeAssumption DEF E
<1>3. \A n \in Sizes : n # 0
  BY HeapAssumption
<1>4. \A n \in Sizes \cup Resizes : n < E /\ ValSize(n) < E
  BY <1>1, <1>2, Constants DEF ValSize
<1>. QED  BY <1>2, <1>3, <1>4 DEF E

LEMMA NextInv == Inv /\ [Next]_vars => Inv'
<1> SUFFICES ASSUME Inv, [Next]_vars PROVE Inv'
  OBVIOUS
<1>0. HeapInv(heap, live) /\ Typed(heap) /\ heap.brk \in 0 .. MaxPages /\ held \in BOOLEAN
  BY DEF Inv, HeapInv
<1>1. ASSUME NEW h, HeapInv(h, live'), Returns(h, live') PROVE Inv'
  <2>1. h.brk \in 0 .. MaxPages
    BY <1>1, Constants DEF Returns, HeapInv, Typed
  <2>. QED  BY <1>0, <1>1, <2>1 DEF Returns, Inv
<1>2. ASSUME NEW n \in Sizes, Malloc(n) PROVE Inv'
  <2> DEFINE r == Kmalloc(heap, n)
  <2>1. live' = live \cup {Block(r.ptr, n)} /\ Returns(r.heap, live')
    BY <1>2 DEF Malloc, Returns
  <2>2. HeapInv(r.heap, live')
    BY <1>0, <2>1, SizesFit, KmallocKeeps DEF Returns
  <2>. QED  BY <1>1, <2>1, <2>2
<1>3. ASSUME NEW n \in Sizes, Valloc(n) PROVE Inv'
  <2> DEFINE r == Kmalloc(heap, ValSize(n))
  <2>1. live' = live \cup {Block(r.ptr + PAGE_SIZE - BigHeader, n)} /\ Returns(r.heap, live')
    BY <1>3 DEF Valloc, Returns
  <2>2. HeapInv(r.heap, live')
    BY <1>0, <2>1, SizesFit, KvallocKeeps DEF Returns
  <2>. QED  BY <1>1, <2>1, <2>2
<1>4. ASSUME NEW b \in live, NEW top \in Levels, Free(b, top) PROVE Inv'
  <2>1. live' = live \ {b} /\ Returns(Kfree(heap, b.ptr, top), live')
    BY <1>4 DEF Free, Returns
  <2>2. HeapInv(Kfree(heap, b.ptr, top), live')
    BY <1>0, <2>1, KfreeKeeps
  <2>. QED  BY <1>1, <2>1, <2>2
<1>5. ASSUME NEW b \in live, NEW top \in Levels, NEW n \in Resizes, Realloc(b, n, top)
      PROVE  Inv'
  <2>0. n \in Nat \ {0} /\ n < 2 ^ 30 /\ b.ptr % PAGE_SIZE # 0
    BY <1>5, SizesFit DEF Realloc
  <2>1. CASE Room(heap, b.ptr) >= n
    <3>1. live' = (live \ {b}) \cup {Block(b.ptr, n)} /\ Returns(heap, live')
      BY <1>5, <2>1 DEF Realloc, Returns
    <3>2. n <= Room(heap, b.ptr)
      BY <2>1
    <3>3. HeapInv(heap, live')
      BY <1>0, <2>0, <3>1, <3>2, ResizeKeeps
    <3>. QED  BY <1>1, <3>1, <3>3
  <2>2. CASE ~ (Room(heap, b.ptr) >= n)
    <3> DEFINE r == Kmalloc(heap, n)
               x == Block(r.ptr, n)
               g == Kfree(r.heap, b.ptr, top)
    <3>1. live' = (live \ {b}) \cup {x} /\ Returns(g, live')
      BY <1>5, <2>2 DEF Realloc, Returns
    <3>2. r.heap.brk <= MaxPages
      BY <1>0, <3>1, KfreeEnd DEF Returns
    <3>3. HeapInv(r.heap, live \cup {x}) /\ \A y \in live : y.ptr # r.ptr
      BY <1>0, <2>0, <3>2, KmallocKeeps
    <3>4. (live \cup {x}) \ {b} = live' /\ b \in live \cup {x}
      BY <3>1, <3>3 DEF Block
    <3>. HIDE DEF r, x
    <3>5. HeapInv(g, (live \cup {x}) \ {b})
      BY <3>3, <3>4, KfreeKeeps
    <3>. QED  BY <1>1, <3>1, <3>4, <3>5
  <2>. QED  BY <2>1, <2>2
<1>6. ASSUME NEW b \in live, ReallocZero(b) PROVE Inv'
  BY <1>0, <1>6 DEF ReallocZero, Inv
<1>7. CASE UNCHANGED vars
  BY <1>7, <1>0 DEF vars, Inv
<1>. QED  BY <1>2, <1>3, <1>4, <1>5, <1>6, <1>7 DEF Next

(* The invariant holds under every call of alloc.cpp: each leaves pages,   *)
(* stacks, lists and links as it says.                                     *)
THEOREM InvHolds == Spec => []Inv
  BY InitInv, NextInv, PTL DEF Spec

-----------------------------------------------------------------------------
(* What the invariant says of a block in use.                              *)
LEMMA BlockPlace ==
  ASSUME NEW h, NEW L, HeapInv(h, L), NEW x \in L
  PROVE  LET p == HomeOf(x)
             b == h.bucket[p]
         IN /\ p \in Pages /\ x \in Here(L, p) /\ b # Nil /\ x.ptr \in Nat /\ x.size \in Nat
            /\ \/ SmallSound(p, b, h.cells[p], Here(L, p)) /\ x.ptr % PAGE_SIZE # 0
               \/ /\ BigSound(p, b, h.cells[p], Here(L, p)) /\ BigUse(p, b, x)
                  /\ Here(L, p) = {x} /\ h.cells[p] = <<>>
            /\ IF x.ptr % PAGE_SIZE # 0 THEN PageOf(x.ptr) = p
               ELSE /\ x.ptr = Address(p + 1) /\ PageOf(x.ptr) = p + 1
                    /\ 2 <= Span(h, p)
<1> DEFINE p == HomeOf(x)
           b == h.bucket[p]
<1>1. /\ p \in Pages /\ x.ptr \in Nat /\ x.size \in Nat \ {0} /\ x \in Here(L, p)
      /\ Sound(p, b, h.cells[p], Here(L, p)) /\ LayoutInv(h)
  BY DEF HeapInv, PagesInv, Here
<1>2. SmallSound(p, b, h.cells[p], Here(L, p)) \/ BigSound(p, b, h.cells[p], Here(L, p))
  BY <1>1 DEF Sound, Unused
<1>3. x.ptr % PAGE_SIZE # 0 => PageOf(x.ptr) = p
  BY DEF HomeOf
<1>. HIDE DEF p
<1>4. CASE SmallSound(p, b, h.cells[p], Here(L, p))
  <2>1. b \in 0 .. BIG_BIN - 1 /\ x.ptr \in CellSet(p, b)
    BY <1>1, <1>4 DEF SmallSound, IsSmall
  <2>2. x.ptr % PAGE_SIZE # 0 /\ b # Nil
    BY <1>1, <2>1, HomeFound, Constants
  <2>. QED  BY <1>1, <1>3, <1>4, <2>2 DEF p
<1>5. CASE BigSound(p, b, h.cells[p], Here(L, p))
  <2>1. /\ b \in Nat /\ IsBig(b) /\ b # Nil /\ h.cells[p] = <<>> /\ Here(L, p) = {x}
        /\ BigUse(p, b, x)
    BY <1>1, <1>5 DEF BigSound, IsBig
  <2>2. ASSUME ~ (x.ptr % PAGE_SIZE # 0)
        PROVE  x.ptr = Address(p + 1) /\ PageOf(x.ptr) = p + 1 /\ 2 <= Span(h, p)
    <3>1. x.ptr = Address(p + 1) /\ ValSize(x.size) <= b
      BY <1>1, <2>1, <2>2, HomeFound DEF BigUse
    <3>2. PageOf(x.ptr) = p + 1
      BY <1>1, <3>1, HomeFound
    <3>3. Span(h, p) \in Nat \ {0} /\ b + BigHeader = Address(Span(h, p))
      BY <1>1, <2>1 DEF LayoutInv
    <3>4. PAGE_SIZE < Address(Span(h, p))
      BY <1>1, <2>1, <3>1, <3>3, Constants DEF ValSize
    <3>5. Address(1) = PAGE_SIZE
      BY Constants DEF Address
    <3>6. Span(h, p) # 1
      <4>. HIDE DEF Span
      <4>. QED  BY <3>4, <3>5, Constants
    <3>. HIDE DEF Span
    <3>. QED  BY <3>1, <3>2, <3>3, <3>6
  <2>. QED  BY <1>1, <1>3, <1>5, <2>1, <2>2 DEF p
<1>. QED  BY <1>2, <1>4, <1>5

(* The blocks that a reader of the addresses finds on a page are its own.  *)
LEMMA LiveFound ==
  ASSUME Inv, NEW p \in Headed
  PROVE  LiveOn(p) = Here(live, p)
<1>1. HeapInv(heap, live) /\ p \in Pages /\ heap.bucket[p] # Nil /\ p \in Nat
  BY DEF Inv, Headed, Pages
<1>2. ASSUME NEW x \in live
      PROVE  PageOf(x.ptr) = p \/ x.ptr = Address(p + 1) <=> HomeOf(x) = p
  <2> DEFINE q == HomeOf(x)
  <2>1. /\ q \in Pages /\ heap.bucket[q] # Nil
        /\ IF x.ptr % PAGE_SIZE # 0 THEN PageOf(x.ptr) = q
           ELSE x.ptr = Address(q + 1) /\ PageOf(x.ptr) = q + 1 /\ 2 <= Span(heap, q)
    BY <1>1, BlockPlace
  <2>. HIDE DEF q
  <2>2. CASE x.ptr % PAGE_SIZE # 0
    <3>1. x.ptr # Address(p + 1)
      BY <1>1, <2>2, HomeFound
    <3>. QED  BY <2>1, <2>2, <3>1 DEF q
  <2>3. CASE x.ptr % PAGE_SIZE = 0
    <3>1. q \in Nat /\ q # p => p # q + 1
      <4>1. Span(heap, q) \in Nat /\ (q < p => q + Span(heap, q) <= p)
        BY <1>1, <2>1 DEF HeapInv, LayoutInv
      <4>. HIDE DEF Span
      <4>. QED  BY <1>1, <2>1, <2>3, <4>1
    <3>2. q \in Nat
      BY <2>1 DEF Pages
    <3>3. x.ptr = Address(p + 1) => q = p
      <4>1. x.ptr = Address(p + 1) => PageOf(x.ptr) = p + 1
        BY <1>1, HomeFound
      <4>. QED  BY <1>1, <2>1, <2>3, <3>2, <4>1
    <3>. QED  BY <1>1, <2>1, <2>3, <3>1, <3>2, <3>3 DEF q
  <2>. QED  BY <2>2, <2>3
<1>. QED  BY <1>2 DEF LiveOn, Here

LEMMA InvListed == Inv => PagesListed
  BY Constants DEF Inv, HeapInv, BinsInv, PagesListed, Headed

LEMMA InvAccounted == Inv => CellsAccounted
<1> SUFFICES ASSUME Inv, NEW p \in Headed
             PROVE  LET free == ToSet(heap.cells[p])
                        used == {b.ptr : b \in Here(live, p)}
                    IN /\ IsInjective(heap.cells[p])
                       /\ IF p \in Big THEN Cardinality(free) + Cardinality(used) = 1
                          ELSE /\ free \cap used = {}
                               /\ free \cup used = ToSet(FreshCells(p, heap.bucket[p]))
  BY LiveFound DEF CellsAccounted
<1> DEFINE free == ToSet(heap.cells[p])
           used == {b.ptr : b \in Here(live, p)}
<1>1. p \in Pages /\ heap.bucket[p] # Nil
  BY DEF Headed
<1>2. Sound(p, heap.bucket[p], heap.cells[p], Here(live, p))
  BY <1>1 DEF Inv, HeapInv, PagesInv
<1>3. CASE SmallSound(p, heap.bucket[p], heap.cells[p], Here(live, p))
  <2>1. p \notin Big
    BY <1>3, Constants DEF SmallSound, IsSmall, Big
  <2>2. /\ IsInjective(heap.cells[p]) /\ free \cap used = {}
        /\ free \cup used = CellSet(p, heap.bucket[p])
    BY <1>3 DEF SmallSound
  <2>. QED  BY <2>1, <2>2 DEF CellSet
<1>4. CASE BigSound(p, heap.bucket[p], heap.cells[p], Here(live, p))
  <2>1. p \in Big
    BY <1>4 DEF BigSound, IsBig, Big
  <2>2. IsInjective(heap.cells[p])
        /\ \/ \E c : free = {c} /\ used = {}
           \/ \E c : free = {} /\ used = {c}
    <3>1. CASE heap.cells[p] = <<BigCell(p)>> /\ Here(live, p) = {}
      <4>1. ToSet(<<BigCell(p)>>) = {BigCell(p)} /\ IsInjective(<<BigCell(p)>>)
        BY OneMember
      <4>. QED  BY <3>1, <4>1
    <3>2. CASE heap.cells[p] = <<>> /\ \E x : Here(live, p) = {x}
      <4>1. PICK x : Here(live, p) = {x}
        BY <3>2
      <4>2. used = {x.ptr}
        BY <4>1
      <4>. QED  BY <3>2, <4>2, EmptyMembers
    <3>. QED  BY <1>4, <3>1, <3>2 DEF BigSound
  <2>3. /\ Cardinality({}) = 0 /\ \A c : Cardinality({c}) = 1
    BY FS_EmptySet, FS_Singleton
  <2>. HIDE DEF free, used
  <2>4. Cardinality(free) + Cardinality(used) = 1
    <3>1. \/ Cardinality(free) = 1 /\ Cardinality(used) = 0
          \/ Cardinality(free) = 0 /\ Cardinality(used) = 1
      BY <2>2, <2>3, Zenon
    <3>. QED  BY <3>1
  <2>. QED  BY <2>1, <2>2, <2>4 DEF free, used
<1>. QED  BY <1>1, <1>2, <1>3, <1>4 DEF Sound, Unused

LEMMA InvTyped == Inv => TypeOK
  BY DEF Inv, HeapInv, Typed, PagesInv, TypeOK

(* What the ranges of a page p are.                                        *)
HeaderOf(p) == Block(Address(p), IF p \in Big THEN BigHeader ELSE Header)
Link(c) == Block(c, 2 ^ SMALLEST_BIN_LOG)
RangesOf(p) == {HeaderOf(p)} \cup Here(live, p) \cup {Link(c) : c \in ToSet(heap.cells[p])}

LEMMA RangesFound ==
  ASSUME Inv
  PROVE  \A a \in Ranges : \E p \in Headed : a \in RangesOf(p)
<1>1. HeapInv(heap, live)
  BY DEF Inv
<1>2. ASSUME NEW a \in live PROVE \E p \in Headed : a \in RangesOf(p)
  BY <1>1, BlockPlace DEF Headed, RangesOf
<1>3. ASSUME NEW p \in Headed PROVE HeaderOf(p) \in RangesOf(p)
  BY DEF RangesOf
<1>4. ASSUME NEW p \in Pages, NEW c \in ToSet(heap.cells[p])
      PROVE  p \in Headed /\ Link(c) \in RangesOf(p)
  <2>1. Sound(p, heap.bucket[p], heap.cells[p], Here(live, p))
    BY <1>1 DEF HeapInv, PagesInv
  <2>2. heap.bucket[p] # Nil
    <3>1. heap.cells[p] # <<>>
      BY EmptyMembers
    <3>. QED  BY <2>1, <3>1, Constants DEF Sound, Unused, SmallSound, BigSound, IsSmall, IsBig
  <2>. QED  BY <2>2 DEF Headed, RangesOf
<1>5. \A a \in Ranges : \/ a \in live
                        \/ \E p \in Headed : a = HeaderOf(p)
                        \/ \E p \in Pages : \E c \in ToSet(heap.cells[p]) : a = Link(c)
  BY DEF Ranges, HeaderOf, Link
<1>. QED  BY <1>2, <1>3, <1>4, <1>5

Before(a, b) == a.ptr + a.size <= b.ptr

(* The ranges of a page lie in the pages of its block, one behind another. *)
LEMMA RangesOfPage ==
  ASSUME Inv, NEW p \in Headed
  PROVE  /\ \A a \in RangesOf(p) : /\ a.ptr \in Nat /\ a.size \in Nat
                                   /\ Address(p) <= a.ptr
                                   /\ a.ptr + a.size <= Address(p + Span(heap, p))
         /\ \A a, b \in RangesOf(p) : a # b => Before(a, b) \/ Before(b, a)
<1> DEFINE b == heap.bucket[p]
           A == Address(p)
           head == HeaderOf(p)
           S == RangesOf(p)
           end == Address(p + Span(heap, p))
<1>1. /\ HeapInv(heap, live) /\ p \in Pages /\ b # Nil /\ p \in Nat /\ A \in Nat
      /\ Address(p + 1) = A + PAGE_SIZE
  <2>1. p \in Pages /\ b # Nil /\ p \in Nat
    BY DEF Headed, Pages
  <2>. QED  BY <2>1, Addresses DEF Inv
<1>2. Sound(p, b, heap.cells[p], Here(live, p))
  BY <1>1 DEF HeapInv, PagesInv
<1>3. \A x \in Here(live, p) : x.size \in Nat
  BY <1>1 DEF HeapInv, PagesInv, Here
<1>4. CASE SmallSound(p, b, heap.cells[p], Here(live, p))
  <2> DEFINE c == CellSize(b)
             l == 2 ^ SMALLEST_BIN_LOG
             Cell(a) == /\ a.ptr \in CellSet(p, b) /\ a.size \in Nat /\ a.size <= c
  <2>0. b \in 0 .. BIG_BIN - 1 /\ p \notin Big /\ b < NUM_BINS
    BY <1>4, Constants DEF SmallSound, IsSmall, Big
  <2>1. head.ptr = A /\ head.size = Header
    BY <2>0 DEF HeaderOf, Block
  <2>2. Span(heap, p) = 1 /\ end = A + PAGE_SIZE
    BY <1>1, <2>0, Constants DEF Span
  <2>3. c \in Nat \ {0} /\ l \in Nat \ {0} /\ l <= c
    BY <2>0, CellFits
  <2>4. /\ \A e \in CellSet(p, b) : e \in Nat /\ A + Header <= e /\ e + c <= A + PAGE_SIZE
        /\ \A e, d \in CellSet(p, b) : e < d => e + c <= d
    BY <1>1, <2>0, CellsOfPage
  <2>5. \A a \in S : a = head \/ a \in Here(live, p)
                     \/ \E e \in ToSet(heap.cells[p]) : a = Link(e)
    BY DEF RangesOf
  <2>6. \A x \in Here(live, p) : Cell(x) /\ x.ptr \notin ToSet(heap.cells[p])
    BY <1>3, <1>4 DEF SmallSound
  <2>7. \A e \in ToSet(heap.cells[p]) : Cell(Link(e)) /\ Link(e).ptr = e
    <3>1. \A e : Link(e).ptr = e /\ Link(e).size = l
      BY DEF Link, Block
    <3>2. \A e \in ToSet(heap.cells[p]) : e \in CellSet(p, b)
      BY <1>4 DEF SmallSound
    <3>. HIDE DEF c, l
    <3>. QED  BY <2>3, <3>1, <3>2
  <2>8. \A x, y \in Here(live, p) : x.ptr = y.ptr => x = y
    BY <1>4 DEF SmallSound
  <2>. HIDE DEF c, l, S, head, A, b, end
  <2>9. \A a \in S : a = head \/ Cell(a)
    BY <2>5, <2>6, <2>7
  <2>10. \A a, d \in S : a # head /\ d # head /\ a.ptr = d.ptr => a = d
    BY <2>5, <2>6, <2>7, <2>8
  <2>11. \A a : Cell(a) => /\ a.ptr \in Nat /\ a.size \in Nat
                           /\ A <= a.ptr /\ a.ptr + a.size <= end
                           /\ Before(head, a)
    BY <1>1, <2>1, <2>2, <2>3, <2>4, Constants DEF Before
  <2>12. head.ptr \in Nat /\ head.size \in Nat /\ A <= head.ptr /\ head.ptr + head.size <= end
    BY <1>1, <2>1, <2>2, Constants
  <2>13. ASSUME NEW a, NEW d, Cell(a), Cell(d), a.ptr # d.ptr
         PROVE  Before(a, d) \/ Before(d, a)
    <3>1. a.ptr < d.ptr \/ d.ptr < a.ptr
      BY <2>4, <2>13
    <3>. QED  BY <2>3, <2>4, <2>13, <3>1 DEF Before
  <2>14. \A a, d \in S : a # d => Before(a, d) \/ Before(d, a)
    <3>. HIDE DEF Cell
    <3>. QED  BY <2>9, <2>10, <2>11, <2>13
  <2>15. \A a \in S : /\ a.ptr \in Nat /\ a.size \in Nat /\ A <= a.ptr
                      /\ a.ptr + a.size <= end
    <3>. HIDE DEF Cell
    <3>. QED  BY <2>9, <2>11, <2>12
  <2>. QED  BY <2>14, <2>15 DEF S, A, end
<1>5. CASE BigSound(p, b, heap.cells[p], Here(live, p))
  <2> DEFINE l == 2 ^ SMALLEST_BIN_LOG
             sp == Span(heap, p)
             Fits(a) == /\ a.ptr \in Nat /\ a.size \in Nat /\ A + BigHeader <= a.ptr
                        /\ a.ptr + a.size <= A + (b + BigHeader)
  <2>0. b \in Nat /\ p \in Big /\ IsBig(b)
    BY <1>1, <1>5 DEF BigSound, IsBig, Big
  <2>1. head.ptr = A /\ head.size = BigHeader
    BY <2>0 DEF HeaderOf, Block
  <2>2. sp \in Nat \ {0} /\ b + BigHeader = Address(sp)
    BY <1>1, <2>0 DEF HeapInv, LayoutInv
  <2>. HIDE DEF sp
  <2>3. Address(p + sp) = A + (b + BigHeader)
    <3>1. \A q \in Nat : Address(p + q) = A + Address(q)
      BY <1>1, Addresses
    <3>. QED  BY <2>2, <3>1
  <2>4. l \in Nat \ {0} /\ l <= b
    <3>1. 0 \in 0 .. BIG_BIN - 1
      BY Constants
    <3>2. /\ CellSize(0) \in Nat /\ CellSize(0) <= PAGE_SIZE - BigHeader
          /\ l \in Nat \ {0} /\ l <= CellSize(0)
      BY <3>1, CellFits
    <3>3. PAGE_SIZE <= Address(sp)
      <4>1. Address(1) = PAGE_SIZE
        BY Constants DEF Address
      <4>2. 1 <= sp
        BY <2>2
      <4>. QED  BY <2>2, <4>1, <4>2, Addresses
    <3>. HIDE DEF l
    <3>. QED  BY <2>0, <2>2, <3>2, <3>3, Constants
  <2>5. \E e : S = {head, e} /\ Fits(e)
    <3>1. CASE heap.cells[p] = <<BigCell(p)>> /\ Here(live, p) = {}
      <4>1. ToSet(<<BigCell(p)>>) = {BigCell(p)}
        BY OneMember
      <4>2. S = {head, Link(BigCell(p))}
        BY <3>1, <4>1 DEF RangesOf
      <4>3. Link(BigCell(p)).ptr = BigCell(p) /\ Link(BigCell(p)).size = l
        BY DEF Link, Block
      <4>. HIDE DEF S, head, l
      <4>4. Fits(Link(BigCell(p)))
        BY <1>1, <2>0, <2>4, <4>3, Constants DEF BigCell
      <4>. QED  BY <4>2, <4>4
    <3>2. ASSUME NEW x, heap.cells[p] = <<>>, Here(live, p) = {x}, BigUse(p, b, x)
          PROVE  \E e : S = {head, e} /\ Fits(e)
      <4>1. S = {head, x}
        BY <3>2, EmptyMembers DEF RangesOf
      <4>2. x.size \in Nat
        BY <1>3, <3>2
      <4>3. \/ x.ptr = A + BigHeader /\ x.size <= b
            \/ x.ptr = A + PAGE_SIZE /\ x.size + PAGE_SIZE - BigHeader <= b
        BY <1>1, <3>2 DEF BigUse, BigCell, ValSize
      <4>. HIDE DEF S, head, l, A, b
      <4>4. Fits(x)
        BY <1>1, <2>0, <4>2, <4>3, Constants
      <4>. QED  BY <4>1, <4>4
    <3>. QED  BY <1>5, <3>1, <3>2 DEF BigSound
  <2>. HIDE DEF S, head, A, b
  <2>6. PICK e : S = {head, e} /\ Fits(e)
    BY <2>5
  <2>7. Before(head, e)
    BY <1>1, <2>1, <2>6, Constants DEF Before
  <2>8. \A a \in S : /\ a.ptr \in Nat /\ a.size \in Nat /\ A <= a.ptr
                     /\ a.ptr + a.size <= A + (b + BigHeader)
    <3>1. head.ptr \in Nat /\ head.size \in Nat /\ A <= head.ptr
          /\ head.ptr + head.size <= A + (b + BigHeader)
      BY <1>1, <2>0, <2>1, Constants
    <3>2. e.ptr \in Nat /\ e.size \in Nat /\ A <= e.ptr
          /\ e.ptr + e.size <= A + (b + BigHeader)
      BY <1>1, <2>6, Constants
    <3>. QED  BY <2>6, <3>1, <3>2
  <2>9. \A a, d \in S : a # d => Before(a, d) \/ Before(d, a)
    BY <2>6, <2>7
  <2>. QED  BY <2>3, <2>8, <2>9 DEF S, A, b, sp
<1>. QED  BY <1>1, <1>2, <1>4, <1>5 DEF Sound, Unused

LEMMA InvApart == Inv => NoOverlap
<1> SUFFICES ASSUME Inv PROVE NoOverlap
  OBVIOUS
<1>1. ASSUME NEW p \in Headed
      PROVE  /\ p \in Nat /\ Span(heap, p) \in Nat /\ p + Span(heap, p) <= heap.brk + 1
             /\ Address(p) \in Nat /\ Address(p + Span(heap, p)) \in Nat
             /\ Address(p + Span(heap, p)) <= Address(heap.brk + 1)
             /\ \A q \in Headed : p < q => Address(p + Span(heap, p)) <= Address(q)
  <2>1. /\ p \in Nat /\ Span(heap, p) \in Nat /\ p + Span(heap, p) <= heap.brk + 1
        /\ \A q \in Headed : q \in Nat /\ (p < q => p + Span(heap, p) <= q)
    BY DEF Inv, HeapInv, LayoutInv, Headed, Pages
  <2>2. heap.brk + 1 \in Nat
    BY DEF Inv
  <2>. HIDE DEF Span
  <2>3. p + Span(heap, p) \in Nat
    BY <2>1
  <2>4. \A m, q \in Nat : m <= q => Address(m) <= Address(q)
    BY Addresses
  <2>5. \A m \in Nat : Address(m) \in Nat
    BY Addresses
  <2>. QED  BY <2>1, <2>2, <2>3, <2>4, <2>5
<1>2. ASSUME NEW a \in Ranges
      PROVE  \E p \in Headed : /\ a \in RangesOf(p) /\ a.ptr \in Nat /\ a.size \in Nat
                               /\ Address(p) <= a.ptr
                               /\ a.ptr + a.size <= Address(p + Span(heap, p))
  BY RangesFound, RangesOfPage
<1>3. Address(heap.brk + 1) \in Nat
  <2>1. heap.brk + 1 \in Nat
    BY DEF Inv
  <2>. QED  BY <2>1, Addresses
<1>. HIDE DEF Span
<1>4. ASSUME NEW a \in Ranges PROVE a.ptr + a.size <= Address(heap.brk + 1)
  <2>1. PICK p \in Headed : /\ a.ptr \in Nat /\ a.size \in Nat
                            /\ a.ptr + a.size <= Address(p + Span(heap, p))
    BY <1>2
  <2>2. /\ Address(p + Span(heap, p)) \in Nat
        /\ Address(p + Span(heap, p)) <= Address(heap.brk + 1)
    BY <1>1
  <2>. QED  BY <1>3, <2>1, <2>2
<1>5. ASSUME NEW a \in Ranges, NEW b \in Ranges, a # b PROVE Before(a, b) \/ Before(b, a)
  <2>1. PICK p \in Headed : /\ a \in RangesOf(p) /\ a.ptr \in Nat /\ a.size \in Nat
                            /\ Address(p) <= a.ptr
                            /\ a.ptr + a.size <= Address(p + Span(heap, p))
    BY <1>2
  <2>2. PICK q \in Headed : /\ b \in RangesOf(q) /\ b.ptr \in Nat /\ b.size \in Nat
                            /\ Address(q) <= b.ptr
                            /\ b.ptr + b.size <= Address(q + Span(heap, q))
    BY <1>2
  <2>3. p \in Nat /\ q \in Nat
    BY <1>1
  <2>4. CASE p = q
    BY <1>5, <2>1, <2>2, <2>4, RangesOfPage
  <2>5. CASE p < q
    <3>1. /\ Address(p + Span(heap, p)) <= Address(q) /\ Address(q) \in Nat
          /\ Address(p + Span(heap, p)) \in Nat
      BY <1>1, <2>5
    <3>. QED  BY <2>1, <2>2, <3>1 DEF Before
  <2>6. CASE q < p
    <3>1. /\ Address(q + Span(heap, q)) <= Address(p) /\ Address(p) \in Nat
          /\ Address(q + Span(heap, q)) \in Nat
      BY <1>1, <2>6
    <3>. QED  BY <2>1, <2>2, <3>1 DEF Before
  <2>. QED  BY <2>3, <2>4, <2>5, <2>6
<1>. QED  BY <1>4, <1>5 DEF NoOverlap, Before

-----------------------------------------------------------------------------
(* What a request for n bytes of big blocks takes, as BestFit states it.   *)
LEMMA BestTaken ==
  ASSUME Inv, NEW n \in Nat \ {0}, ~ (BinSize(n) < BIG_BIN),
         Kmalloc(heap, n).heap.brk <= MaxPages
  PROVE  \E p \in Pages :
           /\ Kmalloc(heap, n).ptr = BigCell(p)
           /\ LET fit == {q \in FreeBig : heap.bucket[q] >= n}
              IN IF fit = {} THEN p = heap.brk + 1
                 ELSE p \in fit /\ \A q \in fit : heap.bucket[p] <= heap.bucket[q]
<1>1. Kmalloc(heap, n) = MallocBig(heap, n) /\ HeapInv(heap, live)
  BY DEF Kmalloc, Inv
<1>2. PICK p \in Pages :
        /\ MallocBig(heap, n).ptr = BigCell(p)
        /\ LET fit == {q \in FreePages(heap) : n <= heap.bucket[q]}
           IN IF fit = {} THEN p = heap.brk + 1
              ELSE p \in fit /\ \A q \in fit : heap.bucket[p] <= heap.bucket[q]
  BY <1>1, MallocBigKeeps
<1>3. {q \in FreeBig : heap.bucket[q] >= n} = {q \in FreePages(heap) : n <= heap.bucket[q]}
  BY DEF FreeBig, Big, Headed, FreePages, IsBig
<1>. QED  BY <1>1, <1>2, <1>3

(* BestFit, of one step.                                                   *)
Best ==
  \A b \in live' \ live : heap' # heap /\ BinSize(Asked(b)) = BIG_BIN =>
    LET fit == {p \in FreeBig : heap.bucket[p] >= Asked(b)}
        p == PageOf(IF b.ptr % PAGE_SIZE = 0 THEN b.ptr - 1 ELSE b.ptr)
    IN IF fit = {} THEN p = heap.brk + 1
       ELSE p \in fit /\ \A q \in fit : heap.bucket[p] <= heap.bucket[q]

LEMMA NextBest == Inv /\ [Next]_vars => [Best]_vars
<1> SUFFICES ASSUME Inv, Next PROVE Best
  BY DEF Best, vars
<1>0. HeapInv(heap, live) /\ Typed(heap)
  BY DEF Inv, HeapInv
<1>1. BIG_BIN \in Nat /\ ~ (BIG_BIN < BIG_BIN)
  BY Constants
<1>2. ASSUME NEW n \in Nat \ {0}, n < 2 ^ 30, Kmalloc(heap, n).heap.brk <= MaxPages,
             live' \subseteq live \cup {Block(Kmalloc(heap, n).ptr, n)}
      PROVE  Best
  <2> DEFINE r == Kmalloc(heap, n)
             b == Block(r.ptr, n)
  <2>1. r.ptr % PAGE_SIZE # 0
    BY <1>0, <1>2, KmallocKeeps
  <2>2. Asked(b) = n /\ HomeOf(b) = PageOf(b.ptr) /\ b.ptr = r.ptr
    BY <2>1 DEF Asked, HomeOf, Block
  <2>. HIDE DEF r, b
  <2>3. ASSUME BinSize(n) = BIG_BIN
        PROVE  LET fit == {q \in FreeBig : heap.bucket[q] >= n}
               IN IF fit = {} THEN HomeOf(b) = heap.brk + 1
                  ELSE /\ HomeOf(b) \in fit
                       /\ \A q \in fit : heap.bucket[HomeOf(b)] <= heap.bucket[q]
    <3>1. PICK p \in Pages :
            /\ r.ptr = BigCell(p)
            /\ LET fit == {q \in FreeBig : heap.bucket[q] >= n}
               IN IF fit = {} THEN p = heap.brk + 1
                  ELSE p \in fit /\ \A q \in fit : heap.bucket[p] <= heap.bucket[q]
      BY <1>1, <1>2, <2>3, BestTaken DEF r
    <3>2. HomeOf(b) = p
      BY <2>2, <3>1, HomeFound
    <3>. QED  BY <3>1, <3>2
  <2>4. \A c \in live' \ live : c = b
    BY <1>2 DEF r, b
  <2>. QED  BY <2>2, <2>3, <2>4 DEF Best, HomeOf
<1>3. ASSUME NEW n \in Sizes, Malloc(n) PROVE Best
  <2>1. n \in Nat \ {0} /\ n < 2 ^ 30
    BY SizesFit
  <2>2. /\ live' = live \cup {Block(Kmalloc(heap, n).ptr, n)}
        /\ Kmalloc(heap, n).heap.brk <= MaxPages
    BY <1>3 DEF Malloc, Returns
  <2>. QED  BY <1>2, <2>1, <2>2
<1>4. ASSUME NEW n \in Sizes, Valloc(n) PROVE Best
  <2> DEFINE m == ValSize(n)
             r == Kmalloc(heap, m)
             b == Block(r.ptr + PAGE_SIZE - BigHeader, n)
  <2>1. n \in Nat \ {0} /\ m < 2 ^ 30
    BY SizesFit
  <2>2. m \in Nat \ {0} /\ ~ (BinSize(m) < BIG_BIN)
    BY <2>1, ValSizeBig
  <2>3. live' = live \cup {b} /\ r.heap.brk <= MaxPages
    BY <1>4 DEF Valloc, Returns
  <2>. HIDE DEF m
  <2>4. PICK p \in Pages :
          /\ r.ptr = BigCell(p)
          /\ LET fit == {q \in FreeBig : heap.bucket[q] >= m}
             IN IF fit = {} THEN p = heap.brk + 1
                ELSE p \in fit /\ \A q \in fit : heap.bucket[p] <= heap.bucket[q]
    BY <2>2, <2>3, BestTaken
  <2>5. b.ptr = Address(p + 1) /\ b.size = n
    <3>1. p \in Nat
      BY DEF Pages
    <3>2. Address(p) \in Nat /\ Address(p + 1) = Address(p) + PAGE_SIZE
      BY <3>1, Addresses
    <3>3. r.ptr + PAGE_SIZE - BigHeader = Address(p + 1)
      BY <2>4, <3>2, Constants DEF BigCell
    <3>. QED  BY <3>3 DEF Block
  <2>. HIDE DEF r, b
  <2>6. HomeOf(b) = p /\ Asked(b) = m
    BY <2>5, HomeFound DEF Asked, m
  <2>7. \A c \in live' \ live : c = b
    BY <2>3
  <2>. QED  BY <2>4, <2>6, <2>7 DEF Best, HomeOf
<1>5. ASSUME NEW b \in live, NEW top \in Levels, Free(b, top) PROVE Best
  <2>1. live' \ live = {}
    BY <1>5 DEF Free, Returns
  <2>. QED  BY <2>1 DEF Best
<1>6. ASSUME NEW b \in live, NEW top \in Levels, NEW n \in Resizes, Realloc(b, n, top)
      PROVE  Best
  <2>1. n \in Nat \ {0} /\ n < 2 ^ 30
    BY <1>6, SizesFit DEF Realloc
  <2>2. CASE Room(heap, b.ptr) >= n
    <3>1. heap' = heap
      BY <1>6, <2>2 DEF Realloc, Returns
    <3>. QED  BY <3>1 DEF Best
  <2>3. CASE ~ (Room(heap, b.ptr) >= n)
    <3>1. /\ live' \subseteq live \cup {Block(Kmalloc(heap, n).ptr, n)}
          /\ Kfree(Kmalloc(heap, n).heap, b.ptr, top).brk <= MaxPages
      BY <1>6, <2>3 DEF Realloc, Returns
    <3>2. Kmalloc(heap, n).heap.brk <= MaxPages
      BY <1>0, <3>1, KfreeEnd
    <3>. QED  BY <1>2, <2>1, <3>1, <3>2
  <2>. QED  BY <2>2, <2>3
<1>7. ASSUME NEW b \in live, ReallocZero(b) PROVE Best
  BY <1>7 DEF ReallocZero, Best
<1>. QED  BY <1>3, <1>4, <1>5, <1>6, <1>7 DEF Next

-----------------------------------------------------------------------------
(* The walk along a level is what its recursive definition says it is.     *)
LEMMA AlongStep ==
  ASSUME NEW i
  PROVE  \A k \in 0 .. MaxPages + 1 :
           Along(i)[k] = IF k = 0 THEN List
                         ELSE IF Along(i)[k - 1] = Nil THEN Nil
                         ELSE heap.forward[Along(i)[k - 1]][i]
<1> DEFINE End == MaxPages + 1
           Step(x) == IF x = Nil THEN Nil ELSE heap.forward[x][i]
           F(along) == [k \in 0 .. MaxPages + 1 |->
                          IF k = 0 THEN List
                          ELSE IF along[k - 1] = Nil THEN Nil
                               ELSE heap.forward[along[k - 1]][i]]
           W == CHOOSE along : along = F(along)
           From(g, k) == IF k = 0 THEN List ELSE Step(g[k - 1])
           Good(m) == \E g : \A k \in 0 .. m : g[k] = From(g, k)
           bad == {m \in 0 .. End : ~ Good(m)}
<1>0. End \in Nat
  BY Constants
<1>1. Along(i) = W
  BY Zenon DEF Along
<1>2. F(W) = [k \in 0 .. MaxPages + 1 |-> IF k = 0 THEN List
             ELSE IF W[k - 1] = Nil THEN Nil ELSE heap.forward[W[k - 1]][i]]
  <2>. HIDE DEF W
  <2>. QED  OBVIOUS
<1>. HIDE DEF Step
<1>. HIDE DEF End
<1>3. ASSUME NEW m \in bad PROVE m > 0 /\ m - 1 \in bad
  <2>1. m # 0
    <3> SUFFICES ASSUME m = 0 PROVE FALSE
      OBVIOUS
    <3> DEFINE g == [k \in {0} |-> List]
    <3>1. g[0] = List
      OBVIOUS
    <3>. HIDE DEF g
    <3>2. \A k \in 0 .. m : k = 0
      OBVIOUS
    <3>3. Good(m)
      BY <3>1, <3>2
    <3>. QED  BY <3>3
  <2>2. m - 1 \in 0 .. End
    BY <1>0, <2>1
  <2>3. ASSUME Good(m - 1) PROVE Good(m)
    <3>1. PICK f : \A k \in 0 .. m - 1 : f[k] = From(f, k)
      BY <2>3
    <3> DEFINE g == [k \in 0 .. End |-> IF k = m THEN Step(f[m - 1]) ELSE f[k]]
    <3>2. m \in Nat /\ m <= End
      BY <1>0
    <3>3. g[m] = Step(f[m - 1])
      BY <3>2
    <3>4. \A k \in 0 .. m - 1 : g[k] = f[k]
      BY <1>0, <3>2
    <3>. HIDE DEF g
    <3>5. ASSUME NEW k \in 0 .. m - 1 PROVE g[k] = From(g, k)
      <4>1. g[k] = From(f, k)
        BY <3>1, <3>4
      <4>2. k # 0 => k - 1 \in 0 .. m - 1
        BY <3>2
      <4>3. k # 0 => g[k - 1] = f[k - 1]
        BY <3>4, <4>2
      <4>. QED  BY <4>1, <4>3
    <3>6. g[m] = From(g, m)
      <4>1. m - 1 \in 0 .. m - 1
        BY <2>1, <3>2
      <4>2. g[m - 1] = f[m - 1]
        BY <3>4, <4>1
      <4>. QED  BY <2>1, <3>3, <4>2
    <3>7. \A k \in 0 .. m : k = m \/ k \in 0 .. m - 1
      BY <3>2
    <3>8. \A k \in 0 .. m : g[k] = From(g, k)
      <4>. HIDE DEF From
      <4>. QED  BY <3>5, <3>6, <3>7
    <3>. QED  BY <3>8
  <2>. HIDE DEF Good
  <2>. QED  BY <2>1, <2>2, <2>3
<1>4. bad = {}
  <2> SUFFICES ASSUME bad # {} PROVE FALSE
    OBVIOUS
  <2>1. bad \in SUBSET Nat
    <3>. HIDE DEF Good
    <3>. QED  BY <1>0
  <2>. HIDE DEF bad
  <2>2. PICK m \in bad : \A n \in bad : m <= n
    BY <2>1, LeastNumber
  <2>3. m \in Nat /\ m - 1 \in bad
    BY <1>3, <2>1
  <2>. QED  BY <2>2, <2>3
<1>5. \E w : w = F(w)
  <2>1. Good(End)
    <3>1. End \in 0 .. End
      BY <1>0
    <3>. HIDE DEF Good
    <3>. QED  BY <1>4, <3>1
  <2>2. PICK g : \A k \in 0 .. End : g[k] = From(g, k)
    BY <2>1
  <2> DEFINE w == [k \in 0 .. End |-> g[k]]
  <2>3. ASSUME NEW k \in 0 .. End PROVE w[k] = From(w, k)
    <3>1. w[k] = g[k]
      OBVIOUS
    <3>2. k # 0 => k - 1 \in 0 .. End
      BY <1>0
    <3>3. k # 0 => w[k - 1] = g[k - 1]
      BY <3>2
    <3>. HIDE DEF w
    <3>. QED  BY <2>2, <3>1, <3>3
  <2>4. w = [k \in 0 .. End |-> w[k]]
    OBVIOUS
  <2>. HIDE DEF w
  <2>5. w = F(w)
    BY <2>3, <2>4 DEF Step, End
  <2>. HIDE DEF F
  <2>. QED  BY <2>5
<1>6. W = F(W)
  <2>. HIDE DEF F
  <2>. QED  BY <1>5
<1>. HIDE DEF W
<1>. HIDE DEF F
<1>. QED  BY <1>1, <1>2, <1>6

(* A property of every step of a walk, from step to step.                  *)
LEMMA AllSteps ==
  ASSUME NEW N \in Nat, NEW S \in SUBSET (0 .. N), 0 \in S,
         \A k \in 0 .. N : k \in S /\ k < N => k + 1 \in S
  PROVE  S = 0 .. N
<1> DEFINE bad == (0 .. N) \ S
<1>1. CASE bad = {}
  BY <1>1
<1>2. CASE bad # {}
  <2>1. bad \in SUBSET Nat
    OBVIOUS
  <2>2. PICK k \in bad : \A n \in bad : k <= n
    <3>. HIDE DEF bad
    <3>. QED  BY <1>2, <2>1, LeastNumber
  <2>3. k \in 0 .. N /\ k \notin S /\ k # 0
    OBVIOUS
  <2>4. k - 1 \in 0 .. N /\ k - 1 < N /\ k - 1 + 1 = k
    BY <2>3
  <2>5. k - 1 \notin bad
    <3>. HIDE DEF bad
    <3>. QED  BY <2>2, <2>3
  <2>6. k - 1 \in S
    BY <2>4, <2>5
  <2>. QED  BY <2>3, <2>4, <2>6
<1>. QED  BY <1>1, <1>2

(* The walk along a level that is linked passes every page of the level,   *)
(* in the order of the ranks.                                              *)
LEMMA ChainIs ==
  ASSUME Typed(heap), NEW rank, NEW on, Linked(heap, rank, on), NEW i \in Levels
  PROVE  \E m \in Nat :
           /\ Chain(i) \in Seq(Pages)
           /\ DOMAIN Chain(i) = 1 .. m /\ Len(Chain(i)) = m
           /\ ToSet(Chain(i)) = on[i]
           /\ \A a, b \in 1 .. m :
                a < b => rank[Chain(i)[b]] < rank[Chain(i)[a]]
<1> DEFINE S == on[i]
           N == MaxPages + 1
           W == Along(i)
<1>0. N \in Nat /\ S \subseteq Pages /\ rank \in [Pages -> Nat] /\ Nil \notin S
      /\ List \notin S /\ Nil # List
  BY Constants DEF Linked
<1>1. \A k \in 0 .. N : W[k] = IF k = 0 THEN List
                               ELSE IF W[k - 1] = Nil THEN Nil
                               ELSE heap.forward[W[k - 1]][i]
  BY AlongStep
<1>2. \A n \in S \cup {List} : IsNext(rank, S, n, heap.forward[n][i])
  BY DEF Linked
<1>. HIDE DEF W
<1>. HIDE DEF S
<1>. HIDE DEF N
<1>3. ASSUME NEW k \in 0 .. N, k < N
      PROVE  /\ k + 1 \in 0 .. N
             /\ W[k + 1] = IF W[k] = Nil THEN Nil ELSE heap.forward[W[k]][i]
  <2>1. k + 1 \in 0 .. N /\ k + 1 # 0 /\ k + 1 - 1 = k
    BY <1>0, <1>3
  <2>. QED  BY <1>1, <2>1
<1>4. \A k \in 0 .. N : W[k] \in S \cup {List, Nil} /\ (k > 0 => W[k] # List)
  <2> DEFINE G == {k \in 0 .. N : W[k] \in S \cup {List, Nil} /\ (k > 0 => W[k] # List)}
  <2>1. 0 \in G
    BY <1>0, <1>1
  <2>2. ASSUME NEW k \in 0 .. N, k \in G, k < N PROVE k + 1 \in G
    <3>1. k + 1 \in 0 .. N /\ W[k + 1] = IF W[k] = Nil THEN Nil ELSE heap.forward[W[k]][i]
      BY <1>3, <2>2
    <3>2. W[k] # Nil => W[k + 1] \in S \cup {Nil}
      BY <1>2, <2>2, <3>1 DEF IsNext
    <3>. QED  BY <1>0, <3>1, <3>2
  <2>3. G \in SUBSET (0 .. N)
    OBVIOUS
  <2>. HIDE DEF G
  <2>4. G = 0 .. N
    BY <1>0, <2>1, <2>2, <2>3, AllSteps
  <2>. QED  BY <2>4 DEF G
(* From step to step the rank falls, and no page of the level lies between. *)
<1>5. ASSUME NEW k \in 0 .. N, k < N, W[k] # Nil
      PROVE  /\ k + 1 \in 0 .. N
             /\ IsNext(rank, S, W[k], W[k + 1])
  BY <1>2, <1>3, <1>4, <1>5
<1>6. \A k \in 0 .. N : /\ \A j \in 1 .. k : W[k] # Nil => W[j] # Nil
                        /\ \A j \in 1 .. k : j < k /\ W[k] # Nil => rank[W[k]] < rank[W[j]]
                        /\ \A q \in S : \/ \E j \in 1 .. k : q = W[j]
                                        \/ W[k] # Nil /\ After(rank, W[k], q)
  <2> DEFINE P(k) == /\ \A j \in 1 .. k : W[k] # Nil => W[j] # Nil
                     /\ \A j \in 1 .. k : j < k /\ W[k] # Nil => rank[W[k]] < rank[W[j]]
                     /\ \A q \in S : \/ \E j \in 1 .. k : q = W[j]
                                     \/ W[k] # Nil /\ After(rank, W[k], q)
             G == {k \in 0 .. N : P(k)}
  <2>1. P(0)
    BY <1>0, <1>1 DEF After
  <2>2. ASSUME NEW k \in 0 .. N, P(k), k < N PROVE P(k + 1)
    <3>0. k \in Nat /\ k + 1 \in 0 .. N
      BY <1>0, <2>2
    <3>1. \A j \in 1 .. k + 1 : j = k + 1 \/ (j \in 1 .. k /\ j < k + 1)
      BY <3>0
    <3>11. \A j \in 1 .. k : j \in 1 .. k + 1
      BY <3>0
    <3>12. k + 1 \in 1 .. k + 1
      BY <3>0
    <3>2. CASE W[k] = Nil
      <4>1. W[k + 1] = Nil
        BY <1>3, <2>2, <3>2
      <4>2. \A q \in S : \E j \in 1 .. k : q = W[j]
        BY <2>2, <3>2
      <4>. QED  BY <3>11, <4>1, <4>2
    <3>3. CASE W[k] # Nil
      <4>1. IsNext(rank, S, W[k], W[k + 1])
        BY <1>5, <2>2, <3>3
      <4>2. \A j \in 1 .. k + 1 : W[k + 1] # Nil => W[j] # Nil
        BY <2>2, <3>1, <3>3
      <4>3. ASSUME NEW j \in 1 .. k + 1, j < k + 1, W[k + 1] # Nil
            PROVE  rank[W[k + 1]] < rank[W[j]]
        <5>1. j \in 1 .. k /\ k # 0 /\ k > 0
          BY <3>0, <3>1, <4>3
        <5>2. W[k] \in S /\ W[k + 1] \in S
          BY <1>4, <3>0, <3>3, <4>3, <5>1
        <5>3. rank[W[k + 1]] < rank[W[k]]
          BY <1>0, <4>1, <4>3, <5>2 DEF IsNext, After
        <5>4. j = k \/ rank[W[k]] < rank[W[j]]
          BY <2>2, <3>0, <3>3, <5>1
        <5>5. W[j] \in S
          <6>1. W[j] # Nil /\ j \in 0 .. N /\ j > 0
            BY <1>0, <2>2, <3>0, <3>3, <5>1
          <6>. QED  BY <1>4, <6>1
        <5>6. rank[W[j]] \in Nat /\ rank[W[k]] \in Nat /\ rank[W[k + 1]] \in Nat
          BY <1>0, <5>2, <5>5
        <5>. QED  BY <5>3, <5>4, <5>6
      <4>4. ASSUME NEW q \in S
            PROVE  \/ \E j \in 1 .. k + 1 : q = W[j]
                   \/ W[k + 1] # Nil /\ After(rank, W[k + 1], q)
        <5>1. CASE \E j \in 1 .. k : q = W[j]
          BY <3>11, <5>1
        <5>2. CASE After(rank, W[k], q)
          <6>1. W[k + 1] # Nil
            BY <4>1, <5>2 DEF IsNext
          <6>2. W[k + 1] \in S /\ rank[q] <= rank[W[k + 1]]
            BY <4>1, <5>2, <6>1 DEF IsNext
          <6>3. rank[q] = rank[W[k + 1]] => q = W[k + 1]
            <7>1. on[i] \subseteq on[0]
              BY LevelsNested
            <7>. QED  BY <6>2, <7>1 DEF Linked, S
          <6>4. rank[q] \in Nat /\ rank[W[k + 1]] \in Nat
            BY <1>0, <6>2
          <6>5. q = W[k + 1] \/ rank[q] < rank[W[k + 1]]
            BY <6>2, <6>3, <6>4
          <6>. QED  BY <3>12, <6>1, <6>5 DEF After
        <5>. QED  BY <2>2, <5>1, <5>2
      <4>. QED  BY <4>2, <4>3, <4>4
    <3>. QED  BY <3>2, <3>3
  <2>3. 0 \in 0 .. N
    BY <1>0
  <2>. HIDE DEF P
  <2>4. /\ G \in SUBSET (0 .. N) /\ 0 \in G
        /\ \A k \in 0 .. N : k \in G /\ k < N => k + 1 \in G
    <3>1. \A k \in 0 .. N : k < N => k + 1 \in 0 .. N
      BY <1>3
    <3>. QED  BY <2>1, <2>2, <2>3, <3>1
  <2>. HIDE DEF G
  <2>5. G = 0 .. N
    BY <1>0, <2>4, AllSteps
  <2>. QED  BY <2>5 DEF G, P
(* There are fewer pages than steps: one of the steps leads to Nil.        *)
<1>7. \E k \in 1 .. N : W[k] = Nil
  <2> SUFFICES ASSUME \A k \in 1 .. N : W[k] # Nil PROVE FALSE
    OBVIOUS
  <2> DEFINE f == [k \in 1 .. N |-> W[k]]
  <2>1. \A k \in 1 .. N : W[k] \in Pages
    BY <1>0, <1>4
  <2>2. f \in [1 .. N -> Pages]
    BY <2>1
  <2>3. /\ IsFiniteSet(1 .. N) /\ IsFiniteSet(Pages)
        /\ Cardinality(1 .. N) = N /\ Cardinality(Pages) = MaxPages
    BY Constants, FS_Interval DEF N, Pages
  <2>4. Cardinality(Pages) < Cardinality(1 .. N)
    BY <2>3, Constants DEF N
  <2>5. PICK a, b \in 1 .. N : a # b /\ f[a] = f[b]
    <3>. HIDE DEF f
    <3>. QED  BY <2>2, <2>3, <2>4, FS_PigeonHole
  <2>6. W[a] = W[b]
    BY <2>5
  <2>7. ASSUME NEW x \in 1 .. N, NEW y \in 1 .. N, x < y, W[x] = W[y] PROVE FALSE
    <3>1. y \in 0 .. N /\ x \in 1 .. y
      BY <1>0, <2>7
    <3>2. rank[W[y]] < rank[W[x]]
      BY <1>6, <2>7, <3>1
    <3>3. rank[W[x]] \in Nat
      BY <1>0, <2>1
    <3>. QED  BY <2>7, <3>2, <3>3
  <2>8. a < b \/ b < a
    BY <1>0, <2>5
  <2>. QED  BY <2>6, <2>7, <2>8
<1>8. PICK m \in 0 .. N - 1 : W[m + 1] = Nil /\ \A k \in 1 .. N : W[k] # Nil <=> k <= m
  <2> DEFINE E == {k \in 1 .. N : W[k] = Nil}
  <2>1. E \in SUBSET Nat /\ E # {}
    BY <1>0, <1>7
  <2>2. PICK e \in E : \A k \in E : e <= k
    <3>. HIDE DEF E
    <3>. QED  BY <2>1, LeastNumber
  <2>3. e \in 1 .. N /\ W[e] = Nil
    OBVIOUS
  <2>4. ASSUME NEW k \in 1 .. N PROVE W[k] # Nil <=> k <= e - 1
    <3>1. CASE k < e
      <4>1. k \notin E
        <5>. HIDE DEF E
        <5>. QED  BY <1>0, <2>2, <2>3, <3>1
      <4>. QED  BY <1>0, <2>3, <3>1, <4>1
    <3>2. CASE ~ (k < e)
      <4>1. e \in 1 .. k /\ k \in 0 .. N
        BY <1>0, <2>3, <3>2
      <4>2. W[k] = Nil
        BY <1>6, <2>3, <4>1
      <4>. QED  BY <1>0, <2>3, <3>2, <4>2
    <3>. QED  BY <3>1, <3>2
  <2>5. e - 1 \in 0 .. N - 1 /\ e - 1 + 1 = e
    BY <1>0, <2>3
  <2>. QED  BY <2>3, <2>4, <2>5
<1>9. Cardinality({k \in 1 .. N : W[k] # Nil}) = m
  <2>1. {k \in 1 .. N : W[k] # Nil} = 1 .. m
    BY <1>0, <1>8
  <2>2. Cardinality(1 .. m) = m
    <3>1. 1 \in Int /\ m \in Int /\ m >= 0
      BY <1>0
    <3>2. Cardinality(1 .. m) = IF 1 > m THEN 0 ELSE m - 1 + 1
      BY <3>1, FS_Interval
    <3>. QED  BY <3>1, <3>2
  <2>. QED  BY <2>1, <2>2
<1>10. Chain(i) = [k \in 1 .. m |-> W[k]]
  BY <1>9 DEF Chain, W, N
<1>11. /\ m \in Nat /\ m + 1 \in 0 .. N /\ DOMAIN Chain(i) = 1 .. m
       /\ Len(Chain(i)) = m /\ \A k \in 1 .. m : Chain(i)[k] = W[k]
  BY <1>0, <1>10
<1>12. ToSet(Chain(i)) = S
  <2>1. ToSet(Chain(i)) = {Chain(i)[k] : k \in 1 .. m}
    BY <1>11 DEF ToSet
  <2>2. \A k \in 1 .. m : W[k] \in S
    <3> SUFFICES ASSUME NEW k \in 1 .. m PROVE W[k] \in S
      OBVIOUS
    <3>1. k \in 1 .. N /\ k \in 0 .. N /\ k > 0 /\ k <= m
      BY <1>0, <1>8
    <3>. QED  BY <1>4, <1>8, <3>1
  <2>3. \A q \in S : \E k \in 1 .. m : q = W[k]
    <3> SUFFICES ASSUME NEW q \in S PROVE \E k \in 1 .. m : q = W[k]
      OBVIOUS
    <3>1. PICK k \in 1 .. m + 1 : q = W[k]
      BY <1>6, <1>8, <1>11
    <3>2. k # m + 1
      BY <1>0, <1>8, <3>1
    <3>3. k \in 1 .. m
      BY <1>11, <3>2
    <3>. QED  BY <3>1, <3>3
  <2>. QED  BY <1>11, <2>1, <2>2, <2>3
<1>13. ASSUME NEW a \in 1 .. m, NEW b \in 1 .. m, a < b
       PROVE  rank[Chain(i)[b]] < rank[Chain(i)[a]]
  <2>1. b \in 1 .. N /\ b \in 0 .. N /\ a \in 1 .. b /\ b <= m
    BY <1>0, <1>8, <1>13
  <2>2. W[b] # Nil
    BY <1>8, <2>1
  <2>3. rank[W[b]] < rank[W[a]]
    BY <1>6, <1>13, <2>1, <2>2
  <2>. QED  BY <1>11, <2>3
<1>14. Chain(i) \in Seq(Pages)
  <2>1. \A k \in 1 .. m : Chain(i)[k] \in Pages
    <3>1. \A k \in 1 .. m : Chain(i)[k] \in ToSet(Chain(i))
      BY <1>11 DEF ToSet
    <3>. QED  BY <1>0, <1>12, <3>1
  <2>2. \A k \in 1 .. m : W[k] \in Pages
    BY <1>11, <2>1
  <2>3. [k \in 1 .. m |-> W[k]] \in [1 .. m -> Pages]
    BY <2>2
  <2>. QED  BY <1>10, <1>11, <2>3
<1>. QED  BY <1>11, <1>12, <1>13, <1>14 DEF S

(* The links say of the chains what a skip list is.                        *)
LEMMA LinkedChains == Typed(heap) /\ SkipInv(heap) => SkipListSound
<1> SUFFICES ASSUME Typed(heap), SkipInv(heap) PROVE SkipListSound
  OBVIOUS
<1>1. PICK rank, on : Linked(heap, rank, on) /\ on[0] = FreePages(heap)
  BY DEF SkipInv
<1>2. on[0] = FreeBig
  BY <1>1 DEF FreePages, FreeBig, Big, Headed, IsBig
<1>3. \A i \in Levels : on[i] \subseteq Pages /\ rank \in [Pages -> Nat]
  BY <1>1 DEF Linked
<1>4. 0 \in Levels /\ heap.level \in Levels /\ SKIP_MAX_LEVEL \in Nat
  BY Constants DEF Typed
<1> DEFINE Falls(i, m) ==
             /\ Chain(i) \in Seq(Pages)
             /\ DOMAIN Chain(i) = 1 .. m /\ Len(Chain(i)) = m
             /\ ToSet(Chain(i)) = on[i]
             /\ \A a, b \in 1 .. m : a < b => rank[Chain(i)[b]] < rank[Chain(i)[a]]
<1>5. \A i \in Levels : \E m \in Nat : Falls(i, m)
  BY <1>1, ChainIs
<1>6. ASSUME NEW i \in Levels, NEW m \in Nat, Falls(i, m)
      PROVE  /\ \A a \in 1 .. m : Chain(i)[a] \in on[i] /\ rank[Chain(i)[a]] \in Nat
             /\ \A a, b \in 1 .. m : rank[Chain(i)[b]] < rank[Chain(i)[a]] => a < b
             /\ \A a, b \in 1 .. m : Chain(i)[a] = Chain(i)[b] => a = b
  <2>1. \A a \in 1 .. m : Chain(i)[a] \in on[i]
    BY <1>6 DEF ToSet
  <2>2. \A a \in 1 .. m : rank[Chain(i)[a]] \in Nat
    BY <1>3, <2>1
  <2>3. ASSUME NEW a \in 1 .. m, NEW b \in 1 .. m
        PROVE  a = b \/ \/ a < b /\ rank[Chain(i)[b]] < rank[Chain(i)[a]]
                        \/ b < a /\ rank[Chain(i)[a]] < rank[Chain(i)[b]]
    <3>1. a = b \/ a < b \/ b < a
      OBVIOUS
    <3>. QED  BY <1>6, <3>1
  <2>4. ASSUME NEW a \in 1 .. m, NEW b \in 1 .. m, rank[Chain(i)[b]] < rank[Chain(i)[a]]
        PROVE  a < b
    <3>1. rank[Chain(i)[b]] \in Nat /\ rank[Chain(i)[a]] \in Nat
      BY <2>2
    <3>2. a # b /\ ~ (rank[Chain(i)[a]] < rank[Chain(i)[b]])
      BY <2>4, <3>1
    <3>. QED  BY <2>3, <3>2
  <2>5. ASSUME NEW a \in 1 .. m, NEW b \in 1 .. m, Chain(i)[a] = Chain(i)[b]
        PROVE  a = b
    <3>1. rank[Chain(i)[a]] \in Nat
      BY <2>2
    <3>. QED  BY <2>3, <2>5, <3>1
  <2>. QED  BY <2>1, <2>2, <2>4, <2>5
<1>7. IsInjective(Chain(0)) /\ ToSet(Chain(0)) = FreeBig
  <2>1. PICK m \in Nat : Falls(0, m)
    BY <1>4, <1>5
  <2>2. \A a, b \in 1 .. m : Chain(0)[a] = Chain(0)[b] => a = b
    BY <1>4, <1>6, <2>1
  <2>. QED  BY <1>2, <2>1, <2>2 DEF IsInjective
<1>8. ASSUME NEW i \in 1 .. Len(Chain(0)) - 1
      PROVE  heap.bucket[Chain(0)[i]] <= heap.bucket[Chain(0)[i + 1]]
  <2>1. PICK m \in Nat : Falls(0, m)
    BY <1>4, <1>5
  <2>2. i \in 1 .. m /\ i + 1 \in 1 .. m /\ i < i + 1
    BY <2>1
  <2>3. Chain(0)[i] \in on[0] /\ Chain(0)[i + 1] \in on[0]
    BY <1>4, <1>6, <2>1, <2>2
  <2>4. rank[Chain(0)[i + 1]] < rank[Chain(0)[i]]
    BY <2>1, <2>2
  <2>. QED  BY <1>1, <2>3, <2>4 DEF Linked
<1>9. ASSUME NEW i \in 1 .. heap.level PROVE Within(Chain(i), Chain(i - 1))
  <2>1. i \in Levels /\ i - 1 \in Levels /\ i - 1 < SKIP_MAX_LEVEL /\ i - 1 + 1 = i
    BY <1>4 DEF Levels
  <2>2. on[i] \subseteq on[i - 1]
    <3>1. on[i - 1 + 1] \subseteq on[i - 1]
      BY <1>1, <2>1 DEF Linked
    <3>. QED  BY <2>1, <3>1
  <2>3. PICK u \in Nat : Falls(i, u)
    BY <1>5, <2>1
  <2>4. PICK l \in Nat : Falls(i - 1, l)
    BY <1>5, <2>1
  <2>5. ToSet(Chain(i)) \subseteq ToSet(Chain(i - 1))
    BY <2>2, <2>3, <2>4
  <2>6. ASSUME NEW c \in 1 .. u, NEW d \in 1 .. u, NEW a \in 1 .. l, NEW b \in 1 .. l,
               c < d, Chain(i)[c] = Chain(i - 1)[a], Chain(i)[d] = Chain(i - 1)[b]
        PROVE  a < b
    <3>1. rank[Chain(i)[d]] < rank[Chain(i)[c]]
      BY <2>3, <2>6
    <3>2. rank[Chain(i - 1)[b]] < rank[Chain(i - 1)[a]]
      BY <2>6, <3>1
    <3>3. \A x, y \in 1 .. l : rank[Chain(i - 1)[y]] < rank[Chain(i - 1)[x]] => x < y
      BY <1>6, <2>1, <2>4
    <3>. QED  BY <3>2, <3>3
  <2>7. DOMAIN Chain(i) = 1 .. u /\ DOMAIN Chain(i - 1) = 1 .. l
    BY <2>3, <2>4
  <2>. QED  BY <2>5, <2>6, <2>7 DEF Within
<1>10. ASSUME NEW i \in heap.level + 1 .. SKIP_MAX_LEVEL PROVE Chain(i) = <<>>
  <2>1. i \in Levels /\ i > heap.level
    BY <1>4 DEF Levels
  <2>2. on[i] = {}
    BY <1>1, <2>1 DEF Linked
  <2>3. PICK m \in Nat : Falls(i, m)
    BY <1>5, <2>1
  <2>4. m = 0
    <3>1. \A a \in 1 .. m : Chain(i)[a] \in on[i]
      BY <1>6, <2>1, <2>3
    <3>2. ~ (1 \in 1 .. m)
      BY <2>2, <3>1
    <3>. QED  BY <3>2
  <2>. QED  BY <2>3, <2>4
<1>. HIDE DEF Falls
<1>. QED  BY <1>7, <1>8, <1>9, <1>10 DEF SkipListSound

LEMMA InvSkipList == Inv => SkipListSound
  BY LinkedChains DEF Inv, HeapInv

-----------------------------------------------------------------------------
(* The fields of the allocator and the blocks in use keep their types      *)
(* (all of alloc.cpp).                                                     *)
THEOREM TypeCorrect == Spec => []TypeOK
  BY InvHolds, InvTyped, PTL

(* No sequence of malloc, valloc, realloc and free gives out bytes twice,  *)
(* nor bytes of a header, of a free cell or beyond the end of the heap     *)
(* (klmalloc, klvalloc, klrealloc, klfree).                                *)
THEOREM OverlapCorrect == Spec => []NoOverlap
  BY InvHolds, InvApart, PTL

(* No cell is lost or stands twice on a stack (klmalloc_stack_pop,         *)
(* klmalloc_stack_push).                                                   *)
THEOREM AccountedCorrect == Spec => []CellsAccounted
  BY InvHolds, InvAccounted, PTL

(* A page is on the list of its bin, once, exactly while it has a free     *)
(* cell (klmalloc_list_insert, klmalloc_list_decouple).                    *)
THEOREM ListedCorrect == Spec => []PagesListed
  BY InvHolds, InvListed, PTL

(* Walking the levels of the skip list finds exactly the free big blocks,  *)
(* each once and in the order of the sizes, on each level some of those of *)
(* the level below and in their order, and none above the level of the     *)
(* list (klmalloc_skip_list_insert, klmalloc_skip_list_delete).            *)
THEOREM SkipListCorrect == Spec => []SkipListSound
  BY InvHolds, InvSkipList, PTL

(* A big request takes the smallest free block that holds it, and new      *)
(* pages only if there is none (klmalloc_skip_list_findbest).              *)
THEOREM BestFitCorrect == Spec => BestFit
<1>1. Spec => [][Best]_vars
  BY InvHolds, NextBest, PTL DEF Spec
<1>. QED  BY <1>1, PTL DEF BestFit, Best
=============================================================================
