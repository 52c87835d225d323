----------------------------- MODULE BootProofs -----------------------------
(***************************************************************************)
(* Proofs about boot: the hash map, the loader of modules, the mounts.     *)
(*                                                                         *)
(* Everything holds for any modules, names and orders of the ram disk that *)
(* ScheduleAssumption and DeviceAssumption allow.  The inductive invariant *)
(* is LoaderInv /\ MountInv.  That each call put off runs once is not      *)
(* inductive: NumbersInv says that the calls are numbered without a gap,   *)
(* those that ran first and the others in the map under their numbers,     *)
(* QuickInv that the name they wait for keeps a place in the map until its *)
(* module comes, LateInv that the bucket of the late calls is their list.  *)
(***************************************************************************)
EXTENDS Boot, SequenceTheorems, FiniteSetTheorems, WellFoundedInduction, TLAPS

(* A set of numbers has a least one.                                       *)
LEMMA LeastNumber ==
  ASSUME NEW S \in SUBSET Nat, S # {}
  PROVE  \E n \in S : \A m \in S : n <= m
<1> DEFINE Less == {ss \in Nat \X Nat : ss[1] < ss[2]}
<1>1. IsWellFoundedOn(Less, Nat)
  BY NatLessThanWellFounded DEF OpToRel
<1>2. \E n \in S : \A m \in S : ~ (<<m, n>> \in Less)
  <2> HIDE DEF Less
  <2>. QED  BY <1>1, WFMin
<1>3. PICK n \in S : \A m \in S : ~ (<<m, n>> \in Less)
  BY <1>2
<1>4. \A m \in S : n <= m
  <2> SUFFICES ASSUME NEW m \in S PROVE n <= m
    OBVIOUS
  <2>1. n \in Nat /\ m \in Nat
    OBVIOUS
  <2>2. ~ (m < n)
    BY <1>3, <2>1
  <2>. QED  BY <2>1, <2>2
<1>. QED  BY <1>4

(***************************************************************************)
(* The hash map as a dictionary: in a well formed map a key stands in one  *)
(* place, and setting or removing it changes what is found under no other. *)
(***************************************************************************)

(* The chain of a key. *)
LEMMA ChainFacts ==
  ASSUME NEW map, WellFormed(map), NEW k \in Keys
  PROVE  /\ Bucket(map, k) \in Buckets(map.size)
         /\ ChainOf(map, k) \in Seq(Entries)
         /\ DOMAIN ChainOf(map, k) = 1 .. Len(ChainOf(map, k))
         /\ Len(ChainOf(map, k)) \in Nat
         /\ \A i \in 1 .. Len(ChainOf(map, k)) :
              /\ ChainOf(map, k)[i] \in Entries
              /\ Bucket(map, ChainOf(map, k)[i].key) = Bucket(map, k)
         /\ \A i, j \in 1 .. Len(ChainOf(map, k)) :
              ChainOf(map, k)[i].key = ChainOf(map, k)[j].key => i = j
<1>1. map.size \in Nat \ {0} /\ Hash[k] \in Nat
  BY HashMapAssumption DEF WellFormed
<1>2. Bucket(map, k) \in Buckets(map.size)
  BY <1>1 DEF Bucket, Buckets
<1>3. map.entries[Bucket(map, k)] \in Seq(Entries)
  BY <1>2 DEF WellFormed
<1>. QED  BY <1>2, <1>3, LenProperties, ElementOfSeq DEF WellFormed, ChainOf

(* The place of a key that is there. *)
LEMMA PlaceFacts ==
  ASSUME NEW map, WellFormed(map), NEW k \in Keys
  PROVE  /\ HashHas(map, k) <=>
              \E i \in 1 .. Len(ChainOf(map, k)) : ChainOf(map, k)[i].key = k
         /\ HashHas(map, k) =>
              /\ PlaceOf(map, k) \in 1 .. Len(ChainOf(map, k))
              /\ ChainOf(map, k)[PlaceOf(map, k)].key = k
         /\ \A i \in 1 .. Len(ChainOf(map, k)) : ChainOf(map, k)[i].key = k =>
              /\ HashHas(map, k)
              /\ PlaceOf(map, k) = i
              /\ HashGet(map, k) = ChainOf(map, k)[i].value
         /\ ~HashHas(map, k) => HashGet(map, k) = Null
<1>. DEFINE c == ChainOf(map, k)
            found == PlacesOf(c, k)
<1>1. \A i, j \in 1 .. Len(c) : c[i].key = c[j].key => i = j
  BY ChainFacts
<1>2. \A i \in found : i \in 1 .. Len(c) /\ c[i].key = k /\ \A j \in found : i = j
  BY <1>1 DEF PlacesOf
<1>3. Len(c) \in Nat
  BY ChainFacts
<1>4. HashHas(map, k) <=> \E i \in 1 .. Len(c) : c[i].key = k
  BY DEF HashHas, PlacesOf
<1>5. \A i \in found : PlaceOf(map, k) = i
  <2>. TAKE i \in found
  <2>1. \A j \in found : i <= j  BY <1>2, <1>3
  <2>2. PlaceOf(map, k) \in found  BY <2>1 DEF PlaceOf
  <2>. QED  BY <1>2, <2>2
<1>6. HashHas(map, k) => PlaceOf(map, k) \in found
  BY <1>5 DEF HashHas
<1>. QED  BY <1>2, <1>4, <1>5, <1>6 DEF HashGet, PlacesOf

(* hashmap_create *)
LEMMA CreateFacts ==
  ASSUME NEW size \in Nat \ {0}
  PROVE  /\ WellFormed(HashCreate(size))
         /\ HashCreate(size).size = size
         /\ \A k \in Keys : ~HashHas(HashCreate(size), k)
<1>. DEFINE map == HashCreate(size)
<1>1. /\ map.size = size
      /\ map.entries = [b \in Buckets(size) |-> <<>>]
      /\ map = [size |-> map.size, entries |-> map.entries]
  BY DEF HashCreate
<1>2. map.entries \in [Buckets(map.size) -> Seq(Entries)]
  BY <1>1
<1>3. \A b \in Buckets(map.size) : Len(map.entries[b]) = 0
  BY <1>1
<1>4. WellFormed(map)
  BY <1>1, <1>2, <1>3 DEF WellFormed
<1>5. ASSUME NEW k \in Keys PROVE ~HashHas(map, k)
  <2>. HIDE DEF map
  <2>1. ChainOf(map, k) = map.entries[Bucket(map, k)] /\ Bucket(map, k) \in Buckets(map.size)
    BY <1>4, ChainFacts DEF ChainOf
  <2>2. Len(ChainOf(map, k)) = 0
    BY <1>3, <2>1
  <2>. QED  BY <1>4, <2>2, PlaceFacts
<1>. QED  BY <1>1, <1>4, <1>5

(* One chain replaced. *)
WithChain(map, b, c) == [map EXCEPT !.entries[b] = c]

LEMMA ReplaceChain ==
  ASSUME NEW map, WellFormed(map), NEW b \in Buckets(map.size), NEW c \in Seq(Entries),
         \A i \in 1 .. Len(c) : Bucket(map, c[i].key) = b,
         \A i, j \in 1 .. Len(c) : c[i].key = c[j].key => i = j
  PROVE  /\ WellFormed(WithChain(map, b, c))
         /\ WithChain(map, b, c).size = map.size
         /\ \A k \in Keys : ChainOf(WithChain(map, b, c), k) =
              IF Bucket(map, k) = b THEN c ELSE ChainOf(map, k)
<1>. DEFINE new == WithChain(map, b, c)
<1>1. map = [size |-> map.size, entries |-> map.entries]
  BY DEF WellFormed
<1>2. /\ map.entries \in [Buckets(map.size) -> Seq(Entries)]
      /\ map.size \in Nat \ {0}
      /\ \A d \in Buckets(map.size) : \A i \in 1 .. Len(map.entries[d]) :
           Bucket(map, map.entries[d][i].key) = d
      /\ \A d \in Buckets(map.size) : \A i, j \in 1 .. Len(map.entries[d]) :
           map.entries[d][i].key = map.entries[d][j].key => i = j
  BY DEF WellFormed
<1>3. /\ new.size = map.size
      /\ new.entries = [map.entries EXCEPT ![b] = c]
      /\ new = [size |-> new.size, entries |-> new.entries]
  BY <1>1 DEF WithChain
<1>. HIDE DEF new
<1>4. \A k : Bucket(new, k) = Bucket(map, k)
  BY <1>3 DEF Bucket
<1>5. new.entries \in [Buckets(new.size) -> Seq(Entries)]
  BY <1>2, <1>3
<1>6. \A d \in Buckets(map.size) : new.entries[d] = IF d = b THEN c ELSE map.entries[d]
  BY <1>2, <1>3
<1>7. \A d \in Buckets(new.size) : \A i \in 1 .. Len(new.entries[d]) :
        Bucket(new, new.entries[d][i].key) = d
  BY <1>2, <1>3, <1>4, <1>6
<1>8. \A d \in Buckets(new.size) : \A i, j \in 1 .. Len(new.entries[d]) :
        new.entries[d][i].key = new.entries[d][j].key => i = j
  BY <1>2, <1>3, <1>6
<1>9. WellFormed(new)
  BY <1>2, <1>3, <1>5, <1>7, <1>8 DEF WellFormed
<1>10. \A k \in Keys : Bucket(map, k) \in Buckets(map.size)
  BY ChainFacts
<1>. QED  BY <1>3, <1>4, <1>6, <1>9, <1>10 DEF ChainOf, new

(* hashmap_set *)
LEMMA SetFacts ==
  ASSUME NEW map, WellFormed(map), NEW k \in Keys, NEW v \in Values \cup {Null}
  PROVE  /\ WellFormed(HashSet(map, k, v))
         /\ HashSet(map, k, v).size = map.size
         /\ \A j \in Keys : HashHas(HashSet(map, k, v), j) <=> j = k \/ HashHas(map, j)
         /\ \A j \in Keys : HashGet(HashSet(map, k, v), j) =
                              IF j = k THEN v ELSE HashGet(map, j)
<1>. DEFINE b == Bucket(map, k)
            c == ChainOf(map, k)
            p == PlaceOf(map, k)
            d == IF HashHas(map, k) THEN [c EXCEPT ![p].value = v]
                 ELSE Append(c, [key |-> k, value |-> v])
            new == HashSet(map, k, v)
<1>1. /\ b \in Buckets(map.size)
      /\ c \in Seq(Entries) /\ DOMAIN c = 1 .. Len(c) /\ Len(c) \in Nat
      /\ \A i \in 1 .. Len(c) : c[i] \in Entries /\ Bucket(map, c[i].key) = b
      /\ \A i, j \in 1 .. Len(c) : c[i].key = c[j].key => i = j
  BY ChainFacts
<1>2. new = WithChain(map, b, d)
  BY DEF HashSet, ChainOf, WithChain
<1>3. HashHas(map, k) =>
        /\ p \in 1 .. Len(c) /\ c[p].key = k
        /\ d \in Seq(Entries)
        /\ Len(d) = Len(c)
        /\ \A i \in 1 .. Len(c) : d[i].key = c[i].key
        /\ d[p].value = v
        /\ \A i \in 1 .. Len(c) : i # p => d[i] = c[i]
  <2>. SUFFICES ASSUME HashHas(map, k)
                PROVE  /\ p \in 1 .. Len(c) /\ c[p].key = k
                       /\ d \in Seq(Entries)
                       /\ Len(d) = Len(c)
                       /\ \A i \in 1 .. Len(c) : d[i].key = c[i].key
                       /\ d[p].value = v
                       /\ \A i \in 1 .. Len(c) : i # p => d[i] = c[i]
    OBVIOUS
  <2>1. p \in 1 .. Len(c) /\ c[p].key = k
    BY PlaceFacts
  <2>. DEFINE e == [c[p] EXCEPT !.value = v]
  <2>2. e \in Entries /\ e.key = c[p].key /\ e.value = v
    BY <1>1, <2>1 DEF Entries
  <2>3. d = [c EXCEPT ![p] = e]
    OBVIOUS
  <2>. HIDE DEF e, d, c, p
  <2>4. d \in [1 .. Len(c) -> Entries]
    BY <1>1, <2>1, <2>2, <2>3
  <2>5. d \in Seq(Entries) /\ Len(d) = Len(c)
    BY <1>1, <2>4, LenProperties, SeqDef
  <2>6. \A i \in 1 .. Len(c) : d[i] = IF i = p THEN e ELSE c[i]
    BY <1>1, <2>3
  <2>. QED  BY <2>1, <2>2, <2>5, <2>6
<1>4. ~HashHas(map, k) =>
        /\ \A i \in 1 .. Len(c) : c[i].key # k
        /\ d \in Seq(Entries)
        /\ Len(d) = Len(c) + 1
        /\ \A i \in 1 .. Len(c) : d[i] = c[i]
        /\ d[Len(c) + 1] = [key |-> k, value |-> v]
  <2>1. [key |-> k, value |-> v] \in Entries
    BY DEF Entries
  <2>2. ~HashHas(map, k) => \A i \in 1 .. Len(c) : c[i].key # k
    BY PlaceFacts
  <2>. QED  BY <1>1, <2>1, <2>2, AppendProperties
<1>. HIDE DEF b, c, d, p, new
<1>5. /\ d \in Seq(Entries)
      /\ \A i \in 1 .. Len(d) : Bucket(map, d[i].key) = b
      /\ \A i, j \in 1 .. Len(d) : d[i].key = d[j].key => i = j
  <2>1. CASE HashHas(map, k)
    BY <1>1, <1>3, <2>1
  <2>2. CASE ~HashHas(map, k)
    <3>1. \A i \in 1 .. Len(d) : i \in 1 .. Len(c) \/ i = Len(c) + 1
      BY <1>1, <1>4, <2>2
    <3>2. d[Len(c) + 1].key = k /\ Bucket(map, k) = b
      BY <1>4, <2>2 DEF b
    <3>. QED  BY <1>1, <1>4, <2>2, <3>1, <3>2
  <2>. QED  BY <2>1, <2>2
<1>6. /\ WellFormed(new)
      /\ new.size = map.size
      /\ \A j \in Keys : ChainOf(new, j) = IF Bucket(map, j) = b THEN d
                                           ELSE ChainOf(map, j)
  <2>. b \in Buckets(map.size)
    BY <1>1
  <2>1. /\ WellFormed(WithChain(map, b, d))
        /\ WithChain(map, b, d).size = map.size
        /\ \A j \in Keys : ChainOf(WithChain(map, b, d), j) =
             IF Bucket(map, j) = b THEN d ELSE ChainOf(map, j)
    BY <1>5, ReplaceChain
  <2>. QED  BY <1>2, <2>1
<1>7. \A j \in Keys : Bucket(map, j) = b => ChainOf(map, j) = c
  BY DEF ChainOf, c, b
<1>8. HashHas(new, k) /\ HashGet(new, k) = v
  <2>1. ChainOf(new, k) = d
    BY <1>6 DEF b
  <2>2. \E i \in 1 .. Len(d) : d[i].key = k /\ d[i].value = v
    <3>1. CASE HashHas(map, k)
      BY <1>3, <3>1
    <3>2. CASE ~HashHas(map, k)
      <4>1. Len(c) + 1 \in 1 .. Len(d)  BY <1>1, <1>4, <3>2
      <4>. QED  BY <1>4, <3>2, <4>1
    <3>. QED  BY <3>1, <3>2
  <2>. QED  BY <1>6, <2>1, <2>2, PlaceFacts
<1>9. ASSUME NEW j \in Keys, j # k
      PROVE  /\ HashHas(new, j) <=> HashHas(map, j)
             /\ HashGet(new, j) = HashGet(map, j)
  <2>1. CASE Bucket(map, j) # b
    <3>1. ChainOf(new, j) = ChainOf(map, j)
      BY <1>6, <2>1
    <3>. QED  BY <3>1 DEF HashHas, HashGet, PlaceOf
  <2>2. CASE Bucket(map, j) = b
    <3>1. ChainOf(new, j) = d /\ ChainOf(map, j) = c
      BY <1>6, <1>7, <2>2
    <3>2. \A i \in 1 .. Len(c) : c[i].key = j => i \in 1 .. Len(d) /\ d[i] = c[i]
      BY <1>1, <1>3, <1>4, <1>9
    <3>3. \A i \in 1 .. Len(d) : d[i].key = j => i \in 1 .. Len(c) /\ d[i] = c[i]
      <4>1. CASE HashHas(map, k)
        BY <1>3, <1>9, <4>1
      <4>2. CASE ~HashHas(map, k)
        <5>1. \A i \in 1 .. Len(d) : i \in 1 .. Len(c) \/ i = Len(c) + 1
          BY <1>1, <1>4, <4>2
        <5>2. d[Len(c) + 1].key = k
          BY <1>4, <4>2
        <5>. QED  BY <1>4, <1>9, <4>2, <5>1, <5>2
      <4>. QED  BY <4>1, <4>2
    <3>4. HashHas(new, j) <=> HashHas(map, j)
      BY <1>6, <3>1, <3>2, <3>3, PlaceFacts
    <3>5. CASE HashHas(map, j)
      <4>1. PICK i \in 1 .. Len(c) : c[i].key = j
        BY <3>1, <3>5, PlaceFacts
      <4>2. HashGet(map, j) = c[i].value
        BY <3>1, <4>1, PlaceFacts
      <4>3. HashGet(new, j) = d[i].value
        BY <1>6, <3>1, <3>2, <4>1, PlaceFacts
      <4>. QED  BY <3>2, <3>4, <4>1, <4>2, <4>3
    <3>6. CASE ~HashHas(map, j)
      BY <1>6, <3>4, <3>6, PlaceFacts
    <3>. QED  BY <3>4, <3>5, <3>6
  <2>. QED  BY <2>1, <2>2
<1>. QED  BY <1>6, <1>8, <1>9 DEF new

LEMMA RemoveAtFacts ==
  ASSUME NEW S, NEW s \in Seq(S), NEW k \in 1 .. Len(s)
  PROVE  /\ RemoveAt(s, k) \in Seq(S)
         /\ Len(RemoveAt(s, k)) = Len(s) - 1
         /\ \A i \in 1 .. Len(s) - 1 :
              RemoveAt(s, k)[i] = IF i < k THEN s[i] ELSE s[i + 1]
<1>. DEFINE a == SubSeq(s, 1, k - 1)
            b == SubSeq(s, k + 1, Len(s))
<1>1. Len(s) \in Nat /\ \A i \in 1 .. Len(s) : s[i] \in S
  BY LenProperties, ElementOfSeq
<1>2. /\ a \in Seq(S)
      /\ Len(a) = k - 1
      /\ \A i \in 1 .. k - 1 : a[i] = s[i]
  BY <1>1, SubSeqProperties
<1>3. /\ b \in Seq(S)
      /\ Len(b) = Len(s) - k
      /\ \A i \in 1 .. Len(s) - k : b[i] = s[k + i]
  BY <1>1, SubSeqProperties
<1>4. RemoveAt(s, k) = a \o b
  BY DEF RemoveAt
<1>. HIDE DEF a, b
<1>5. /\ a \o b \in Seq(S)
      /\ Len(a \o b) = Len(s) - 1
      /\ \A i \in 1 .. Len(s) - 1 : (a \o b)[i] = IF i <= Len(a) THEN a[i] ELSE b[i - Len(a)]
  BY <1>1, <1>2, <1>3, ConcatProperties
<1>6. ASSUME NEW i \in 1 .. Len(s) - 1, i < k PROVE (a \o b)[i] = s[i]
  BY <1>1, <1>2, <1>5, <1>6
<1>7. ASSUME NEW i \in 1 .. Len(s) - 1, ~(i < k) PROVE (a \o b)[i] = s[i + 1]
  <2>1. i - Len(a) \in 1 .. Len(s) - k /\ k + (i - Len(a)) = i + 1 /\ ~(i <= Len(a))
    BY <1>1, <1>2, <1>7
  <2>. QED  BY <1>3, <1>5, <2>1
<1>. QED  BY <1>4, <1>5, <1>6, <1>7

(* list_append to modlist, or a call to those that ran. *)
LEMMA AppendMembers ==
  ASSUME NEW S, NEW s \in Seq(S), NEW e \in S
  PROVE  /\ Append(s, e) \in Seq(S)
         /\ ToSet(Append(s, e)) = ToSet(s) \cup {e}
         /\ IsInjective(s) /\ e \notin ToSet(s) => IsInjective(Append(s, e))
<1>1. /\ Append(s, e) \in Seq(S)
      /\ DOMAIN Append(s, e) = 1 .. Len(s) + 1
      /\ DOMAIN s = 1 .. Len(s)
      /\ \A i \in 1 .. Len(s) : Append(s, e)[i] = s[i]
      /\ Append(s, e)[Len(s) + 1] = e
      /\ Len(s) \in Nat
  BY AppendProperties, LenProperties
<1>2. ToSet(Append(s, e)) = ToSet(s) \cup {e}
  BY <1>1 DEF ToSet
<1>3. ASSUME IsInjective(s), e \notin ToSet(s)
      PROVE  IsInjective(Append(s, e))
  BY <1>1, <1>3 DEF IsInjective, ToSet
<1>. QED  BY <1>1, <1>2, <1>3

(* list_delete of the node at position k. *)
LEMMA RemoveMembers ==
  ASSUME NEW S, NEW s \in Seq(S), NEW k \in 1 .. Len(s)
  PROVE  /\ RemoveAt(s, k) \in Seq(S)
         /\ ToSet(RemoveAt(s, k)) \subseteq ToSet(s)
         /\ ToSet(s) \subseteq ToSet(RemoveAt(s, k)) \cup {s[k]}
         /\ IsInjective(s) => /\ IsInjective(RemoveAt(s, k))
                              /\ s[k] \notin ToSet(RemoveAt(s, k))
<1>. DEFINE t == RemoveAt(s, k)
            old(i) == IF i < k THEN i ELSE i + 1
<1>1. Len(s) \in Nat /\ DOMAIN s = 1 .. Len(s)
  BY LenProperties
<1>2. /\ t \in Seq(S) /\ Len(t) = Len(s) - 1
      /\ \A i \in 1 .. Len(s) - 1 : t[i] = s[old(i)]
  BY RemoveAtFacts
<1>. HIDE DEF t
<1>3. DOMAIN t = 1 .. Len(s) - 1
  BY <1>2, LenProperties
<1>4. \A i \in 1 .. Len(s) - 1 : old(i) \in 1 .. Len(s) /\ old(i) # k
  BY <1>1
<1>5. \A i, j \in 1 .. Len(s) - 1 : old(i) = old(j) => i = j
  BY <1>1
<1>6. \A j \in 1 .. Len(s) : j # k => \E i \in 1 .. Len(s) - 1 : old(i) = j
  <2>. TAKE j \in 1 .. Len(s)
  <2>1. j < k => j \in 1 .. Len(s) - 1 /\ old(j) = j
    BY <1>1
  <2>2. j > k => j - 1 \in 1 .. Len(s) - 1 /\ old(j - 1) = j
    BY <1>1
  <2>. HIDE DEF old
  <2>3. j # k => j < k \/ j > k
    BY <1>1
  <2>. QED  BY <2>1, <2>2, <2>3
<1>. HIDE DEF old
<1>7. ToSet(t) \subseteq ToSet(s) /\ ToSet(s) \subseteq ToSet(t) \cup {s[k]}
  <2>1. ToSet(t) \subseteq ToSet(s)
    BY <1>1, <1>2, <1>3, <1>4 DEF ToSet
  <2>2. \A j \in 1 .. Len(s) : s[j] \in ToSet(t) \cup {s[k]}
    BY <1>2, <1>3, <1>6 DEF ToSet
  <2>. QED  BY <1>1, <2>1, <2>2 DEF ToSet
<1>8. ASSUME IsInjective(s) PROVE IsInjective(t) /\ s[k] \notin ToSet(t)
  <2>1. \A i, j \in 1 .. Len(s) : s[i] = s[j] => i = j
    BY <1>1, <1>8 DEF IsInjective
  <2>2. IsInjective(t)
    BY <1>2, <1>3, <1>4, <1>5, <2>1 DEF IsInjective
  <2>3. s[k] \notin ToSet(t)
    BY <1>2, <1>3, <1>4, <2>1 DEF ToSet
  <2>. QED  BY <2>2, <2>3
<1>. QED  BY <1>2, <1>7, <1>8 DEF t

(* hashmap_remove *)
LEMMA RemoveFacts ==
  ASSUME NEW map, WellFormed(map), NEW k \in Keys
  PROVE  /\ WellFormed(HashRemove(map, k))
         /\ HashRemove(map, k).size = map.size
         /\ \A j \in Keys : HashHas(HashRemove(map, k), j) <=> j # k /\ HashHas(map, j)
         /\ \A j \in Keys : j # k => HashGet(HashRemove(map, k), j) = HashGet(map, j)
<1>. DEFINE b == Bucket(map, k)
            c == ChainOf(map, k)
            p == PlaceOf(map, k)
            d == RemoveAt(c, p)
            new == HashRemove(map, k)
<1>0. CASE ~HashHas(map, k)
  BY <1>0 DEF HashRemove
<1>. SUFFICES ASSUME HashHas(map, k)
              PROVE  /\ WellFormed(new)
                     /\ new.size = map.size
                     /\ \A j \in Keys : HashHas(new, j) <=> j # k /\ HashHas(map, j)
                     /\ \A j \in Keys : j # k => HashGet(new, j) = HashGet(map, j)
  BY <1>0
<1>1. /\ b \in Buckets(map.size)
      /\ c \in Seq(Entries) /\ DOMAIN c = 1 .. Len(c) /\ Len(c) \in Nat
      /\ \A i \in 1 .. Len(c) : c[i] \in Entries /\ Bucket(map, c[i].key) = b
      /\ \A i, j \in 1 .. Len(c) : c[i].key = c[j].key => i = j
  BY ChainFacts
<1>2. new = WithChain(map, b, d)
  BY DEF HashRemove, ChainOf, WithChain
<1>3. p \in 1 .. Len(c) /\ c[p].key = k
  BY PlaceFacts
<1>. HIDE DEF b, c, p, new
<1>4. /\ d \in Seq(Entries)
      /\ Len(d) = Len(c) - 1
      /\ \A i \in 1 .. Len(c) - 1 : d[i] = IF i < p THEN c[i] ELSE c[i + 1]
  BY <1>1, <1>3, RemoveAtFacts
<1>. HIDE DEF d
<1>5. \A i \in 1 .. Len(d) : \E n \in 1 .. Len(c) :
        n # p /\ d[i] = c[n] /\ n = IF i < p THEN i ELSE i + 1
  <2>. TAKE i \in 1 .. Len(d)
  <2>1. i \in 1 .. Len(c) - 1
    BY <1>1, <1>4
  <2>2. CASE i < p
    <3>1. d[i] = c[i] /\ i \in 1 .. Len(c) /\ i # p
      BY <1>1, <1>3, <1>4, <2>1, <2>2
    <3>. QED  BY <2>2, <3>1
  <2>3. CASE ~(i < p)
    <3>1. d[i] = c[i + 1] /\ i + 1 \in 1 .. Len(c) /\ i + 1 # p
      BY <1>1, <1>3, <1>4, <2>1, <2>3
    <3>. QED  BY <2>3, <3>1
  <2>. QED  BY <2>2, <2>3
<1>6. \A i \in 1 .. Len(d) : Bucket(map, d[i].key) = b
  BY <1>1, <1>5
<1>7. \A i, j \in 1 .. Len(d) : d[i].key = d[j].key => i = j
  BY <1>1, <1>3, <1>5
<1>8. /\ WellFormed(new)
      /\ new.size = map.size
      /\ \A j \in Keys : ChainOf(new, j) = IF Bucket(map, j) = b THEN d
                                           ELSE ChainOf(map, j)
  <2>1. b \in Buckets(map.size) /\ d \in Seq(Entries)
    BY <1>1, <1>4
  <2>. QED  BY <1>2, <1>6, <1>7, <2>1, ReplaceChain
<1>9. \A j \in Keys : Bucket(map, j) = b => ChainOf(map, j) = c
  BY DEF ChainOf, c, b
<1>10. ~HashHas(new, k)
  <2>1. ChainOf(new, k) = d
    BY <1>8 DEF b
  <2>2. \A i \in 1 .. Len(d) : d[i].key # k
    BY <1>1, <1>3, <1>5
  <2>. QED  BY <1>8, <2>1, <2>2, PlaceFacts
<1>11. ASSUME NEW j \in Keys, j # k
       PROVE  /\ HashHas(new, j) <=> HashHas(map, j)
              /\ HashGet(new, j) = HashGet(map, j)
  <2>1. CASE Bucket(map, j) # b
    <3>1. ChainOf(new, j) = ChainOf(map, j)
      BY <1>8, <2>1
    <3>. QED  BY <3>1 DEF HashHas, HashGet, PlaceOf
  <2>2. CASE Bucket(map, j) = b
    <3>1. ChainOf(new, j) = d /\ ChainOf(map, j) = c
      BY <1>8, <1>9, <2>2
    <3>2. ASSUME NEW i \in 1 .. Len(c), c[i].key = j
          PROVE  \E n \in 1 .. Len(d) : d[n] = c[i]
      <4>1. CASE i < p
        BY <1>1, <1>3, <1>4, <4>1
      <4>2. CASE i > p
        <5>1. i - 1 \in 1 .. Len(c) - 1 /\ ~(i - 1 < p) /\ i - 1 + 1 = i
          BY <1>1, <1>3, <4>2
        <5>. QED  BY <1>4, <5>1
      <4>. QED  BY <1>1, <1>3, <1>11, <3>2, <4>1, <4>2
    <3>3. \A i \in 1 .. Len(d) : d[i].key = j => \E n \in 1 .. Len(c) : d[i] = c[n]
      BY <1>5
    <3>4. HashHas(new, j) <=> HashHas(map, j)
      BY <1>8, <3>1, <3>2, <3>3, PlaceFacts
    <3>5. CASE HashHas(map, j)
      <4>1. PICK i \in 1 .. Len(c) : c[i].key = j
        BY <3>1, <3>5, PlaceFacts
      <4>2. PICK n \in 1 .. Len(d) : d[n] = c[i]
        BY <3>2, <4>1
      <4>3. HashGet(map, j) = c[i].value
        BY <3>1, <4>1, PlaceFacts
      <4>4. HashGet(new, j) = d[n].value
        BY <1>8, <3>1, <4>1, <4>2, PlaceFacts
      <4>. QED  BY <3>4, <4>2, <4>3, <4>4
    <3>6. CASE ~HashHas(map, j)
      BY <1>8, <3>4, <3>6, PlaceFacts
    <3>. QED  BY <3>4, <3>5, <3>6
  <2>. QED  BY <2>1, <2>2
<1>. QED  BY <1>8, <1>10, <1>11 DEF new

(* A map of one bucket is a list of its entries. *)
LEMMA OneBucket ==
  ASSUME NEW map, WellFormed(map), map.size = 1
  PROVE  /\ map.entries[0] \in Seq(Entries)
         /\ Buckets(map.size) = {0}
         /\ \A k \in Keys : ChainOf(map, k) = map.entries[0]
<1>1. Buckets(map.size) = {0}
  BY DEF Buckets
<1>2. \A k \in Keys : Bucket(map, k) = 0
  BY <1>1, ChainFacts
<1>. QED  BY <1>1, <1>2 DEF WellFormed, ChainOf

LEMMA SetInOneBucket ==
  ASSUME NEW map, WellFormed(map), map.size = 1, NEW k \in Keys, NEW v \in Values \cup {Null},
         \A i \in 1 .. Len(map.entries[0]) : map.entries[0][i].key # k
  PROVE  HashSet(map, k, v).entries[0] = Append(map.entries[0], [key |-> k, value |-> v])
<1>1. /\ map.entries[0] \in Seq(Entries)
      /\ Buckets(map.size) = {0}
      /\ ChainOf(map, k) = map.entries[0]
  BY OneBucket
<1>2. Bucket(map, k) = 0
  BY <1>1, ChainFacts
<1>3. ~HashHas(map, k)
  BY <1>1, PlaceFacts
<1>4. map.entries \in [{0} -> Seq(Entries)] /\ map = [size |-> map.size, entries |-> map.entries]
  BY <1>1 DEF WellFormed
<1>. QED  BY <1>1, <1>2, <1>3, <1>4 DEF HashSet

LEMMA SizeOfOneBucket ==
  ASSUME NEW map, WellFormed(map), map.size = 1
  PROVE  HashSize(map) = Len(map.entries[0])
<1>. DEFINE c == map.entries[0]
<1>1. c \in Seq(Entries) /\ Buckets(map.size) = {0}
  BY OneBucket
<1>2. Len(c) \in Nat /\ DOMAIN c = 1 .. Len(c)
  BY <1>1, LenProperties
<1>3. HashSize(map) = Cardinality({0} \X (1 .. Len(c)))
  <2>1. UNION {{b} \X DOMAIN map.entries[b] : b \in {0}} = {0} \X (1 .. Len(c))
    BY <1>2
  <2>. QED  BY <1>1, <2>1 DEF HashSize
<1>4. IsFiniteSet(1 .. Len(c)) /\ Cardinality(1 .. Len(c)) = Len(c)
  <2>1. Len(c) - 1 + 1 = Len(c)  BY <1>2
  <2>2. 1 \in Int /\ Len(c) \in Int  BY <1>2
  <2>. QED  BY <1>2, <2>1, <2>2, FS_Interval
<1>5. IsFiniteSet({0}) /\ Cardinality({0}) = 1
  BY FS_Singleton
<1>6. Cardinality({0} \X (1 .. Len(c))) = 1 * Len(c)
  BY <1>4, <1>5, FS_Product
<1>. QED  BY <1>2, <1>3, <1>6

-----------------------------------------------------------------------------
(***************************************************************************)
(* The loader's invariants.                                                *)
(***************************************************************************)

(* The files that were begun with: all up to the one at hand. *)
Begun == {order[i] : i \in 1 .. (IF phase = "scheduled" THEN next ELSE next - 1)}

(* Where the loader is, and what that says of the list of modules. *)
OrderInv ==
  /\ order \in Orders
  /\ next \in 1 .. Len(order) + 1
  /\ phase \in {"files", "scheduled", "late", "done"}
  /\ phase = "scheduled" => next <= Len(order) /\ order[next] \in Modules
  /\ phase \in {"late", "done"} => next = Len(order) + 1
  /\ turn \in Nat
  /\ removed \in 0 .. Removes
  /\ loaded = {NameOf[m] : m \in Begun \cap Modules}
  /\ phase # "done" => ToSet(modlist) = Begun \cap Modules /\ detached = {}

(* The list and the maps; both maps always hold the same. *)
ListInv ==
  /\ WellFormed(initlist)
  /\ quitlist = initlist
  /\ \A k \in Keys : HashHas(initlist, k) =>
       HashGet(initlist, k) \in Modules \cup {Manager}
  /\ modlist \in Seq(Modules)
  /\ IsInjective(modlist)
  /\ cback \in [Modules -> Modules \cup {Manager}]
  /\ detached \subseteq Modules

(* No other module has its name. *)
Alone(m) == \A o \in Modules \ {m} : NameOf[o] # NameOf[m]

(* What the loader does in one step. *)
LoaderNext ==
  \/ PassOver
  \/ Load
  \/ RunScheduled
  \/ FilesDone
  \/ RunLate
  \/ ModuleRemove
  \/ \E m \in Modules : AddAgain(m)

LEMMA BootSteps == [BootNext]_bootVars => [LoaderNext]_vars
<1>1. LoadModule => Load  BY DEF LoadModule
<1>2. RunScheduledCall => RunScheduled  BY DEF RunScheduledCall
<1>3. SerialInitLate => UNCHANGED vars  BY DEF SerialInitLate
<1>4. MountRoot => UNCHANGED vars  BY DEF MountRoot
<1>5. LoaderStep => LoaderNext  BY DEF LoaderStep, LoaderNext
<1>6. UNCHANGED bootVars => UNCHANGED vars  BY DEF bootVars
<1>. QED  BY <1>1, <1>2, <1>3, <1>4, <1>5, <1>6 DEF BootNext, LoaderNext

(* The ram disk. *)
LEMMA DiskFacts ==
  ASSUME order \in Orders
  PROVE  /\ order \in Seq(Files) /\ order # <<>> /\ IsInjective(order)
         /\ Len(order) \in Nat \ {0}
         /\ DOMAIN order = 1 .. Len(order)
BY LoaderAssumption, LenProperties, EmptySeq

LEMMA BegunSteps ==
  ASSUME OrderInv
  PROVE  /\ phase = "files" /\ next <= Len(order) => order[next] \notin Begun
         /\ PassOver => Begun' \cap Modules = Begun \cap Modules
         /\ Load => /\ Begun' = Begun \cup {order[next]}
                    /\ Begun' \cap Modules = (Begun \cap Modules) \cup {order[next]}
         /\ RunScheduled => Begun' = Begun
         /\ FilesDone => Begun' = Begun
         /\ UNCHANGED <<order, next, phase>> => Begun' = Begun
<1>. USE DEF OrderInv
<1>0. order \in Seq(Files) /\ IsInjective(order) /\ Len(order) \in Nat
      /\ DOMAIN order = 1 .. Len(order) /\ next \in Nat
  BY DiskFacts
<1>1. phase = "files" /\ next <= Len(order) => order[next] \notin Begun
  BY <1>0 DEF Begun, IsInjective
<1>2. ASSUME NEW s \in Nat \ {0}
      PROVE  {order[i] : i \in 1 .. s} = {order[i] : i \in 1 .. s - 1} \cup {order[s]}
  <2>1. 1 .. s = (1 .. s - 1) \cup {s}  OBVIOUS
  <2>. QED  BY <2>1
<1>3. {order[i] : i \in 1 .. next} = {order[i] : i \in 1 .. next - 1} \cup {order[next]}
  BY <1>2
<1>4. next + 1 - 1 = next  BY <1>0
<1>5. PassOver => Begun' = Begun \cup {order[next]} /\ order[next] \notin Modules
  BY <1>3, <1>4 DEF PassOver, Begun
<1>6. Load => Begun' = Begun \cup {order[next]} /\ order[next] \in Modules
  BY <1>3, <1>4 DEF Load, Begun
<1>7. RunScheduled => Begun' = Begun
  BY <1>3, <1>4 DEF RunScheduled, Begun
<1>8. FilesDone => Begun' = Begun
  BY DEF FilesDone, Begun
<1>9. UNCHANGED <<order, next, phase>> => Begun' = Begun
  BY DEF Begun
<1>. QED  BY <1>1, <1>5, <1>6, <1>7, <1>8, <1>9

LEMMA InitLists == Init => OrderInv /\ ListInv /\ CallbacksKept
<1>. SUFFICES ASSUME Init PROVE OrderInv /\ ListInv /\ CallbacksKept
  OBVIOUS
<1>1. order \in Orders /\ Len(order) \in Nat \ {0}
  BY DiskFacts DEF Init
<1>2. Begun = {}
  BY DEF Begun, Init
<1>3. ToSet(modlist) = {} /\ modlist \in Seq(Modules) /\ IsInjective(modlist)
  BY DEF Init, ToSet, IsInjective
<1>4. OrderInv
  BY <1>1, <1>2, <1>3, LoaderAssumption DEF Init, OrderInv
<1>5. /\ WellFormed(initlist)
      /\ \A k \in Keys : ~HashHas(initlist, k)
  BY <1>1, CreateFacts DEF Init
<1>6. ListInv
  BY <1>3, <1>5 DEF Init, ListInv
<1>7. CallbacksKept
  BY <1>3 DEF Init, CallbacksKept
<1>. QED  BY <1>4, <1>6, <1>7

(* module_add *)
LEMMA AddStep ==
  ASSUME ListInv, CallbacksKept, NEW m \in Modules, m \notin ToSet(modlist),
         ModuleAdd(m), detached' = detached
  PROVE  /\ ListInv'
         /\ CallbacksKept'
         /\ ToSet(modlist') = ToSet(modlist) \cup {m}
<1>. USE DEF ListInv
<1>1. NameOf[m] \in Keys /\ cback[m] \in Values \cup {Null} /\ Manager \in Values
  BY LoaderAssumption
<1>2. /\ initlist' = HashSet(initlist, NameOf[m], cback[m])
      /\ quitlist' = initlist'
      /\ cback' = [cback EXCEPT ![m] = Manager]
      /\ modlist' = Append(modlist, m)
  BY DEF ModuleAdd
<1>3. /\ modlist' \in Seq(Modules)
      /\ ToSet(modlist') = ToSet(modlist) \cup {m}
      /\ IsInjective(modlist')
  BY <1>2, AppendMembers
<1>4. /\ WellFormed(initlist')
      /\ \A j \in Keys : HashHas(initlist', j) <=> j = NameOf[m] \/ HashHas(initlist, j)
      /\ \A j \in Keys : HashGet(initlist', j) = IF j = NameOf[m] THEN cback[m]
                                                 ELSE HashGet(initlist, j)
  BY <1>1, <1>2, SetFacts
<1>5. cback[m] \in Modules \cup {Manager}
  OBVIOUS
<1>6. ListInv'
  BY <1>2, <1>3, <1>4, <1>5
<1>7. CallbacksKept'
  <2>. SUFFICES ASSUME NEW o \in Modules, Alone(o), o \notin detached
                PROVE  IF o \in ToSet(modlist')
                       THEN /\ HashGet(initlist', NameOf[o]) = o
                            /\ cback'[o] = Manager
                       ELSE cback'[o] = o
    BY <1>2 DEF CallbacksKept, Alone
  <2>1. NameOf[o] \in Keys
    BY LoaderAssumption
  <2>2. IF o \in ToSet(modlist)
        THEN /\ HashGet(initlist, NameOf[o]) = o
             /\ cback[o] = Manager
        ELSE cback[o] = o
    BY DEF CallbacksKept, Alone
  <2>3. CASE o = m
    BY <1>2, <1>3, <1>4, <2>1, <2>2, <2>3
  <2>4. CASE o # m
    BY <1>2, <1>3, <1>4, <2>1, <2>2, <2>4 DEF Alone
  <2>. QED  BY <2>3, <2>4
<1>. QED  BY <1>3, <1>6, <1>7

(* module_remove by name *)
LEMMA RemoveNameStep ==
  ASSUME ListInv, CallbacksKept, NEW name \in Names, RemoveName(name)
  PROVE  ListInv' /\ CallbacksKept'
<1>. USE DEF ListInv
<1>. DEFINE found == {i \in 1 .. Len(modlist) : NameOf[modlist[i]] = name}
            i == CHOOSE k \in found : \A j \in found : k <= j
            m == modlist[i]
<1>0. name \in Keys
  BY LoaderAssumption DEF Names
<1>1. /\ found # {}
      /\ HashGet(initlist, name) # Null
      /\ cback' = [cback EXCEPT ![m] = HashGet(initlist, name)]
      /\ initlist' = HashRemove(initlist, name)
      /\ quitlist' = initlist'
      /\ modlist' = RemoveAt(modlist, i)
      /\ detached' = detached
  BY DEF RemoveName
<1>2. i \in found
  <2>1. \E k \in found : \A j \in found : k <= j
    <3>1. found \subseteq Nat
      BY LenProperties
    <3>. HIDE DEF found
    <3>. QED  BY <1>1, <3>1, LeastNumber
  <2>. QED  BY <2>1
<1>3. i \in 1 .. Len(modlist) /\ m \in Modules /\ NameOf[m] = name /\ m \in ToSet(modlist)
  BY <1>2, ElementOfSeq, LenProperties DEF ToSet
<1>. HIDE DEF i, found
<1>4. /\ modlist' \in Seq(Modules)
      /\ ToSet(modlist') \subseteq ToSet(modlist)
      /\ ToSet(modlist) \subseteq ToSet(modlist') \cup {m}
      /\ IsInjective(modlist')
      /\ m \notin ToSet(modlist')
  BY <1>1, <1>3, RemoveMembers
<1>. HIDE DEF m
<1>5. /\ WellFormed(initlist')
      /\ \A j \in Keys : HashHas(initlist', j) <=> j # name /\ HashHas(initlist, j)
      /\ \A j \in Keys : j # name => HashGet(initlist', j) = HashGet(initlist, j)
  BY <1>0, <1>1, RemoveFacts
<1>6. HashGet(initlist, name) \in Modules \cup {Manager}
  BY <1>0, <1>1, PlaceFacts
<1>7. ListInv'
  BY <1>1, <1>3, <1>4, <1>5, <1>6
<1>8. CallbacksKept'
  <2>. SUFFICES ASSUME NEW o \in Modules, Alone(o), o \notin detached
                PROVE  IF o \in ToSet(modlist')
                       THEN /\ HashGet(initlist', NameOf[o]) = o
                            /\ cback'[o] = Manager
                       ELSE cback'[o] = o
    BY <1>1 DEF CallbacksKept, Alone
  <2>1. NameOf[o] \in Keys
    BY LoaderAssumption
  <2>2. IF o \in ToSet(modlist)
        THEN /\ HashGet(initlist, NameOf[o]) = o
             /\ cback[o] = Manager
        ELSE cback[o] = o
    BY DEF CallbacksKept, Alone
  <2>3. CASE o = m
    BY <1>1, <1>3, <1>4, <2>2, <2>3
  <2>4. CASE o # m
    <3>1. NameOf[o] # name  BY <1>3, <2>4 DEF Alone
    <3>. QED  BY <1>1, <1>3, <1>4, <1>5, <2>1, <2>2, <2>4, <3>1
  <2>. QED  BY <2>3, <2>4
<1>. QED  BY <1>7, <1>8

(* module_remove by index or address *)
LEMMA RemoveEntryStep ==
  ASSUME ListInv, CallbacksKept, NEW i \in 1 .. Len(modlist), RemoveEntry(i)
  PROVE  ListInv' /\ CallbacksKept'
<1>. USE DEF ListInv
<1>. DEFINE m == modlist[i]
<1>1. m \in Modules /\ m \in ToSet(modlist)
  BY ElementOfSeq, LenProperties DEF ToSet
<1>2. /\ detached' = detached \cup {m}
      /\ modlist' = RemoveAt(modlist, i)
      /\ UNCHANGED <<initlist, quitlist, cback>>
  BY DEF RemoveEntry
<1>3. /\ modlist' \in Seq(Modules)
      /\ ToSet(modlist') \subseteq ToSet(modlist)
      /\ ToSet(modlist) \subseteq ToSet(modlist') \cup {m}
      /\ IsInjective(modlist')
  BY <1>2, RemoveMembers
<1>4. ListInv'
  BY <1>1, <1>2, <1>3
<1>. HIDE DEF m
<1>5. CallbacksKept'
  BY <1>1, <1>2, <1>3 DEF CallbacksKept
<1>. QED  BY <1>4, <1>5

(* A load adds the module at hand, which was not begun before. *)
LEMMA LoadLists ==
  ASSUME OrderInv, ListInv, CallbacksKept, Load
  PROVE  /\ order[next] \in Modules /\ order[next] \notin Begun
         /\ ListInv' /\ CallbacksKept'
         /\ ToSet(modlist') = ToSet(modlist) \cup {order[next]}
<1>. DEFINE m == order[next]
<1>1. /\ m \in Modules
      /\ ModuleAdd(m)
      /\ detached' = detached
      /\ phase = "files" /\ next <= Len(order)
  BY DEF Load
<1>2. m \notin Begun
  BY <1>1, BegunSteps
<1>3. m \notin ToSet(modlist)
  BY <1>1, <1>2 DEF OrderInv
<1>. HIDE DEF m
<1>4. ListInv' /\ CallbacksKept' /\ ToSet(modlist') = ToSet(modlist) \cup {m}
  BY <1>1, <1>3, AddStep
<1>. QED  BY <1>1, <1>2, <1>4 DEF m

LEMMA ListsStep ==
  ASSUME OrderInv, ListInv, CallbacksKept, [LoaderNext]_vars
  PROVE  OrderInv' /\ ListInv' /\ CallbacksKept'
<1>0. ASSUME UNCHANGED lists, detached' = detached
      PROVE  ListInv' /\ CallbacksKept'
  BY <1>0 DEF lists, ListInv, CallbacksKept
<1>. USE DEF OrderInv
<1>d. Len(order) \in Nat \ {0} /\ next \in Nat
  BY DiskFacts
<1>1. CASE PassOver
  <2>1. Begun' \cap Modules = Begun \cap Modules
    BY <1>1, BegunSteps
  <2>2. OrderInv'
    BY <1>1, <1>d, <2>1 DEF PassOver, lists
  <2>. QED  BY <1>0, <1>1, <2>2 DEF PassOver
<1>2. CASE Load
  <2>1. Begun' \cap Modules = (Begun \cap Modules) \cup {order[next]}
    BY <1>2, BegunSteps
  <2>2. /\ ListInv' /\ CallbacksKept'
        /\ ToSet(modlist') = ToSet(modlist) \cup {order[next]}
    BY <1>2, LoadLists
  <2>3. OrderInv'
    <3>1. ToSet(modlist') = Begun' \cap Modules
      BY <1>2, <2>1, <2>2 DEF Load
    <3>2. loaded' = {NameOf[m] : m \in Begun' \cap Modules}
      BY <1>2, <2>1 DEF Load
    <3>3. /\ order' = order
          /\ next' \in 1 .. Len(order) + 1
          /\ phase' \in {"files", "scheduled"}
          /\ phase' = "scheduled" => next' = next /\ next <= Len(order) /\ order[next] \in Modules
          /\ turn' = 0 /\ removed' = removed /\ detached' = detached
          /\ phase # "done"
      BY <1>2, <1>d DEF Load
    <3>. QED  BY <3>1, <3>2, <3>3
  <2>. QED  BY <2>2, <2>3
<1>3. CASE RunScheduled
  <2>1. Begun' = Begun
    BY <1>3, BegunSteps
  <2>2. UNCHANGED lists /\ detached' = detached /\ phase # "done"
    BY <1>3 DEF RunScheduled
  <2>3. OrderInv'
    <3>1. /\ order' = order
          /\ next' \in 1 .. Len(order) + 1
          /\ phase' \in {"files", "scheduled"}
          /\ phase' = "scheduled" => next' = next /\ next <= Len(order) /\ order[next] \in Modules
          /\ turn' \in Nat /\ removed' = removed /\ loaded' = loaded
      BY <1>3, <1>d DEF RunScheduled
    <3>. QED  BY <2>1, <2>2, <3>1 DEF lists
  <2>. QED  BY <1>0, <2>2, <2>3
<1>4. CASE FilesDone
  <2>1. Begun' = Begun
    BY <1>4, BegunSteps
  <2>2. OrderInv'
    BY <1>4, <1>d, <2>1 DEF FilesDone, lists
  <2>. QED  BY <1>0, <1>4, <2>2 DEF FilesDone
<1>5. CASE RunLate
  <2>1. /\ UNCHANGED lists /\ UNCHANGED <<order, next, loaded, detached, removed>>
        /\ phase = "late" /\ phase' \in {"late", "done"} /\ turn' \in Nat
    BY <1>5 DEF RunLate
  <2>2. Begun' = Begun
    BY <2>1 DEF Begun
  <2>3. OrderInv'
    BY <2>1, <2>2 DEF lists
  <2>. QED  BY <1>0, <2>1, <2>3
<1>6. CASE ModuleRemove
  <2>1. /\ UNCHANGED <<order, next, phase, turn, loaded>>
        /\ phase = "done" /\ removed < Removes /\ removed' = removed + 1
    BY <1>6 DEF ModuleRemove
  <2>2. Begun' = Begun
    BY <2>1 DEF Begun
  <2>3. OrderInv'
    BY <2>1, <2>2, LoaderAssumption
  <2>4. ListInv' /\ CallbacksKept'
    <3>1. CASE \E name \in Names : RemoveName(name)
      BY <3>1, RemoveNameStep
    <3>2. CASE \E i \in 1 .. Len(modlist) : RemoveEntry(i)
      BY <3>2, RemoveEntryStep
    <3>. QED  BY <1>6, <3>1, <3>2 DEF ModuleRemove
  <2>. QED  BY <2>3, <2>4
<1>7. CASE \E m \in Modules : AddAgain(m)
  <2>1. PICK m \in Modules : AddAgain(m)
    BY <1>7
  <2>2. /\ UNCHANGED <<order, next, phase, turn, loaded, removed, detached>>
        /\ phase = "done" /\ m \notin ToSet(modlist) /\ ModuleAdd(m)
    BY <2>1 DEF AddAgain
  <2>3. Begun' = Begun
    BY <2>2 DEF Begun
  <2>4. OrderInv'
    BY <2>2, <2>3
  <2>5. ListInv' /\ CallbacksKept'
    BY <2>2, AddStep
  <2>. QED  BY <2>4, <2>5
<1>8. CASE UNCHANGED vars
  <2>1. Begun' = Begun
    BY <1>8 DEF Begun, vars
  <2>2. OrderInv'
    BY <1>8, <2>1 DEF vars
  <2>. QED  BY <1>0, <1>8, <2>2 DEF vars, lists
<1>. QED
  BY <1>1, <1>2, <1>3, <1>4, <1>5, <1>6, <1>7, <1>8 DEF LoaderNext

-----------------------------------------------------------------------------
(***************************************************************************)
(* The calls that wait for a name.  Only one pass of the loop runs any: it *)
(* starts with none run and all in the map, runs them in their order, and  *)
(* leaves the first number free for good.                                  *)
(***************************************************************************)

(* The name that calls wait for, if any, and the key of its i-th call. *)
TheName == CHOOSE name \in Awaited : TRUE

Key(i) == Quick(TheName, i)

(* The i-th of these calls: it has run, or it is in the map. *)
Call(i) == IF i < Len(ran) THEN ran[i + 1] ELSE HashGet(quick, Key(i))

Numbers == 0 .. numbered.quick - 1
Waiting == Len(ran) .. numbered.quick - 1

EarlyQuick == {c \in early : c[2] # 0}
EarlyLate == {c \in early : c[2] = 0}

(* While the files are loaded. *)
NumbersInv ==
  /\ Len(ran) <= numbered.quick
  /\ numbered.quick > 0 => Awaited # {}
  /\ \A k \in Keys : HashHas(quick, k) =>
       Awaited # {} /\ (k = TheName \/ \E i \in Waiting : k = Key(i))
  /\ \A i \in Waiting : HashHas(quick, Key(i))
  /\ \A i \in Numbers : /\ Call(i) \in Calls
                        /\ Call(i)[1] \in Begun
                        /\ Call(i)[2] \in 1 .. Len(WaitsFor[Call(i)[1]])
  /\ \A i, j \in Numbers : Call(i) = Call(j) => i = j
  /\ EarlyQuick \subseteq {Call(i) : i \in Numbers}

QuickInv ==
  /\ WellFormed(quick)
  /\ numbered.quick \in 0 .. Cardinality(Calls)
  /\ ran \in Seq(Calls)
  /\ phase \in {"files", "scheduled"} => NumbersInv
  /\ phase = "files" /\ TheName \notin loaded =>
       /\ ran = <<>>
       /\ numbered.quick > 0 => HashHas(quick, TheName)
  /\ phase = "files" /\ TheName \in loaded => EarlyQuick \subseteq ToSet(ran)
  /\ phase = "scheduled" =>
       /\ NameOf[order[next]] = TheName /\ Awaited # {}
       /\ \/ turn = Len(ran)
          \/ turn = 0 /\ EarlyQuick \subseteq ToSet(ran)

LEMMA CallsFacts ==
  /\ \A c \in Calls : c = <<c[1], c[2]>> /\ c[1] \in Modules /\ c[2] \in 0 .. 2
  /\ \A m \in Modules, n \in 0 .. 2 : <<m, n>> \in Calls
  /\ \A m \in Modules, n \in 0 .. 2 : <<m, n>>[1] = m /\ <<m, n>>[2] = n
  /\ Calls \subseteq Values
  /\ IsFiniteSet(Calls)
  /\ Cardinality(Calls) \in Nat
<1>1. Calls = Modules \X (0 .. 2)
  BY DEF Calls
<1>2. IsFiniteSet(0 .. 2)
  <2>1. 0 \in Int /\ 2 \in Int  OBVIOUS
  <2>. QED  BY <2>1, FS_Interval
<1>3. IsFiniteSet(Calls)
  BY <1>1, <1>2, ScheduleAssumption, FS_Product
<1>4. Cardinality(Calls) \in Nat
  BY <1>3, FS_CardinalityType
<1>. QED  BY <1>1, <1>3, <1>4, LoaderAssumption

LEMMA WaitsFacts ==
  ASSUME NEW m \in Modules
  PROVE  /\ Len(WaitsFor[m]) \in 0 .. 2
         /\ \A i \in 1 .. Len(WaitsFor[m]) : WaitsFor[m][i] = TheName /\ Awaited # {}
         /\ WaitsFor[m] \in Seq(Keys)
<1>1. WaitsFor[m] \in Seq(Keys)
  BY LoaderAssumption
<1>2. Len(WaitsFor[m]) \in 0 .. 2
  <2>1. Len(WaitsFor[m]) <= 2
    BY ScheduleAssumption
  <2>2. Len(WaitsFor[m]) \in Nat
    BY <1>1, LenProperties
  <2>3. \A n \in Nat : n <= 2 => n \in 0 .. 2
    OBVIOUS
  <2>. QED  BY <2>1, <2>2, <2>3
<1>3. \A i \in 1 .. Len(WaitsFor[m]) : WaitsFor[m][i] \in Awaited
  BY <1>1, LenProperties DEF Awaited, ToSet
<1>. QED  BY <1>1, <1>2, <1>3, ScheduleAssumption DEF TheName

LEMMA KeyFacts ==
  ASSUME Awaited # {}
  PROVE  /\ TheName \in Awaited /\ TheName \in Keys
         /\ \A i \in 0 .. Cardinality(Calls) :
              /\ Key(i) \in Keys
              /\ Key(i) # TheName
              /\ \A m \in Modules : Key(i) # NameOf[m]
         /\ \A i, j \in Nat : Key(i) = Key(j) => i = j
<1>1. TheName \in Awaited
  BY DEF TheName
<1>2. PICK m \in Modules : TheName \in ToSet(WaitsFor[m])
  BY <1>1 DEF Awaited
<1>3. TheName \in Keys
  <2>1. PICK i \in 1 .. Len(WaitsFor[m]) : WaitsFor[m][i] = TheName
    BY <1>2, WaitsFacts, LenProperties DEF ToSet
  <2>. QED  BY <2>1, WaitsFacts, ElementOfSeq
<1>4. \A i \in 0 .. Cardinality(Calls) : Key(i) \in Keys \ (Names \cup Awaited)
  BY <1>1, ScheduleAssumption DEF Key
<1>5. \A o \in Modules : NameOf[o] \in Names
  BY DEF Names
<1>6. \A i, j \in Nat : Key(i) = Key(j) => i = j
  BY DEF Key, Quick
<1>. QED  BY <1>1, <1>3, <1>4, <1>5, <1>6

(* One call of module_schedule QUICK. *)
Put(map, m, n, i) ==
  HashSet(HashSet(map, Quick(WaitsFor[m][i], n + i - 1), <<m, i>>), WaitsFor[m][i], Null)

LEMMA PutFacts ==
  ASSUME NEW map, WellFormed(map), NEW m \in Modules, NEW i \in 1 .. Len(WaitsFor[m]),
         NEW n \in Nat, n + i - 1 <= Cardinality(Calls)
  PROVE  /\ WellFormed(Put(map, m, n, i))
         /\ \A k \in Keys : HashHas(Put(map, m, n, i), k) <=>
              k = TheName \/ k = Key(n + i - 1) \/ HashHas(map, k)
         /\ HashGet(Put(map, m, n, i), Key(n + i - 1)) = <<m, i>>
         /\ \A k \in Keys : k # TheName /\ k # Key(n + i - 1) =>
              HashGet(Put(map, m, n, i), k) = HashGet(map, k)
<1>. DEFINE key == Key(n + i - 1)
            first == HashSet(map, key, <<m, i>>)
<1>1. WaitsFor[m][i] = TheName /\ Awaited # {} /\ i \in 0 .. 2
  BY WaitsFacts
<1>2. n + i - 1 \in 0 .. Cardinality(Calls)
  BY <1>1, CallsFacts
<1>3. key \in Keys /\ key # TheName /\ TheName \in Keys
  BY <1>1, <1>2, KeyFacts
<1>4. <<m, i>> \in Values
  BY <1>1, CallsFacts
<1>5. Put(map, m, n, i) = HashSet(first, TheName, Null)
  BY <1>1 DEF Put, Key
<1>. HIDE DEF key
<1>6. /\ WellFormed(first)
      /\ \A k \in Keys : HashHas(first, k) <=> k = key \/ HashHas(map, k)
      /\ \A k \in Keys : HashGet(first, k) = IF k = key THEN <<m, i>> ELSE HashGet(map, k)
  BY <1>3, <1>4, SetFacts
<1>. HIDE DEF first
<1>7. /\ WellFormed(HashSet(first, TheName, Null))
      /\ \A k \in Keys : HashHas(HashSet(first, TheName, Null), k)
                           <=> k = TheName \/ HashHas(first, k)
      /\ \A k \in Keys : HashGet(HashSet(first, TheName, Null), k) =
                           IF k = TheName THEN Null ELSE HashGet(first, k)
  BY <1>3, <1>6, SetFacts
<1>. QED  BY <1>3, <1>5, <1>6, <1>7 DEF key

(* What the recursion of QuickMap comes to. *)
LEMMA QuickMapIs ==
  ASSUME NEW m \in Modules
  PROVE  QuickMap(m) =
           IF Len(WaitsFor[m]) = 0 THEN quick
           ELSE IF Len(WaitsFor[m]) = 1 THEN Put(quick, m, numbered.quick, 1)
           ELSE Put(Put(quick, m, numbered.quick, 1), m, numbered.quick, 2)
<1>. DEFINE L == Len(WaitsFor[m])
            F(f) == [i \in 0 .. L |->
                       IF i = 0 THEN quick ELSE Put(f[i - 1], m, numbered.quick, i)]
            W == CHOOSE f : f = F(f)
            P1 == Put(quick, m, numbered.quick, 1)
            P2 == Put(P1, m, numbered.quick, 2)
            g == [i \in 0 .. L |-> IF i = 0 THEN quick ELSE IF i = 1 THEN P1 ELSE P2]
<1>1. L \in 0 .. 2
  BY WaitsFacts
<1>2. QuickMap(m) = W[L]
  BY Zenon DEF QuickMap, Put
<1>. HIDE DEF L
<1>3. \A i \in 0 .. L : F(g)[i] = g[i]
  <2>. TAKE i \in 0 .. L
  <2>1. CASE i = 0
    BY <1>1, <2>1
  <2>2. CASE i = 1
    <3>1. i - 1 \in 0 .. L /\ i - 1 = 0  BY <1>1, <2>2
    <3>2. g[i - 1] = quick  BY <3>1
    <3>. QED  BY <1>1, <2>2, <3>2
  <2>3. CASE i = 2
    <3>1. i - 1 \in 0 .. L /\ i - 1 = 1  BY <1>1, <2>3
    <3>2. g[i - 1] = P1  BY <3>1
    <3>. QED  BY <1>1, <2>3, <3>2
  <2>. QED  BY <1>1, <2>1, <2>2, <2>3
<1>4. g = F(g)
  BY <1>3
<1>. HIDE DEF g
<1>5. W = F(W)
  <2>. HIDE DEF F
  <2>. QED  BY <1>4
<1>. HIDE DEF W
<1>6. W[0] = quick
  <2>1. 0 \in 0 .. L  BY <1>1
  <2>. QED  BY <1>5, <2>1
<1>n. \A i \in 1 .. L : W[i] = Put(W[i - 1], m, numbered.quick, i)
  <2>. TAKE i \in 1 .. L
  <2>1. i \in 0 .. L /\ i # 0
    BY <1>1
  <2>2. F(W)[i] = Put(W[i - 1], m, numbered.quick, i)
    BY <2>1
  <2>. QED  BY <1>5, <2>2
<1>7. L >= 1 => W[1] = P1
  <2>1. L >= 1 => 1 \in 1 .. L /\ 1 - 1 = 0 BY <1>1
  <2>. QED  BY <1>n, <1>6, <2>1
<1>8. L >= 2 => W[2] = P2
  <2>1. L >= 2 => 2 \in 1 .. L /\ 2 - 1 = 1 BY <1>1
  <2>. QED  BY <1>1, <1>n, <1>7, <2>1
<1>9. W[L] = IF L = 0 THEN quick ELSE IF L = 1 THEN P1 ELSE P2
  <2>1. L = 0 \/ L = 1 \/ L = 2
    BY <1>1
  <2>. HIDE DEF P1, P2
  <2>. QED  BY <2>1, <1>6, <1>7, <1>8
<1>. QED  BY <1>2, <1>9 DEF L

LEMMA QuickMapFacts ==
  ASSUME NEW m \in Modules, WellFormed(quick), numbered.quick \in Nat,
         numbered.quick + Len(WaitsFor[m]) <= Cardinality(Calls)
  PROVE  /\ WellFormed(QuickMap(m))
         /\ \A k \in Keys : HashHas(QuickMap(m), k) <=>
              \/ HashHas(quick, k)
              \/ Len(WaitsFor[m]) > 0 /\ k = TheName
              \/ \E i \in 1 .. Len(WaitsFor[m]) : k = Key(numbered.quick + i - 1)
         /\ \A i \in 1 .. Len(WaitsFor[m]) :
              HashGet(QuickMap(m), Key(numbered.quick + i - 1)) = <<m, i>>
         /\ \A k \in Keys :
              k # TheName /\ (\A i \in 1 .. Len(WaitsFor[m]) : k # Key(numbered.quick + i - 1))
                => HashGet(QuickMap(m), k) = HashGet(quick, k)
<1>. DEFINE L == Len(WaitsFor[m])
            n == numbered.quick
            P1 == Put(quick, m, n, 1)
            P2 == Put(P1, m, n, 2)
<1>0. L \in 0 .. 2 /\ Cardinality(Calls) \in Nat
  BY WaitsFacts, CallsFacts
<1>q. QuickMap(m) = IF L = 0 THEN quick ELSE IF L = 1 THEN P1 ELSE P2
  BY QuickMapIs
<1>1. L >= 1 => /\ WellFormed(P1)
                /\ \A k \in Keys : HashHas(P1, k) <=>
                     k = TheName \/ k = Key(n) \/ HashHas(quick, k)
                /\ HashGet(P1, Key(n)) = <<m, 1>>
                /\ \A k \in Keys : k # TheName /\ k # Key(n) => HashGet(P1, k) = HashGet(quick, k)
  <2>1. L >= 1 => 1 \in 1 .. L /\ n + 1 - 1 <= Cardinality(Calls) /\ n + 1 - 1 = n
    BY <1>0
  <2>. QED  BY <2>1, PutFacts
<1>2. L = 2 => /\ WellFormed(P2)
               /\ \A k \in Keys : HashHas(P2, k) <=>
                    k = TheName \/ k = Key(n + 1) \/ HashHas(P1, k)
               /\ HashGet(P2, Key(n + 1)) = <<m, 2>>
               /\ \A k \in Keys : k # TheName /\ k # Key(n + 1) => HashGet(P2, k) = HashGet(P1, k)
  <2>1. L = 2 => 2 \in 1 .. L /\ n + 2 - 1 <= Cardinality(Calls) /\ n + 2 - 1 = n + 1
    BY <1>0
  <2>. SUFFICES ASSUME L = 2
                PROVE  /\ WellFormed(P2)
                       /\ \A k \in Keys : HashHas(P2, k) <=>
                            k = TheName \/ k = Key(n + 1) \/ HashHas(P1, k)
                       /\ HashGet(P2, Key(n + 1)) = <<m, 2>>
                       /\ \A k \in Keys : k # TheName /\ k # Key(n + 1) =>
                            HashGet(P2, k) = HashGet(P1, k)
    OBVIOUS
  <2>2. WellFormed(P1)
    BY <1>1
  <2>. HIDE DEF P1
  <2>3. /\ WellFormed(P2)
        /\ \A k \in Keys : HashHas(P2, k) <=>
             k = TheName \/ k = Key(n + 2 - 1) \/ HashHas(P1, k)
        /\ HashGet(P2, Key(n + 2 - 1)) = <<m, 2>>
        /\ \A k \in Keys : k # TheName /\ k # Key(n + 2 - 1) =>
             HashGet(P2, k) = HashGet(P1, k)
    BY <2>1, <2>2, PutFacts
  <2>. QED  BY <2>1, <2>3
<1>3. L >= 1 => /\ Awaited # {}
                /\ Key(n) \in Keys /\ Key(n) # TheName
                /\ L = 2 => Key(n) # Key(n + 1) /\ Key(n + 1) # TheName
  <2>1. L >= 1 => Awaited # {} /\ n \in 0 .. Cardinality(Calls)
    BY <1>0, WaitsFacts
  <2>2. L = 2 => n + 1 \in 0 .. Cardinality(Calls) /\ n # n + 1 /\ n \in Nat /\ n + 1 \in Nat
    BY <1>0
  <2>. QED  BY <1>0, <2>1, <2>2, KeyFacts
<1>4. L = 1 => 1 .. L = {1} /\ n + 1 - 1 = n
  OBVIOUS
<1>5. L = 2 => 1 .. L = {1, 2} /\ n + 1 - 1 = n /\ n + 2 - 1 = n + 1
  OBVIOUS
<1>6. L = 0 => 1 .. L = {}
  OBVIOUS
<1>. HIDE DEF P1, P2, L
<1>7. CASE L = 0
  BY <1>q, <1>6, <1>7 DEF L
<1>8. CASE L = 1
  <2>1. QuickMap(m) = P1 /\ 1 .. L = {1} /\ n + 1 - 1 = n
    BY <1>q, <1>4, <1>8
  <2>. QED  BY <1>1, <1>8, <2>1 DEF L
<1>9. CASE L = 2
  <2>1. QuickMap(m) = P2 /\ 1 .. L = {1, 2} /\ n + 1 - 1 = n /\ n + 2 - 1 = n + 1
    BY <1>q, <1>5, <1>9
  <2>. QED  BY <1>1, <1>2, <1>3, <1>9, <2>1 DEF L
<1>. QED  BY <1>0, <1>7, <1>8, <1>9

LEMMA InitQuick == Init => QuickInv
<1>. SUFFICES ASSUME Init PROVE QuickInv
  OBVIOUS
<1>1. /\ WellFormed(quick)
      /\ \A k \in Keys : ~HashHas(quick, k)
  BY CreateFacts DEF Init
<1>2. /\ numbered.quick = 0 /\ ran = <<>> /\ early = {} /\ loaded = {}
      /\ phase = "files" /\ Len(ran) = 0
  BY DEF Init
<1>3. Numbers = {} /\ Waiting = {} /\ EarlyQuick = {}
  BY <1>2 DEF Numbers, Waiting, EarlyQuick
<1>4. NumbersInv
  BY <1>1, <1>2, <1>3 DEF NumbersInv
<1>5. numbered.quick \in 0 .. Cardinality(Calls)
  BY <1>2, CallsFacts
<1>. QED  BY <1>1, <1>2, <1>4, <1>5 DEF QuickInv

LEMMA NumbersKept ==
  ASSUME NumbersInv, UNCHANGED <<quick, numbered, ran, early>>,
         Begun \cap Modules \subseteq Begun'
  PROVE  NumbersInv'
<1>1. /\ Numbers' = Numbers /\ Waiting' = Waiting /\ EarlyQuick' = EarlyQuick
      /\ \A i : Call(i)' = Call(i)
  BY DEF Numbers, Waiting, EarlyQuick, Call
<1>2. \A i \in Numbers : Call(i)[1] \in Begun'
  BY CallsFacts DEF NumbersInv
<1>. QED  BY <1>1, <1>2 DEF NumbersInv

(* The loop of modules_load over name_0, name_1, ... *)
LEMMA RunScheduledQuick ==
  ASSUME OrderInv, QuickInv, RunScheduled
  PROVE  QuickInv'
<1>. DEFINE L == Len(ran)
            n == numbered.quick
            key == Quick(NameOf[order[next]], turn)
<1>0. phase = "scheduled"
  BY DEF RunScheduled
<1>1. /\ phase = "scheduled" /\ NumbersInv
      /\ NameOf[order[next]] = TheName /\ Awaited # {}
      /\ \/ turn = L
         \/ turn = 0 /\ EarlyQuick \subseteq ToSet(ran)
      /\ WellFormed(quick) /\ ran \in Seq(Calls)
      /\ n \in 0 .. Cardinality(Calls)
  BY <1>0 DEF QuickInv
<1>2. /\ key = Key(turn)
      /\ UNCHANGED <<order, lists, late, numbered, loaded, early>>
  BY <1>1 DEF RunScheduled, Key
<1>3. L \in Nat /\ L <= n /\ n \in Nat /\ Cardinality(Calls) \in Nat
      /\ turn \in 0 .. Cardinality(Calls)
      /\ DOMAIN ran = 1 .. L
  <2>1. L \in Nat /\ DOMAIN ran = 1 .. L /\ L <= n
    BY <1>1, LenProperties DEF NumbersInv
  <2>2. n \in Nat /\ turn \in Nat /\ 0 <= turn /\ turn <= n
    BY <1>1, <2>1, CallsFacts DEF OrderInv
  <2>. QED  BY <1>1, <2>1, <2>2, CallsFacts
<1>r. /\ Numbers \subseteq 0 .. Cardinality(Calls) /\ Numbers \subseteq Nat
      /\ Waiting \subseteq 0 .. Cardinality(Calls) /\ Waiting \subseteq Nat
  <2>. DEFINE max == Cardinality(Calls)
  <2>1. n \in 0 .. max /\ max \in Nat  BY <1>1, <1>3
  <2>. HIDE DEF max, n, L
  <2>2. /\ \A i \in 0 .. n - 1 : i \in 0 .. max /\ i \in Nat
        /\ \A i \in L .. n - 1 : i \in 0 .. max /\ i \in Nat
    BY <1>3, <2>1
  <2>. QED  BY <2>2 DEF Numbers, Waiting, max, n, L
<1>4. /\ TheName \in Keys
      /\ \A i \in 0 .. Cardinality(Calls) : Key(i) \in Keys /\ Key(i) # TheName
      /\ \A i, j \in Nat : Key(i) = Key(j) => i = j
  BY <1>1, KeyFacts
<1>b. Begun' = Begun
  BY BegunSteps
<1>c. Numbers' = Numbers /\ EarlyQuick' = EarlyQuick
  BY <1>2 DEF Numbers, EarlyQuick
<1>5. CASE HashHas(quick, key)
  <2>1. /\ ran' = Append(ran, HashGet(quick, Key(turn)))
        /\ quick' = HashRemove(quick, Key(turn))
        /\ turn' = turn + 1
        /\ UNCHANGED <<next, phase>>
    BY <1>2, <1>5 DEF RunScheduled
  <2>2. turn = L /\ L \in Waiting
    <3>1. PICK i \in Waiting : Key(turn) = Key(i)
      BY <1>1, <1>2, <1>3, <1>4, <1>5 DEF NumbersInv
    <3>2. turn = i
      BY <1>3, <1>4, <3>1 DEF Waiting
    <3>3. turn >= L
      BY <1>3, <3>1, <3>2 DEF Waiting
    <3>. QED  BY <1>1, <1>3, <3>1, <3>2, <3>3
  <2>3. L < n /\ L \in Numbers /\ Call(L) = HashGet(quick, Key(turn))
    BY <1>3, <2>2 DEF Waiting, Numbers, Call
  <2>4. Call(L) \in Calls
    BY <1>1, <2>3 DEF NumbersInv
  <2>5. /\ ran' \in Seq(Calls)
        /\ Len(ran') = L + 1
        /\ \A i \in 1 .. L : ran'[i] = ran[i]
        /\ ran'[L + 1] = Call(L)
    BY <1>1, <2>1, <2>3, <2>4, AppendProperties
  <2>6. /\ WellFormed(quick')
        /\ \A k \in Keys : HashHas(quick', k) <=> k # Key(L) /\ HashHas(quick, k)
        /\ \A k \in Keys : k # Key(L) => HashGet(quick', k) = HashGet(quick, k)
    BY <1>1, <1>3, <1>4, <2>1, <2>2, RemoveFacts
  <2>7. \A i \in Numbers : Call(i)' = Call(i)
    <3>. SUFFICES ASSUME NEW i \in Numbers PROVE Call(i)' = Call(i)
      OBVIOUS
    <3>0. i \in Nat /\ i \in 0 .. Cardinality(Calls)
      BY <1>r
    <3>1. CASE i < L
      <4>1. i + 1 \in 1 .. L /\ i < L + 1  BY <1>3, <3>0, <3>1
      <4>. QED  BY <2>5, <3>1, <4>1 DEF Call
    <3>2. CASE i = L
      <4>1. L < L + 1  BY <1>3
      <4>. QED  BY <2>5, <3>2, <4>1 DEF Call
    <3>3. CASE i > L
      <4>1. ~(i < L + 1) /\ ~(i < L) /\ Key(i) # Key(L) /\ Key(i) \in Keys
        <5>1. i # L /\ ~(i < L + 1) /\ ~(i < L)
          <6>1. \A x, y \in Nat : x > y => x # y /\ ~(x < y + 1) /\ ~(x < y)
            OBVIOUS
          <6>. QED  BY <1>3, <3>0, <3>3, <6>1
        <5>. QED  BY <1>3, <1>4, <3>0, <5>1
      <4>2. HashGet(quick', Key(i)) = HashGet(quick, Key(i))
        BY <2>6, <4>1
      <4>3. ~(i < Len(ran'))
        BY <2>5, <4>1
      <4>. QED  BY <4>1, <4>2, <4>3 DEF Call, Key
    <3>4. \A x, y \in Nat : x < y \/ x = y \/ x > y
      OBVIOUS
    <3>. QED  BY <1>3, <3>0, <3>1, <3>2, <3>3, <3>4
  <2>8. Waiting' = Waiting \ {L}
    <3>1. L + 1 .. n - 1 = (L .. n - 1) \ {L}
      BY <1>3
    <3>. QED  BY <1>2, <2>5, <3>1 DEF Waiting
  <2>9. NumbersInv'
    <3>1. Len(ran') <= n
      BY <1>3, <2>3, <2>5
    <3>2. \A k \in Keys : HashHas(quick', k) =>
            Awaited # {} /\ (k = TheName \/ \E i \in Waiting' : k = Key(i))
      BY <1>1, <2>6, <2>8 DEF NumbersInv
    <3>3. \A i \in Waiting' : HashHas(quick', Key(i))
      <4>. SUFFICES ASSUME NEW i \in Waiting' PROVE HashHas(quick', Key(i))
        OBVIOUS
      <4>1. i \in Waiting /\ i # L  BY <2>8
      <4>2. i \in Nat /\ i \in 0 .. Cardinality(Calls)
        BY <1>r, <4>1
      <4>3. Key(i) # Key(L) /\ Key(i) \in Keys
        BY <1>3, <1>4, <4>1, <4>2
      <4>. QED  BY <1>1, <2>6, <4>1, <4>3 DEF NumbersInv
    <3>4. \A i \in Numbers' : /\ Call(i)' \in Calls
                              /\ Call(i)'[1] \in Begun'
                              /\ Call(i)'[2] \in 1 .. Len(WaitsFor[Call(i)'[1]])
      BY <1>1, <1>b, <1>c, <2>7 DEF NumbersInv
    <3>5. \A i, j \in Numbers' : Call(i)' = Call(j)' => i = j
      BY <1>1, <1>c, <2>7 DEF NumbersInv
    <3>6. EarlyQuick' \subseteq {Call(i)' : i \in Numbers'}
      BY <1>1, <1>c, <2>7 DEF NumbersInv
    <3>. QED  BY <1>1, <1>2, <3>1, <3>2, <3>3, <3>4, <3>5, <3>6 DEF NumbersInv
  <2>. QED
    BY <1>1, <1>2, <2>1, <2>2, <2>5, <2>6, <2>9 DEF QuickInv
<1>6. CASE ~HashHas(quick, key)
  <2>1. /\ quick' = HashRemove(quick, TheName)
        /\ phase' = "files"
        /\ next' = next + 1
        /\ UNCHANGED <<turn, ran>>
    BY <1>1, <1>2, <1>6 DEF RunScheduled
  <2>2. EarlyQuick \subseteq ToSet(ran)
    <3>1. CASE turn = 0 /\ EarlyQuick \subseteq ToSet(ran)
      BY <3>1
    <3>2. CASE turn = L
      <4>1. L \notin Waiting
        BY <1>1, <1>2, <1>6, <3>2 DEF NumbersInv
      <4>2. L = n
        BY <1>3, <4>1 DEF Waiting
      <4>3. \A i \in Numbers : Call(i) \in ToSet(ran)
        <5>. TAKE i \in Numbers
        <5>1. i < L /\ i + 1 \in 1 .. L
          BY <1>3, <4>2 DEF Numbers
        <5>. QED  BY <1>3, <5>1 DEF Call, ToSet
      <4>. QED  BY <1>1, <4>3 DEF NumbersInv
    <3>. QED  BY <1>1, <3>1, <3>2
  <2>3. /\ WellFormed(quick')
        /\ \A k \in Keys : HashHas(quick', k) <=> k # TheName /\ HashHas(quick, k)
        /\ \A k \in Keys : k # TheName => HashGet(quick', k) = HashGet(quick, k)
    BY <1>1, <1>4, <2>1, RemoveFacts
  <2>4. Waiting' = Waiting
    BY <1>2, <2>1 DEF Waiting
  <2>5. \A i \in Numbers : Call(i)' = Call(i)
    <3>. TAKE i \in Numbers
    <3>1. Key(i) \in Keys /\ Key(i) # TheName
      BY <1>r, <1>4
    <3>. QED  BY <2>1, <2>3, <3>1 DEF Call, Key
  <2>6. \A i \in Waiting : Key(i) \in Keys /\ Key(i) # TheName
    BY <1>r, <1>4
  <2>7. NumbersInv'
    <3>1. \A k \in Keys : HashHas(quick', k) =>
            Awaited # {} /\ (k = TheName \/ \E i \in Waiting' : k = Key(i))
      BY <1>1, <2>3, <2>4 DEF NumbersInv
    <3>2. \A i \in Waiting' : HashHas(quick', Key(i))
      BY <1>1, <2>3, <2>4, <2>6 DEF NumbersInv
    <3>3. \A i \in Numbers' : /\ Call(i)' \in Calls
                              /\ Call(i)'[1] \in Begun'
                              /\ Call(i)'[2] \in 1 .. Len(WaitsFor[Call(i)'[1]])
      BY <1>1, <1>b, <1>c, <2>5 DEF NumbersInv
    <3>4. \A i, j \in Numbers' : Call(i)' = Call(j)' => i = j
      BY <1>1, <1>c, <2>5 DEF NumbersInv
    <3>5. EarlyQuick' \subseteq {Call(i)' : i \in Numbers'}
      BY <1>1, <1>c, <2>5 DEF NumbersInv
    <3>. QED  BY <1>1, <1>2, <2>1, <3>1, <3>2, <3>3, <3>4, <3>5 DEF NumbersInv
  <2>8. TheName \in loaded'
    <3>1. order[next] \in Begun \cap Modules
      BY <1>1, DiskFacts DEF OrderInv, Begun
    <3>. QED  BY <1>1, <1>2, <3>1 DEF OrderInv
  <2>. QED
    BY <1>1, <1>2, <1>c, <2>1, <2>2, <2>3, <2>7, <2>8 DEF QuickInv
<1>. QED  BY <1>5, <1>6

LEMMA UpTo ==
  ASSUME NEW n \in Nat
  PROVE  IsFiniteSet(1 .. n) /\ Cardinality(1 .. n) = n
<1>1. 1 \in Int /\ n \in Int
  OBVIOUS
<1>2. IsFiniteSet(1 .. n) /\ Cardinality(1 .. n) = IF 1 > n THEN 0 ELSE n - 1 + 1
  BY <1>1, FS_Interval
<1>. QED  BY <1>2

(* What the init of the module at hand does to the calls put off.  All its *)
(* calls are new: the module was not begun before.                         *)
LEMMA LoadNumbers ==
  ASSUME OrderInv, QuickInv, Load
  PROVE  /\ numbered'.quick = numbered.quick + Len(WaitsFor[order[next]])
         /\ numbered'.quick \in 0 .. Cardinality(Calls)
<1>. DEFINE m == order[next]
            L == Len(WaitsFor[m])
            n == numbered.quick
            new == [i \in 1 .. n + L |-> IF i <= n THEN Call(i - 1) ELSE <<m, i - n>>]
<1>1. phase = "files" /\ next <= Len(order) /\ m \in Modules /\ m \notin Begun
  BY BegunSteps DEF Load
<1>2. numbered'.quick = n + L
  BY DEF Load, RunInit
<1>3. L \in 0 .. 2 /\ n \in Nat /\ Cardinality(Calls) \in Nat /\ IsFiniteSet(Calls)
  BY <1>1, WaitsFacts, CallsFacts DEF QuickInv
<1>4. /\ \A i \in Numbers : Call(i) \in Calls /\ Call(i)[1] \in Begun
      /\ \A i, j \in Numbers : Call(i) = Call(j) => i = j
  BY <1>1 DEF QuickInv, NumbersInv
<1>. HIDE DEF L, m
<1>5. \A i \in 1 .. n + L :
        \/ i <= n /\ i - 1 \in Numbers
        \/ ~(i <= n) /\ i - n \in 1 .. L /\ i - n \in 0 .. 2
  BY <1>3 DEF Numbers
<1>6. \A i \in 1 .. n + L : /\ new[i] \in Calls
                            /\ new[i][1] \in Begun <=> i <= n
                            /\ i <= n => new[i] = Call(i - 1)
                            /\ ~(i <= n) => new[i] = <<m, i - n>>
  <2>. TAKE i \in 1 .. n + L
  <2>1. CASE i <= n
    BY <1>4, <1>5, <2>1
  <2>2. CASE ~(i <= n)
    <3>1. <<m, i - n>> \in Calls /\ <<m, i - n>>[1] = m
      BY <1>1, <1>5, <2>2, CallsFacts
    <3>. QED  BY <1>1, <2>2, <3>1
  <2>. QED  BY <2>1, <2>2
<1>. HIDE DEF new
<1>7. \A i, j \in 1 .. n + L : new[i] = new[j] => i = j
  <2>. SUFFICES ASSUME NEW i \in 1 .. n + L, NEW j \in 1 .. n + L, new[i] = new[j]
                PROVE  i = j
    OBVIOUS
  <2>1. CASE i <= n /\ j <= n
    <3>1. Call(i - 1) = Call(j - 1)  BY <1>6, <2>1
    <3>2. i - 1 = j - 1  BY <1>4, <1>5, <2>1, <3>1
    <3>. QED  BY <3>2
  <2>2. CASE ~(i <= n) /\ ~(j <= n)
    <3>1. <<m, i - n>> = <<m, j - n>>  BY <1>6, <2>2
    <3>2. i - n = j - n  BY <3>1
    <3>. QED  BY <1>3, <3>2
  <2>3. i <= n <=> j <= n
    BY <1>6
  <2>. QED  BY <2>1, <2>2, <2>3
<1>8. n + L <= Cardinality(Calls)
  <2>1. new \in [1 .. n + L -> Calls]
    <3>1. DOMAIN new = 1 .. n + L /\ new = [i \in 1 .. n + L |-> new[i]]
      BY DEF new
    <3>. QED  BY <1>6, <3>1
  <2>2. new \in Injection(1 .. n + L, Calls)
    BY <1>7, <2>1 DEF Injection, IsInjective
  <2>3. Cardinality(1 .. n + L) <= Cardinality(Calls)
    BY <1>3, <2>2, FS_Injection
  <2>6. Cardinality(1 .. n + L) = n + L
    <3>1. n + L \in Nat  BY <1>3
    <3>. QED  BY <3>1, UpTo
  <2>. QED  BY <2>3, <2>6
<1>9. n + L \in 0 .. Cardinality(Calls)
  BY <1>3, <1>8
<1>. QED  BY <1>2, <1>9 DEF L, m

LEMMA LoadQuick ==
  ASSUME OrderInv, QuickInv, Load
  PROVE  QuickInv'
<1>. DEFINE m == order[next]
            L == Len(WaitsFor[m])
            n == numbered.quick
<1>1. /\ phase = "files" /\ next <= Len(order) /\ m \in Modules /\ m \notin Begun
      /\ Begun' = Begun \cup {m}
  BY BegunSteps DEF Load
<1>2. /\ order' = order /\ ran' = ran /\ turn' = 0
      /\ loaded' = loaded \cup {NameOf[m]}
      /\ quick' = QuickMap(m)
      /\ early' = early \cup {<<m, i>> : i \in {j \in 1 .. L : WaitsFor[m][j] \notin loaded}}
                    \cup (IF m \in Late THEN {<<m, 0>>} ELSE {})
  BY DEF Load, RunInit
<1>3. /\ phase' = IF HashHas(quick', NameOf[m]) THEN "scheduled" ELSE "files"
      /\ phase' = "scheduled" => order'[next'] = m
  BY DEF Load
<1>4. numbered'.quick = n + L /\ n + L \in 0 .. Cardinality(Calls)
  BY LoadNumbers
<1>5. /\ L \in 0 .. 2 /\ n \in Nat /\ Cardinality(Calls) \in Nat
      /\ \A i \in 1 .. L : WaitsFor[m][i] = TheName /\ Awaited # {}
  BY <1>1, WaitsFacts, CallsFacts DEF QuickInv
<1>6. NumbersInv /\ WellFormed(quick) /\ ran \in Seq(Calls)
  BY <1>1 DEF QuickInv
<1>7. Len(ran) \in Nat /\ Len(ran) <= n
  BY <1>6, LenProperties DEF NumbersInv
<1>q. /\ WellFormed(quick')
      /\ \A k \in Keys : HashHas(quick', k) <=>
           \/ HashHas(quick, k)
           \/ L > 0 /\ k = TheName
           \/ \E i \in 1 .. L : k = Key(n + i - 1)
      /\ \A i \in 1 .. L : HashGet(quick', Key(n + i - 1)) = <<m, i>>
      /\ \A k \in Keys : k # TheName /\ (\A i \in 1 .. L : k # Key(n + i - 1))
            => HashGet(quick', k) = HashGet(quick, k)
  <2>1. n + L <= Cardinality(Calls)
    BY <1>4, <1>5
  <2>. QED  BY <1>1, <1>2, <1>5, <1>6, <2>1, QuickMapFacts
<1>k. Awaited # {} => /\ TheName \in Keys
                      /\ \A i \in 0 .. Cardinality(Calls) :
                           /\ Key(i) \in Keys
                           /\ Key(i) # TheName
                           /\ \A o \in Modules : Key(i) # NameOf[o]
                      /\ \A i, j \in Nat : Key(i) = Key(j) => i = j
  BY KeyFacts
<1>. HIDE DEF L, m
<1>8. /\ Numbers' = Numbers \cup {n + i - 1 : i \in 1 .. L}
      /\ Waiting' = Waiting \cup {n + i - 1 : i \in 1 .. L}
      /\ \A i \in Numbers : i \in Nat /\ i < n
      /\ \A i \in Waiting : i \in Nat /\ i < n /\ i \in Numbers
      /\ \A i \in 1 .. L : n + i - 1 \in Nat /\ n + i - 1 >= n
      /\ Numbers' \subseteq 0 .. Cardinality(Calls) /\ Waiting' \subseteq Numbers'
  <2>. DEFINE max == Cardinality(Calls)
  <2>1. n + L \in 0 .. max /\ max \in Nat  BY <1>4, <1>5
  <2>. HIDE DEF max, n
  <2>2. n \in Nat /\ L \in 0 .. 2 /\ Len(ran) \in Nat /\ Len(ran) <= n
    BY <1>5, <1>7
  <2>3. 0 .. n + L - 1 = (0 .. n - 1) \cup {n + i - 1 : i \in 1 .. L}
    <3>1. \A x \in n .. n + L - 1 : x - n + 1 \in 1 .. L /\ x = n + (x - n + 1) - 1
      BY <2>2
    <3>2. \A x \in 0 .. n + L - 1 : x \in 0 .. n - 1 \/ x \in n .. n + L - 1
      BY <2>2
    <3>3. \A x \in 0 .. n - 1 : x \in 0 .. n + L - 1
      BY <2>2
    <3>4. \A i \in 1 .. L : n + i - 1 \in 0 .. n + L - 1
      BY <2>2
    <3>. QED  BY <3>1, <3>2, <3>3, <3>4
  <2>4. Len(ran) .. n + L - 1 = (Len(ran) .. n - 1) \cup {n + i - 1 : i \in 1 .. L}
    <3>. DEFINE r == Len(ran)
    <3>0. r \in Nat /\ r <= n  BY <2>2
    <3>. HIDE DEF r
    <3>1. \A x \in n .. n + L - 1 : x - n + 1 \in 1 .. L /\ x = n + (x - n + 1) - 1
      BY <2>2
    <3>2. \A x \in r .. n + L - 1 : x \in r .. n - 1 \/ x \in n .. n + L - 1
      BY <2>2, <3>0
    <3>3. \A x \in r .. n - 1 : x \in r .. n + L - 1
      BY <2>2, <3>0
    <3>4. \A i \in 1 .. L : n + i - 1 \in r .. n + L - 1
      BY <2>2, <3>0
    <3>5. r .. n + L - 1 = (r .. n - 1) \cup {n + i - 1 : i \in 1 .. L}
      BY <3>1, <3>2, <3>3, <3>4
    <3>. QED  BY <3>5 DEF r
  <2>5. /\ \A i \in 0 .. n - 1 : i \in Nat /\ i < n
        /\ \A i \in 1 .. L : n + i - 1 \in Nat /\ n + i - 1 >= n
        /\ \A i \in 0 .. n + L - 1 : i \in 0 .. max
    BY <2>1, <2>2
  <2>6. \A r \in Nat : /\ \A i \in r .. n - 1 : i \in Nat /\ i < n /\ i \in 0 .. n - 1
                       /\ \A i \in r .. n + L - 1 : i \in 0 .. n + L - 1
    BY <2>2
  <2>7. Numbers = 0 .. n - 1 /\ Waiting = Len(ran) .. n - 1
    BY DEF Numbers, Waiting, n
  <2>8. Numbers' = 0 .. n + L - 1 /\ Waiting' = Len(ran) .. n + L - 1
    <3>1. ran' = ran
      BY <1>2
    <3>2. numbered'.quick - 1 = n + L - 1
      BY <1>4, <2>2 DEF n
    <3>. QED  BY <3>1, <3>2 DEF Numbers, Waiting
  <2>. QED  BY <2>2, <2>3, <2>4, <2>5, <2>6, <2>7, <2>8 DEF max, n
<1>9. \A i \in Numbers : Call(i)' = Call(i)
  <2>. TAKE i \in Numbers
  <2>1. CASE i < Len(ran)
    BY <1>2, <2>1 DEF Call
  <2>2. CASE ~(i < Len(ran))
    <3>1. Awaited # {}
      <4>1. n > 0  BY <1>5, <1>8
      <4>. QED  BY <1>6, <4>1 DEF NumbersInv
    <3>2. Key(i) \in Keys /\ Key(i) # TheName
      BY <1>k, <1>8, <3>1
    <3>3. \A j \in 1 .. L : Key(i) # Key(n + j - 1)
      <4>. TAKE j \in 1 .. L
      <4>1. i \in Nat /\ n + j - 1 \in Nat /\ i < n /\ n + j - 1 >= n
        BY <1>8
      <4>2. i # n + j - 1
        BY <1>5, <4>1
      <4>. QED  BY <1>k, <3>1, <4>1, <4>2
    <3>4. HashGet(quick', Key(i)) = HashGet(quick, Key(i))
      BY <1>q, <3>2, <3>3
    <3>. QED  BY <1>2, <2>2, <3>4 DEF Call, Key
  <2>. QED  BY <2>1, <2>2
<1>10. \A i \in 1 .. L : \A k \in {n + i - 1} : Call(k)' = <<m, i>>
  <2>. SUFFICES ASSUME NEW i \in 1 .. L, NEW k, k = n + i - 1
                PROVE  Call(k)' = <<m, i>>
    OBVIOUS
  <2>1. ~(k < Len(ran))
    <3>1. n + i - 1 \in Nat /\ n + i - 1 >= n  BY <1>8
    <3>2. \A x, y, z \in Nat : x >= y /\ z <= y => ~(x < z)  OBVIOUS
    <3>. QED  BY <1>5, <1>7, <3>1, <3>2
  <2>2. HashGet(quick', Key(k)) = <<m, i>>
    BY <1>q
  <2>. QED  BY <1>2, <2>1, <2>2 DEF Call, Key
<1>11. \A i \in 1 .. L : /\ <<m, i>> \in Calls /\ <<m, i>>[1] = m /\ <<m, i>>[2] = i
                         /\ <<m, i>>[2] # 0
  <2>1. \A i \in 1 .. L : i \in 0 .. 2 /\ i # 0  BY <1>5
  <2>. QED  BY <1>1, <2>1, CallsFacts
<1>12. EarlyQuick' = EarlyQuick \cup {<<m, i>> : i \in {j \in 1 .. L : WaitsFor[m][j] \notin loaded}}
  <2>1. <<m, 0>>[2] = 0  OBVIOUS
  <2>2. early' \subseteq early \cup {<<m, i>> : i \in {j \in 1 .. L : WaitsFor[m][j] \notin loaded}}
                              \cup {<<m, 0>>}
    BY <1>2 DEF L, m
  <2>3. /\ early \subseteq early'
        /\ {<<m, i>> : i \in {j \in 1 .. L : WaitsFor[m][j] \notin loaded}} \subseteq early'
    BY <1>2 DEF L, m
  <2>4. \A c \in {<<m, i>> : i \in {j \in 1 .. L : WaitsFor[m][j] \notin loaded}} : c[2] # 0
    BY <1>11
  <2>. HIDE DEF m, L
  <2>5. EarlyQuick' \subseteq EarlyQuick \cup {<<m, i>> : i \in {j \in 1 .. L : WaitsFor[m][j] \notin loaded}}
    BY <2>1, <2>2 DEF EarlyQuick
  <2>6. EarlyQuick \subseteq EarlyQuick'
    BY <2>3 DEF EarlyQuick
  <2>7. {<<m, i>> : i \in {j \in 1 .. L : WaitsFor[m][j] \notin loaded}} \subseteq EarlyQuick'
    BY <2>3, <2>4 DEF EarlyQuick
  <2>. QED  BY <2>5, <2>6, <2>7
<1>13. NumbersInv'
  <2>1. Len(ran') <= numbered'.quick
    <3>1. n <= n + L /\ n + L \in Nat  BY <1>5
    <3>2. \A x, y, z \in Nat : x <= y /\ y <= z => x <= z  OBVIOUS
    <3>. QED  BY <1>2, <1>4, <1>5, <1>7, <3>1, <3>2
  <2>2. numbered'.quick > 0 => Awaited # {}
    <3>1. CASE n > 0
      BY <1>6, <3>1 DEF NumbersInv
    <3>2. CASE L > 0
      <4>1. 1 \in 1 .. L  BY <1>5, <3>2
      <4>. QED  BY <1>5, <4>1
    <3>. QED  BY <1>4, <1>5, <3>1, <3>2
  <2>3. \A k \in Keys : HashHas(quick', k) =>
          Awaited # {} /\ (k = TheName \/ \E i \in Waiting' : k = Key(i))
    <3>. SUFFICES ASSUME NEW k \in Keys, HashHas(quick', k)
                  PROVE  Awaited # {} /\ (k = TheName \/ \E i \in Waiting' : k = Key(i))
      OBVIOUS
    <3>1. CASE HashHas(quick, k)
      BY <1>6, <1>8, <3>1 DEF NumbersInv
    <3>2. CASE L > 0 /\ k = TheName
      <4>1. 1 \in 1 .. L  BY <1>5, <3>2
      <4>. QED  BY <1>5, <3>2, <4>1
    <3>3. CASE \E i \in 1 .. L : k = Key(n + i - 1)
      BY <1>5, <1>8, <3>3
    <3>. QED  BY <1>q, <3>1, <3>2, <3>3
  <2>4. \A i \in Waiting' : HashHas(quick', Key(i))
    <3>. SUFFICES ASSUME NEW i \in Waiting' PROVE HashHas(quick', Key(i))
      OBVIOUS
    <3>1. Awaited # {}
      <4>1. i \in Numbers \/ \E j \in 1 .. L : TRUE
        BY <1>8
      <4>2. i \in Numbers => n > 0
        BY <1>5, <1>8
      <4>. QED  BY <1>5, <1>6, <4>1, <4>2 DEF NumbersInv
    <3>2. Key(i) \in Keys
      BY <1>k, <1>8, <3>1
    <3>3. CASE i \in Waiting
      BY <1>6, <1>q, <3>2, <3>3 DEF NumbersInv
    <3>4. CASE \E j \in 1 .. L : i = n + j - 1
      BY <1>q, <3>2, <3>4
    <3>. QED  BY <1>8, <3>3, <3>4
  <2>5. \A i \in Numbers' : /\ Call(i)' \in Calls
                            /\ Call(i)'[1] \in Begun'
                            /\ Call(i)'[2] \in 1 .. Len(WaitsFor[Call(i)'[1]])
    <3>. SUFFICES ASSUME NEW i \in Numbers'
                  PROVE  /\ Call(i)' \in Calls
                         /\ Call(i)'[1] \in Begun'
                         /\ Call(i)'[2] \in 1 .. Len(WaitsFor[Call(i)'[1]])
      OBVIOUS
    <3>1. CASE i \in Numbers
      <4>1. Call(i)' = Call(i)  BY <1>9, <3>1
      <4>2. Call(i) \in Calls /\ Call(i)[1] \in Begun /\ Call(i)[2] \in 1 .. Len(WaitsFor[Call(i)[1]])
        BY <1>6, <3>1 DEF NumbersInv
      <4>. QED  BY <1>1, <4>1, <4>2 DEF m
    <3>2. CASE \E j \in 1 .. L : i = n + j - 1
      <4>1. PICK j \in 1 .. L : i = n + j - 1  BY <3>2
      <4>2. Call(i)' = <<m, j>>  BY <1>10, <4>1
      <4>3. /\ Call(i)' \in Calls /\ Call(i)'[1] = m /\ Call(i)'[2] = j
        BY <1>11, <4>2
      <4>. QED  BY <1>1, <4>3 DEF L, m
    <3>. QED  BY <1>8, <3>1, <3>2
  <2>6. \A i, j \in Numbers' : Call(i)' = Call(j)' => i = j
    <3>1. \A i \in Numbers' : /\ i \in Numbers => Call(i)' = Call(i) /\ Call(i)'[1] \in Begun
                              /\ i \notin Numbers => /\ Call(i)'[1] \notin Begun
                                                     /\ i = n + Call(i)'[2] - 1
      <4>. TAKE i \in Numbers'
      <4>1. CASE i \in Numbers
        BY <1>6, <1>9, <4>1 DEF NumbersInv
      <4>2. CASE i \notin Numbers
        <5>1. PICK j \in 1 .. L : i = n + j - 1  BY <1>8, <4>2
        <5>2. Call(i)' = <<m, j>>  BY <1>10, <5>1
        <5>. QED  BY <1>1, <1>11, <4>2, <5>1, <5>2 DEF m
      <4>. QED  BY <4>1, <4>2
    <3>. SUFFICES ASSUME NEW i \in Numbers', NEW j \in Numbers', Call(i)' = Call(j)'
                  PROVE  i = j
      OBVIOUS
    <3>2. CASE i \in Numbers /\ j \in Numbers
      <4>1. Call(i) = Call(j)  BY <3>1, <3>2
      <4>. QED  BY <1>6, <3>2, <4>1 DEF NumbersInv
    <3>3. CASE i \notin Numbers /\ j \notin Numbers
      BY <3>1, <3>3
    <3>. QED  BY <3>1, <3>2, <3>3
  <2>7. EarlyQuick' \subseteq {Call(i)' : i \in Numbers'}
    <3>. SUFFICES ASSUME NEW c \in EarlyQuick' PROVE \E i \in Numbers' : c = Call(i)'
      OBVIOUS
    <3>1. CASE c \in EarlyQuick
      <4>1. PICK i \in Numbers : c = Call(i)
        BY <1>6, <3>1 DEF NumbersInv
      <4>. QED  BY <1>8, <1>9, <4>1
    <3>2. CASE \E i \in 1 .. L : c = <<m, i>>
      <4>1. PICK i \in 1 .. L : c = <<m, i>>  BY <3>2
      <4>. QED  BY <1>8, <1>10, <4>1
    <3>. QED  BY <1>12, <3>1, <3>2
  <2>. QED  BY <2>1, <2>2, <2>3, <2>4, <2>5, <2>6, <2>7 DEF NumbersInv
(* The name is there already: nobody is early any more. *)
<1>14. TheName \in loaded => EarlyQuick' = EarlyQuick /\ EarlyQuick' \subseteq ToSet(ran')
  <2>1. TheName \in loaded => {j \in 1 .. L : WaitsFor[m][j] \notin loaded} = {}
    BY <1>5
  <2>2. TheName \in loaded => EarlyQuick \subseteq ToSet(ran)
    BY <1>1 DEF QuickInv
  <2>. QED  BY <1>2, <1>12, <2>1, <2>2
<1>15. TheName \notin loaded => ran = <<>> /\ (n > 0 => HashHas(quick, TheName))
  BY <1>1 DEF QuickInv
<1>16. n + L > 0 /\ (n > 0 => HashHas(quick, TheName)) => HashHas(quick', TheName)
  <2>1. n + L > 0 => Awaited # {}
    BY <1>4, <1>13 DEF NumbersInv
  <2>2. n + L > 0 => n > 0 \/ L > 0
    BY <1>5
  <2>. QED  BY <1>q, <1>k, <2>1, <2>2
<1>17. NameOf[m] \in Keys
  BY <1>1, LoaderAssumption DEF m
<1>18. CASE HashHas(quick', NameOf[m])
  <2>1. phase' = "scheduled" /\ order'[next'] = m
    BY <1>3, <1>18 DEF m
  <2>2. NameOf[m] = TheName /\ Awaited # {}
    <3>1. Awaited # {} /\ (NameOf[m] = TheName \/ \E i \in Waiting' : NameOf[m] = Key(i))
      BY <1>13, <1>17, <1>18 DEF NumbersInv
    <3>2. \A i \in Waiting' : Key(i) # NameOf[m]
      BY <1>1, <1>k, <1>8, <3>1 DEF m
    <3>. QED  BY <3>1, <3>2
  <2>3. \/ turn' = Len(ran')
        \/ turn' = 0 /\ EarlyQuick' \subseteq ToSet(ran')
    <3>1. CASE TheName \in loaded
      BY <1>2, <1>14, <3>1
    <3>2. CASE TheName \notin loaded
      BY <1>2, <1>15, <3>2
    <3>. QED  BY <3>1, <3>2
  <2>. QED  BY <1>2, <1>4, <1>6, <1>q, <1>13, <2>1, <2>2, <2>3 DEF QuickInv, m
<1>19. CASE ~HashHas(quick', NameOf[m])
  <2>1. phase' = "files"
    BY <1>3, <1>19 DEF m
  <2>2. TheName \notin loaded' => ran' = <<>> /\ (numbered'.quick > 0 => HashHas(quick', TheName))
    BY <1>2, <1>4, <1>15, <1>16 DEF L, m
  <2>3. TheName \in loaded' => EarlyQuick' \subseteq ToSet(ran')
    <3>1. CASE TheName \in loaded
      BY <1>14, <3>1
    <3>2. CASE TheName \notin loaded /\ NameOf[m] = TheName
      <4>1. ~(n + L > 0)
        BY <1>15, <1>16, <1>19, <3>2
      <4>2. Numbers' = {}
        <5>1. n + L \in Nat  BY <1>5
        <5>2. \A x \in Nat : ~(x > 0) => 0 .. x - 1 = {}  OBVIOUS
        <5>3. 0 .. numbered'.quick - 1 = {}  BY <1>4, <4>1, <5>1, <5>2 DEF L, m
        <5>. QED  BY <5>3 DEF Numbers
      <4>. QED  BY <1>13, <4>2 DEF NumbersInv
    <3>. QED  BY <1>2, <3>1, <3>2 DEF m
  <2>. QED  BY <1>2, <1>4, <1>6, <1>q, <1>13, <2>1, <2>2, <2>3 DEF QuickInv, m, L
<1>. QED  BY <1>18, <1>19

-----------------------------------------------------------------------------
(***************************************************************************)
(* The calls for all modules: the entries of the one bucket, in the order  *)
(* they were put off.                                                      *)
(***************************************************************************)
LateCalls == late.entries[0]

LateInv ==
  /\ WellFormed(late)
  /\ late.size = 1
  /\ numbered.late = Len(LateCalls)
  /\ \A i \in 1 .. Len(LateCalls) :
       /\ LateCalls[i].key = Number(i - 1)
       /\ \E m \in Late \cap Begun : LateCalls[i].value = <<m, 0>>
  /\ \A i, j \in 1 .. Len(LateCalls) : LateCalls[i].value = LateCalls[j].value => i = j
  /\ EarlyLate \subseteq {LateCalls[i].value : i \in 1 .. Len(LateCalls)}

(* When the files are done: every early call has run or will be, once. *)
OverInv ==
  phase \in {"late", "done"} =>
    /\ IsInjective(ran)
    /\ EarlyQuick \subseteq ToSet(ran)
    /\ turn <= 1
    /\ turn = 0 => \A c \in ToSet(ran) : c[2] # 0
    /\ turn = 1 => LateCalls # <<>> /\ LateCalls[1].value \in ToSet(ran)
    /\ phase = "done" => Len(LateCalls) <= turn

LEMMA LateTypes ==
  ASSUME LateInv
  PROVE  /\ LateCalls \in Seq(Entries)
         /\ Len(LateCalls) \in Nat
         /\ DOMAIN LateCalls = 1 .. Len(LateCalls)
         /\ \A i \in 1 .. Len(LateCalls) : /\ LateCalls[i].value \in Calls
                                           /\ LateCalls[i].value[2] = 0
<1>1. LateCalls \in Seq(Entries)
  BY OneBucket DEF LateInv, LateCalls
<1>2. Late \subseteq Modules
  BY LoaderAssumption
<1>3. \A m \in Modules : <<m, 0>> \in Calls /\ <<m, 0>>[2] = 0
  <2>1. 0 \in 0 .. 2  OBVIOUS
  <2>. QED  BY <2>1, CallsFacts
<1>4. \A i \in 1 .. Len(LateCalls) : \E m \in Modules : LateCalls[i].value = <<m, 0>>
  BY <1>2 DEF LateInv
<1>. QED  BY <1>1, <1>3, <1>4, LenProperties

LEMMA InitLate == Init => LateInv /\ OverInv
<1>. SUFFICES ASSUME Init PROVE LateInv /\ OverInv
  OBVIOUS
<1>1. WellFormed(late) /\ late.size = 1 /\ late = HashCreate(1)
  BY CreateFacts DEF Init
<1>2. 0 \in Buckets(1)
  BY DEF Buckets
<1>3. LateCalls = <<>> /\ Len(LateCalls) = 0
  BY <1>1, <1>2 DEF HashCreate, LateCalls
<1>4. numbered.late = 0 /\ early = {} /\ phase = "files"
  BY DEF Init
<1>. QED  BY <1>1, <1>3, <1>4 DEF LateInv, OverInv, EarlyLate

LEMMA LateKept ==
  ASSUME LateInv, UNCHANGED <<late, numbered, early>>,
         Begun \cap Modules \subseteq Begun'
  PROVE  LateInv'
<1>1. LateCalls' = LateCalls /\ EarlyLate' = EarlyLate
  BY DEF LateCalls, EarlyLate
<1>2. Late \cap Begun \subseteq Late \cap Begun'
  BY LoaderAssumption
<1>. QED  BY <1>1, <1>2 DEF LateInv

(* No more calls are put off than there are modules that do. *)
LEMMA LateBound ==
  ASSUME LateInv
  PROVE  Len(LateCalls) \in 0 .. Cardinality(Late)
<1>. DEFINE L == Len(LateCalls)
            f == [i \in 1 .. L |-> LateCalls[i].value[1]]
<1>1. L \in Nat
  BY LateTypes
<1>2. IsFiniteSet(Late) /\ Cardinality(Late) \in Nat
  BY ScheduleAssumption, LoaderAssumption, FS_Subset, FS_CardinalityType
<1>3. \A i \in 1 .. L : /\ f[i] \in Late
                        /\ LateCalls[i].value = <<f[i], 0>>
  BY DEF LateInv
<1>. HIDE DEF f
<1>4. f \in [1 .. L -> Late]
  <2>1. DOMAIN f = 1 .. L /\ f = [i \in 1 .. L |-> f[i]]
    BY DEF f
  <2>. QED  BY <1>3, <2>1
<1>5. \A i, j \in 1 .. L : f[i] = f[j] => i = j
  <2>1. \A i, j \in 1 .. L : LateCalls[i].value = LateCalls[j].value => i = j
    BY DEF LateInv
  <2>. QED  BY <1>3, <2>1
<1>6. f \in Injection(1 .. L, Late)
  BY <1>4, <1>5 DEF Injection, IsInjective
<1>7. Cardinality(1 .. L) <= Cardinality(Late)
  BY <1>2, <1>6, FS_Injection
<1>8. Cardinality(1 .. L) = L
  BY <1>1, UpTo
<1>9. \A x, y \in Nat : x <= y => x \in 0 .. y
  OBVIOUS
<1>. QED  BY <1>1, <1>2, <1>7, <1>8, <1>9

LEMMA LoadLate ==
  ASSUME OrderInv, LateInv, Load
  PROVE  LateInv'
<1>. DEFINE m == order[next]
            n == Len(LateCalls)
<1>1. m \in Modules /\ m \notin Begun /\ Begun' = Begun \cup {m}
  BY BegunSteps DEF Load
<1>2. /\ late' = IF m \in Late THEN HashSet(late, Number(numbered.late), <<m, 0>>) ELSE late
      /\ numbered'.late = numbered.late + (IF m \in Late THEN 1 ELSE 0)
  BY DEF Load, RunInit
<1>3. EarlyLate' = EarlyLate \cup (IF m \in Late THEN {<<m, 0>>} ELSE {})
  <2>. DEFINE L == Len(WaitsFor[m])
              soon == {<<m, i>> : i \in {j \in 1 .. L : WaitsFor[m][j] \notin loaded}}
  <2>1. early' = early \cup soon \cup (IF m \in Late THEN {<<m, 0>>} ELSE {})
    BY DEF Load, RunInit
  <2>2. \A c \in soon : c[2] # 0
    <3>1. L \in 0 .. 2  BY <1>1, WaitsFacts
    <3>2. \A i \in 1 .. L : i # 0  BY <3>1
    <3>. QED  BY <3>2
  <2>3. <<m, 0>>[2] = 0  OBVIOUS
  <2>. HIDE DEF soon, m
  <2>. QED  BY <2>1, <2>2, <2>3 DEF EarlyLate
<1>4. /\ LateCalls \in Seq(Entries)
      /\ n \in 0 .. Cardinality(Late)
      /\ n \in Nat
      /\ numbered.late = n
  BY LateTypes, LateBound DEF LateInv
<1>. HIDE DEF m
<1>5. CASE m \notin Late
  <2>1. UNCHANGED LateCalls /\ UNCHANGED EarlyLate /\ numbered'.late = n
    BY <1>2, <1>3, <1>4, <1>5 DEF LateCalls
  <2>2. Late \cap Begun \subseteq Late \cap Begun'
    BY <1>1
  <2>. QED  BY <1>2, <1>5, <2>1, <2>2 DEF LateInv
<1>6. CASE m \in Late
  <2>1. Number(n) \in Keys
    BY <1>4, ScheduleAssumption
  <2>2. <<m, 0>> \in Values
    <3>1. 0 \in 0 .. 2  OBVIOUS
    <3>. QED  BY <1>1, <3>1, CallsFacts
  <2>3. \A i \in 1 .. n : late.entries[0][i].key # Number(n)
    <3>1. \A i \in 1 .. n : i - 1 # n
      BY <1>4
    <3>. QED  BY <3>1 DEF LateInv, LateCalls, Number
  <2>4. late' = HashSet(late, Number(n), <<m, 0>>)
    BY <1>2, <1>4, <1>6
  <2>. DEFINE entry == [key |-> Number(n), value |-> <<m, 0>>]
  <2>5. LateCalls' = Append(LateCalls, entry)
    <3>1. WellFormed(late) /\ late.size = 1 /\ <<m, 0>> \in Values \cup {Null}
      BY <2>2 DEF LateInv
    <3>. DEFINE k == Number(n)
                v == <<m, 0>>
    <3>2. /\ k \in Keys /\ v \in Values \cup {Null}
          /\ \A i \in 1 .. Len(late.entries[0]) : late.entries[0][i].key # k
      BY <2>1, <2>3, <3>1 DEF LateCalls
    <3>3. late' = HashSet(late, k, v) /\ entry = [key |-> k, value |-> v]
      BY <2>4
    <3>. HIDE DEF k, v, entry
    <3>4. HashSet(late, k, v).entries[0] = Append(late.entries[0], [key |-> k, value |-> v])
      BY <3>1, <3>2, SetInOneBucket
    <3>. QED  BY <3>3, <3>4 DEF LateCalls
  <2>6. WellFormed(late') /\ late'.size = 1
    BY <2>1, <2>2, <2>4, SetFacts DEF LateInv
  <2>7. entry \in Entries
    BY <2>1, <2>2 DEF Entries
  <2>. HIDE DEF n
  <2>8. /\ Len(LateCalls') = n + 1
        /\ \A i \in 1 .. n : LateCalls'[i] = LateCalls[i]
        /\ LateCalls'[n + 1].key = Number(n)
        /\ LateCalls'[n + 1].value = <<m, 0>>
    BY <1>4, <2>5, <2>7, AppendProperties DEF n
  <2>9. \A i \in 1 .. n + 1 : i \in 1 .. n \/ i = n + 1
    BY <1>4
  <2>10. n + 1 - 1 = n /\ n + 1 \in 1 .. n + 1 /\ \A i \in 1 .. n : i \in 1 .. n + 1
    BY <1>4
  <2>11. m \in Late \cap Begun' /\ Late \cap Begun \subseteq Late \cap Begun'
    BY <1>1, <1>6
  <2>12. \A i \in 1 .. n : /\ LateCalls[i].key = Number(i - 1)
                           /\ \E o \in Late \cap Begun : LateCalls[i].value = <<o, 0>>
    BY DEF LateInv, n
  <2>13. \A i \in 1 .. n + 1 :
           /\ LateCalls'[i].key = Number(i - 1)
           /\ \E o \in Late \cap Begun' : LateCalls'[i].value = <<o, 0>>
    <3>. TAKE i \in 1 .. n + 1
    <3>1. CASE i \in 1 .. n
      BY <2>8, <2>11, <2>12, <3>1
    <3>2. CASE i = n + 1
      <4>1. LateCalls'[i].key = Number(n) /\ LateCalls'[i].value = <<m, 0>>
        BY <2>8, <3>2
      <4>2. i - 1 = n
        BY <1>4, <3>2
      <4>. QED  BY <2>11, <4>1, <4>2
    <3>. QED  BY <2>9, <3>1, <3>2
  <2>14. \A i \in 1 .. n : LateCalls[i].value # <<m, 0>>
    <3>. TAKE i \in 1 .. n
    <3>1. PICK o \in Late \cap Begun : LateCalls[i].value = <<o, 0>>
      BY <2>12
    <3>2. o # m  BY <1>1
    <3>. QED  BY <3>1, <3>2
  <2>15. \A i, j \in 1 .. n + 1 : LateCalls'[i].value = LateCalls'[j].value => i = j
    <3>1. \A i, j \in 1 .. n : LateCalls[i].value = LateCalls[j].value => i = j
      BY DEF LateInv, n
    <3>. QED  BY <2>8, <2>9, <2>14, <3>1
  <2>16. EarlyLate' \subseteq {LateCalls'[i].value : i \in 1 .. n + 1}
    <3>1. EarlyLate \subseteq {LateCalls[i].value : i \in 1 .. n}
      BY DEF LateInv, n
    <3>2. EarlyLate' = EarlyLate \cup {<<m, 0>>}
      BY <1>3, <1>6
    <3>. QED  BY <2>8, <2>10, <3>1, <3>2
  <2>17. numbered'.late = n + 1
    BY <1>2, <1>4, <1>6
  <2>. QED  BY <2>6, <2>8, <2>13, <2>15, <2>16, <2>17 DEF LateInv
<1>. QED  BY <1>5, <1>6

-----------------------------------------------------------------------------
(***************************************************************************)
(* The steps that put no call off.                                         *)
(***************************************************************************)
LEMMA Quiet ==
  ASSUME QuickInv, LateInv, OverInv, UNCHANGED <<scheduling, ran, loaded, turn, phase>>,
         Begun \cap Modules \subseteq Begun',
         phase = "scheduled" => UNCHANGED <<order, next>>
  PROVE  QuickInv' /\ LateInv' /\ OverInv'
<1>1. /\ UNCHANGED <<quick, late, numbered, early, ran, loaded, turn, phase>>
      /\ EarlyQuick' = EarlyQuick /\ LateCalls' = LateCalls
  BY DEF scheduling, EarlyQuick, LateCalls
<1>2. LateInv'
  BY <1>1, LateKept
<1>3. OverInv'
  BY <1>1 DEF OverInv
<1>4. phase \in {"files", "scheduled"} => NumbersInv'
  <2>1. phase \in {"files", "scheduled"} => NumbersInv
    BY DEF QuickInv
  <2>. QED  BY <1>1, <2>1, NumbersKept
<1>5. QuickInv'
  BY <1>1, <1>4 DEF QuickInv
<1>. QED  BY <1>2, <1>3, <1>5

(* All files were begun with: by the assumption one of them had the name   *)
(* that is waited for, so the loop over the waiting calls was run.         *)
LEMMA FilesDoneCalls ==
  ASSUME OrderInv, QuickInv, LateInv, FilesDone
  PROVE  QuickInv' /\ LateInv' /\ OverInv'
<1>1. /\ phase = "files" /\ next > Len(order) /\ phase' = "late" /\ turn' = 0
      /\ UNCHANGED <<order, next, quick, late, numbered, early, ran, loaded>>
  BY DEF FilesDone, scheduling
<1>2. /\ EarlyQuick' = EarlyQuick /\ LateCalls' = LateCalls
  BY <1>1 DEF EarlyQuick, LateCalls
<1>3. NumbersInv /\ ran \in Seq(Calls) /\ numbered.quick \in Nat /\ WellFormed(quick)
  <2>1. numbered.quick \in 0 .. Cardinality(Calls) /\ Cardinality(Calls) \in Nat
    BY CallsFacts DEF QuickInv
  <2>. QED  BY <1>1, <2>1 DEF QuickInv
<1>4. Begun = ToSet(order)
  <2>1. DOMAIN order = 1 .. Len(order) /\ Len(order) \in Nat
    BY DiskFacts DEF OrderInv
  <2>2. next - 1 = Len(order)
    <3>1. \A x, y \in Nat : x \in 1 .. y + 1 /\ x > y => x - 1 = y
      OBVIOUS
    <3>2. next \in Nat /\ next \in 1 .. Len(order) + 1
      BY <2>1 DEF OrderInv
    <3>. QED  BY <1>1, <2>1, <3>1, <3>2
  <2>. QED  BY <1>1, <2>1, <2>2 DEF Begun, ToSet
<1>5. \A i \in 1 .. Len(ran) : ran[i] = Call(i - 1) /\ i - 1 \in Numbers
  <2>. TAKE i \in 1 .. Len(ran)
  <2>1. Len(ran) \in Nat /\ Len(ran) <= numbered.quick
    BY <1>3, LenProperties DEF NumbersInv
  <2>2. \A x, y \in Nat : \A j \in 1 .. x : x <= y => j - 1 \in 0 .. y - 1 /\ j - 1 < x /\ j - 1 + 1 = j
    OBVIOUS
  <2>. QED  BY <1>3, <2>1, <2>2 DEF Call, Numbers
<1>6. \A i \in Numbers : Call(i)[2] # 0
  <2>. TAKE i \in Numbers
  <2>1. Call(i)[1] \in Modules
    BY <1>3, CallsFacts DEF NumbersInv
  <2>2. Call(i)[2] \in 1 .. Len(WaitsFor[Call(i)[1]])
    BY <1>3 DEF NumbersInv
  <2>3. \A y : 0 \notin 1 .. y
    OBVIOUS
  <2>. QED  BY <2>2, <2>3
<1>7. IsInjective(ran)
  <2>1. DOMAIN ran = 1 .. Len(ran)
    BY <1>3, LenProperties
  <2>2. \A i, j \in 1 .. Len(ran) : i - 1 = j - 1 => i = j
    OBVIOUS
  <2>3. \A i, j \in 1 .. Len(ran) : ran[i] = ran[j] => i - 1 = j - 1
    BY <1>3, <1>5 DEF NumbersInv
  <2>. QED  BY <2>1, <2>2, <2>3 DEF IsInjective
<1>8. \A c \in ToSet(ran) : c[2] # 0
  <2>1. DOMAIN ran = 1 .. Len(ran)
    BY <1>3, LenProperties
  <2>. QED  BY <1>5, <1>6, <2>1 DEF ToSet
<1>9. EarlyQuick \subseteq ToSet(ran)
  <2>1. CASE TheName \in loaded
    BY <1>1, <2>1 DEF QuickInv
  <2>2. CASE TheName \notin loaded
    <3>. SUFFICES ASSUME NEW c \in EarlyQuick PROVE FALSE
      OBVIOUS
    <3>1. PICK i \in Numbers : c = Call(i)
      BY <1>3 DEF NumbersInv
    <3>2. c \in Calls /\ c[1] \in Begun /\ c[2] \in 1 .. Len(WaitsFor[c[1]])
      BY <1>3, <3>1 DEF NumbersInv
    <3>3. c[1] \in Modules
      BY <3>2, CallsFacts
    <3>4. WaitsFor[c[1]][c[2]] = TheName /\ WaitsFor[c[1]] \in Seq(Keys)
      BY <3>2, <3>3, WaitsFacts
    <3>5. TheName \in ToSet(WaitsFor[c[1]])
      BY <3>2, <3>4, LenProperties DEF ToSet
    <3>6. ToSet(WaitsFor[c[1]]) \subseteq {NameOf[o] : o \in ToSet(order) \cap Modules}
      BY <1>4, <3>2, <3>3, ScheduleAssumption DEF OrderInv
    <3>7. TheName \in loaded
      BY <1>4, <3>5, <3>6 DEF OrderInv
    <3>. QED  BY <2>2, <3>7
  <2>. QED  BY <2>1, <2>2
<1>10. LateInv'
  <2>1. Begun' = Begun
    BY BegunSteps
  <2>. QED  BY <1>1, <2>1, LateKept
<1>11. OverInv'
  BY <1>1, <1>2, <1>7, <1>8, <1>9 DEF OverInv
<1>12. QuickInv'
  <2>1. numbered'.quick \in 0 .. Cardinality(Calls)
    BY <1>1 DEF QuickInv
  <2>. QED  BY <1>1, <1>3, <2>1 DEF QuickInv
<1>. QED  BY <1>10, <1>11, <1>12

(* The first of the calls for all modules runs; the model gets no further. *)
LEMMA LateCallRuns ==
  ASSUME OrderInv, QuickInv, LateInv, OverInv, RunLate, turn < HashSize(late)
  PROVE  /\ turn = 0 /\ LateCalls # <<>>
         /\ ran' = Append(ran, LateCalls[1].value)
         /\ LateCalls[1].value \in Calls /\ LateCalls[1].value[2] = 0
<1>1. /\ HashSize(late) = Len(LateCalls) /\ late.size = 1 /\ Buckets(1) = {0}
      /\ Len(LateCalls) \in Nat
  BY SizeOfOneBucket, LateTypes DEF LateInv, LateCalls, Buckets
<1>2. ~GetIFaults(late, turn) /\ ran' = Append(ran, HashGetI(late, turn))
  BY DEF RunLate
<1>3. turn = 0 /\ Len(LateCalls) > 0
  BY <1>1, <1>2 DEF GetIFaults
<1>4. 1 \in 1 .. Len(LateCalls) /\ LateCalls # <<>>
  BY <1>1, <1>3
<1>5. HashGetI(late, turn) = LateCalls[1].value
  BY <1>1, <1>3 DEF HashGetI, LateCalls
<1>. QED  BY <1>2, <1>3, <1>4, <1>5, LateTypes

(* The call for all modules is none that waited for a name, and there is   *)
(* no second one that the model would get to.                              *)
LEMMA RunLateCalls ==
  ASSUME OrderInv, QuickInv, LateInv, OverInv, RunLate
  PROVE  QuickInv' /\ LateInv' /\ OverInv'
<1>1. /\ phase = "late" /\ UNCHANGED <<order, next, quick, late, numbered, early, loaded>>
      /\ phase' \in {"late", "done"}
  BY DEF RunLate, scheduling
<1>2. /\ EarlyQuick' = EarlyQuick /\ LateCalls' = LateCalls
  BY <1>1 DEF EarlyQuick, LateCalls
<1>3. LateInv'
  <2>1. Begun' = Begun
    BY <1>1 DEF Begun
  <2>. QED  BY <1>1, <2>1, LateKept
<1>4. /\ IsInjective(ran) /\ EarlyQuick \subseteq ToSet(ran) /\ turn <= 1
      /\ turn = 0 => \A c \in ToSet(ran) : c[2] # 0
      /\ turn = 1 => LateCalls # <<>> /\ LateCalls[1].value \in ToSet(ran)
      /\ turn \in Nat /\ ran \in Seq(Calls)
  BY <1>1 DEF OverInv, OrderInv, QuickInv
<1>5. /\ HashSize(late) = Len(LateCalls) /\ late.size = 1 /\ Buckets(1) = {0}
      /\ Len(LateCalls) \in Nat
  BY SizeOfOneBucket, LateTypes DEF LateInv, LateCalls, Buckets
<1>6. CASE turn < HashSize(late)
  <2>1. /\ ran' = Append(ran, LateCalls[1].value)
        /\ turn' = turn + 1 /\ phase' = "late"
    BY <1>1, <1>6, LateCallRuns DEF RunLate
  <2>2. /\ turn = 0 /\ LateCalls # <<>>
        /\ LateCalls[1].value \in Calls /\ LateCalls[1].value[2] = 0
    BY <1>6, LateCallRuns
  <2>6. LateCalls[1].value \notin ToSet(ran)
    BY <1>4, <2>2
  <2>7. /\ ran' \in Seq(Calls)
        /\ ToSet(ran') = ToSet(ran) \cup {LateCalls[1].value}
        /\ IsInjective(ran')
    BY <1>4, <2>1, <2>2, <2>6, AppendMembers
  <2>8. OverInv'
    BY <1>1, <1>2, <1>4, <2>1, <2>2, <2>7 DEF OverInv
  <2>9. QuickInv'
    BY <1>1, <2>1, <2>7 DEF QuickInv
  <2>. QED  BY <1>3, <2>8, <2>9
<1>7. CASE ~(turn < HashSize(late))
  <2>1. phase' = "done" /\ UNCHANGED <<turn, ran>>
    BY <1>1, <1>7 DEF RunLate
  <2>2. Len(LateCalls) <= turn
    BY <1>4, <1>5, <1>7
  <2>3. OverInv'
    BY <1>1, <1>2, <1>4, <2>1, <2>2 DEF OverInv
  <2>4. QuickInv'
    BY <1>1, <2>1 DEF QuickInv
  <2>. QED  BY <1>3, <2>3, <2>4
<1>. QED  BY <1>6, <1>7

LEMMA CallsStep ==
  ASSUME OrderInv, QuickInv, LateInv, OverInv, [LoaderNext]_vars
  PROVE  QuickInv' /\ LateInv' /\ OverInv'
<1>1. CASE PassOver
  <2>1. Begun \cap Modules \subseteq Begun'
    BY <1>1, BegunSteps
  <2>2. UNCHANGED <<scheduling, ran, loaded, turn, phase>> /\ phase = "files"
    BY <1>1 DEF PassOver
  <2>. QED  BY <2>1, <2>2, Quiet
<1>2. CASE Load
  <2>1. OverInv'
    <3>1. phase' \in {"files", "scheduled"}  BY <1>2 DEF Load
    <3>. QED  BY <3>1 DEF OverInv
  <2>. QED  BY <1>2, <2>1, LoadQuick, LoadLate
<1>3. CASE RunScheduled
  <2>1. phase' \in {"files", "scheduled"}
    BY <1>3 DEF RunScheduled
  <2>2. OverInv'
    BY <2>1 DEF OverInv
  <2>3. Begun' = Begun /\ UNCHANGED <<late, numbered, early>>
    BY <1>3, BegunSteps DEF RunScheduled
  <2>. QED  BY <1>3, <2>2, <2>3, RunScheduledQuick, LateKept
<1>4. CASE FilesDone
  BY <1>4, FilesDoneCalls
<1>5. CASE RunLate
  BY <1>5, RunLateCalls
<1>6. CASE ModuleRemove \/ (\E m \in Modules : AddAgain(m)) \/ UNCHANGED vars
  <2>1. UNCHANGED <<order, next, phase, turn, scheduling, loaded, ran>>
    BY <1>6 DEF ModuleRemove, AddAgain, vars, scheduling
  <2>2. Begun' = Begun
    BY <2>1 DEF Begun
  <2>. QED  BY <2>1, <2>2, Quiet
<1>. QED  BY <1>1, <1>2, <1>3, <1>4, <1>5, <1>6 DEF LoaderNext

-----------------------------------------------------------------------------
(* All that holds of the loader at every moment. *)
LoaderInv ==
  /\ OrderInv
  /\ ListInv
  /\ CallbacksKept
  /\ QuickInv
  /\ LateInv
  /\ OverInv

(* modules_load, module_remove and what boot does between them keep the    *)
(* lists, the maps and the schedules as LoaderInv says.                    *)
THEOREM LoaderHolds == BootSpec => []LoaderInv
<1>1. BootInit => LoaderInv
  BY InitLists, InitQuick, InitLate DEF BootInit, LoaderInv
<1>2. LoaderInv /\ [BootNext]_bootVars => LoaderInv'
  BY BootSteps, ListsStep, CallsStep DEF LoaderInv
<1>. QED  BY <1>1, <1>2, PTL DEF BootSpec

(* module_remove can give a module its callbacks back (CallbacksKept), for *)
(* every ram disk and any sequence of removals and additions.              *)
THEOREM CallbacksAreKept == BootSpec => []CallbacksKept
<1>1. LoaderInv => CallbacksKept
  BY DEF LoaderInv
<1>. QED  BY <1>1, LoaderHolds, PTL

(* module_schedule: a call put off before its module was there runs, and   *)
(* runs once, when modules_load is over (ScheduledRunOnce).                *)
THEOREM ScheduledCallsRunOnce == BootSpec => []ScheduledRunOnce
<1>1. LoaderInv => ScheduledRunOnce
  <2>. SUFFICES ASSUME LoaderInv PROVE ScheduledRunOnce
    OBVIOUS
  <2>. USE DEF LoaderInv
  <2>0. phase \in {"files", "scheduled"} \/ phase \in {"late", "done"}
    BY DEF OrderInv
  <2>1. ASSUME phase \in {"files", "scheduled"} PROVE IsInjective(ran)
    <3>1. NumbersInv /\ ran \in Seq(Calls) /\ numbered.quick \in Nat
      <4>1. numbered.quick \in 0 .. Cardinality(Calls) /\ Cardinality(Calls) \in Nat
        BY CallsFacts DEF QuickInv
      <4>. QED  BY <2>1, <4>1 DEF QuickInv
    <3>2. Len(ran) \in Nat /\ DOMAIN ran = 1 .. Len(ran) /\ Len(ran) <= numbered.quick
      BY <3>1, LenProperties DEF NumbersInv
    <3>3. \A x, y \in Nat : \A j \in 1 .. x :
            x <= y => j - 1 \in 0 .. y - 1 /\ j - 1 < x /\ j - 1 + 1 = j
      OBVIOUS
    <3>4. \A i \in 1 .. Len(ran) : ran[i] = Call(i - 1) /\ i - 1 \in Numbers
      BY <3>1, <3>2, <3>3 DEF Call, Numbers
    <3>5. \A i, j \in 1 .. Len(ran) : ran[i] = ran[j] => i - 1 = j - 1
      BY <3>1, <3>4 DEF NumbersInv
    <3>6. \A i, j \in 1 .. Len(ran) : i - 1 = j - 1 => i = j
      OBVIOUS
    <3>. QED  BY <3>2, <3>5, <3>6 DEF IsInjective
  <2>2. ASSUME phase \in {"late", "done"} PROVE IsInjective(ran)
    BY <2>2 DEF OverInv
  <2>3. ASSUME phase = "done" PROVE early \subseteq ToSet(ran)
    <3>1. /\ EarlyQuick \subseteq ToSet(ran) /\ turn <= 1 /\ Len(LateCalls) <= turn
          /\ turn = 1 => LateCalls[1].value \in ToSet(ran)
      BY <2>3 DEF OverInv
    <3>2. Len(LateCalls) \in Nat /\ turn \in Nat
      BY LateTypes DEF OrderInv
    <3>3. \A i \in 1 .. Len(LateCalls) : i = 1 /\ turn = 1
      BY <3>1, <3>2
    <3>4. EarlyLate \subseteq ToSet(ran)
      BY <3>1, <3>3 DEF LateInv
    <3>5. early \subseteq EarlyQuick \cup EarlyLate
      BY DEF EarlyQuick, EarlyLate
    <3>. QED  BY <3>1, <3>4, <3>5
  <2>. QED  BY <2>0, <2>1, <2>2, <2>3 DEF ScheduledRunOnce
<1>. QED  BY <1>1, LoaderHolds, PTL

(* module.cpp keeps its maps well formed and its counters in their ranges. *)
THEOREM LoaderTypes == BootSpec => []TypeOK
<1>1. LoaderInv => TypeOK
  BY DEF LoaderInv, TypeOK, OrderInv, ListInv, QuickInv, LateInv
<1>. QED  BY <1>1, LoaderHolds, PTL

-----------------------------------------------------------------------------
(***************************************************************************)
(* The files of the drivers.                                               *)
(***************************************************************************)

(* A driver whose init mounts at once was begun, or one of the calls that  *)
(* a driver put off for a name has run.                                    *)
Mounted(m) ==
  \/ m # DiskModule /\ WaitsFor[m] = <<>> /\ m \in Begun
  \/ \E i \in 1 .. Len(ran) : ran[i][1] = m /\ ran[i][2] # 0

InTree(m) == Device[m] \in DOMAIN tree /\ tree[Device[m]] = m

MountInv ==
  /\ \A m \in Modules : Device[m] # <<>> /\ Mounted(m) => InTree(m)
  /\ stage # "modules" => phase = "done"

(* A mount adds its path and leaves what is mounted at the others.         *)
LEMMA MountFacts ==
  ASSUME NEW t, NEW path, NEW file
  PROVE  /\ \A q \in DOMAIN t : /\ q \in DOMAIN VfsMount(t, path, file)
                                /\ q # path => VfsMount(t, path, file)[q] = t[q]
         /\ path \in Seq(Words) /\ file # NoFile =>
              /\ path \in DOMAIN VfsMount(t, path, file)
              /\ VfsMount(t, path, file)[path] = file
<1>1. CASE file = NoFile
  BY <1>1 DEF VfsMount
<1>2. CASE file # NoFile
  <2>1. path \in Seq(Words) => path \in PrefixesOf(path)
    <3>1. path \in Seq(Words) => path = SubSeq(path, 1, Len(path)) /\ Len(path) \in 0 .. Len(path)
      <4>1. path \in Seq(Words) => Len(path) \in Nat /\ path = SubSeq(path, 1, Len(path))
        OBVIOUS
      <4>2. \A x \in Nat : x \in 0 .. x  OBVIOUS
      <4>. QED  BY <4>1, <4>2
    <3>. QED  BY <3>1 DEF PrefixesOf
  <2>2. VfsMount(t, path, file) = [p \in DOMAIN t \cup PrefixesOf(path) |->
          IF p = path THEN file
          ELSE IF p \in DOMAIN t THEN t[p] ELSE NoFile]
    BY <1>2 DEF VfsMount
  <2>. QED  BY <1>2, <2>1, <2>2
<1>. QED  BY <1>1, <1>2

LEMMA DeviceFacts ==
  ASSUME NEW m \in Modules
  PROVE  /\ Device[m] \in Seq(Words \ {Up, Dot}) /\ Device[m] \in Seq(Words)
         /\ Device[m] # Com1Path
         /\ \A o \in Modules : Device[m] = Device[o] /\ Device[m] # <<>> => m = o
         /\ m # NoFile /\ m # Bad /\ m # Wild
<1>1. Device[m] \in Seq(Words \ {Up, Dot})
  BY DeviceAssumption
<1>2. Device[m] \in Seq(Words)
  BY <1>1
<1>. QED  BY <1>1, <1>2, DeviceAssumption, BootAssumption

(* What a driver mounts leaves the file of every other in its place.       *)
LEMMA MountsKeep ==
  ASSUME NEW o \in Modules, Mounts(o)
  PROVE  /\ \A m \in Modules : Device[m] # <<>> /\ InTree(m) => InTree(m)'
         /\ Device[o] # <<>> => InTree(o)'
<1>1. CASE Device[o] = <<>>
  BY <1>1 DEF Mounts, InTree
<1>2. CASE Device[o] # <<>>
  <2>1. tree' = VfsMount(tree, Device[o], o)
    BY <1>2 DEF Mounts
  <2>2. InTree(o)'
    BY <2>1, MountFacts, DeviceFacts DEF InTree
  <2>3. ASSUME NEW m \in Modules, Device[m] # <<>>, InTree(m), m # o PROVE InTree(m)'
    <3>1. Device[m] # Device[o]
      BY <2>3, DeviceFacts
    <3>. QED  BY <2>1, <2>3, <3>1, MountFacts DEF InTree
  <2>. QED  BY <2>2, <2>3
<1>. QED  BY <1>1, <1>2

LEMMA MountInit == BootInit => MountInv
<1>. SUFFICES ASSUME BootInit PROVE MountInv
  OBVIOUS
<1>1. Begun = {} /\ ran = <<>> /\ stage = "modules"
  BY DEF BootInit, Init, Begun
<1>2. \A m : ~Mounted(m)
  BY <1>1 DEF Mounted
<1>. QED  BY <1>1, <1>2 DEF MountInv

LEMMA MountStep ==
  ASSUME LoaderInv, MountInv, LoaderInv', [BootNext]_bootVars
  PROVE  MountInv'
<1>. USE DEF LoaderInv
<1>0. ASSUME tree' = tree, Begun' \cap Modules \subseteq Begun, ran' = ran,
             stage' # "modules" => phase' = "done"
      PROVE  MountInv'
  <2>1. \A m \in Modules : Mounted(m)' => Mounted(m)
    BY <1>0 DEF Mounted
  <2>. QED  BY <1>0, <2>1 DEF MountInv, InTree
<1>t. ran \in Seq(Calls) /\ ran' \in Seq(Calls)
  BY DEF QuickInv
<1>1. CASE LoadModule
  <2>. DEFINE m == order[next]
  <2>1. Load /\ stage' = stage /\ phase = "files" /\ m \in Modules /\ ran' = ran
    BY <1>1 DEF LoadModule, Load
  <2>2. Begun' \cap Modules = (Begun \cap Modules) \cup {m}
    BY <2>1, BegunSteps
  <2>3. stage' = "modules"
    BY <2>1 DEF MountInv
  <2>4. \/ tree' = tree /\ (WaitsFor[m] # <<>> \/ m = DiskModule)
        \/ Mounts(m)
    BY <1>1 DEF LoadModule
  <2>. HIDE DEF m
  <2>5. \A o \in Modules : Mounted(o)' => Mounted(o) \/ (o = m /\ m # DiskModule /\ WaitsFor[m] = <<>>)
    BY <2>1, <2>2 DEF Mounted
  <2>6. \A o \in Modules : Device[o] # <<>> /\ Mounted(o)' => InTree(o)'
    <3>1. CASE tree' = tree /\ (WaitsFor[m] # <<>> \/ m = DiskModule)
      BY <2>5, <3>1 DEF MountInv, InTree
    <3>2. CASE Mounts(m)
      BY <2>1, <2>5, <3>2, MountsKeep DEF MountInv
    <3>. QED  BY <2>4, <3>1, <3>2
  <2>. QED  BY <2>3, <2>6 DEF MountInv
<1>2. CASE RunScheduledCall
  <2>. DEFINE key == Quick(NameOf[order[next]], turn)
              c == HashGet(quick, key)
  <2>1. RunScheduled /\ stage' = stage /\ phase = "scheduled"
    BY <1>2 DEF RunScheduledCall, RunScheduled
  <2>2. Begun' = Begun
    BY <2>1, BegunSteps
  <2>3. stage' = "modules"
    BY <2>1 DEF MountInv
  <2>4. CASE ~HashHas(quick, key)
    <3>1. tree' = tree /\ ran' = ran
      BY <1>2, <2>4 DEF RunScheduledCall, RunScheduled
    <3>. QED  BY <1>0, <2>2, <2>3, <3>1
  <2>5. CASE HashHas(quick, key)
    <3>1. ran' = Append(ran, c) /\ Mounts(c[1])
      BY <1>2, <2>5 DEF RunScheduledCall, RunScheduled
    <3>. HIDE DEF c
    <3>2. c \in Calls
      <4>1. ran \in Seq(Calls \cup {c}) /\ c \in Calls \cup {c}
        BY <1>t
      <4>2. Len(ran') = Len(ran) + 1 /\ ran'[Len(ran) + 1] = c /\ Len(ran) \in Nat
        BY <3>1, <4>1, AppendProperties, LenProperties
      <4>3. Len(ran) + 1 \in 1 .. Len(ran')
        BY <4>2
      <4>. QED  BY <1>t, <4>2, <4>3, ElementOfSeq
    <3>3. c[1] \in Modules
      BY <3>2, CallsFacts
    <3>4. /\ Len(ran') = Len(ran) + 1 /\ ran'[Len(ran) + 1] = c /\ Len(ran) \in Nat
          /\ \A i \in 1 .. Len(ran) : ran'[i] = ran[i]
      BY <1>t, <3>1, <3>2, AppendProperties, LenProperties
    <3>5. \A i \in 1 .. Len(ran') : i \in 1 .. Len(ran) \/ i = Len(ran) + 1
      BY <3>4
    <3>6. \A m \in Modules : Mounted(m)' => Mounted(m) \/ m = c[1]
      BY <2>2, <3>4, <3>5 DEF Mounted
    <3>7. \A m \in Modules : Device[m] # <<>> /\ Mounted(m)' => InTree(m)'
      BY <3>1, <3>3, <3>6, MountsKeep DEF MountInv
    <3>. QED  BY <2>3, <3>7 DEF MountInv
  <2>. QED  BY <2>4, <2>5
<1>3. CASE SerialInitLate
  <2>1. /\ phase = "done" /\ UNCHANGED vars
        /\ tree' = VfsMount(tree, Com1Path, Com1)
    BY <1>3 DEF SerialInitLate
  <2>2. Begun' = Begun /\ ran' = ran /\ phase' = "done"
    BY <2>1 DEF Begun, vars
  <2>3. \A m \in Modules : Mounted(m)' => Mounted(m)
    BY <2>2 DEF Mounted
  <2>4. \A m \in Modules : InTree(m) => InTree(m)'
    BY <2>1, MountFacts, DeviceFacts DEF InTree
  <2>. QED  BY <2>2, <2>3, <2>4 DEF MountInv
<1>4. CASE MountRoot
  <2>1. /\ stage = "serial" /\ UNCHANGED vars
        /\ tree' = tree \/ tree' = VfsMount(tree, <<>>, RootDir)
    BY <1>4 DEF MountRoot
  <2>2. Begun' = Begun /\ ran' = ran /\ phase' = "done"
    BY <2>1 DEF Begun, vars, MountInv
  <2>3. \A m \in Modules : Mounted(m)' => Mounted(m)
    BY <2>2 DEF Mounted
  <2>4. \A m \in Modules : Device[m] # <<>> /\ InTree(m) => InTree(m)'
    BY <2>1, MountFacts DEF InTree
  <2>. QED  BY <2>2, <2>3, <2>4 DEF MountInv
<1>5. CASE LoaderStep
  <2>0. tree' = tree /\ stage' = stage
    BY <1>5 DEF LoaderStep
  <2>1. CASE PassOver
    <3>1. ran' = ran /\ phase' = phase /\ Begun' \cap Modules = Begun \cap Modules
      BY <2>1, BegunSteps DEF PassOver
    <3>. QED  BY <1>0, <2>0, <3>1 DEF MountInv
  <2>2. CASE FilesDone
    <3>1. ran' = ran /\ phase = "files" /\ Begun' = Begun
      BY <2>2, BegunSteps DEF FilesDone
    <3>. QED  BY <1>0, <2>0, <3>1 DEF MountInv
  <2>3. CASE RunLate
    <3>1. phase = "late" /\ Begun' = Begun
      BY <2>3 DEF RunLate, Begun
    <3>2. stage' = "modules"
      BY <2>0, <3>1 DEF MountInv
    <3>3. CASE turn < HashSize(late)
      <4>. DEFINE c == LateCalls[1].value
      <4>1. ran' = Append(ran, c) /\ c \in Calls /\ c[2] = 0
        BY <2>3, <3>3, LateCallRuns
      <4>. HIDE DEF c
      <4>2. /\ Len(ran') = Len(ran) + 1 /\ ran'[Len(ran) + 1] = c /\ Len(ran) \in Nat
            /\ \A i \in 1 .. Len(ran) : ran'[i] = ran[i]
        BY <1>t, <4>1, AppendProperties, LenProperties
      <4>3. \A i \in 1 .. Len(ran') : i \in 1 .. Len(ran) \/ i = Len(ran) + 1
        BY <4>2
      <4>4. \A m \in Modules : Mounted(m)' => Mounted(m)
        BY <3>1, <4>1, <4>2, <4>3 DEF Mounted
      <4>. QED  BY <2>0, <3>2, <4>4 DEF MountInv, InTree
    <3>4. CASE ~(turn < HashSize(late))
      <4>1. ran' = ran
        BY <2>3, <3>4 DEF RunLate
      <4>. QED  BY <1>0, <2>0, <3>1, <3>2, <4>1
    <3>. QED  BY <3>3, <3>4
  <2>4. CASE ModuleRemove \/ \E m \in Modules : AddAgain(m)
    <3>1. UNCHANGED <<order, next, phase, ran>>
      BY <2>4 DEF ModuleRemove, AddAgain
    <3>2. Begun' = Begun
      BY <3>1 DEF Begun
    <3>. QED  BY <1>0, <2>0, <3>1, <3>2 DEF MountInv
  <2>. QED  BY <1>5, <2>1, <2>2, <2>3, <2>4 DEF LoaderStep
<1>6. CASE UNCHANGED bootVars
  <2>1. UNCHANGED <<order, next, phase, ran, tree, stage>>
    BY <1>6 DEF bootVars, vars
  <2>2. Begun' = Begun
    BY <2>1 DEF Begun
  <2>. QED  BY <1>0, <2>1, <2>2 DEF MountInv
<1>. QED  BY <1>1, <1>2, <1>3, <1>4, <1>5, <1>6 DEF BootNext

(* Every driver is in the tree, at its path, once its file is mounted.     *)
THEOREM DriversMounted == BootSpec => []MountInv
<1>1. BootInit => MountInv
  BY MountInit
<1>2. LoaderInv /\ LoaderInv' /\ MountInv /\ [BootNext]_bootVars => MountInv'
  BY MountStep
<1>. QED  BY <1>1, <1>2, LoaderHolds, PTL DEF BootSpec

(* A path without "." and ".." is canonical.                               *)
LEMMA CanonicalPath ==
  ASSUME NEW p \in Seq(Words \ {Up, Dot})
  PROVE  Canonicalize(<<>>, Path(TRUE, p)) = p
<1>. DEFINE path == Path(TRUE, p)
            names == path.names
            F(f) == [i \in 0 .. Len(names) |->
                       IF i = 0 THEN IF path.absolute \/ names = <<>> THEN <<>> ELSE <<>>
                       ELSE LET below == f[i - 1]
                            IN CASE names[i] = Up -> IF below = <<>> THEN <<>> ELSE Front(below)
                                 [] names[i] = Dot -> below
                                 [] OTHER -> Append(below, names[i])]
            W == CHOOSE f : f = F(f)
            g == [i \in 0 .. Len(p) |-> SubSeq(p, 1, i)]
<1>1. Canonicalize(<<>>, path) = W[Len(names)]
  BY Zenon DEF Canonicalize
<1>p. names = p /\ path.absolute
  BY DEF Path
<1>. HIDE DEF path
<1>2. Len(p) \in Nat /\ Len(p) \in 0 .. Len(p)
  OBVIOUS
<1>n. \A i \in 1 .. Len(p) : names[i] = p[i] /\ p[i] # Up /\ p[i] # Dot
  BY <1>p, ElementOfSeq
<1>q. Len(names) = Len(p)
  BY <1>p
<1>. HIDE DEF names
<1>f. \A f : /\ DOMAIN F(f) = 0 .. Len(p)
             /\ F(f)[0] = <<>>
             /\ \A i \in 1 .. Len(p) : F(f)[i] = Append(f[i - 1], p[i])
  <2>. TAKE f
  <2>1. DOMAIN F(f) = 0 .. Len(p)
    BY <1>q
  <2>2. 0 \in 0 .. Len(p)
    BY <1>2
  <2>3. F(f)[0] = <<>>
    BY <1>p, <1>q, <2>2
  <2>4. \A i \in 1 .. Len(p) : i \in 0 .. Len(p) /\ i # 0
    OBVIOUS
  <2>5. \A i \in 1 .. Len(p) : F(f)[i] = Append(f[i - 1], p[i])
    BY <1>n, <1>q, <2>4
  <2>. QED  BY <2>1, <2>3, <2>5
<1>3. \A i \in 0 .. Len(p) : F(g)[i] = g[i]
  <2>. TAKE i \in 0 .. Len(p)
  <2>1. CASE i = 0
    <3>1. SubSeq(p, 1, 0) = <<>>  OBVIOUS
    <3>2. g[0] = <<>>  BY <1>2, <3>1
    <3>. HIDE DEF F
    <3>. QED  BY <1>f, <2>1, <3>2
  <2>2. CASE i # 0
    <3>1. i \in 1 .. Len(p) /\ i - 1 \in 0 .. Len(p)
      BY <2>2
    <3>3. g[i - 1] = SubSeq(p, 1, i - 1)
      BY <3>1
    <3>4. Append(SubSeq(p, 1, i - 1), p[i]) = SubSeq(p, 1, i)
      BY <3>1
    <3>. HIDE DEF F
    <3>. QED  BY <1>f, <3>1, <3>3, <3>4
  <2>. QED  BY <2>1, <2>2
<1>4. g = F(g)
  <2>1. DOMAIN F(g) = 0 .. Len(p)
    BY <1>f
  <2>. QED  BY <1>3, <1>q
<1>5. W = F(W)
  <2>. HIDE DEF F, g
  <2>. QED  BY <1>4
<1>. HIDE DEF F, W
<1>6. W[0] = <<>> /\ \A i \in 1 .. Len(p) : W[i] = Append(W[i - 1], p[i])
  BY <1>5, <1>f
<1>7. \A i \in 0 .. Len(p) : W[i] = SubSeq(p, 1, i)
  <2>. DEFINE wrong == {i \in 0 .. Len(p) : W[i] # SubSeq(p, 1, i)}
  <2>. SUFFICES ASSUME wrong # {} PROVE FALSE
    OBVIOUS
  <2>1. PICK k \in wrong : \A j \in wrong : k <= j
    <3>1. wrong \subseteq Nat
      OBVIOUS
    <3>. HIDE DEF wrong
    <3>. QED  BY <3>1, LeastNumber
  <2>2. k # 0
    <3>1. SubSeq(p, 1, 0) = <<>>  OBVIOUS
    <3>. QED  BY <1>6, <3>1
  <2>3. k \in 1 .. Len(p) /\ k - 1 \in 0 .. Len(p) /\ ~(k <= k - 1)
    BY <2>2
  <2>4. W[k - 1] = SubSeq(p, 1, k - 1)
    BY <2>1, <2>3
  <2>5. Append(SubSeq(p, 1, k - 1), p[k]) = SubSeq(p, 1, k)
    BY <2>3
  <2>. QED  BY <1>6, <2>3, <2>4, <2>5
<1>8. SubSeq(p, 1, Len(p)) = p
  OBVIOUS
<1>9. Canonicalize(<<>>, path) = p
  BY <1>1, <1>2, <1>7, <1>8, <1>q
<1>. QED  BY <1>9 DEF path

(* get_mount_point: at the path of a mount, no name is left to look up.    *)
LEMMA MountedDepth ==
  ASSUME NEW p \in Seq(Words), NEW t, p \in DOMAIN t, t[p] # NoFile
  PROVE  MountDepth(t, p) = Len(p)
<1>. DEFINE S == {0} \cup {k \in 1 .. Len(p) : /\ SubSeq(p, 1, k) \in DOMAIN t
                                              /\ t[SubSeq(p, 1, k)] # NoFile}
<1>1. Len(p) \in Nat /\ SubSeq(p, 1, Len(p)) = p
  OBVIOUS
<1>2. Len(p) \in S
  <2>1. Len(p) = 0 \/ Len(p) \in 1 .. Len(p)
    BY <1>1
  <2>. QED  BY <1>1, <2>1
<1>3. \A k \in S : k \in Nat /\ Len(p) >= k
  BY <1>1
<1>. HIDE DEF S
<1>4. \A k \in S : (\A j \in S : k >= j) => k = Len(p)
  <2>. TAKE k \in S
  <2>1. \A x, y \in Nat : x >= y /\ y >= x => x = y
    OBVIOUS
  <2>. QED  BY <1>1, <1>2, <1>3, <2>1
<1>5. Max(S) = Len(p)
  <2>1. Max(S) = CHOOSE x \in S : \A y \in S : x >= y
    BY Zenon DEF Max
  <2>. QED  BY <1>2, <1>3, <1>4, <2>1
<1>. QED  BY <1>5 DEF MountDepth, S

(* The loop of kopen_recur with no name left.                              *)
LEMMA WalkNowhere ==
  ASSUME NEW opened, NEW p \in Seq(Words), NEW node, NEW flags, NEW links
  PROVE  Walk(opened, p, Len(p), node, flags, links) = node
<1>. DEFINE L == Len(p)
            F(f) == [d \in L .. Len(p) |->
                       IF d = L THEN node
                       ELSE LET before == f[d - 1]
                                found == FindDir(before, p[d])
                            IN IF before \in {NoFile, Bad, Wild} THEN before
                               ELSE IF found \in Links
                                    THEN Follow(opened, p, d - 1, found, flags, links)
                                    ELSE found]
            W == CHOOSE f : f = F(f)
            g == [d \in L .. Len(p) |-> node]
<1>1. Walk(opened, p, L, node, flags, links) = W[Len(p)]
  BY Zenon DEF Walk
<1>2. L .. Len(p) = {L}
  <2>1. L \in Nat  OBVIOUS
  <2>2. \A x \in Nat : x .. x = {x}  OBVIOUS
  <2>. QED  BY <2>1, <2>2
<1>. HIDE DEF L
<1>3. \A f : F(f) = [d \in {L} |-> node]
  BY <1>2
<1>4. g = F(g)
  BY <1>2, <1>3
<1>5. W = F(W)
  <2>. HIDE DEF F, g
  <2>. QED  BY <1>4
<1>. HIDE DEF F, W
<1>6. W[L] = node
  BY <1>3, <1>5
<1>. QED  BY <1>1, <1>6 DEF L

(* kopen of an absolute path at which a file is mounted is that file.      *)
LEMMA MountedOpens ==
  ASSUME NEW p \in Seq(Words \ {Up, Dot}), NEW t, NEW file,
         p \in DOMAIN t, t[p] = file, file # NoFile
  PROVE  Kopen(t, <<>>, Path(TRUE, p), {}) = file
<1>1. p \in Seq(Words)
  OBVIOUS
<1>2. ASSUME NEW opened PROVE KopenRecur(opened, t, <<>>, Path(TRUE, p), {}, 0) = file
  <2>1. Canonicalize(<<>>, Path(TRUE, p)) = p
    BY CanonicalPath
  <2>2. MountDepth(t, p) = Len(p)
    BY <1>1, MountedDepth
  <2>3. SubSeq(p, 1, Len(p)) = p
    OBVIOUS
  <2>4. Walk(opened, p, Len(p), file, {}, 0) = file
    BY <1>1, WalkNowhere
  <2>. QED  BY <2>1, <2>2, <2>3, <2>4 DEF KopenRecur
<1>. DEFINE opens == CHOOSE f :
              f = [links \in 1 .. MAX_SYMLINK_DEPTH, at \in Seq(Words), link \in Links |->
                     KopenRecur(f, t, at, LinkTarget[link], {}, links)]
<1>3. Kopen(t, <<>>, Path(TRUE, p), {}) = KopenRecur(opens, t, <<>>, Path(TRUE, p), {}, 0)
  BY DEF Kopen
<1>. HIDE DEF opens
<1>. QED  BY <1>2, <1>3

(* kmain: when the root is mounted, kopen finds every driver's file at its *)
(* path (DevicesFound), in whatever order the ram disk had the modules.    *)
THEOREM DevicesAreFound == BootSpec => []DevicesFound
<1>1. LoaderInv /\ MountInv => DevicesFound
  <2>. SUFFICES ASSUME LoaderInv, MountInv, stage = "up",
                       NEW m \in ToSet(order) \cap Modules, Device[m] # <<>>, m # DiskModule,
                       \A i \in 1 .. Len(WaitsFor[m]) : <<m, i>> \in early
                PROVE  Kopen(tree, <<>>, Path(TRUE, Device[m]), {}) = m
    BY DEF DevicesFound
  <2>. USE DEF LoaderInv
  <2>1. phase = "done" /\ next = Len(order) + 1
    BY DEF MountInv, OrderInv
  <2>2. Begun = ToSet(order)
    <3>1. DOMAIN order = 1 .. Len(order) /\ Len(order) \in Nat
      BY DiskFacts DEF OrderInv
    <3>. QED  BY <2>1, <3>1 DEF Begun, ToSet
  <2>3. Mounted(m)
    <3>1. WaitsFor[m] \in Seq(Keys) /\ Len(WaitsFor[m]) \in 0 .. 2
      BY WaitsFacts
    <3>2. CASE WaitsFor[m] = <<>>
      BY <2>2, <3>2 DEF Mounted
    <3>3. CASE WaitsFor[m] # <<>>
      <4>1. Len(WaitsFor[m]) # 0
        BY <3>1, <3>3, EmptySeq
      <4>2. 1 \in 1 .. Len(WaitsFor[m])
        BY <3>1, <4>1
      <4>3. <<m, 1>> \in EarlyQuick
        BY <4>2 DEF EarlyQuick
      <4>4. <<m, 1>> \in ToSet(ran)
        BY <2>1, <4>3 DEF OverInv
      <4>5. PICK i \in 1 .. Len(ran) : ran[i] = <<m, 1>>
        BY <4>4, LenProperties DEF ToSet, QuickInv
      <4>. QED  BY <4>5 DEF Mounted
    <3>. QED  BY <3>2, <3>3
  <2>4. InTree(m)
    BY <2>3 DEF MountInv
  <2>. QED  BY <2>4, MountedOpens, DeviceFacts DEF InTree
<1>. QED  BY <1>1, LoaderHolds, DriversMounted, PTL

-----------------------------------------------------------------------------
(***************************************************************************)
(* Looking up a path on which there is no link.                            *)
(***************************************************************************)

(* A recursion along the numbers 0 .. N, and a solution of it.             *)
Recursion(N, D, x, step) == N \in Nat /\ x \in D /\ step \in [D \X (1 .. N) -> D]

Solves(f, N, D, x, step) ==
  /\ f \in [0 .. N -> D] /\ f[0] = x
  /\ \A i \in 1 .. N : f[i] = step[<<f[i - 1], i>>]

LEMMA Iterated ==
  ASSUME NEW N, NEW D, NEW x, NEW step, Recursion(N, D, x, step)
  PROVE  \E f : Solves(f, N, D, x, step)
<1>. USE DEF Recursion
<1> DEFINE Good(n, f) == /\ f \in [0 .. N -> D] /\ f[0] = x
                         /\ \A i \in 1 .. n : f[i] = step[<<f[i - 1], i>>]
           bad == {n \in 0 .. N : ~ \E f : Good(n, f)}
<1>1. 0 \notin bad
  <2>1. Good(0, [i \in 0 .. N |-> x])
    OBVIOUS
  <2>. HIDE DEF Good
  <2>. QED  BY <2>1
<1>2. ASSUME NEW n \in 1 .. N, n - 1 \notin bad PROVE n \notin bad
  <2>1. n - 1 \in 0 .. N /\ n \in 0 .. N /\ n # 0
    OBVIOUS
  <2>2. PICK f : Good(n - 1, f)
    <3>. HIDE DEF Good
    <3>. QED  BY <1>2, <2>1
  <2> DEFINE g == [i \in 0 .. N |-> IF i = n THEN step[<<f[n - 1], n>>] ELSE f[i]]
  <2>3. f \in [0 .. N -> D] /\ f[n - 1] \in D
    BY <2>1, <2>2
  <2>4. step[<<f[n - 1], n>>] \in D
    BY <2>3
  <2>5. g \in [0 .. N -> D] /\ g[0] = x /\ g[n] = step[<<f[n - 1], n>>]
    BY <2>1, <2>2, <2>3, <2>4
  <2>6. \A i \in 0 .. n - 1 : i \in 0 .. N /\ i # n
    BY <2>1
  <2>7. \A i \in 0 .. n - 1 : g[i] = f[i]
    BY <2>6
  <2>. HIDE DEF g
  <2>8. ASSUME NEW i \in 1 .. n PROVE g[i] = step[<<g[i - 1], i>>]
    <3>1. i - 1 \in 0 .. n - 1
      OBVIOUS
    <3>2. g[i - 1] = f[i - 1]
      BY <2>7, <3>1
    <3>3. CASE i = n
      BY <2>5, <3>2, <3>3
    <3>4. CASE i # n
      <4>1. i \in 1 .. n - 1 /\ i \in 0 .. n - 1
        BY <3>4
      <4>2. f[i] = step[<<f[i - 1], i>>]
        BY <2>2, <4>1
      <4>. QED  BY <2>7, <3>2, <4>1, <4>2
    <3>. QED  BY <3>3, <3>4
  <2>9. Good(n, g)
    BY <2>5, <2>8
  <2>. HIDE DEF Good
  <2>. QED  BY <2>9
<1>3. bad = {}
  <2> SUFFICES ASSUME bad # {} PROVE FALSE
    OBVIOUS
  <2>1. bad \in SUBSET Nat /\ bad \subseteq 0 .. N
    <3>. HIDE DEF Good
    <3>. QED  OBVIOUS
  <2>. HIDE DEF bad
  <2>2. PICK n \in bad : \A m \in bad : n <= m
    BY <2>1, LeastNumber
  <2>3. n \in 1 .. N /\ n \in Nat
    BY <1>1, <2>1
  <2>4. n - 1 \in bad
    BY <1>2, <2>3
  <2>5. ~ (n <= n - 1)
    BY <2>3
  <2>. QED  BY <2>2, <2>4, <2>5
<1>4. \E f : Good(N, f)
  <2>1. N \in 0 .. N
    OBVIOUS
  <2>. HIDE DEF Good
  <2>. QED  BY <1>3, <2>1
<1>. QED  BY <1>4 DEF Solves

(* Two such solutions are one.                                             *)
Alike(M, N, f, g) ==
  /\ M \in Nat /\ N \in Nat /\ f[M] = g[M]
  /\ \A i \in M .. N : i # M /\ f[i - 1] = g[i - 1] => f[i] = g[i]

LEMMA Iteration ==
  ASSUME NEW M, NEW N, NEW f, NEW g, Alike(M, N, f, g)
  PROVE  \A i \in M .. N : f[i] = g[i]
<1>. USE DEF Alike
<1> DEFINE bad == {i \in M .. N : f[i] # g[i]}
<1> SUFFICES ASSUME bad # {} PROVE FALSE
  OBVIOUS
<1>1. bad \in SUBSET Nat
  OBVIOUS
<1>2. PICK n \in bad : \A m \in bad : n <= m
  <2>. HIDE DEF bad
  <2>. QED  BY <1>1, LeastNumber
<1>3. n \in M .. N /\ f[n] # g[n] /\ n # M
  OBVIOUS
<1>4. n - 1 \in M .. N /\ ~ (n <= n - 1)
  BY <1>3
<1>5. f[n - 1] = g[n - 1]
  <2>1. n - 1 \notin bad
    <3>. HIDE DEF bad
    <3>. QED  BY <1>2, <1>4
  <2>. QED  BY <1>4, <2>1
<1>. QED  BY <1>3, <1>4, <1>5

(* A canonical path is a path of words.                                    *)
LEMMA CanonicalWords ==
  ASSUME NEW cwd \in Seq(Words), NEW path, path.names \in Seq(Words)
  PROVE  Canonicalize(cwd, path) \in Seq(Words)
<1> DEFINE names == path.names
           start == IF path.absolute \/ names = <<>> THEN <<>> ELSE cwd
           N == Len(names)
           Word(below, name) ==
             CASE name = Up -> IF below = <<>> THEN <<>> ELSE Front(below)
               [] name = Dot -> below
               [] OTHER -> Append(below, name)
           F(stack) ==
             [i \in 0 .. Len(names) |->
                IF i = 0 THEN IF path.absolute \/ names = <<>> THEN <<>> ELSE cwd
                ELSE LET below == stack[i - 1]
                     IN CASE names[i] = Up -> IF below = <<>> THEN <<>> ELSE Front(below)
                          [] names[i] = Dot -> below
                          [] OTHER -> Append(below, names[i])]
           W == CHOOSE stack : stack = F(stack)
           step == [s \in Seq(Words) \X (1 .. N) |-> Word(s[1], names[s[2]])]
<1>1. Canonicalize(cwd, path) = W[Len(names)]
  BY Zenon DEF Canonicalize
<1>2. N \in Nat /\ \A i \in 1 .. N : names[i] \in Words
  OBVIOUS
<1>3. \A s \in Seq(Words), name \in Words : Word(s, name) \in Seq(Words)
  <2> SUFFICES ASSUME NEW s \in Seq(Words), NEW name \in Words
               PROVE  Word(s, name) \in Seq(Words)
    OBVIOUS
  <2>1. s # <<>> => Front(s) \in Seq(Words)
    <3>1. s # <<>> => Len(s) - 1 \in 0 .. Len(s)
      OBVIOUS
    <3>. QED  BY <3>1 DEF Front
  <2>2. Append(s, name) \in Seq(Words) /\ <<>> \in Seq(Words)
    OBVIOUS
  <2>. QED  BY <2>1, <2>2
<1>4. start \in Seq(Words)
  OBVIOUS
<1>5. \A f : F(f) = [i \in 0 .. N |-> IF i = 0 THEN start ELSE Word(f[i - 1], names[i])]
  OBVIOUS
<1>. HIDE DEF Word, start, F
<1>6. step \in [Seq(Words) \X (1 .. N) -> Seq(Words)]
  BY <1>2, <1>3
<1>7. \A s \in Seq(Words), i \in 1 .. N : step[<<s, i>>] = Word(s, names[i])
  OBVIOUS
<1>. HIDE DEF step
<1>. HIDE DEF names
<1>. HIDE DEF N
<1>8. \E f : Solves(f, N, Seq(Words), start, step)
  <2>1. Recursion(N, Seq(Words), start, step)
    BY <1>2, <1>4, <1>6 DEF Recursion
  <2>. QED  BY <2>1, Iterated
<1>q. PICK f : /\ f \in [0 .. N -> Seq(Words)] /\ f[0] = start
                /\ \A i \in 1 .. N : f[i] = step[<<f[i - 1], i>>]
  BY <1>8 DEF Solves
<1>9. \A i \in 0 .. N : f[i] = IF i = 0 THEN start ELSE Word(f[i - 1], names[i])
  <2> SUFFICES ASSUME NEW i \in 0 .. N
               PROVE  f[i] = IF i = 0 THEN start ELSE Word(f[i - 1], names[i])
    OBVIOUS
  <2>1. i # 0 => i \in 1 .. N /\ i - 1 \in 0 .. N
    BY <1>2
  <2>2. i # 0 => f[i - 1] \in Seq(Words)
    BY <1>q, <2>1
  <2>3. i # 0 => step[<<f[i - 1], i>>] = Word(f[i - 1], names[i])
    BY <1>7, <2>1, <2>2
  <2>4. CASE i = 0
    BY <1>q, <2>4
  <2>5. CASE i # 0
    BY <1>q, <2>1, <2>3, <2>5
  <2>. QED  BY <2>4, <2>5
<1>10. f = F(f)
  <2>1. f = [i \in 0 .. N |-> f[i]]
    BY <1>q
  <2>. QED  BY <1>5, <1>9, <2>1
<1>11. W = F(W)
  BY <1>10
<1>. HIDE DEF W
<1>12. \A i \in 0 .. N : W[i] = IF i = 0 THEN start ELSE Word(W[i - 1], names[i])
  BY <1>5, <1>11
<1>13. \A i \in 0 .. N : W[i] = f[i]
  <2>1. W[0] = f[0]
    BY <1>2, <1>9, <1>12
  <2>2. \A i \in 0 .. N : i # 0 /\ W[i - 1] = f[i - 1] => W[i] = f[i]
    BY <1>9, <1>12
  <2>3. Alike(0, N, W, f)
    BY <1>2, <2>1, <2>2 DEF Alike
  <2>. QED  BY <2>3, Iteration
<1>14. W[N] \in Seq(Words)
  <2>1. N \in 0 .. N
    BY <1>2
  <2>. QED  BY <1>13, <1>q, <2>1
<1>. QED  BY <1>1, <1>14 DEF N

HasMount(t, q) == q \in DOMAIN t /\ t[q] # NoFile

(* What a name space holds at the first j names of p, f[j - 1] being what  *)
(* it holds at one less.                                                   *)
Holds(t, p, f, j) ==
  IF HasMount(t, SubSeq(p, 1, j)) THEN t[SubSeq(p, 1, j)]
  ELSE IF j = 0 THEN NoFile ELSE FindDir(f[j - 1], p[j])

(* NodeAt of a path, and of what it begins with, goes from name to name.   *)
LEMMA NodesOnPath ==
  ASSUME NEW t, NEW p \in Seq(Words), NEW f,
         \A j \in 0 .. Len(p) : f[j] = Holds(t, p, f, j)
  PROVE  \A k \in 0 .. Len(p) : NodeAt(t, SubSeq(p, 1, k)) = f[k]
<1> SUFFICES ASSUME NEW k \in 0 .. Len(p) PROVE NodeAt(t, SubSeq(p, 1, k)) = f[k]
  OBVIOUS
<1> DEFINE q == SubSeq(p, 1, k)
           F(node) == [j \in 0 .. Len(q) |->
                         LET at == SubSeq(q, 1, j)
                         IN IF at \in DOMAIN t /\ t[at] # NoFile THEN t[at]
                            ELSE IF j = 0 THEN NoFile ELSE FindDir(node[j - 1], q[j])]
           W == CHOOSE node : node = F(node)
           g == [j \in 0 .. k |-> f[j]]
<1>1. NodeAt(t, q) = W[Len(q)]
  BY Zenon DEF NodeAt
<1>2. k \in Nat /\ k <= Len(p) /\ Len(p) \in Nat /\ Len(q) = k
  OBVIOUS
<1>3. \A j \in 0 .. k : SubSeq(q, 1, j) = SubSeq(p, 1, j) /\ j \in 0 .. Len(p)
  OBVIOUS
<1>4. \A j \in 1 .. k : q[j] = p[j]
  OBVIOUS
<1>. HIDE DEF q
<1>5. \A w : F(w) = [j \in 0 .. k |-> Holds(t, p, w, j)]
  <2> TAKE w
  <2>1. ASSUME NEW j \in 0 .. k PROVE F(w)[j] = Holds(t, p, w, j)
    <3>1. F(w)[j] = IF HasMount(t, SubSeq(q, 1, j)) THEN t[SubSeq(q, 1, j)]
                    ELSE IF j = 0 THEN NoFile ELSE FindDir(w[j - 1], q[j])
      BY <1>2 DEF HasMount
    <3>2. SubSeq(q, 1, j) = SubSeq(p, 1, j)
      BY <1>3
    <3>3. j = 0 \/ q[j] = p[j]
      <4>1. j = 0 \/ j \in 1 .. k
        BY <1>2
      <4>. QED  BY <1>4, <4>1
    <3>. HIDE DEF F
    <3>. QED  BY <3>1, <3>2, <3>3 DEF Holds
  <2>2. F(w) = [j \in 0 .. k |-> F(w)[j]]
    BY <1>2
  <2>. HIDE DEF F
  <2>. QED  BY <2>1, <2>2
<1>. HIDE DEF F
<1>6. \A j \in 0 .. k : g[j] = Holds(t, p, g, j)
  <2> SUFFICES ASSUME NEW j \in 0 .. k PROVE g[j] = Holds(t, p, g, j)
    OBVIOUS
  <2>1. g[j] = f[j] /\ f[j] = Holds(t, p, f, j)
    BY <1>3
  <2>2. j # 0 => j - 1 \in 0 .. k
    BY <1>2
  <2>3. j # 0 => g[j - 1] = f[j - 1]
    BY <2>2
  <2>. HIDE DEF g
  <2>. QED  BY <2>1, <2>3 DEF Holds
<1>7. g = F(g)
  BY <1>5, <1>6
<1>. HIDE DEF g
<1>8. W = F(W)
  BY <1>7
<1>. HIDE DEF W
<1>9. \A j \in 0 .. k : W[j] = Holds(t, p, W, j)
  BY <1>5, <1>8
<1>10. \A j \in 0 .. k : W[j] = g[j]
  <2>1. W[0] = g[0]
    <3>1. W[0] = Holds(t, p, W, 0) /\ g[0] = Holds(t, p, g, 0)
      BY <1>2, <1>6, <1>9
    <3>. QED  BY <3>1 DEF Holds
  <2>2. \A j \in 0 .. k : j # 0 /\ W[j - 1] = g[j - 1] => W[j] = g[j]
    <3> SUFFICES ASSUME NEW j \in 0 .. k, j # 0, W[j - 1] = g[j - 1] PROVE W[j] = g[j]
      OBVIOUS
    <3>1. W[j] = Holds(t, p, W, j) /\ g[j] = Holds(t, p, g, j)
      BY <1>6, <1>9
    <3>. QED  BY <3>1 DEF Holds
  <2>3. Alike(0, k, W, g)
    BY <1>2, <2>1, <2>2 DEF Alike
  <2>. QED  BY <2>3, Iteration
<1>11. k \in 0 .. k
  BY <1>2
<1>12. NodeAt(t, q) = f[k]
  BY <1>1, <1>2, <1>10, <1>11 DEF g
<1>. QED  BY <1>12 DEF q

LEMMA NodesExist ==
  ASSUME NEW t, NEW p \in Seq(Words)
  PROVE  \E f : \A j \in 0 .. Len(p) : f[j] = Holds(t, p, f, j)
<1> DEFINE D == {NoFile} \cup {t[q] : q \in DOMAIN t}
                \cup UNION {{Directory[dir][name] : name \in DOMAIN Directory[dir]} :
                              dir \in DOMAIN Directory}
           N == Len(p)
           Mount(j) == HasMount(t, SubSeq(p, 1, j))
           step == [s \in D \X (1 .. N) |->
                      IF Mount(s[2]) THEN t[SubSeq(p, 1, s[2])] ELSE FindDir(s[1], p[s[2]])]
           first == IF Mount(0) THEN t[SubSeq(p, 1, 0)] ELSE NoFile
<1>1. N \in Nat
  OBVIOUS
<1>2. \A node, name : FindDir(node, name) \in D
  <2> SUFFICES ASSUME NEW node, NEW name PROVE FindDir(node, name) \in D
    OBVIOUS
  <2>1. CASE node \in DOMAIN Directory /\ name \in DOMAIN Directory[node]
    <3>1. FindDir(node, name) = Directory[node][name]
      BY <2>1 DEF FindDir
    <3>. QED  BY <2>1, <3>1
  <2>2. CASE ~ (node \in DOMAIN Directory /\ name \in DOMAIN Directory[node])
    <3>1. FindDir(node, name) = NoFile
      BY <2>2 DEF FindDir
    <3>. QED  BY <3>1
  <2>. QED  BY <2>1, <2>2
<1>3. \A j : Mount(j) => t[SubSeq(p, 1, j)] \in D
  BY DEF HasMount
<1>4. first \in D
  BY <1>3
<1>. HIDE DEF D
<1>5. step \in [D \X (1 .. N) -> D]
  <2>1. \A s \in D \X (1 .. N) :
          (IF Mount(s[2]) THEN t[SubSeq(p, 1, s[2])] ELSE FindDir(s[1], p[s[2]])) \in D
    <3>. HIDE DEF Mount
    <3>. QED  BY <1>2, <1>3
  <2>. QED  BY <2>1
<1>6. \A node \in D, j \in 1 .. N :
        step[<<node, j>>] = IF Mount(j) THEN t[SubSeq(p, 1, j)] ELSE FindDir(node, p[j])
  OBVIOUS
<1>. HIDE DEF step
<1>q. \E f : Solves(f, N, D, first, step)
  <2>. HIDE DEF first, N
  <2>1. Recursion(N, D, first, step)
    BY <1>1, <1>4, <1>5 DEF Recursion
  <2>. QED  BY <2>1, Iterated
<1>7. PICK f \in [0 .. N -> D] :
        f[0] = first /\ \A i \in 1 .. N : f[i] = step[<<f[i - 1], i>>]
  BY <1>q DEF Solves
<1>8. \A j \in 0 .. N : f[j] = Holds(t, p, f, j)
  <2> SUFFICES ASSUME NEW j \in 0 .. N PROVE f[j] = Holds(t, p, f, j)
    OBVIOUS
  <2>1. CASE j = 0
    BY <1>7, <2>1 DEF Holds
  <2>2. CASE j # 0
    <3>1. j \in 1 .. N /\ j - 1 \in 0 .. N
      BY <1>1, <2>2
    <3>2. f[j - 1] \in D
      BY <3>1
    <3>3. f[j] = IF Mount(j) THEN t[SubSeq(p, 1, j)] ELSE FindDir(f[j - 1], p[j])
      BY <1>6, <1>7, <3>1, <3>2
    <3>. QED  BY <2>2, <3>3 DEF Holds
  <2>. QED  BY <2>1, <2>2
<1>. QED  BY <1>8

(* get_mount_point: the last mount on the path.                            *)
LEMMA LastMount ==
  ASSUME NEW t, NEW p \in Seq(Words)
  PROVE  /\ MountDepth(t, p) \in 0 .. Len(p)
         /\ \/ MountDepth(t, p) = 0
            \/ HasMount(t, SubSeq(p, 1, MountDepth(t, p)))
         /\ \A k \in MountDepth(t, p) + 1 .. Len(p) : ~ HasMount(t, SubSeq(p, 1, k))
<1> DEFINE Mount(k) == SubSeq(p, 1, k) \in DOMAIN t /\ t[SubSeq(p, 1, k)] # NoFile
           S == {0} \cup {k \in 1 .. Len(p) : Mount(k)}
           T == {Len(p) - k : k \in S}
<1>1. MountDepth(t, p) = CHOOSE x \in S : \A y \in S : x >= y
  BY Zenon DEF MountDepth, Max
<1>2. Len(p) \in Nat
  OBVIOUS
<1>3. S \subseteq 0 .. Len(p) /\ 0 \in S
  <2>. HIDE DEF Mount
  <2>. QED  BY <1>2
<1>4. \E x \in S : \A y \in S : x >= y
  <2>. HIDE DEF S
  <2>1. T \in SUBSET Nat /\ T # {}
    BY <1>2, <1>3
  <2>2. PICK n \in T : \A m \in T : n <= m
    <3>. HIDE DEF T
    <3>. QED  BY <2>1, LeastNumber
  <2>3. PICK x \in S : n = Len(p) - x
    OBVIOUS
  <2>4. \A y \in S : Len(p) - x <= Len(p) - y
    BY <2>2, <2>3
  <2>5. \A y \in S : x >= y
    <3>1. \A a, b, c \in Nat : a - b <= a - c => b >= c
      OBVIOUS
    <3>2. \A y \in S : y \in Nat
      BY <1>3
    <3>. HIDE DEF T
    <3>. QED  BY <1>2, <2>4, <3>1, <3>2
  <2>. QED  BY <2>5
<1>5. MountDepth(t, p) \in S /\ \A y \in S : MountDepth(t, p) >= y
  <2>. HIDE DEF S
  <2>. QED  BY <1>1, <1>4
<1>6. ASSUME NEW k \in MountDepth(t, p) + 1 .. Len(p) PROVE ~ Mount(k)
  <2>1. MountDepth(t, p) \in 0 .. Len(p)
    BY <1>3, <1>5
  <2>2. k \in 1 .. Len(p) /\ ~ (MountDepth(t, p) >= k)
    BY <1>2, <2>1
  <2>3. k \notin S
    <3>. HIDE DEF S
    <3>. QED  BY <1>5, <2>2
  <2>. QED  BY <2>2, <2>3
<1>7. MountDepth(t, p) = 0 \/ Mount(MountDepth(t, p))
  BY <1>5
<1>. HIDE DEF S
<1>. QED  BY <1>3, <1>5, <1>6, <1>7 DEF HasMount

(* No link is met behind the last mount on the path.                       *)
Linkless(t, p) ==
  \A k \in MountDepth(t, p) .. Len(p) :
    NodeAt(t, SubSeq(p, 1, k)) \notin Links \cup {Bad, Wild}

(* The loop of kopen_recur from the last mount on a path without links.    *)
StepsAlong(p, d, f) ==
  /\ p \in Seq(Words) /\ d \in 0 .. Len(p)
  /\ \A k \in d .. Len(p) : f[k] \notin Links \cup {Bad, Wild}
  /\ \A k \in d + 1 .. Len(p) : f[k] = FindDir(f[k - 1], p[k])

LEMMA WalkLinkless ==
  ASSUME NEW p, NEW d, NEW f, StepsAlong(p, d, f)
  PROVE  \A opened, flags, links :
           Walk(opened, p, d, f[d], flags, links) = f[Len(p)]
<1>. USE DEF StepsAlong
<1> TAKE opened, flags, links
<1> DEFINE L == Len(p)
           node == f[d]
           F(w) == [k \in d .. Len(p) |->
                      IF k = d THEN node
                      ELSE LET before == w[k - 1]
                               found == FindDir(before, p[k])
                           IN IF before \in {NoFile, Bad, Wild} THEN before
                              ELSE IF found \in Links
                                   THEN Follow(opened, p, k - 1, found, flags, links)
                                   ELSE found]
           W == CHOOSE w : w = F(w)
           g == [k \in d .. L |-> f[k]]
<1>1. Walk(opened, p, d, node, flags, links) = W[Len(p)]
  BY Zenon DEF Walk
<1>2. L \in Nat /\ d \in Nat /\ d <= L
  OBVIOUS
<1>3. \A w : /\ F(w) = [k \in d .. L |-> F(w)[k]]
             /\ \A k \in d .. L :
                  F(w)[k] = IF k = d THEN node
                            ELSE LET before == w[k - 1]
                                     found == FindDir(before, p[k])
                                 IN IF before \in {NoFile, Bad, Wild} THEN before
                                    ELSE IF found \in Links
                                         THEN Follow(opened, p, k - 1, found, flags, links)
                                         ELSE found
  OBVIOUS
<1>. HIDE DEF F
<1>4. ASSUME NEW w, NEW k \in d + 1 .. L, w[k - 1] = f[k - 1] PROVE F(w)[k] = f[k]
  <2>1. k \in d .. L /\ k # d /\ k - 1 \in d .. L
    BY <1>2
  <2>2. f[k - 1] \notin {Bad, Wild} /\ f[k] \notin Links /\ f[k] = FindDir(f[k - 1], p[k])
    BY <2>1
  <2>3. CASE f[k - 1] = NoFile
    <3>1. NoFile \notin DOMAIN Directory
      BY VfsAssumption
    <3>2. f[k] = NoFile
      BY <2>2, <2>3, <3>1 DEF FindDir
    <3>. QED  BY <1>3, <1>4, <2>1, <2>3, <3>2
  <2>4. CASE f[k - 1] # NoFile
    BY <1>3, <1>4, <2>1, <2>2, <2>4
  <2>. QED  BY <2>3, <2>4
<1>5. \A w : F(w)[d] = f[d]
  BY <1>2, <1>3
<1>6. g = F(g)
  <2>1. ASSUME NEW k \in d .. L PROVE g[k] = F(g)[k]
    <3>1. CASE k = d
      BY <1>5, <3>1
    <3>2. CASE k # d
      <4>1. k \in d + 1 .. L /\ k - 1 \in d .. L
        BY <1>2, <3>2
      <4>2. g[k - 1] = f[k - 1] /\ g[k] = f[k]
        BY <4>1
      <4>. HIDE DEF g
      <4>. QED  BY <1>4, <4>1, <4>2
    <3>. QED  BY <3>1, <3>2
  <2>2. g = [k \in d .. L |-> g[k]]
    OBVIOUS
  <2>3. F(g) = [k \in d .. L |-> F(g)[k]]
    BY <1>3
  <2>. HIDE DEF g
  <2>. QED  BY <2>1, <2>2, <2>3
<1>. HIDE DEF g
<1>7. W = F(W)
  BY <1>6
<1>. HIDE DEF W
<1>8. \A k \in d .. L : W[k] = f[k]
  <2>1. W[d] = f[d]
    BY <1>5, <1>7
  <2>2. \A k \in d .. L : k # d /\ W[k - 1] = f[k - 1] => W[k] = f[k]
    <3>1. \A k \in d .. L : k # d => k \in d + 1 .. L
      BY <1>2
    <3>. HIDE DEF L
    <3>. QED  BY <1>4, <1>7, <3>1
  <2>3. Alike(d, L, W, f)
    <3>. HIDE DEF L
    <3>. QED  BY <1>2, <2>1, <2>2 DEF Alike
  <2>. HIDE DEF L
  <2>. QED  BY <2>3, Iteration
<1>9. L \in d .. L
  BY <1>2
<1>. QED  BY <1>1, <1>8, <1>9

(* kopen of a path on which no link is met is what the name space, mounts  *)
(* and directories together, holds there: the root, if it is mounted.      *)
LEMMA LinklessOpens ==
  ASSUME NEW t, <<>> \in DOMAIN t, NEW cwd \in Seq(Words), NEW path,
         path.names \in Seq(Words), NEW flags,
         Canonicalize(cwd, path) = <<>> => t[<<>>] # NoFile,
         Linkless(t, Canonicalize(cwd, path))
  PROVE  Kopen(t, cwd, path, flags) = NodeAt(t, Canonicalize(cwd, path))
<1> DEFINE p == Canonicalize(cwd, path)
           d == MountDepth(t, p)
           root == SubSeq(p, 1, d)
<1>1. p \in Seq(Words)
  BY CanonicalWords
<1>. HIDE DEF p
<1>2. PICK f : \A j \in 0 .. Len(p) : f[j] = Holds(t, p, f, j)
  BY <1>1, NodesExist
<1>3. \A k \in 0 .. Len(p) : NodeAt(t, SubSeq(p, 1, k)) = f[k]
  BY <1>1, <1>2, NodesOnPath
<1>4. /\ d \in 0 .. Len(p) /\ (d = 0 \/ HasMount(t, root))
      /\ \A k \in d + 1 .. Len(p) : ~ HasMount(t, SubSeq(p, 1, k))
  BY <1>1, LastMount
<1>5. Len(p) \in Nat /\ SubSeq(p, 1, 0) = <<>> /\ SubSeq(p, 1, Len(p)) = p
  BY <1>1
<1>6. \A k \in d .. Len(p) : f[k] \notin Links \cup {Bad, Wild}
  <2>1. \A k \in d .. Len(p) : k \in 0 .. Len(p)
    BY <1>4, <1>5
  <2>. QED  BY <1>3, <2>1 DEF Linkless, p
<1>. HIDE DEF d
<1>7. \A k \in d + 1 .. Len(p) : f[k] = FindDir(f[k - 1], p[k])
  <2> SUFFICES ASSUME NEW k \in d + 1 .. Len(p) PROVE f[k] = FindDir(f[k - 1], p[k])
    OBVIOUS
  <2>1. k \in 0 .. Len(p) /\ k # 0
    BY <1>4, <1>5
  <2>2. f[k] = Holds(t, p, f, k)
    BY <1>2, <2>1
  <2>. QED  BY <1>4, <2>1, <2>2 DEF Holds, HasMount
<1>8. root \in DOMAIN t /\ f[d] = t[root]
  <2>1. f[d] = Holds(t, p, f, d)
    BY <1>2, <1>4
  <2>2. root \in DOMAIN t
    BY <1>4, <1>5 DEF HasMount
  <2>3. CASE t[root] # NoFile
    BY <2>1, <2>2, <2>3 DEF Holds, HasMount
  <2>4. CASE t[root] = NoFile
    BY <1>4, <2>1, <2>2, <2>4 DEF Holds, HasMount
  <2>. QED  BY <2>2, <2>3, <2>4
<1>9. f[Len(p)] = NodeAt(t, p)
  <2>1. Len(p) \in 0 .. Len(p)
    BY <1>5
  <2>. QED  BY <1>3, <1>5, <2>1
<1>10. ASSUME NEW opened PROVE KopenRecur(opened, t, cwd, path, flags, 0) = NodeAt(t, p)
  <2>0. KopenRecur(opened, t, cwd, path, flags, 0) =
          IF t[root] = NoFile THEN IF p = <<>> THEN Wild ELSE NoFile
          ELSE Walk(opened, p, d, t[root], flags, 0)
    BY DEF KopenRecur, p, d
  <2>1. CASE t[root] # NoFile
    <3>1. Walk(opened, p, d, f[d], flags, 0) = f[Len(p)]
      <4>1. StepsAlong(p, d, f)
        BY <1>1, <1>4, <1>6, <1>7 DEF StepsAlong
      <4>. QED  BY <4>1, WalkLinkless
    <3>. QED  BY <1>8, <1>9, <2>0, <2>1, <3>1
  <2>2. CASE t[root] = NoFile
    <3>1. d = 0 /\ root = <<>>
      BY <1>4, <1>5, <2>2 DEF HasMount
    <3>2. p # <<>>
      BY <2>2, <3>1 DEF p
    <3>3. \A k \in d .. Len(p) : f[k] = NoFile
      <4> DEFINE g == [k \in 0 .. Len(p) |-> NoFile]
      <4>1. f[d] = g[d]
        BY <1>4, <1>8, <2>2
      <4>2. NoFile \notin DOMAIN Directory
        BY VfsAssumption
      <4>3. \A k \in d .. Len(p) : k # d /\ f[k - 1] = g[k - 1] => f[k] = g[k]
        <5> SUFFICES ASSUME NEW k \in d .. Len(p), k # d, f[k - 1] = g[k - 1]
                     PROVE  f[k] = g[k]
          OBVIOUS
        <5>1. k \in 0 .. Len(p) /\ k - 1 \in 0 .. Len(p) /\ k \in d + 1 .. Len(p)
          BY <1>5, <3>1
        <5>2. g[k] = NoFile /\ g[k - 1] = NoFile
          BY <5>1
        <5>. HIDE DEF g
        <5>. QED  BY <1>7, <4>2, <5>1, <5>2 DEF FindDir
      <4>4. d \in Nat /\ Len(p) \in Nat /\ d <= Len(p)
        BY <1>4, <1>5
      <4>5. \A k \in d .. Len(p) : f[k] = g[k]
        <5>. HIDE DEF g
        <5>1. Alike(d, Len(p), f, g)
          BY <4>1, <4>3, <4>4 DEF Alike
        <5>. QED  BY <5>1, Iteration
      <4>6. \A k \in d .. Len(p) : k \in 0 .. Len(p)
        BY <4>4
      <4>. QED  BY <4>5, <4>6
    <3>4. f[Len(p)] = NoFile
      <4>1. Len(p) \in d .. Len(p)
        BY <1>4, <1>5
      <4>. QED  BY <3>3, <4>1
    <3>. QED  BY <1>9, <2>0, <2>2, <3>2, <3>4
  <2>. QED  BY <2>1, <2>2
<1> DEFINE opens == CHOOSE w :
              w = [links \in 1 .. MAX_SYMLINK_DEPTH, at \in Seq(Words), link \in Links |->
                     KopenRecur(w, t, at, LinkTarget[link], {}, links)]
<1>11. Kopen(t, cwd, path, flags) = KopenRecur(opens, t, cwd, path, flags, 0)
  BY DEF Kopen
<1>. HIDE DEF opens
<1>. QED  BY <1>10, <1>11 DEF p

(* What OpenFindsFile says, of paths without links.                        *)
LinklessFound ==
  \A cwd \in Seq(Words), path \in [absolute : BOOLEAN, names : Seq(Words)] :
    LET p == Canonicalize(cwd, path)
    IN /\ Linkless(tree, p)
       /\ p = <<>> => tree[<<>>] # NoFile
       => \A flags : Kopen(tree, cwd, path, flags) = NodeAt(tree, p)

(* While modules mount what they like, kopen finds at every path on which  *)
(* no link is met what the name space holds there, or fails where it holds *)
(* nothing: the last mount on the path and the loop of kopen_recur behind  *)
(* it come to what a walk from the root, mount by mount, comes to          *)
(* (canonicalize_path, get_mount_point, kopen_recur).                      *)
THEOREM LinklessPathsOpen == BootSpec => []LinklessFound
<1> DEFINE Rooted == <<>> \in DOMAIN tree
<1>1. BootInit => Rooted
  <2> SUFFICES ASSUME BootInit PROVE Rooted
    OBVIOUS
  <2>1. <<>> \in DOMAIN EmptyTree
    BY DEF EmptyTree
  <2>. QED  BY <2>1, MountFacts DEF BootInit
<1>2. Rooted /\ [BootNext]_bootVars => Rooted'
  <2> SUFFICES ASSUME Rooted, [BootNext]_bootVars PROVE Rooted'
    OBVIOUS
  <2>1. tree' = tree \/ \E path, file : tree' = VfsMount(tree, path, file)
    <3>1. \A m : Mounts(m) => tree' = tree \/ tree' = VfsMount(tree, Device[m], m)
      BY DEF Mounts
    <3>. QED  BY <3>1 DEF BootNext, LoadModule, RunScheduledCall, SerialInitLate,
                          MountRoot, LoaderStep, bootVars
  <2>. QED  BY <2>1, MountFacts
<1>3. Rooted => LinklessFound
  <2> SUFFICES ASSUME Rooted, NEW cwd \in Seq(Words),
                      NEW path \in [absolute : BOOLEAN, names : Seq(Words)],
                      Linkless(tree, Canonicalize(cwd, path)),
                      Canonicalize(cwd, path) = <<>> => tree[<<>>] # NoFile, NEW flags
               PROVE  Kopen(tree, cwd, path, flags) = NodeAt(tree, Canonicalize(cwd, path))
    BY DEF LinklessFound
  <2>1. path.names \in Seq(Words)
    OBVIOUS
  <2>. QED  BY <2>1, LinklessOpens
<1>. HIDE DEF Rooted
<1>. QED  BY <1>1, <1>2, <1>3, PTL DEF BootSpec
=============================================================================
