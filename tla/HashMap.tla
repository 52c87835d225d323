------------------------------ MODULE HashMap ------------------------------
(***************************************************************************)
(* The chained hash map of the C library (libc/data_struct/hashmap.cpp):   *)
(* what each call returns and leaves behind.                               *)
(*                                                                         *)
(* A map is its size and its buckets, a bucket the sequence of its entries *)
(* along the next pointers.  The key compare function is equality: two     *)
(* keys are the same value when strcmp says so, whoever owns the copy.     *)
(***************************************************************************)
EXTENDS Integers, FiniteSets, SequencesExt

CONSTANTS
  Keys,     \* the keys
  Values,   \* what a caller stores
  Null,     \* the null pointer, which a caller may store too
  Hash      \* hash_func: a number for each key

ASSUME HashMapAssumption == Hash \in [Keys -> Nat]

Entries == [key : Keys, value : Values \cup {Null}]

(* The buckets of a map of that size. *)
Buckets(size) == 0 .. size - 1

Bucket(map, k) == Hash[k] % map.size

(* The chain the key belongs to. *)
ChainOf(map, k) == map.entries[Bucket(map, k)]

(* hashmap_create *)
HashCreate(size) == [size |-> size, entries |-> [b \in Buckets(size) |-> <<>>]]

(* The places of a chain that hold the key. *)
PlacesOf(chain, k) == {i \in 1 .. Len(chain) : chain[i].key = k}

HashHas(map, k) == PlacesOf(ChainOf(map, k), k) # {}

(* The first place of its chain that holds the key. *)
PlaceOf(map, k) ==
  LET found == PlacesOf(ChainOf(map, k), k)
  IN CHOOSE i \in found : \A j \in found : i <= j

HashGet(map, k) ==
  IF HashHas(map, k) THEN ChainOf(map, k)[PlaceOf(map, k)].value ELSE Null

(* A new value for a key that is there, a new entry at the end of the      *)
(* chain for one that is not.                                              *)
HashSet(map, k, v) ==
  [map EXCEPT !.entries[Bucket(map, k)] =
     IF HashHas(map, k) THEN [@ EXCEPT ![PlaceOf(map, k)].value = v]
                        ELSE Append(@, [key |-> k, value |-> v])]

(* A key that is missing from a chain of one entry: hashmap_remove steps   *)
(* over that entry and reads the key of the next without a test.           *)
RemoveFaults(map, k) == ~HashHas(map, k) /\ Len(ChainOf(map, k)) = 1

HashRemove(map, k) ==
  IF HashHas(map, k)
  THEN [map EXCEPT !.entries[Bucket(map, k)] = RemoveAt(@, PlaceOf(map, k))]
  ELSE map

(* hashmap_get_i takes its index for the bucket and for the place in it; a *)
(* bucket there is not is read beyond the array.                           *)
GetIFaults(map, idx) == idx \notin Buckets(map.size)

HashGetI(map, idx) ==
  IF idx < Len(map.entries[idx]) THEN map.entries[idx][idx + 1].value ELSE Null

(* hashmap_size *)
HashSize(map) ==
  Cardinality(UNION {{b} \X DOMAIN map.entries[b] : b \in Buckets(map.size)})

-----------------------------------------------------------------------------
(* A key stands once, in the bucket it hashes to. *)
WellFormed(map) ==
  /\ map.size \in Nat \ {0}
  /\ map = [size |-> map.size, entries |-> map.entries]
  /\ map.entries \in [Buckets(map.size) -> Seq(Entries)]
  /\ \A b \in Buckets(map.size) : \A i \in 1 .. Len(map.entries[b]) :
       Bucket(map, map.entries[b][i].key) = b
  /\ \A b \in Buckets(map.size) : \A i, j \in 1 .. Len(map.entries[b]) :
       map.entries[b][i].key = map.entries[b][j].key => i = j
=============================================================================
