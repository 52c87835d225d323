----------------------------- MODULE Ext2Proofs -----------------------------
(***************************************************************************)
(* Proofs about Ext2, for a disk of any size and any sequence of calls and *)
(* crashes.  The count of free blocks and the bitmap are written by two    *)
(* steps of allocate_block, so that neither tells the other alone: the     *)
(* invariant counts the allocation that is under way and those that a      *)
(* crash cut, and needs that a step takes a bit that was clear.  On top of *)
(* that come the pointers, each to a block of its own, and the files, the  *)
(* blocks of which are found along those pointers.                         *)
(***************************************************************************)
EXTENDS Ext2, FiniteSetTheorems, WellFoundedInduction, TLAPS

Uncounted == IF pc = "count" THEN 1 ELSE 0

IInv == /\ bitmap \subseteq Bits
        /\ free \in Int /\ lost \in Nat
        /\ FreeCounted

(* The clear bits are finitely many.                                       *)
LEMMA ClearFinite == IsFiniteSet(Clear) /\ Cardinality(Clear) \in Nat
<1>1. IsFiniteSet(Bits)
  BY Ext2Assumption, FS_Interval DEF Bits
<1>2. Clear \in SUBSET Bits
  BY DEF Clear
<1>. QED  BY <1>1, <1>2, FS_Subset, FS_CardinalityType

(* The least number of a set is in it, and there is one.                   *)
LEMMA MinLeast ==
  ASSUME NEW S \in SUBSET Nat, S # {}
  PROVE  Min(S) \in S /\ \A m \in S : Min(S) <= m
<1>1. \E n \in S : \A m \in S : n <= m
  <2> DEFINE Less == {ss \in Nat \X Nat : ss[1] < ss[2]}
  <2>1. IsWellFoundedOn(Less, Nat)
    BY NatLessThanWellFounded DEF OpToRel
  <2>2. \E n \in S : \A m \in S : ~ (<<m, n>> \in Less)
    <3> HIDE DEF Less
    <3>. QED  BY <2>1, WFMin
  <2>3. PICK n \in S : \A m \in S : ~ (<<m, n>> \in Less)
    BY <2>2
  <2>4. ASSUME NEW m \in S PROVE n <= m
    <3>1. n \in Nat /\ m \in Nat
      OBVIOUS
    <3>2. ~ (m < n)
      <4>1. <<m, n>> \notin Less
        BY <2>3
      <4>. QED  BY <3>1, <4>1
    <3>. QED  BY <3>1, <3>2
  <2>. QED  BY <2>4
<1>. QED  BY <1>1 DEF Min

(* The scan of allocate_block finds a bit that is clear.                   *)
LEMMA ScanFinds ==
  ASSUME Clear # {}
  PROVE  Min(Clear) \in Clear
<1>1. Clear \in SUBSET Nat
  BY Ext2Assumption DEF Clear, Bits
<1>. QED  BY <1>1, MinLeast

(* Taking it leaves one less.                                              *)
LEMMA ScanTakesOne ==
  ASSUME IInv, Scan
  PROVE  Cardinality(Clear)' = Cardinality(Clear) - 1 /\ bitmap' \subseteq Bits
<1>1. Min(Clear) \in Clear /\ bitmap' = bitmap \cup {Min(Clear)}
  BY ScanFinds DEF Scan
<1>2. Clear' = Clear \ {Min(Clear)}
  BY <1>1 DEF Clear, Bits
<1>3. Cardinality(Clear \ {Min(Clear)}) = Cardinality(Clear) - 1
  BY <1>1, ClearFinite, FS_RemoveElement
<1>. QED  BY <1>1, <1>2, <1>3 DEF IInv, Clear

LEMMA CountStep == IInv /\ [Next]_vars => IInv'
<1> SUFFICES ASSUME IInv, [Next]_vars PROVE IInv'
  OBVIOUS
<1>0. /\ Cardinality(Clear) \in Nat /\ free \in Int /\ lost \in Nat
      /\ ~ broken => free = Cardinality(Clear) + lost + Uncounted
  BY ClearFinite DEF IInv, FreeCounted, Uncounted
(* A step that leaves bitmap and counters alone and allocates nothing.     *)
<1>1. ASSUME UNCHANGED <<bitmap, free, lost, broken>>, pc # "count", pc' # "count"
      PROVE  IInv'
  BY <1>1 DEF IInv, FreeCounted, Clear, Bits
<1>2. CASE Scan
  <2>1. /\ free' = free /\ lost' = lost /\ broken' = broken
        /\ pc = "scan" /\ pc' = "count"
    BY <1>2 DEF Scan, Goes
  <2>2. Cardinality(Clear)' = Cardinality(Clear) - 1 /\ bitmap' \subseteq Bits
    BY <1>2, ScanTakesOne
  <2>3. ~ broken' => free' = Cardinality(Clear)' + lost' + 1
    BY <2>1, <2>2, <1>0 DEF Uncounted
  <2>. QED  BY <2>1, <2>2, <2>3, <1>0 DEF IInv, FreeCounted, Bits
<1>3. CASE Count
  <2>1. /\ pc = "count" /\ pc' = "zero" /\ free' = free - 1
        /\ bitmap' = bitmap /\ lost' = lost /\ broken' = broken
    BY <1>3 DEF Count, Goes
  <2>2. ~ broken' => free' = Cardinality(Clear)' + lost'
    BY <2>1, <1>0 DEF Uncounted, Clear, Bits
  <2>. QED  BY <2>1, <2>2, <1>0 DEF IInv, FreeCounted, Bits
<1>4. CASE Crash
  <2>1. /\ pc' = "idle" /\ bitmap' = bitmap /\ free' = free /\ broken' = broken
        /\ lost' = IF pc = "count" THEN lost + 1 ELSE lost
    BY <1>4 DEF Crash, Over, disk
  <2>2. (~ broken' => free' = Cardinality(Clear)' + lost') /\ lost' \in Nat
    BY <2>1, <1>0 DEF Uncounted, Clear, Bits
  <2>. QED  BY <2>1, <2>2, <1>0 DEF IInv, FreeCounted, Bits
<1>5. CASE Call
  <2>1. ASSUME NEW i \in Files, NEW n \in Targets, NEW w \in Data, Write(i, n, w)
        PROVE  IInv'
    <3>1. pc = "idle" /\ pc' \in {"scan", "data"}
          /\ UNCHANGED <<bitmap, free, lost, broken>>
      BY <2>1 DEF Write, Begins, Allocates
    <3>. QED  BY <3>1, <1>1
  <2>2. ASSUME NEW i \in Files, Truncate(i) PROVE IInv'
    BY <2>2, <1>1 DEF Truncate, Begins
  <2>3. ASSUME NEW x \in Names, Unlink(x) PROVE IInv'
    BY <2>3, <1>1 DEF Unlink, Begins
  <2>4. ASSUME NEW x \in Names, NEW kind \in Kinds, Create(x, kind) PROVE IInv'
    <3>1. pc = "idle" /\ pc' \in {"inode", "scan"}
          /\ UNCHANGED <<bitmap, free, lost, broken>>
      BY <2>4 DEF Create, Begins
    <3>. QED  BY <3>1, <1>1
  <2>. QED  BY <1>5, <2>1, <2>2, <2>3, <2>4 DEF Call
<1>6. CASE WriteInode \/ CreateEntry \/ WriteSize \/ ScanFails \/ Zero
  <2>1. UNCHANGED <<bitmap, free, lost, broken>> /\ pc # "count" /\ pc' # "count"
    BY <1>6 DEF WriteInode, CreateEntry, WriteSize, ScanFails, Zero, Goes, Over,
                disk, inodes
  <2>. QED  BY <2>1, <1>1
<1>10. CASE WriteBlock
  <2>1. pc = "data" /\ pc' = "idle" /\ UNCHANGED <<free, lost>>
    BY <1>10 DEF WriteBlock, Over
  <2>2. CASE UNCHANGED <<bitmap, broken>>
    BY <2>1, <2>2, <1>1
  <2>3. CASE broken' = TRUE /\ (bitmap' = bitmap \/ bitmap' \in {{}, Bits})
    BY <2>1, <2>3, <1>0 DEF IInv, FreeCounted, Bits
  <2>. QED  BY <2>2, <2>3, <1>10 DEF WriteBlock, Overrun
<1>7. CASE Link
  <2>1. pc = "link" /\ UNCHANGED <<bitmap, free, lost, broken>>
    BY <1>7 DEF Link
  <2>2. pc' \in {"grow", "scan", "link"}
    BY <1>7 DEF Link, Goes
  <2>. QED  BY <2>1, <2>2, <1>1
<1>8. CASE Grow
  <2>1. pc = "grow" /\ UNCHANGED <<bitmap, free, lost, broken>>
    BY <1>8 DEF Grow
  <2>2. pc' \in {"scan", "data"}
    BY <1>8 DEF Grow, Goes, Allocates
  <2>. QED  BY <2>1, <2>2, <1>1
<1>9. CASE UNCHANGED vars
  <2>1. UNCHANGED <<bitmap, free, lost, broken, pc>>
    BY <1>9 DEF vars, disk
  <2>. QED  BY <2>1 DEF IInv, FreeCounted, Clear, Bits
<1>. QED  BY <1>2, <1>3, <1>4, <1>5, <1>6, <1>7, <1>8, <1>9, <1>10 DEF Next, Proceed

LEMMA CountInit == Init => IInv
<1> SUFFICES ASSUME Init PROVE IInv
  OBVIOUS
<1>1. free = Cardinality(Clear) /\ lost = 0 /\ pc = "idle"
  BY DEF Init
<1>2. bitmap \subseteq Bits
  BY Ext2Assumption DEF Init, Bits
<1>. QED  BY <1>1, <1>2, ClearFinite DEF IInv, FreeCounted

(* The free count of the group is the number of clear bits, whatever is    *)
(* created, written, truncated or unlinked and wherever the machine stops: *)
(* only the allocations that a crash cut between the bitmap and the count  *)
(* are counted too much, one each.                                         *)
THEOREM FreeCorrect == Spec => []FreeCounted
<1>1. IInv => FreeCounted
  BY DEF IInv
<1>. QED  BY <1>1, CountInit, CountStep, PTL DEF Spec

-----------------------------------------------------------------------------
(* Who names a block.  Third are the blocks of the third level, whose words *)
(* the code fills with their own number; Inner are those whose words are   *)
(* blocks of pointers, Outer those whose words are the file's own blocks.  *)
Inode == [kind : Kinds \cup {"none"}, size : Nat, blocks : Nat,
          block : [0 .. Direct + 2 -> Int]]

Third == Below(Below(Heads(Direct + 2)))
Inner == Heads(Direct + 1) \cup Heads(Direct + 2) \cup Below(Heads(Direct + 2))
Outer == Heads(Direct) \cup Below(Heads(Direct + 1))

TypeInv ==
  /\ itable \in [1 .. Inodes - 1 -> Inode] /\ ip \in Inode
  /\ content \in [0 .. Blocks - 1 -> [0 .. P - 1 -> Int]]
  /\ entry \in [Names -> 0 .. Inodes] /\ ino \in 0 .. Inodes
  /\ target \in 0 .. MaxBlock - 1 /\ word \in Int /\ word <= 0
  /\ blk \in Int /\ leaf \in Int
  /\ bitmap \subseteq Bits /\ {0} \cup Reserved \subseteq bitmap

OwnInv ==
  /\ \A p \in Pointers : PointsTo(p) # 0 => PointsTo(p) \in bitmap \ Reserved
  /\ \A p, q \in Pointers : PointsTo(p) # 0 /\ PointsTo(p) = PointsTo(q) => p = q

(* Block b is taken and nobody's yet.                                      *)
Held(b) == /\ b # 0 /\ b \in bitmap \ Reserved
           /\ \A p \in Pointers : PointsTo(p) # b

SelfInv ==
  \A s \in Third : \A k \in 0 .. P - 1 : content[s][k] <= 0 \/ content[s][k] = s

(* The blocks that allocate_inode_block and set_block_number have in hand. *)
AllocInv ==
  /\ pc \in {"idle", "inode", "entry", "size", "data"} => leaf = 0
  /\ pc = "scan" => (leaf = 0 \/ Held(leaf))
  /\ pc \in {"count", "zero"} => /\ Held(blk)
                                 /\ leaf = 0 \/ (Held(leaf) /\ leaf # blk)
  /\ pc = "link" => /\ Held(leaf)
                    /\ blk = leaf \/ (Held(blk) /\ content[blk] = Fill(0))

(* The inode in memory is the one on the disk, but for a direct block that *)
(* "grow" is about to write back.                                          *)
Copied ==
  \A j \in 0 .. Direct + 2 :
    \/ ip.block[j] = PointersIn(itable[ino])[j]
    \/ /\ pc = "grow" /\ j = ip.blocks /\ j < Direct
       /\ ip.block[j] = leaf /\ Held(leaf)

Filed == ino \in 1 .. Inodes - 1 /\ ip.kind # "embedded" /\ Copied

CopyInv ==
  /\ pc = "inode" => /\ ino # 0 /\ (ip.kind \in Buffered => HasPlace(ino))
                     /\ \A j \in 0 .. Direct + 2 : PointersIn(ip)[j] = 0
  /\ pc = "entry" /\ ip.kind \in Buffered => Filed
  /\ pc \in {"size", "count", "zero", "link", "grow", "data"} => Filed
  /\ pc = "scan" => Filed \/ (free = 0 /\ leaf = 0)

BlockInv == TypeInv /\ OwnInv /\ SelfInv /\ AllocInv /\ CopyInv

(* The pointers in an inode that is no embedded link are its words.        *)
LEMMA PointersPlain ==
  ASSUME NEW inode, inode.kind # "embedded"
  PROVE  PointersIn(inode) = inode.block
BY DEF PointersIn

LEMMA PointersType ==
  ASSUME NEW inode \in Inode
  PROVE  PointersIn(inode) \in [0 .. Direct + 2 -> Int]
BY DEF PointersIn, Inode

(* Where a pointer of an inode is, and where one in a block of pointers.   *)
LEMMA HeadPlace ==
  ASSUME TypeInv, NEW i \in 1 .. Inodes - 1, NEW j \in 0 .. Direct + 2
  PROVE  <<i, j>> \in Pointers /\ PointsTo(<<i, j>>) = PointersIn(itable[i])[j]
BY DEF TypeInv, Pointers, PointsTo

LEMMA HeadsNamed ==
  ASSUME TypeInv, OwnInv, NEW j \in 0 .. Direct + 2, NEW b \in Heads(j)
  PROVE  \E i \in 1 .. Inodes - 1 : /\ <<i, j>> \in Pointers
                                    /\ PointsTo(<<i, j>>) = b
                                    /\ b # 0 /\ b \in bitmap
<1>1. PICK i \in 1 .. Inodes - 1 : PointersIn(itable[i])[j] = b /\ b # 0
  BY DEF TypeInv, Heads
<1>. QED  BY <1>1, HeadPlace DEF OwnInv

LEMMA InRange ==
  ASSUME FirstDataBlock = 0, TypeInv, NEW b \in bitmap, b # 0
  PROVE  b \in 1 .. Blocks - 1
BY Ext2Assumption DEF TypeInv, Bits

LEMMA BelowNamed ==
  ASSUME FirstDataBlock = 0, TypeInv, OwnInv, NEW j \in Direct + 1 .. Direct + 2,
         NEW b \in Below(Heads(j))
  PROVE  \E h \in Heads(j), k \in 0 .. P - 1 : /\ <<-h, k>> \in Pointers
                                               /\ PointsTo(<<-h, k>>) = b
                                               /\ b # 0 /\ b \in bitmap
<1>0. j \in 0 .. Direct + 2 /\ (j = Direct + 1 \/ j = Direct + 2)
  BY Ext2Assumption
<1>1. PICK h \in Heads(j), k \in 0 .. P - 1 : content[h][k] = b /\ b # 0
  BY DEF Below
<1>2. h \in PointerBlocks
  BY <1>0 DEF PointerBlocks
<1>3. h \in 1 .. Blocks - 1
  BY <1>0, HeadsNamed, InRange
<1>4. <<-h, k>> \in Pointers
  BY <1>2 DEF Pointers
<1>5. PointsTo(<<-h, k>>) = b
  BY <1>1, <1>3, Ext2Assumption DEF PointsTo
<1>. QED  BY <1>1, <1>4, <1>5 DEF OwnInv

LEMMA Sides == PointerBlocks = Inner \cup Outer
BY DEF PointerBlocks, Inner, Outer

LEMMA WordPlace ==
  ASSUME FirstDataBlock = 0, TypeInv, OwnInv, NEW b \in PointerBlocks,
         NEW k \in 0 .. P - 1
  PROVE  /\ b \in 1 .. Blocks - 1
         /\ <<-b, k>> \in Pointers /\ PointsTo(<<-b, k>>) = content[b][k]
<1>1. /\ Direct \in 0 .. Direct + 2 /\ Direct + 1 \in 0 .. Direct + 2
      /\ Direct + 2 \in 0 .. Direct + 2
      /\ Direct + 1 \in Direct + 1 .. Direct + 2
      /\ Direct + 2 \in Direct + 1 .. Direct + 2
  BY Ext2Assumption
<1>2. b # 0 /\ b \in bitmap
  BY <1>1, HeadsNamed, BelowNamed DEF PointerBlocks
<1>3. b \in 1 .. Blocks - 1
  BY <1>2, InRange
<1>4. <<-b, k>> \in Pointers
  BY DEF Pointers
<1>5. PointsTo(<<-b, k>>) = content[b][k]
  BY <1>3, Ext2Assumption DEF PointsTo
<1>. QED  BY <1>3, <1>4, <1>5

(* No two pointers name one block, so that the levels have none in common. *)
LEMMA Origin ==
  ASSUME FirstDataBlock = 0, TypeInv, OwnInv, NEW b \in PointerBlocks
  PROVE  \E p \in Pointers :
           /\ PointsTo(p) = b /\ b # 0
           /\ \/ \E i \in 1 .. Inodes - 1, j \in Direct .. Direct + 2 : p = <<i, j>>
              \/ \E h \in Heads(Direct + 1) \cup Heads(Direct + 2), k \in 0 .. P - 1 :
                   p = <<-h, k>>
<1>1. /\ Direct \in 0 .. Direct + 2 /\ Direct + 1 \in 0 .. Direct + 2
      /\ Direct + 2 \in 0 .. Direct + 2
      /\ Direct \in Direct .. Direct + 2 /\ Direct + 1 \in Direct .. Direct + 2
      /\ Direct + 2 \in Direct .. Direct + 2
      /\ Direct + 1 \in Direct + 1 .. Direct + 2
      /\ Direct + 2 \in Direct + 1 .. Direct + 2
  BY Ext2Assumption
<1>2. CASE b \in Heads(Direct) \cup Heads(Direct + 1) \cup Heads(Direct + 2)
  <2>1. PICK j \in Direct .. Direct + 2 : j \in 0 .. Direct + 2 /\ b \in Heads(j)
    BY <1>1, <1>2
  <2>2. PICK i \in 1 .. Inodes - 1 : /\ <<i, j>> \in Pointers
                                     /\ PointsTo(<<i, j>>) = b /\ b # 0
    BY <2>1, HeadsNamed
  <2>. QED  BY <2>2
<1>3. CASE b \in Below(Heads(Direct + 1)) \cup Below(Heads(Direct + 2))
  <2>1. PICK j \in Direct + 1 .. Direct + 2 :
          b \in Below(Heads(j)) /\ (j = Direct + 1 \/ j = Direct + 2)
    BY <1>1, <1>3
  <2>2. PICK h \in Heads(j), k \in 0 .. P - 1 : /\ <<-h, k>> \in Pointers
                                               /\ PointsTo(<<-h, k>>) = b /\ b # 0
    BY <2>1, BelowNamed
  <2>3. h \in Heads(Direct + 1) \cup Heads(Direct + 2)
    BY <2>1
  <2>. QED  BY <2>2, <2>3
<1>. QED  BY <1>2, <1>3 DEF PointerBlocks

LEMMA DirectApart ==
  ASSUME FirstDataBlock = 0, TypeInv, OwnInv,
         NEW i \in 1 .. Inodes - 1, NEW j \in 0 .. Direct - 1
  PROVE  PointersIn(itable[i])[j] \notin PointerBlocks
<1> SUFFICES ASSUME PointersIn(itable[i])[j] \in PointerBlocks PROVE FALSE
  OBVIOUS
<1> DEFINE b == PointersIn(itable[i])[j]
<1>1. j \in 0 .. Direct + 2
  BY Ext2Assumption
<1>2. <<i, j>> \in Pointers /\ PointsTo(<<i, j>>) = b
  BY <1>1, HeadPlace
<1>3. PICK p \in Pointers :
        /\ PointsTo(p) = b /\ b # 0
        /\ \/ \E m \in 1 .. Inodes - 1, l \in Direct .. Direct + 2 : p = <<m, l>>
           \/ \E h \in Heads(Direct + 1) \cup Heads(Direct + 2), k \in 0 .. P - 1 :
                p = <<-h, k>>
  BY Origin
<1>4. p = <<i, j>>
  BY <1>2, <1>3 DEF OwnInv
<1>5. ASSUME NEW m \in 1 .. Inodes - 1, NEW l \in Direct .. Direct + 2, p = <<m, l>>
      PROVE  FALSE
  BY <1>4, <1>5, Ext2Assumption
<1>6. ASSUME NEW h \in Heads(Direct + 1) \cup Heads(Direct + 2), NEW k \in 0 .. P - 1,
             p = <<-h, k>>
      PROVE  FALSE
  <2>1. h \in PointerBlocks
    BY DEF PointerBlocks
  <2>2. h \in 1 .. Blocks - 1
    BY <2>1, WordPlace
  <2>3. i = -h
    BY <1>4, <1>6
  <2>. QED  BY <2>2, <2>3, Ext2Assumption
<1>. QED  BY <1>3, <1>5, <1>6

LEMMA HeadsNotBelow ==
  ASSUME FirstDataBlock = 0, TypeInv, OwnInv,
         NEW j \in 0 .. Direct + 2, NEW l \in Direct + 1 .. Direct + 2
  PROVE  Heads(j) \cap Below(Heads(l)) = {}
<1> SUFFICES ASSUME NEW b \in Heads(j), b \in Below(Heads(l)) PROVE FALSE
  OBVIOUS
<1>1. PICK i \in 1 .. Inodes - 1 : /\ <<i, j>> \in Pointers
                                   /\ PointsTo(<<i, j>>) = b /\ b # 0
  BY HeadsNamed
<1>2. PICK h \in Heads(l), k \in 0 .. P - 1 : /\ <<-h, k>> \in Pointers
                                             /\ PointsTo(<<-h, k>>) = b
  BY BelowNamed
<1>3. h \in PointerBlocks
  <2>1. l = Direct + 1 \/ l = Direct + 2
    BY Ext2Assumption
  <2>. QED  BY <2>1 DEF PointerBlocks
<1>4. h \in 1 .. Blocks - 1
  BY <1>3, WordPlace
<1>5. <<i, j>> = <<-h, k>>
  BY <1>1, <1>2 DEF OwnInv
<1>. QED  BY <1>4, <1>5, Ext2Assumption

LEMMA HeadsApart ==
  ASSUME TypeInv, OwnInv,
         NEW j \in 0 .. Direct + 2, NEW l \in 0 .. Direct + 2, j # l
  PROVE  Heads(j) \cap Heads(l) = {}
<1> SUFFICES ASSUME NEW b \in Heads(j), b \in Heads(l) PROVE FALSE
  OBVIOUS
<1>1. PICK i \in 1 .. Inodes - 1 : /\ <<i, j>> \in Pointers
                                   /\ PointsTo(<<i, j>>) = b /\ b # 0
  BY HeadsNamed
<1>2. PICK m \in 1 .. Inodes - 1 : /\ <<m, l>> \in Pointers
                                   /\ PointsTo(<<m, l>>) = b
  BY HeadsNamed
<1>3. <<i, j>> = <<m, l>>
  BY <1>1, <1>2 DEF OwnInv
<1>. QED  BY <1>3

(* The words of two blocks of pointers are different blocks.               *)
LEMMA WordsApart ==
  ASSUME FirstDataBlock = 0, TypeInv, OwnInv,
         NEW b \in PointerBlocks, NEW c \in PointerBlocks, b # c,
         NEW k \in 0 .. P - 1, NEW l \in 0 .. P - 1, content[b][k] # 0
  PROVE  content[b][k] # content[c][l]
<1> SUFFICES ASSUME content[b][k] = content[c][l] PROVE FALSE
  OBVIOUS
<1>1. /\ b \in 1 .. Blocks - 1 /\ <<-b, k>> \in Pointers
      /\ PointsTo(<<-b, k>>) = content[b][k]
  BY WordPlace
<1>2. /\ c \in 1 .. Blocks - 1 /\ <<-c, l>> \in Pointers
      /\ PointsTo(<<-c, l>>) = content[c][l]
  BY WordPlace
<1>3. <<-b, k>> = <<-c, l>>
  BY <1>1, <1>2 DEF OwnInv
<1>. QED  BY <1>1, <1>2, <1>3, Ext2Assumption

LEMMA OuterNotInner ==
  ASSUME FirstDataBlock = 0, TypeInv, OwnInv
  PROVE  Outer \cap Inner = {}
<1>1. /\ Direct \in 0 .. Direct + 2 /\ Direct + 1 \in 0 .. Direct + 2
      /\ Direct + 2 \in 0 .. Direct + 2 /\ Direct # Direct + 1
      /\ Direct # Direct + 2 /\ Direct + 1 # Direct + 2
      /\ Direct + 1 \in Direct + 1 .. Direct + 2
      /\ Direct + 2 \in Direct + 1 .. Direct + 2
  BY Ext2Assumption
<1>2. Heads(Direct) \cap Inner = {}
  BY <1>1, HeadsApart, HeadsNotBelow DEF Inner
<1>3. Below(Heads(Direct + 1)) \cap (Heads(Direct + 1) \cup Heads(Direct + 2)) = {}
  BY <1>1, HeadsNotBelow
<1>4. Below(Heads(Direct + 1)) \cap Below(Heads(Direct + 2)) = {}
  <2> SUFFICES ASSUME NEW x \in Below(Heads(Direct + 1)),
                      x \in Below(Heads(Direct + 2))
               PROVE  FALSE
    OBVIOUS
  <2>1. PICK b \in Heads(Direct + 1), k \in 0 .. P - 1 : content[b][k] = x /\ x # 0
    BY DEF Below
  <2>2. PICK c \in Heads(Direct + 2), l \in 0 .. P - 1 : content[c][l] = x
    BY DEF Below
  <2>3. b # c
    BY <1>1, HeadsApart
  <2>4. b \in PointerBlocks /\ c \in PointerBlocks
    BY DEF PointerBlocks
  <2>. QED  BY <2>1, <2>2, <2>3, <2>4, WordsApart
<1>. QED  BY <1>2, <1>3, <1>4 DEF Outer, Inner

(* The words of b, if b is not one that leads to blocks of pointers.       *)
LEMMA WordsEnd ==
  ASSUME FirstDataBlock = 0, TypeInv, OwnInv, NEW b \in PointerBlocks,
         b \notin Heads(Direct + 1) \cup Heads(Direct + 2), NEW k \in 0 .. P - 1
  PROVE  content[b][k] \notin PointerBlocks
<1> SUFFICES ASSUME content[b][k] \in PointerBlocks PROVE FALSE
  OBVIOUS
<1>1. /\ b \in 1 .. Blocks - 1 /\ <<-b, k>> \in Pointers
      /\ PointsTo(<<-b, k>>) = content[b][k]
  BY WordPlace
<1>2. PICK p \in Pointers :
        /\ PointsTo(p) = content[b][k] /\ content[b][k] # 0
        /\ \/ \E i \in 1 .. Inodes - 1, j \in Direct .. Direct + 2 : p = <<i, j>>
           \/ \E h \in Heads(Direct + 1) \cup Heads(Direct + 2), l \in 0 .. P - 1 :
                p = <<-h, l>>
  BY Origin
<1>3. p = <<-b, k>>
  BY <1>1, <1>2 DEF OwnInv
<1>4. ASSUME NEW i \in 1 .. Inodes - 1, NEW j \in Direct .. Direct + 2, p = <<i, j>>
      PROVE  FALSE
  <2>1. i = -b
    BY <1>3, <1>4
  <2>. QED  BY <1>1, <2>1, Ext2Assumption
<1>5. ASSUME NEW h \in Heads(Direct + 1) \cup Heads(Direct + 2), NEW l \in 0 .. P - 1,
             p = <<-h, l>>
      PROVE  FALSE
  <2>1. h \in PointerBlocks
    BY DEF PointerBlocks
  <2>2. h \in 1 .. Blocks - 1
    BY <2>1, WordPlace
  <2>3. -h = -b
    BY <1>3, <1>5
  <2>. QED  BY <1>1, <2>2, <2>3, Ext2Assumption
<1>. QED  BY <1>2, <1>4, <1>5

LEMMA OuterWords ==
  ASSUME FirstDataBlock = 0, TypeInv, OwnInv, NEW b \in Outer, NEW k \in 0 .. P - 1
  PROVE  content[b][k] \notin PointerBlocks
<1>1. b \notin Heads(Direct + 1) \cup Heads(Direct + 2)
  BY OuterNotInner DEF Inner
<1>2. b \in PointerBlocks
  BY Sides
<1>. QED  BY <1>1, <1>2, WordsEnd

LEMMA ThirdApart ==
  ASSUME FirstDataBlock = 0, TypeInv, OwnInv
  PROVE  Third \cap PointerBlocks = {}
<1> SUFFICES ASSUME NEW s \in Third, s \in PointerBlocks PROVE FALSE
  OBVIOUS
<1>1. PICK b \in Below(Heads(Direct + 2)), k \in 0 .. P - 1 : content[b][k] = s
  BY DEF Third, Below
<1>2. b \in PointerBlocks
  BY DEF PointerBlocks
<1>3. b \notin Heads(Direct + 1) \cup Heads(Direct + 2)
  <2>1. /\ Direct + 1 \in 0 .. Direct + 2 /\ Direct + 2 \in 0 .. Direct + 2
        /\ Direct + 2 \in Direct + 1 .. Direct + 2
    BY Ext2Assumption
  <2>. QED  BY <2>1, HeadsNotBelow
<1>. QED  BY <1>1, <1>2, <1>3, WordsEnd

-----------------------------------------------------------------------------
(* Steps that keep this.  Every pointer after the step was there before,   *)
(* but for one, p, which now names a block v that was nobody's.            *)
Kept(v) == \A b \in Int : Held(b) /\ b # v => Held(b)'

LEMMA OwnStep ==
  ASSUME FirstDataBlock = 0, TypeInv, OwnInv, bitmap \subseteq bitmap',
         DOMAIN itable' = DOMAIN itable, NEW p, NEW v, v = 0 \/ Held(v),
         PointerBlocks' \subseteq PointerBlocks \cup ({v} \ {0}),
         \A i \in 1 .. Inodes - 1, j \in 0 .. Direct + 2 :
           \/ PointersIn(itable'[i])[j] \in {0, PointersIn(itable[i])[j]}
           \/ <<i, j>> = p /\ PointersIn(itable'[i])[j] = v,
         \A b \in PointerBlocks', k \in 0 .. P - 1 :
           \/ content'[b][k] = 0
           \/ b \in PointerBlocks /\ content'[b][k] = content[b][k]
           \/ <<-b, k>> = p /\ content'[b][k] = v
  PROVE  OwnInv' /\ Kept(v)
<1>1. DOMAIN itable = 1 .. Inodes - 1 /\ DOMAIN itable' = 1 .. Inodes - 1
  BY DEF TypeInv
<1>2. ASSUME NEW q \in Pointers', PointsTo(q)' # 0
      PROVE  \/ q \in Pointers /\ PointsTo(q)' = PointsTo(q)
             \/ q = p /\ PointsTo(q)' = v
  <2>1. CASE \E i \in 1 .. Inodes - 1, j \in 0 .. Direct + 2 : q = <<i, j>>
    <3>1. PICK i \in 1 .. Inodes - 1, j \in 0 .. Direct + 2 : q = <<i, j>>
      BY <2>1
    <3>2. PointsTo(q)' = PointersIn(itable'[i])[j]
      BY <3>1 DEF PointsTo
    <3>3. <<i, j>> \in Pointers /\ PointsTo(<<i, j>>) = PointersIn(itable[i])[j]
      BY HeadPlace
    <3>4. \/ PointersIn(itable'[i])[j] \in {0, PointersIn(itable[i])[j]}
          \/ <<i, j>> = p /\ PointersIn(itable'[i])[j] = v
      OBVIOUS
    <3>. QED  BY <1>2, <3>1, <3>2, <3>3, <3>4
  <2>2. CASE \E b \in PointerBlocks', k \in 0 .. P - 1 : q = <<-b, k>>
    <3>1. PICK b \in PointerBlocks', k \in 0 .. P - 1 : q = <<-b, k>>
      BY <2>2
    <3>2. b \in 1 .. Blocks - 1
      <4>1. CASE b \in PointerBlocks
        BY <4>1, WordPlace
      <4>2. CASE b = v /\ v # 0
        BY <4>2, InRange DEF Held
      <4>. QED  BY <4>1, <4>2
    <3>3. PointsTo(q)' = content'[b][k]
      BY <3>1, <3>2, Ext2Assumption DEF PointsTo
    <3>4. \/ content'[b][k] = 0
          \/ b \in PointerBlocks /\ content'[b][k] = content[b][k]
          \/ <<-b, k>> = p /\ content'[b][k] = v
      OBVIOUS
    <3>5. CASE b \in PointerBlocks /\ content'[b][k] = content[b][k]
      BY <3>1, <3>3, <3>5, WordPlace
    <3>6. CASE <<-b, k>> = p /\ content'[b][k] = v
      BY <3>1, <3>3, <3>6
    <3>. QED  BY <1>2, <3>3, <3>4, <3>5, <3>6
  <2>3. \/ \E i \in 1 .. Inodes - 1, j \in 0 .. Direct + 2 : q = <<i, j>>
        \/ \E b \in PointerBlocks', k \in 0 .. P - 1 : q = <<-b, k>>
    BY <1>1 DEF Pointers
  <2>. QED  BY <2>1, <2>2, <2>3
<1>3. ASSUME NEW q \in Pointers', PointsTo(q)' # 0
      PROVE  PointsTo(q)' \in bitmap' \ Reserved
  <2>1. CASE q \in Pointers /\ PointsTo(q)' = PointsTo(q)
    <3>1. PointsTo(q) \in bitmap \ Reserved
      BY <1>3, <2>1 DEF OwnInv
    <3>. QED  BY <2>1, <3>1
  <2>2. CASE PointsTo(q)' = v
    BY <1>3, <2>2 DEF Held
  <2>. QED  BY <1>2, <1>3, <2>1, <2>2
<1>4. ASSUME NEW q \in Pointers', NEW r \in Pointers', PointsTo(q)' # 0,
             PointsTo(q)' = PointsTo(r)'
      PROVE  q = r
  <2> DEFINE Old(x) == x \in Pointers /\ PointsTo(x)' = PointsTo(x)
             New(x) == x = p /\ PointsTo(x)' = v
  <2>1. (Old(q) \/ New(q)) /\ (Old(r) \/ New(r))
    BY <1>2, <1>4
  <2>2. CASE Old(q) /\ Old(r)
    <3>1. PointsTo(q) # 0 /\ PointsTo(q) = PointsTo(r)
      BY <1>4, <2>2
    <3>. QED  BY <2>2, <3>1 DEF OwnInv
  <2>3. CASE New(q) /\ Old(r)
    <3>1. v # 0 /\ PointsTo(r) = v
      BY <1>4, <2>3
    <3>. QED  BY <2>3, <3>1 DEF Held
  <2>4. CASE Old(q) /\ New(r)
    <3>1. v # 0 /\ PointsTo(q) = v
      BY <1>4, <2>4
    <3>. QED  BY <2>4, <3>1 DEF Held
  <2>. QED  BY <2>1, <2>2, <2>3, <2>4
<1>5. Kept(v)
  <2> SUFFICES ASSUME NEW b \in Int, Held(b), b # v PROVE Held(b)'
    BY DEF Kept
  <2>1. ASSUME NEW q \in Pointers', PointsTo(q)' = b PROVE FALSE
    <3>1. PointsTo(q)' # 0
      BY <2>1 DEF Held
    <3>2. q \in Pointers /\ PointsTo(q) = b
      BY <1>2, <2>1, <3>1
    <3>. QED  BY <3>2 DEF Held
  <2>. QED  BY <2>1 DEF Held
<1>6. OwnInv'
  BY <1>3, <1>4 DEF OwnInv
<1>. QED  BY <1>5, <1>6

(* No block that leads to a pointer changes; the blocks of the third level *)
(* get their own number or a file's words.                                 *)
LEMMA ElsewhereStep ==
  ASSUME FirstDataBlock = 0, TypeInv, OwnInv, SelfInv, bitmap \subseteq bitmap',
         itable' = itable,
         \A b \in PointerBlocks : content'[b] = content[b],
         \A s \in Third, k \in 0 .. P - 1 :
           content'[s][k] <= 0 \/ content'[s][k] = s
  PROVE  OwnInv' /\ SelfInv' /\ Kept(0)
<1>1. \A j \in Direct .. Direct + 2 : Heads(j)' = Heads(j)
  BY DEF Heads
<1>2. /\ Heads(Direct)' = Heads(Direct) /\ Heads(Direct + 1)' = Heads(Direct + 1)
      /\ Heads(Direct + 2)' = Heads(Direct + 2)
  BY DEF Heads
<1>3. \A b \in Heads(Direct + 1) \cup Heads(Direct + 2) \cup Below(Heads(Direct + 2)) :
        content'[b] = content[b]
  BY DEF PointerBlocks
<1>4. Below(Heads(Direct + 1))' = Below(Heads(Direct + 1))
  BY <1>2, <1>3 DEF Below
<1>5. Below(Heads(Direct + 2))' = Below(Heads(Direct + 2))
  BY <1>2, <1>3 DEF Below
<1>6. PointerBlocks' = PointerBlocks
  BY <1>2, <1>4, <1>5 DEF PointerBlocks
<1>7. Third' = Third
  <2>1. Third' = {content'[b][j] : b \in Below(Heads(Direct + 2))', j \in 0 .. P - 1}
                   \ {0}
    BY DEF Third, Below
  <2>2. Third = {content[b][j] : b \in Below(Heads(Direct + 2)), j \in 0 .. P - 1}
                   \ {0}
    BY DEF Third, Below
  <2>. QED  BY <2>1, <2>2, <1>5, <1>3
<1>8. SelfInv'
  BY <1>7 DEF SelfInv
<1>9. OwnInv' /\ Kept(0)
  <2>1. \A i \in 1 .. Inodes - 1, j \in 0 .. Direct + 2 :
           PointersIn(itable'[i])[j] \in {0, PointersIn(itable[i])[j]}
    OBVIOUS
  <2>2. \A b \in PointerBlocks', k \in 0 .. P - 1 :
           b \in PointerBlocks /\ content'[b][k] = content[b][k]
    BY <1>6
  <2>. QED  BY <1>6, <2>1, <2>2, OwnStep
<1>. QED  BY <1>8, <1>9

(* An inode is written: it drops pointers, and one may name v, which has   *)
(* no pointers in it if it is a block of pointers.                         *)
Repoints(inode, i, l, v) ==
  \A j \in 0 .. Direct + 2 :
    \/ PointersIn(inode)[j] \in {0, PointersIn(itable[i])[j]}
    \/ j = l /\ PointersIn(inode)[j] = v

LEMMA TableStep ==
  ASSUME FirstDataBlock = 0, TypeInv, OwnInv, SelfInv, bitmap' = bitmap,
         content' = content, NEW i \in 1 .. Inodes - 1, NEW inode,
         itable' = [itable EXCEPT ![i] = inode],
         NEW l \in 0 .. Direct + 2, NEW v, v = 0 \/ Held(v),
         v = 0 \/ l < Direct \/ content[v] = Fill(0), Repoints(inode, i, l, v)
  PROVE  OwnInv' /\ SelfInv' /\ Kept(v)
<1> DEFINE V == IF l < Direct THEN {} ELSE {v} \ {0}
<1>0. /\ Direct \in Direct .. Direct + 2 /\ Direct + 1 \in Direct .. Direct + 2
      /\ Direct + 2 \in Direct .. Direct + 2
      /\ \A j \in Direct .. Direct + 2 : j \in 0 .. Direct + 2 /\ ~ (j < Direct)
  BY Ext2Assumption
<1>1. DOMAIN itable = 1 .. Inodes - 1 /\ DOMAIN itable' = 1 .. Inodes - 1
  BY DEF TypeInv
<1>2. \A m \in 1 .. Inodes - 1 : itable'[m] = IF m = i THEN inode ELSE itable[m]
  BY <1>1
<1>3. \A j \in Direct .. Direct + 2 : Heads(j)' \subseteq Heads(j) \cup V
  <2> SUFFICES ASSUME NEW j \in Direct .. Direct + 2, NEW b \in Heads(j)'
               PROVE  b \in Heads(j) \cup V
    OBVIOUS
  <2>1. PICK m \in 1 .. Inodes - 1 : PointersIn(itable'[m])[j] = b /\ b # 0
    BY <1>1 DEF Heads
  <2>2. CASE PointersIn(itable[m])[j] = b
    BY <1>1, <2>1, <2>2 DEF Heads
  <2>3. CASE m = i /\ j = l /\ b = v
    BY <1>0, <2>1, <2>3
  <2>4. \/ PointersIn(inode)[j] \in {0, PointersIn(itable[i])[j]}
        \/ j = l /\ PointersIn(inode)[j] = v
    BY <1>0 DEF Repoints
  <2>. QED  BY <1>2, <2>1, <2>2, <2>3, <2>4
<1>4. \A b \in V, k \in 0 .. P - 1 : content[b][k] = 0
  BY DEF Fill
<1>5. \A j \in Direct .. Direct + 2 : Below(Heads(j))' \subseteq Below(Heads(j))
  <2> SUFFICES ASSUME NEW j \in Direct .. Direct + 2, NEW x \in Below(Heads(j))'
               PROVE  x \in Below(Heads(j))
    OBVIOUS
  <2>1. PICK b \in Heads(j)', k \in 0 .. P - 1 : content[b][k] = x /\ x # 0
    BY DEF Below
  <2>2. b \in Heads(j)
    BY <1>3, <1>4, <2>1
  <2>. QED  BY <2>1, <2>2 DEF Below
<1>6. PointerBlocks' \subseteq PointerBlocks \cup V
  BY <1>0, <1>3, <1>5 DEF PointerBlocks
<1>7. Third' \subseteq Third
  <2> SUFFICES ASSUME NEW x \in Third' PROVE x \in Third
    OBVIOUS
  <2>1. PICK b \in Below(Heads(Direct + 2))', k \in 0 .. P - 1 :
          content[b][k] = x /\ x # 0
    BY DEF Third, Below
  <2>2. b \in Below(Heads(Direct + 2))
    BY <1>0, <1>5, <2>1
  <2>. QED  BY <2>1, <2>2 DEF Third, Below
<1>8. SelfInv'
  BY <1>7 DEF SelfInv
<1>9. OwnInv' /\ Kept(v)
  <2>1. \A m \in 1 .. Inodes - 1, j \in 0 .. Direct + 2 :
          \/ PointersIn(itable'[m])[j] \in {0, PointersIn(itable[m])[j]}
          \/ <<m, j>> = <<i, l>> /\ PointersIn(itable'[m])[j] = v
    BY <1>2 DEF Repoints
  <2>2. \A b \in PointerBlocks', k \in 0 .. P - 1 :
          \/ content'[b][k] = 0
          \/ b \in PointerBlocks /\ content'[b][k] = content[b][k]
    BY <1>4, <1>6
  <2>3. PointerBlocks' \subseteq PointerBlocks \cup ({v} \ {0})
    BY <1>6
  <2>4. bitmap \subseteq bitmap' /\ DOMAIN itable' = DOMAIN itable
    BY <1>1
  <2>. QED  BY <2>1, <2>2, <2>3, <2>4, OwnStep
<1>. QED  BY <1>8, <1>9

(* A word of a block of pointers names v, an empty block of pointers.      *)
LEMMA WordStep ==
  ASSUME FirstDataBlock = 0, TypeInv, OwnInv, SelfInv, bitmap' = bitmap,
         itable' = itable, NEW b \in PointerBlocks, NEW k \in 0 .. P - 1,
         NEW v, Held(v), content[v] = Fill(0),
         content' = [content EXCEPT ![b][k] = v]
  PROVE  OwnInv' /\ SelfInv' /\ Kept(v)
<1>0. /\ Direct \in Direct .. Direct + 2 /\ Direct + 1 \in Direct .. Direct + 2
      /\ Direct + 2 \in Direct .. Direct + 2
  BY Ext2Assumption
<1>1. v \in 1 .. Blocks - 1 /\ b \in 1 .. Blocks - 1
  <2>1. v \in 1 .. Blocks - 1
    BY InRange DEF Held
  <2>2. b \in 1 .. Blocks - 1
    BY WordPlace
  <2>. QED  BY <2>1, <2>2
<1>2. v \notin PointerBlocks
  BY Origin DEF Held
<1>3. \A c \in 0 .. Blocks - 1, m \in 0 .. P - 1 :
        content'[c][m] = IF c = b /\ m = k THEN v ELSE content[c][m]
  BY DEF TypeInv
<1>4. \A m \in 0 .. P - 1 : content'[v][m] = 0
  <2>1. v # b /\ v \in 0 .. Blocks - 1
    BY <1>1, <1>2
  <2>2. \A m \in 0 .. P - 1 : content[v][m] = 0
    BY DEF Fill
  <2>. QED  BY <1>3, <2>1, <2>2
<1>5. \A j \in Direct .. Direct + 2 : Heads(j)' = Heads(j)
  BY DEF Heads
<1>6. \A c \in PointerBlocks : c \in 0 .. Blocks - 1
  <2>1. 0 \in 0 .. P - 1
    BY Ext2Assumption
  <2>2. \A c \in PointerBlocks : c \in 1 .. Blocks - 1
    BY <2>1, WordPlace
  <2>. QED  BY <2>2
<1>7. \A j \in Direct + 1 .. Direct + 2 :
        Below(Heads(j))' \subseteq Below(Heads(j)) \cup {v}
  <2> SUFFICES ASSUME NEW j \in Direct + 1 .. Direct + 2, NEW x \in Below(Heads(j))'
               PROVE  x \in Below(Heads(j)) \cup {v}
    OBVIOUS
  <2>0. j \in Direct .. Direct + 2 /\ (j = Direct + 1 \/ j = Direct + 2)
    BY Ext2Assumption
  <2>1. PICK c \in Heads(j), m \in 0 .. P - 1 : content'[c][m] = x /\ x # 0
    BY <1>5, <2>0 DEF Below
  <2>2. c \in 0 .. Blocks - 1
    BY <1>6, <2>0 DEF PointerBlocks
  <2>. QED  BY <1>3, <2>1, <2>2 DEF Below
<1>8. PointerBlocks' \subseteq PointerBlocks \cup {v}
  <2>1. Direct + 1 \in Direct + 1 .. Direct + 2 /\ Direct + 2 \in Direct + 1 .. Direct + 2
    BY Ext2Assumption
  <2>. QED  BY <1>0, <1>5, <1>7, <2>1 DEF PointerBlocks
<1>9. Third' \subseteq Third \cup {v}
  <2> SUFFICES ASSUME NEW x \in Third' PROVE x \in Third \cup {v}
    OBVIOUS
  <2>1. PICK c \in Below(Heads(Direct + 2))', m \in 0 .. P - 1 :
          content'[c][m] = x /\ x # 0
    BY DEF Third, Below
  <2>2. c \in Below(Heads(Direct + 2))
    <3>1. Direct + 2 \in Direct + 1 .. Direct + 2
      BY Ext2Assumption
    <3>2. c \in Below(Heads(Direct + 2)) \cup {v}
      BY <1>7, <3>1
    <3>. QED  BY <1>4, <2>1, <3>2
  <2>3. c \in 0 .. Blocks - 1
    BY <1>6, <2>2 DEF PointerBlocks
  <2>. QED  BY <1>3, <2>1, <2>2, <2>3 DEF Third, Below
<1>10. SelfInv'
  <2> SUFFICES ASSUME NEW s \in Third', NEW m \in 0 .. P - 1
               PROVE  content'[s][m] <= 0 \/ content'[s][m] = s
    BY DEF SelfInv
  <2>1. CASE s = v
    BY <1>4, <2>1
  <2>2. CASE s \in Third
    <3>1. content[s][m] <= 0 \/ content[s][m] = s
      BY <2>2 DEF SelfInv
    <3>2. content'[s] = content[s]
      <4>1. s # b
        BY <2>2, ThirdApart
      <4>. QED  BY <4>1 DEF TypeInv
    <3>. QED  BY <3>1, <3>2
  <2>. QED  BY <1>9, <2>1, <2>2
<1>11. OwnInv' /\ Kept(v)
  <2>1. \A i \in 1 .. Inodes - 1, j \in 0 .. Direct + 2 :
           PointersIn(itable'[i])[j] \in {0, PointersIn(itable[i])[j]}
    OBVIOUS
  <2>2. \A c \in PointerBlocks', m \in 0 .. P - 1 :
          \/ content'[c][m] = 0
          \/ c \in PointerBlocks /\ content'[c][m] = content[c][m]
          \/ <<-c, m>> = <<-b, k>> /\ content'[c][m] = v
    <3> SUFFICES ASSUME NEW c \in PointerBlocks', NEW m \in 0 .. P - 1
                 PROVE  \/ content'[c][m] = 0
                        \/ c \in PointerBlocks /\ content'[c][m] = content[c][m]
                        \/ <<-c, m>> = <<-b, k>> /\ content'[c][m] = v
      OBVIOUS
    <3>1. CASE c = v
      BY <1>4, <3>1
    <3>2. CASE c \in PointerBlocks
      <4>1. content'[c][m] = IF c = b /\ m = k THEN v ELSE content[c][m]
        BY <1>3, <1>6, <3>2
      <4>. QED  BY <3>2, <4>1
    <3>. QED  BY <1>8, <3>1, <3>2
  <2>3. PointerBlocks' \subseteq PointerBlocks \cup ({v} \ {0})
    BY <1>1, <1>8
  <2>5. bitmap \subseteq bitmap' /\ DOMAIN itable' = DOMAIN itable
    OBVIOUS
  <2> DEFINE p == <<-b, k>>
  <2>6. \A c \in PointerBlocks', m \in 0 .. P - 1 :
          \/ content'[c][m] = 0
          \/ c \in PointerBlocks /\ content'[c][m] = content[c][m]
          \/ <<-c, m>> = p /\ content'[c][m] = v
    BY <2>2
  <2>. HIDE DEF p
  <2>. QED  BY <2>1, <2>6, <2>3, <2>5, OwnStep
<1>. QED  BY <1>10, <1>11

(* A word of a block of pointers names v, a block of the file.             *)
LEMMA LeafStep ==
  ASSUME FirstDataBlock = 0, TypeInv, OwnInv, SelfInv, bitmap' = bitmap,
         itable' = itable, NEW b \in Outer, NEW k \in 0 .. P - 1,
         NEW v, Held(v), content' = [content EXCEPT ![b][k] = v]
  PROVE  OwnInv' /\ SelfInv' /\ Kept(v)
<1>1. b \in PointerBlocks /\ b \in 1 .. Blocks - 1
  BY Sides, WordPlace
<1>2. \A c : c # b => content'[c] = content[c]
  BY DEF TypeInv
<1>3. b \notin Inner
  BY OuterNotInner
<1>4. /\ Heads(Direct)' = Heads(Direct) /\ Heads(Direct + 1)' = Heads(Direct + 1)
      /\ Heads(Direct + 2)' = Heads(Direct + 2)
  BY DEF Heads
<1>5. \A c \in Inner : content'[c] = content[c]
  BY <1>2, <1>3
<1>6. Below(Heads(Direct + 1))' = Below(Heads(Direct + 1))
  BY <1>4, <1>5 DEF Below, Inner
<1>7. Below(Heads(Direct + 2))' = Below(Heads(Direct + 2))
  BY <1>4, <1>5 DEF Below, Inner
<1>8. PointerBlocks' = PointerBlocks
  BY <1>4, <1>6, <1>7 DEF PointerBlocks
<1>9. Third' = Third
  <2>1. Third' = {content'[c][j] : c \in Below(Heads(Direct + 2))', j \in 0 .. P - 1}
                   \ {0}
    BY DEF Third, Below
  <2>2. Third = {content[c][j] : c \in Below(Heads(Direct + 2)), j \in 0 .. P - 1}
                   \ {0}
    BY DEF Third, Below
  <2>. QED  BY <2>1, <2>2, <1>5, <1>7 DEF Inner
<1>10. SelfInv'
  <2>1. \A s \in Third : content'[s] = content[s]
    BY <1>1, <1>2, ThirdApart
  <2>. QED  BY <1>9, <2>1 DEF SelfInv
<1>11. OwnInv' /\ Kept(v)
  <2>1. \A i \in 1 .. Inodes - 1, j \in 0 .. Direct + 2 :
           PointersIn(itable'[i])[j] \in {0, PointersIn(itable[i])[j]}
    OBVIOUS
  <2>2. \A m \in 0 .. P - 1 : content'[b][m] = IF m = k THEN v ELSE content[b][m]
    <3>1. b \in DOMAIN content /\ DOMAIN content[b] = 0 .. P - 1
      BY <1>1 DEF TypeInv
    <3>. QED  BY <3>1
  <2>3. \A c \in PointerBlocks', m \in 0 .. P - 1 :
          \/ c \in PointerBlocks /\ content'[c][m] = content[c][m]
          \/ <<-c, m>> = <<-b, k>> /\ content'[c][m] = v
    BY <1>2, <1>8, <2>2
  <2>4. PointerBlocks' \subseteq PointerBlocks \cup ({v} \ {0})
    BY <1>8
  <2>5. bitmap \subseteq bitmap' /\ DOMAIN itable' = DOMAIN itable
    OBVIOUS
  <2> DEFINE p == <<-b, k>>
  <2>6. \A c \in PointerBlocks', m \in 0 .. P - 1 :
          \/ content'[c][m] = 0
          \/ c \in PointerBlocks /\ content'[c][m] = content[c][m]
          \/ <<-c, m>> = p /\ content'[c][m] = v
    BY <2>3
  <2>. HIDE DEF p
  <2>. QED  BY <2>1, <2>6, <2>4, <2>5, OwnStep
<1>. QED  BY <1>10, <1>11

-----------------------------------------------------------------------------
(* The way to block n of a file.                                           *)
LEMMA Positive ==
  /\ MaxBlock \in Nat /\ MaxBlock > Direct
  /\ Triple \in Nat /\ Triple >= Direct /\ MaxBlock > Triple
<1> DEFINE Q == P * P
<1>1. P \in Nat /\ P >= 1 /\ Q \in Nat /\ Direct \in Nat
  BY Ext2Assumption
<1>2. Triple = Direct + P + Q /\ MaxBlock = Direct + P + Q + P
  BY DEF MaxBlock, Triple
<1>. HIDE DEF Q
<1>. QED  BY <1>1, <1>2

LEMMA Quotient ==
  ASSUME NEW b \in 0 .. P * P - 1
  PROVE  b \div P \in 0 .. P - 1
<1> DEFINE q == b \div P
           r == b % P
<1>0. P \in Nat /\ P >= 1
  BY Ext2Assumption
<1>1. q \in Int /\ r \in 0 .. P - 1 /\ b \in Int
  BY <1>0
<1>2. b = P * q + r
  BY <1>0
<1>3. b >= 0 /\ b < P * P
  BY <1>0
<1>. HIDE DEF q, r
<1>4. q >= 0
  <2>1. CASE q < 0
    <3>1. P * q <= P * (-1)
      BY <1>0, <1>1, <2>1
    <3>. QED  BY <3>1, <1>0, <1>1, <1>2, <1>3
  <2>. QED  BY <2>1, <1>1
<1>5. q < P
  <2>1. CASE q >= P
    <3>1. P * q >= P * P
      BY <1>0, <1>1, <2>1
    <3>. QED  BY <3>1, <1>0, <1>1, <1>2, <1>3
  <2>. QED  BY <2>1, <1>0, <1>1
<1>6. q \in 0 .. P - 1
  BY <1>0, <1>1, <1>4, <1>5
<1>. QED  BY <1>6 DEF q

Words == 0 .. P - 1

LEMMA PathShape ==
  ASSUME NEW n \in 0 .. MaxBlock - 1
  PROVE  \/ n < Direct /\ Path(n) = <<>>
         \/ n >= Direct /\ n < Triple /\ \E k \in Words : Path(n) = <<k>>
         \/ n >= Direct /\ n < Triple /\ \E k, l \in Words : Path(n) = <<k, l>>
         \/ n >= Triple /\ n >= Direct /\ \E k, l, m \in Words : Path(n) = <<k, l, m>>
<1> DEFINE Q == P * P
<1>0. Direct \in Nat /\ P \in Nat /\ P >= 1 /\ Q \in Nat /\ Q >= P
  BY Ext2Assumption
<1>1. CASE n < Direct
  <2>0. n \notin Direct .. Double - 1 /\ n \notin Double .. Triple - 1
    BY <1>0, <1>1 DEF Double, Triple
  <2>1. Path(n) = <<>>
    BY <1>1, <2>0 DEF Path
  <2>. QED  BY <1>1, <2>1
<1>2. CASE n \in Direct .. Double - 1
  <2>1. /\ n >= Direct /\ ~ (n < Direct) /\ n < Double
        /\ n \notin Double .. Triple - 1
    BY <1>0, <1>2 DEF Double, Triple
  <2>2. n < Triple /\ n - Direct \in Words
    BY <1>0, <2>1 DEF Double, Triple, Words
  <2>3. Path(n) = <<n - Direct>>
    BY <1>2, <2>1 DEF Path
  <2>. QED  BY <2>1, <2>2, <2>3
<1>3. CASE n \in Double .. Triple - 1
  <2> DEFINE b == n - Double
  <2>1. /\ n >= Direct /\ ~ (n < Direct) /\ n < Triple
        /\ n \notin Direct .. Double - 1
    BY <1>0, <1>3 DEF Double, Triple
  <2>2. b \in 0 .. P * P - 1
    BY <1>0, <1>3 DEF Double, Triple
  <2>3. b \div P \in Words /\ b % P \in Words
    BY <1>0, <2>2, Quotient DEF Words
  <2>4. Path(n) = <<b \div P, b % P>>
    BY <1>3, <2>1 DEF Path
  <2>. QED  BY <2>1, <2>3, <2>4
<1>4. CASE n >= Triple
  <2> DEFINE c == n - Triple
  <2>1. /\ n >= Direct /\ ~ (n < Direct)
        /\ n \notin Direct .. Double - 1 /\ n \notin Double .. Triple - 1
    BY <1>0, <1>4 DEF Double, Triple
  <2>2. c \in 0 .. P - 1
    BY <1>0, <1>4 DEF Double, Triple, MaxBlock
  <2>3. c \div Q = 0 /\ c % Q = c /\ c \div P = 0 /\ c % P = c
    <3>. HIDE DEF c, Q
    <3>. QED  BY <1>0, <2>2
  <2>4. c \div Q \in Words /\ (c % Q) \div P \in Words /\ c % P \in Words
    <3>1. 0 \in Words /\ c \in Words
      BY <1>0, <2>2 DEF Words
    <3>2. (c % Q) \div P = 0
      BY <2>3
    <3>. QED  BY <2>3, <3>1, <3>2
  <2>5. Path(n) = <<c \div Q, (c % Q) \div P, c % P>>
    BY <2>1 DEF Path
  <2>. QED  BY <1>4, <2>1, <2>4, <2>5
<1>5. n < Direct \/ n \in Direct .. Double - 1 \/ n \in Double .. Triple - 1
      \/ n >= Triple
  BY <1>0 DEF Double, Triple, MaxBlock
<1>. QED  BY <1>1, <1>2, <1>3, <1>4, <1>5

LEMMA PathEmpty ==
  ASSUME NEW n \in 0 .. MaxBlock - 1
  PROVE  Path(n) = <<>> <=> n < Direct
<1>1. Path(n) = <<>> => Len(Path(n)) = 0
  OBVIOUS
<1>2. \A k, l, m : Len(<<k>>) = 1 /\ Len(<<k, l>>) = 2 /\ Len(<<k, l, m>>) = 3
  OBVIOUS
<1>3. ~ (n < Direct) => Len(Path(n)) \in {1, 2, 3}
  BY <1>2, PathShape
<1>4. n < Direct => Path(n) = <<>>
  <2>1. n < Direct => ~ (n >= Direct)
    BY Positive, Ext2Assumption
  <2>. QED  BY <2>1, PathShape
<1>. QED  BY <1>1, <1>3, <1>4

(* The blocks of pointers that the way goes through, up to the one missing. *)
LEMMA NodesPlaced ==
  ASSUME FirstDataBlock = 0, TypeInv, OwnInv, Filed, pc # "grow",
         NEW n \in 0 .. MaxBlock - 1, n >= Direct
  PROVE  LET d == Len(Path(n))
             node == Nodes(ip, n)
             h == Direct + d - 1
         IN /\ d \in 1 .. 3 /\ TopSlot(n) = h /\ h \in Direct .. Direct + 2
            /\ DOMAIN node = 1 .. d
            /\ d = 3 <=> n >= Triple
            /\ \A j \in 1 .. d : Path(n)[j] \in Words
            /\ node[1] = ip.block[h] /\ node[1] \in {0} \cup Heads(h)
            /\ d >= 2 => node[2] \in {0} \cup Below(Heads(h))
            /\ d = 3 => node[3] \in {0} \cup Third
<1> DEFINE d == Len(Path(n))
           node == Nodes(ip, n)
           h == Direct + d - 1
<1>0. Direct \in Nat /\ P \in Nat /\ P >= 1
  BY Ext2Assumption
<1>1. /\ d \in 1 .. 3 /\ \A j \in 1 .. d : Path(n)[j] \in Words
      /\ d = 3 <=> n >= Triple
  <2> DEFINE Q == P * P
  <2>1. Q \in Int
    BY <1>0
  <2>2. Triple = Direct + P + Q /\ MaxBlock = Triple + P
    BY DEF Triple, MaxBlock
  <2>. HIDE DEF Q
  <2>3. Triple \in Int /\ n \in Int
    BY <1>0, <2>1, <2>2
  <2>4. \/ n < Triple /\ \E k \in Words : Path(n) = <<k>>
        \/ n < Triple /\ \E k, l \in Words : Path(n) = <<k, l>>
        \/ n >= Triple /\ \E k, l, m \in Words : Path(n) = <<k, l, m>>
    <3>1. ~ (n < Direct)
      BY <1>0, <2>3
    <3>. QED  BY <3>1, PathShape
  <2>5. ASSUME NEW k \in Words, n < Triple, Path(n) = <<k>>
        PROVE  /\ d \in 1 .. 3 /\ \A j \in 1 .. d : Path(n)[j] \in Words
               /\ d = 3 <=> n >= Triple
    BY <2>3, <2>5
  <2>6. ASSUME NEW k \in Words, NEW l \in Words, n < Triple, Path(n) = <<k, l>>
        PROVE  /\ d \in 1 .. 3 /\ \A j \in 1 .. d : Path(n)[j] \in Words
               /\ d = 3 <=> n >= Triple
    BY <2>3, <2>6
  <2>7. ASSUME NEW k \in Words, NEW l \in Words, NEW m \in Words, n >= Triple,
               Path(n) = <<k, l, m>>
        PROVE  /\ d \in 1 .. 3 /\ \A j \in 1 .. d : Path(n)[j] \in Words
               /\ d = 3 <=> n >= Triple
    BY <2>3, <2>7
  <2>. QED  BY <2>4, <2>5, <2>6, <2>7
<1>2. TopSlot(n) = h /\ h \in Direct .. Direct + 2 /\ h \in 0 .. Direct + 2
  <2>1. TopSlot(n) = h
    BY DEF TopSlot
  <2>2. d \in 1 .. 3
    BY <1>1
  <2>. HIDE DEF d
  <2>3. h \in Direct .. Direct + 2 /\ h \in 0 .. Direct + 2
    BY <1>0, <2>2
  <2>. QED  BY <2>1, <2>3
<1>3. DOMAIN node = 1 .. d
  BY DEF Nodes
<1>4. /\ node[1] = ip.block[h]
      /\ d >= 2 => node[2] = Child(node[1], Path(n)[1])
      /\ d = 3 => node[3] = Child(node[2], Path(n)[2])
  <2>1. 1 \in 1 .. d /\ (d >= 2 => 2 \in 1 .. d) /\ (d = 3 => 3 \in 1 .. d)
    BY <1>1
  <2>2. node[1] = ip.block[h]
    BY <1>2, <2>1 DEF Nodes
  <2>3. d >= 2 => node[2] = Child(node[1], Path(n)[1])
    BY <1>2, <2>1 DEF Nodes
  <2>4. d = 3 => node[3] = Child(node[2], Path(n)[2])
    BY <1>2, <2>1 DEF Nodes
  <2>. QED  BY <2>2, <2>3, <2>4
<1>. HIDE DEF node
<1>5. node[1] \in {0} \cup Heads(h)
  <2>1. ip.block[h] = PointersIn(itable[ino])[h] /\ ino \in DOMAIN itable
    BY <1>2 DEF Filed, Copied, TypeInv
  <2>. QED  BY <1>4, <2>1 DEF Heads
<1>6. d >= 2 => node[2] \in {0} \cup Below(Heads(h))
  <2>1. d >= 2 => Path(n)[1] \in 0 .. P - 1
    BY <1>1 DEF Words
  <2>. QED  BY <1>4, <1>5, <2>1 DEF Child, Below
<1>7. d = 3 => node[3] \in {0} \cup Third
  <2>1. d = 3 => h = Direct + 2 /\ Path(n)[2] \in 0 .. P - 1
    BY <1>0, <1>1 DEF Words
  <2>2. d = 3 => node[2] \in {0} \cup Below(Heads(Direct + 2))
    BY <1>6, <2>1
  <2>3. \A S, b, k : b \in S /\ k \in 0 .. P - 1 /\ content[b][k] # 0
          => content[b][k] \in Below(S)
    BY DEF Below
  <2>4. d = 3 /\ node[2] # 0 => node[3] = 0 \/ node[3] \in Below(Below(Heads(Direct + 2)))
    BY <1>4, <2>1, <2>2, <2>3 DEF Child
  <2>5. d = 3 /\ node[2] = 0 => node[3] = 0
    BY <1>4 DEF Child
  <2>. QED  BY <2>4, <2>5 DEF Third
<1>. QED  BY <1>1, <1>2, <1>3, <1>4, <1>5, <1>6, <1>7 DEF node

-----------------------------------------------------------------------------
(* The calls.                                                              *)
LEMMA SameBlocks ==
  ASSUME FirstDataBlock = 0, TypeInv, OwnInv, SelfInv, bitmap \subseteq bitmap',
         UNCHANGED <<itable, content>>
  PROVE  OwnInv' /\ SelfInv' /\ Kept(0)
<1>1. \A b \in PointerBlocks : content'[b] = content[b]
  OBVIOUS
<1>2. \A s \in Third, k \in 0 .. P - 1 : content'[s][k] <= 0 \/ content'[s][k] = s
  BY DEF SelfInv
<1>. QED  BY <1>1, <1>2, ElsewhereStep

LEMMA HeldKept ==
  ASSUME Kept(0), NEW b \in Int, Held(b)
  PROVE  b # 0 /\ b \in bitmap' \ Reserved /\ \A p \in Pointers' : PointsTo(p)' # b
BY DEF Kept, Held

LEMMA MaxNat ==
  ASSUME NEW a \in Nat, NEW b \in Nat
  PROVE  Max({a, b}) \in Nat
<1>1. \E x \in {a, b} : \A y \in {a, b} : x >= y
  <2>1. CASE a >= b
    BY <2>1
  <2>2. CASE b >= a
    BY <2>2
  <2>. QED  BY <2>1, <2>2
<1>2. Max({a, b}) \in {a, b}
  BY <1>1 DEF Max
<1>. QED  BY <1>2

LEMMA FreshInode ==
  ASSUME NEW kind \in Kinds \cup {"none"}
  PROVE  /\ Fresh(kind) \in Inode /\ Fresh(kind).kind = kind
         /\ \A j \in 0 .. Direct + 2 : Fresh(kind).block[j] = 0
BY DEF Fresh, Inode

LEMMA NewInodes ==
  ASSUME NEW kind \in Kinds
  PROVE  /\ NewInode(kind) \in Inode /\ NewInode(kind).kind = kind
         /\ NewInode(kind).blocks = 0
         /\ \A j \in 0 .. Direct + 2 : PointersIn(NewInode(kind))[j] = 0
<1>1. /\ Fresh(kind) \in Inode /\ Fresh(kind).kind = kind /\ Fresh(kind).blocks = 0
      /\ \A j \in 0 .. Direct + 2 : Fresh(kind).block[j] = 0
  BY FreshInode DEF Fresh
<1>2. CASE kind = "embedded"
  <2>1. Text \in [0 .. Direct + 2 -> Int]
    BY Ext2Assumption DEF Text
  <2>2. NewInode(kind) = [kind |-> kind, size |-> 1, blocks |-> 0, block |-> Text]
    BY <1>2 DEF NewInode, Fresh
  <2>3. /\ NewInode(kind) \in Inode /\ NewInode(kind).kind = kind
        /\ NewInode(kind).blocks = 0
    BY <2>1, <2>2 DEF Inode
  <2>. QED  BY <1>2, <2>3 DEF PointersIn
<1>3. CASE kind # "embedded"
  <2>1. NewInode(kind) = Fresh(kind)
    BY <1>3 DEF NewInode
  <2>. QED  BY <1>1, <1>3, <2>1, PointersPlain
<1>. QED  BY <1>2, <1>3

LEMMA InodeSize ==
  ASSUME NEW inode \in Inode, NEW s \in Nat
  PROVE  /\ [inode EXCEPT !.size = s] \in Inode
         /\ [inode EXCEPT !.size = s].block = inode.block
         /\ [inode EXCEPT !.size = s].kind = inode.kind
         /\ PointersIn([inode EXCEPT !.size = s]) = PointersIn(inode)
BY DEF Inode, PointersIn

LEMMA FileInodes ==
  ASSUME TypeInv, NEW i \in Files
  PROVE  /\ i \in 1 .. Inodes - 1 /\ HasPlace(i)
         /\ itable[i] \in Inode /\ itable[i].kind = "file"
<1>1. Inodes \in Nat /\ Inodes > 2
  BY Ext2Assumption DEF OldFile
<1>2. HasPlace(i) /\ i # 0 /\ (i = 2 \/ \E x \in Names : i = entry[x])
  BY DEF Files, OldFile
<1>3. i \in 0 .. Inodes
  BY <1>1, <1>2 DEF TypeInv
<1>4. i \in 1 .. Inodes - 1
  BY <1>1, <1>2, <1>3 DEF HasPlace
<1>. QED  BY <1>2, <1>4 DEF TypeInv, Files

LEMMA BlocksWrite ==
  ASSUME FirstDataBlock = 0, BlockInv,
         NEW i \in Files, NEW n \in Targets, NEW w \in Data, Write(i, n, w)
  PROVE  BlockInv'
<1> DEFINE grown == [itable[i] EXCEPT !.size = Max({@, n + 1})]
<1>0. TypeInv /\ OwnInv /\ SelfInv /\ AllocInv
  BY DEF BlockInv
<1>1. /\ pc = "idle" /\ ino' = i /\ ip' = grown /\ target' = n /\ word' = w
      /\ PutInode(i, grown) /\ pc' = Allocates(grown, n)
      /\ UNCHANGED <<bitmap, content, entry, blk, leaf>>
  BY DEF Write, Begins
<1>2. i \in 1 .. Inodes - 1 /\ HasPlace(i) /\ itable[i] \in Inode
  BY <1>0, FileInodes
<1>3. n \in Nat /\ n \in 0 .. MaxBlock - 1 /\ w \in Int /\ w <= 0
  BY Ext2Assumption, Positive
<1>4. /\ grown \in Inode /\ grown.kind = "file"
      /\ PointersIn(grown) = PointersIn(itable[i])
  <2>1. itable[i].size \in Nat
    BY <1>2 DEF Inode
  <2>2. Max({itable[i].size, n + 1}) \in Nat
    BY <1>3, <2>1, MaxNat
  <2>3. itable[i].kind = "file"
    BY <1>0, FileInodes
  <2>. QED  BY <1>2, <2>2, <2>3, InodeSize
<1>5. pc' \in {"scan", "data"}
  BY <1>1 DEF Allocates
<1>. HIDE DEF grown
<1>6. itable' = [itable EXCEPT ![i] = grown]
  BY <1>1, <1>2 DEF PutInode
<1>7. OwnInv' /\ SelfInv' /\ Kept(0)
  <2>1. 0 \in 0 .. Direct + 2
    BY Ext2Assumption
  <2>2. Repoints(grown, i, 0, 0)
    BY <1>4 DEF Repoints
  <2>. QED  BY <1>0, <1>1, <1>2, <1>6, <2>1, <2>2, TableStep
<1>8. TypeInv'
  BY <1>0, <1>1, <1>2, <1>3, <1>4, <1>6, Ext2Assumption DEF TypeInv
<1>9. leaf' = 0
  BY <1>0, <1>1 DEF AllocInv
<1>10. AllocInv'
  BY <1>5, <1>9 DEF AllocInv
<1>11. Filed'
  <2>1. itable'[i] = grown
    BY <1>0, <1>2, <1>6 DEF TypeInv
  <2>2. PointersIn(grown) = grown.block
    BY <1>4, PointersPlain
  <2>. QED  BY <1>1, <1>2, <1>4, <2>1, <2>2 DEF Filed, Copied
<1>12. CopyInv'
  BY <1>5, <1>11 DEF CopyInv
<1>. QED  BY <1>7, <1>8, <1>10, <1>12 DEF BlockInv

LEMMA BlocksTruncate ==
  ASSUME FirstDataBlock = 0, BlockInv, NEW i \in Files, Truncate(i)
  PROVE  BlockInv'
<1> DEFINE cutoff == [itable[i] EXCEPT !.size = 0]
<1>0. TypeInv /\ OwnInv /\ SelfInv /\ AllocInv
  BY DEF BlockInv
<1>1. /\ pc = "idle" /\ pc' = "idle" /\ PutInode(i, cutoff)
      /\ UNCHANGED <<bitmap, content, entry, blk, leaf, ip, ino, target, word>>
  BY DEF Truncate, Begins, call
<1>2. i \in 1 .. Inodes - 1 /\ HasPlace(i) /\ itable[i] \in Inode
  BY <1>0, FileInodes
<1>4. cutoff \in Inode /\ PointersIn(cutoff) = PointersIn(itable[i])
  BY <1>2, InodeSize
<1>. HIDE DEF cutoff
<1>6. itable' = [itable EXCEPT ![i] = cutoff]
  BY <1>1, <1>2 DEF PutInode
<1>7. OwnInv' /\ SelfInv' /\ Kept(0)
  <2>1. 0 \in 0 .. Direct + 2
    BY Ext2Assumption
  <2>2. Repoints(cutoff, i, 0, 0)
    BY <1>4 DEF Repoints
  <2>. QED  BY <1>0, <1>1, <1>2, <1>6, <2>1, <2>2, TableStep
<1>8. TypeInv'
  BY <1>0, <1>1, <1>4, <1>6 DEF TypeInv
<1>9. AllocInv' /\ CopyInv'
  BY <1>0, <1>1 DEF AllocInv, CopyInv
<1>. QED  BY <1>7, <1>8, <1>9 DEF BlockInv

LEMMA BlocksUnlink ==
  ASSUME FirstDataBlock = 0, BlockInv, NEW x \in Names, Unlink(x)
  PROVE  BlockInv'
<1>0. TypeInv /\ OwnInv /\ SelfInv /\ AllocInv
  BY DEF BlockInv
<1>1. /\ pc = "idle" /\ pc' = "idle" /\ entry' = [entry EXCEPT ![x] = 0]
      /\ UNCHANGED <<bitmap, content, itable, blk, leaf, ip, ino, target, word>>
  BY DEF Unlink, Begins, call
<1>2. OwnInv' /\ SelfInv' /\ Kept(0)
  BY <1>0, <1>1, SameBlocks
<1>3. TypeInv'
  BY <1>0, <1>1, Ext2Assumption DEF TypeInv
<1>4. AllocInv' /\ CopyInv'
  BY <1>0, <1>1 DEF AllocInv, CopyInv
<1>. QED  BY <1>2, <1>3, <1>4 DEF BlockInv

LEMMA BlocksCreate ==
  ASSUME FirstDataBlock = 0, BlockInv, IInv,
         NEW x \in Names, NEW kind \in Kinds, Create(x, kind)
  PROVE  BlockInv'
<1> DEFINE unmarked == (1 .. Inodes) \ imarked
           i == IF free = 0 THEN 0 ELSE Min(unmarked)
<1>0. TypeInv /\ OwnInv /\ SelfInv /\ AllocInv
  BY DEF BlockInv
<1>1. /\ pc = "idle" /\ ~ broken
      /\ (IF free > 0 THEN unmarked # {} ELSE kind \in Buffered)
      /\ (kind \in Buffered => HasPlace(i))
      /\ ino' = i /\ ip' = NewInode(kind) /\ target' = 0 /\ word' = Dots
      /\ pc' = IF i # 0 THEN "inode" ELSE "scan"
      /\ UNCHANGED <<bitmap, free, itable, content, entry, blk, leaf>>
  BY DEF Create, Begins
<1>2. free \in Nat
  <2>1. free = Cardinality(Clear) + lost + (IF pc = "count" THEN 1 ELSE 0)
    BY <1>1 DEF IInv, FreeCounted
  <2>. QED  BY <2>1, ClearFinite DEF IInv
<1>3. i \in 0 .. Inodes /\ (i = 0 <=> free = 0)
  <2>1. CASE free = 0
    BY <2>1, Ext2Assumption
  <2>2. CASE free > 0
    <3>1. unmarked # {} /\ unmarked \in SUBSET Nat
      BY <1>1, <2>2, Ext2Assumption
    <3>2. Min(unmarked) \in unmarked
      BY <3>1, MinLeast
    <3>. QED  BY <2>2, <3>2, Ext2Assumption
  <2>. QED  BY <1>2, <2>1, <2>2
<1>. HIDE DEF i
<1>4. /\ NewInode(kind) \in Inode /\ NewInode(kind).kind = kind
      /\ \A j \in 0 .. Direct + 2 : PointersIn(NewInode(kind))[j] = 0
  BY NewInodes
<1>5. OwnInv' /\ SelfInv' /\ Kept(0)
  BY <1>0, <1>1, SameBlocks
<1>6. TypeInv'
  <2>1. 0 \in 0 .. MaxBlock - 1 /\ Dots \in Int /\ Dots <= 0
    BY Positive, Ext2Assumption
  <2>. QED  BY <1>0, <1>1, <1>3, <1>4, <2>1 DEF TypeInv
<1>7. leaf' = 0
  BY <1>0, <1>1 DEF AllocInv
<1>8. AllocInv'
  BY <1>1, <1>7 DEF AllocInv
<1>9. CopyInv'
  BY <1>1, <1>3, <1>4, <1>7 DEF CopyInv, HasPlace
<1>. QED  BY <1>5, <1>6, <1>8, <1>9 DEF BlockInv

(* The call is over, or the machine stopped.                               *)
LEMMA BlocksOver ==
  ASSUME TypeInv, itable' \in [1 .. Inodes - 1 -> Inode],
         content' \in [0 .. Blocks - 1 -> [0 .. P - 1 -> Int]],
         entry' \in [Names -> 0 .. Inodes], bitmap' = bitmap, Over
  PROVE  TypeInv' /\ AllocInv' /\ CopyInv'
<1>1. /\ pc' = "idle" /\ ino' = 0 /\ ip' = Fresh("none")
      /\ target' = 0 /\ word' = 0 /\ blk' = 0 /\ leaf' = 0
  BY DEF Over
<1>2. Fresh("none") \in Inode
  BY FreshInode
<1>3. 0 \in 0 .. MaxBlock - 1 /\ 0 \in 0 .. Inodes /\ 0 \in Int
  BY Positive, Ext2Assumption
<1>4. TypeInv'
  BY <1>1, <1>2, <1>3 DEF TypeInv
<1>. QED  BY <1>1, <1>4 DEF AllocInv, CopyInv

-----------------------------------------------------------------------------
(* The steps of a call.                                                    *)
LEMMA ExactCopy ==
  ASSUME Copied, pc # "grow"
  PROVE  \A j \in 0 .. Direct + 2 : ip.block[j] = PointersIn(itable[ino])[j]
BY DEF Copied

LEMMA BlocksWriteInode ==
  ASSUME FirstDataBlock = 0, BlockInv, WriteInode
  PROVE  BlockInv'
<1>0. TypeInv /\ OwnInv /\ SelfInv /\ AllocInv /\ CopyInv
  BY DEF BlockInv
<1>1. /\ pc = "inode" /\ pc' = "entry" /\ PutInode(ino, ip)
      /\ UNCHANGED <<bitmap, free, content, entry, ip, blk, leaf>>
      /\ UNCHANGED <<ino, target, word>>
  BY DEF WriteInode, Goes, call
<1>2. /\ ino # 0 /\ (ip.kind \in Buffered => HasPlace(ino)) /\ ino \in 0 .. Inodes
      /\ \A j \in 0 .. Direct + 2 : PointersIn(ip)[j] = 0
  BY <1>0, <1>1 DEF CopyInv, TypeInv
<1>3. AllocInv'
  BY <1>0, <1>1 DEF AllocInv
<1>4. CASE HasPlace(ino)
  <2>1. ino \in 1 .. Inodes - 1 /\ itable' = [itable EXCEPT ![ino] = ip]
    BY <1>1, <1>2, <1>4, Ext2Assumption DEF HasPlace, PutInode
  <2>2. OwnInv' /\ SelfInv' /\ Kept(0)
    <3>1. 0 \in 0 .. Direct + 2
      BY Ext2Assumption
    <3>2. Repoints(ip, ino, 0, 0)
      BY <1>2 DEF Repoints
    <3>. QED  BY <1>0, <1>1, <2>1, <3>1, <3>2, TableStep
  <2>3. TypeInv'
    BY <1>0, <1>1, <2>1 DEF TypeInv
  <2>4. ip.kind \in Buffered => Filed'
    <3> SUFFICES ASSUME ip.kind \in Buffered PROVE Filed'
      OBVIOUS
    <3>1. itable'[ino] = ip
      BY <1>0, <2>1 DEF TypeInv
    <3>2. ip.kind # "embedded"
      BY DEF Buffered
    <3>3. PointersIn(ip) = ip.block
      BY <3>2, PointersPlain
    <3>. QED  BY <1>1, <2>1, <3>1, <3>2, <3>3 DEF Filed, Copied
  <2>5. CopyInv'
    BY <1>1, <2>4 DEF CopyInv
  <2>. QED  BY <1>3, <2>2, <2>3, <2>5 DEF BlockInv
<1>5. CASE ~ HasPlace(ino)
  <2>1. itable' = itable
    BY <1>1, <1>5 DEF PutInode
  <2>2. OwnInv' /\ SelfInv' /\ Kept(0)
    BY <1>0, <1>1, <2>1, SameBlocks
  <2>3. TypeInv'
    BY <1>0, <1>1, <2>1 DEF TypeInv
  <2>4. ip'.kind \notin Buffered
    BY <1>1, <1>2, <1>5
  <2>5. CopyInv'
    BY <1>1, <2>4 DEF CopyInv
  <2>. QED  BY <1>3, <2>2, <2>3, <2>5 DEF BlockInv
<1>. QED  BY <1>4, <1>5

LEMMA BlocksCreateEntry ==
  ASSUME FirstDataBlock = 0, BlockInv, CreateEntry
  PROVE  BlockInv'
<1>0. TypeInv /\ OwnInv /\ SelfInv /\ AllocInv /\ CopyInv
  BY DEF BlockInv
<1>1. /\ entry' = [entry EXCEPT ![name] = ino]
      /\ UNCHANGED <<bitmap, free, itable, content>>
  BY DEF CreateEntry
<1>2. OwnInv' /\ SelfInv' /\ Kept(0)
  BY <1>0, <1>1, SameBlocks
<1>3. entry' \in [Names -> 0 .. Inodes]
  BY <1>0, <1>1 DEF TypeInv
<1>4. CASE Over
  <2>1. TypeInv' /\ AllocInv' /\ CopyInv'
    <3>1. /\ itable' \in [1 .. Inodes - 1 -> Inode]
          /\ content' \in [0 .. Blocks - 1 -> [0 .. P - 1 -> Int]]
      BY <1>0, <1>1 DEF TypeInv
    <3>. QED  BY <1>0, <1>1, <1>3, <1>4, <3>1, BlocksOver
  <2>. QED  BY <1>2, <2>1 DEF BlockInv
<1>5. CASE /\ Goes("entry", "size") /\ ip.kind \in Buffered
           /\ UNCHANGED <<ip, blk, leaf>>
  <2>1. pc = "entry" /\ pc' = "size" /\ UNCHANGED <<ino, target, word, ip, blk, leaf>>
    BY <1>5 DEF Goes, call
  <2>2. TypeInv'
    BY <1>0, <1>1, <1>3, <2>1 DEF TypeInv
  <2>3. AllocInv'
    BY <1>0, <2>1 DEF AllocInv
  <2>4. Filed
    BY <1>0, <1>5, <2>1 DEF CopyInv
  <2>5. \A j \in 0 .. Direct + 2 : ip.block[j] = PointersIn(itable[ino])[j]
    BY <2>1, <2>4, ExactCopy DEF Filed
  <2>6. Filed'
    BY <1>1, <2>1, <2>4, <2>5 DEF Filed, Copied
  <2>7. CopyInv'
    BY <2>1, <2>6 DEF CopyInv
  <2>. QED  BY <1>2, <2>2, <2>3, <2>7 DEF BlockInv
<1>. QED  BY <1>4, <1>5 DEF CreateEntry

LEMMA BlocksWriteSize ==
  ASSUME FirstDataBlock = 0, BlockInv, WriteSize
  PROVE  BlockInv'
<1> DEFINE sized == [ip EXCEPT !.size = 1]
<1>0. TypeInv /\ OwnInv /\ SelfInv /\ AllocInv /\ CopyInv
  BY DEF BlockInv
<1>1. /\ pc = "size" /\ pc' = "scan" /\ ip' = sized /\ PutInode(ino, sized)
      /\ UNCHANGED <<bitmap, free, content, entry, blk, leaf>>
      /\ UNCHANGED <<ino, target, word>>
  BY DEF WriteSize, Goes, call
<1>2. /\ sized \in Inode /\ sized.block = ip.block /\ sized.kind = ip.kind
      /\ PointersIn(sized) = PointersIn(ip)
  BY <1>0, InodeSize DEF TypeInv
<1>. HIDE DEF sized
<1>3. Filed /\ PointersIn(ip) = ip.block
  BY <1>0, <1>1, PointersPlain DEF CopyInv, Filed
<1>4. \A j \in 0 .. Direct + 2 : ip.block[j] = PointersIn(itable[ino])[j]
  BY <1>1, <1>3, ExactCopy DEF Filed
<1>5. ino \in 1 .. Inodes - 1 /\ itable' = [itable EXCEPT ![ino] = sized]
  BY <1>1, <1>3, Ext2Assumption DEF Filed, HasPlace, PutInode
<1>6. OwnInv' /\ SelfInv' /\ Kept(0)
  <2>1. 0 \in 0 .. Direct + 2
    BY Ext2Assumption
  <2>2. Repoints(sized, ino, 0, 0)
    BY <1>2, <1>3, <1>4 DEF Repoints
  <2>. QED  BY <1>0, <1>1, <1>5, <2>1, <2>2, TableStep
<1>7. TypeInv'
  BY <1>0, <1>1, <1>2, <1>5 DEF TypeInv
<1>8. AllocInv'
  BY <1>0, <1>1 DEF AllocInv
<1>9. Filed'
  <2>1. itable'[ino] = sized
    BY <1>0, <1>5 DEF TypeInv
  <2>. QED  BY <1>1, <1>2, <1>3, <1>5, <2>1 DEF Filed, Copied
<1>10. CopyInv'
  BY <1>1, <1>9 DEF CopyInv
<1>. QED  BY <1>6, <1>7, <1>8, <1>10 DEF BlockInv

LEMMA BlocksScan ==
  ASSUME FirstDataBlock = 0, BlockInv, Scan
  PROVE  BlockInv'
<1>0. TypeInv /\ OwnInv /\ SelfInv /\ AllocInv /\ CopyInv
  BY DEF BlockInv
<1>1. /\ pc = "scan" /\ pc' = "count" /\ free > 0 /\ blk' = Min(Clear)
      /\ bitmap' = bitmap \cup {Min(Clear)} /\ Min(Clear) \in Clear
      /\ UNCHANGED <<free, content, itable, entry, ip, leaf, ino, target, word>>
  BY ScanFinds DEF Scan, Goes, call, inodes
<1>2. OwnInv' /\ SelfInv' /\ Kept(0)
  BY <1>0, <1>1, SameBlocks
<1>3. /\ blk' \in Bits /\ blk' \notin bitmap /\ blk' \in Int /\ blk' # 0
      /\ blk' \in bitmap' \ Reserved
  BY <1>0, <1>1 DEF TypeInv, Clear, Bits
<1>4. TypeInv'
  BY <1>0, <1>1, <1>3 DEF TypeInv
<1>5. Held(blk)'
  <2>1. Pointers' = Pointers /\ \A p \in Pointers : PointsTo(p)' = PointsTo(p)
    BY <1>1 DEF Pointers, PointsTo, PointerBlocks, Heads, Below
  <2>2. \A p \in Pointers : PointsTo(p) # 0 => PointsTo(p) \in bitmap
    BY <1>0 DEF OwnInv
  <2>3. \A p \in Pointers' : PointsTo(p)' # blk'
    BY <1>3, <2>1, <2>2
  <2>. QED  BY <1>3, <2>3 DEF Held
<1>6. leaf' = 0 \/ (Held(leaf)' /\ leaf' # blk')
  <2>1. CASE leaf = 0
    BY <1>1, <2>1
  <2>2. CASE Held(leaf)
    <3>1. leaf \in bitmap /\ leaf \in Int
      BY <1>0, <2>2 DEF Held, TypeInv
    <3>2. /\ leaf # 0 /\ leaf \in bitmap' \ Reserved
          /\ \A p \in Pointers' : PointsTo(p)' # leaf
      BY <1>2, <2>2, <3>1, HeldKept
    <3>. QED  BY <1>1, <1>3, <3>1, <3>2 DEF Held
  <2>. QED  BY <1>0, <1>1, <2>1, <2>2 DEF AllocInv
<1>7. AllocInv'
  BY <1>1, <1>5, <1>6 DEF AllocInv
<1>8. Filed
  BY <1>0, <1>1 DEF CopyInv
<1>9. Filed'
  <2>1. \A j \in 0 .. Direct + 2 : ip.block[j] = PointersIn(itable[ino])[j]
    BY <1>1, <1>8, ExactCopy DEF Filed
  <2>. QED  BY <1>1, <1>8, <2>1 DEF Filed, Copied
<1>10. CopyInv'
  BY <1>1, <1>9 DEF CopyInv
<1>. QED  BY <1>2, <1>4, <1>7, <1>10 DEF BlockInv

LEMMA BlocksScanFails ==
  ASSUME FirstDataBlock = 0, BlockInv, ScanFails
  PROVE  BlockInv'
<1>0. TypeInv /\ OwnInv /\ SelfInv /\ AllocInv /\ CopyInv
  BY DEF BlockInv
<1>1. /\ pc = "scan" /\ pc' = "grow" /\ leaf # 0
      /\ UNCHANGED <<bitmap, free, content, itable, entry, ip, blk, leaf>>
      /\ UNCHANGED <<ino, target, word>>
  BY DEF ScanFails, Goes, call, disk
<1>2. OwnInv' /\ SelfInv' /\ Kept(0)
  BY <1>0, <1>1, SameBlocks
<1>3. TypeInv' /\ AllocInv'
  BY <1>0, <1>1 DEF TypeInv, AllocInv
<1>4. Filed
  BY <1>0, <1>1 DEF CopyInv
<1>5. Filed'
  <2>1. \A j \in 0 .. Direct + 2 : ip.block[j] = PointersIn(itable[ino])[j]
    BY <1>1, <1>4, ExactCopy DEF Filed
  <2>. QED  BY <1>1, <1>4, <2>1 DEF Filed, Copied
<1>6. CopyInv'
  BY <1>1, <1>5 DEF CopyInv
<1>. QED  BY <1>2, <1>3, <1>6 DEF BlockInv

LEMMA BlocksCount ==
  ASSUME FirstDataBlock = 0, BlockInv, Count
  PROVE  BlockInv'
<1>0. TypeInv /\ OwnInv /\ SelfInv /\ AllocInv /\ CopyInv
  BY DEF BlockInv
<1>1. /\ pc = "count" /\ pc' = "zero"
      /\ UNCHANGED <<bitmap, content, itable, entry, ip, blk, leaf>>
      /\ UNCHANGED <<ino, target, word>>
  BY DEF Count, Goes, call, inodes
<1>2. OwnInv' /\ SelfInv' /\ Kept(0)
  BY <1>0, <1>1, SameBlocks
<1>3. TypeInv'
  BY <1>0, <1>1 DEF TypeInv
<1>4. AllocInv'
  <2>1. \A b \in Int : Held(b) => Held(b)'
    BY <1>2, HeldKept DEF Held
  <2>2. blk \in Int /\ leaf \in Int
    BY <1>0 DEF TypeInv
  <2>3. Held(blk) /\ (leaf = 0 \/ (Held(leaf) /\ leaf # blk))
    BY <1>0, <1>1 DEF AllocInv
  <2>4. Held(blk)'
    BY <1>1, <2>1, <2>2, <2>3 DEF Held
  <2>5. Held(leaf) => Held(leaf)'
    BY <1>1, <2>1, <2>2 DEF Held
  <2>. QED  BY <1>1, <2>3, <2>4, <2>5 DEF AllocInv
<1>5. Filed
  BY <1>0, <1>1 DEF CopyInv
<1>6. Filed'
  <2>1. \A j \in 0 .. Direct + 2 : ip.block[j] = PointersIn(itable[ino])[j]
    BY <1>1, <1>5, ExactCopy DEF Filed
  <2>. QED  BY <1>1, <1>5, <2>1 DEF Filed, Copied
<1>7. CopyInv'
  BY <1>1, <1>6 DEF CopyInv
<1>. QED  BY <1>2, <1>3, <1>4, <1>7 DEF BlockInv

LEMMA BlocksZero ==
  ASSUME FirstDataBlock = 0, BlockInv, Zero
  PROVE  BlockInv'
<1>0. TypeInv /\ OwnInv /\ SelfInv /\ AllocInv /\ CopyInv
  BY DEF BlockInv
<1>1. /\ pc = "zero" /\ pc' = "link"
      /\ content' = [content EXCEPT ![blk] = Fill(0)]
      /\ leaf' = IF leaf = 0 THEN blk ELSE leaf
      /\ UNCHANGED <<bitmap, itable, entry, ip, blk>>
      /\ UNCHANGED <<ino, target, word>>
  BY DEF Zero, Goes, call, inodes
<1>2. /\ Held(blk) /\ blk \in Int /\ leaf \in Int
      /\ leaf = 0 \/ (Held(leaf) /\ leaf # blk)
  BY <1>0, <1>1 DEF AllocInv, TypeInv
<1>3. blk \in 1 .. Blocks - 1
  BY <1>0, <1>2, InRange DEF Held
<1>4. blk \notin PointerBlocks
  BY <1>0, <1>2, Origin DEF Held
<1>5. OwnInv' /\ SelfInv' /\ Kept(0)
  <2>1. \A b \in PointerBlocks : content'[b] = content[b]
    BY <1>0, <1>1, <1>4 DEF TypeInv
  <2>2. \A s \in Third, k \in 0 .. P - 1 : content'[s][k] <= 0 \/ content'[s][k] = s
    <3> SUFFICES ASSUME NEW s \in Third, NEW k \in 0 .. P - 1
                 PROVE  content'[s][k] <= 0 \/ content'[s][k] = s
      OBVIOUS
    <3>1. CASE s = blk
      <4>1. content'[s] = Fill(0)
        BY <1>0, <1>1, <1>3, <3>1 DEF TypeInv
      <4>. QED  BY <4>1 DEF Fill
    <3>2. CASE s # blk
      <4>1. content'[s] = content[s]
        BY <1>0, <1>1, <3>2 DEF TypeInv
      <4>. QED  BY <1>0, <4>1 DEF SelfInv
    <3>. QED  BY <3>1, <3>2
  <2>3. bitmap \subseteq bitmap' /\ itable' = itable
    BY <1>1
  <2>. QED  BY <1>0, <2>1, <2>2, <2>3, ElsewhereStep
<1>6. Fill(0) \in [0 .. P - 1 -> Int]
  BY DEF Fill
<1>7. TypeInv'
  BY <1>0, <1>1, <1>2, <1>6 DEF TypeInv
<1>8. AllocInv'
  <2>1. \A b \in Int : Held(b) => Held(b)'
    BY <1>5, HeldKept DEF Held
  <2>2. Held(blk)'
    BY <1>1, <1>2, <2>1 DEF Held
  <2>3. Held(leaf)'
    BY <1>1, <1>2, <2>1 DEF Held
  <2>4. content'[blk] = Fill(0)
    BY <1>0, <1>1, <1>3 DEF TypeInv
  <2>5. content'[blk'] = Fill(0)'
    BY <1>1, <2>4 DEF Fill
  <2>. QED  BY <1>1, <2>2, <2>3, <2>5 DEF AllocInv
<1>9. Filed
  BY <1>0, <1>1 DEF CopyInv
<1>10. Filed'
  <2>1. \A j \in 0 .. Direct + 2 : ip.block[j] = PointersIn(itable[ino])[j]
    BY <1>1, <1>9, ExactCopy DEF Filed
  <2>. QED  BY <1>1, <1>9, <2>1 DEF Filed, Copied
<1>11. CopyInv'
  BY <1>1, <1>10 DEF CopyInv
<1>. QED  BY <1>5, <1>7, <1>8, <1>11 DEF BlockInv

(* set_block_number: the block itself, without a block of pointers.        *)
LEMMA BlocksLinkDirect ==
  ASSUME FirstDataBlock = 0, BlockInv, pc = "link",
         UNCHANGED <<bitmap, entry, itable, content, blk, leaf>>,
         UNCHANGED <<ino, target, word>>,
         \/ pc' \in {"grow", "scan"} /\ ip' = ip
         \/ /\ pc' = "grow" /\ ip.blocks < Direct
            /\ ip' = [ip EXCEPT !.block[ip.blocks] = leaf]
  PROVE  BlockInv'
<1>0. TypeInv /\ OwnInv /\ SelfInv /\ AllocInv /\ CopyInv
  BY DEF BlockInv
<1>1. OwnInv' /\ SelfInv' /\ Kept(0)
  BY <1>0, SameBlocks
<1>2. Held(leaf) /\ leaf \in Int
  BY <1>0 DEF AllocInv, TypeInv
<1>3. Held(leaf)'
  BY <1>1, <1>2, HeldKept DEF Held
<1>4. AllocInv'
  BY <1>3 DEF AllocInv
<1>5. Filed /\ ino \in 1 .. Inodes - 1
  BY <1>0 DEF CopyInv, Filed
<1>6. \A j \in 0 .. Direct + 2 : ip.block[j] = PointersIn(itable[ino])[j]
  BY <1>5, ExactCopy DEF Filed
<1>7. CASE pc' \in {"grow", "scan"} /\ ip' = ip
  <2>1. TypeInv'
    BY <1>0, <1>7 DEF TypeInv
  <2>2. Filed'
    BY <1>5, <1>6, <1>7 DEF Filed, Copied
  <2>3. CopyInv'
    BY <1>7, <2>2 DEF CopyInv
  <2>. QED  BY <1>1, <1>4, <2>1, <2>3 DEF BlockInv
<1>8. CASE /\ pc' = "grow" /\ ip.blocks < Direct
           /\ ip' = [ip EXCEPT !.block[ip.blocks] = leaf]
  <2>1. ip \in Inode /\ ip' \in Inode /\ ip'.blocks = ip.blocks
    BY <1>0, <1>2, <1>8 DEF TypeInv, Inode
  <2>2. \A j \in 0 .. Direct + 2 :
          ip'.block[j] = IF j = ip.blocks THEN leaf ELSE ip.block[j]
    BY <1>8, <2>1 DEF Inode
  <2>3. TypeInv'
    BY <1>0, <2>1 DEF TypeInv
  <2>4. Filed'
    BY <1>3, <1>5, <1>6, <1>8, <2>1, <2>2 DEF Filed, Copied
  <2>5. CopyInv'
    BY <1>8, <2>4 DEF CopyInv
  <2>. QED  BY <1>1, <1>4, <2>3, <2>5 DEF BlockInv
<1>. QED  BY <1>7, <1>8

(* set_block_number: an allocated block of pointers is linked.             *)
LEMMA BlocksLinkPointers ==
  ASSUME FirstDataBlock = 0, BlockInv, pc = "link", pc' = "link",
         blk # leaf, blk' = leaf,
         UNCHANGED <<bitmap, entry, leaf>>, UNCHANGED <<ino, target, word>>,
         \/ /\ content' = content
            /\ \E h \in Direct .. Direct + 2 : ip' = [ip EXCEPT !.block[h] = blk]
            /\ PutInode(ino, ip')
         \/ /\ UNCHANGED <<itable, ip>>
            /\ \E b \in PointerBlocks, k \in Words :
                 content' = [content EXCEPT ![b][k] = blk]
  PROVE  BlockInv'
<1>0. TypeInv /\ OwnInv /\ SelfInv /\ AllocInv /\ CopyInv
  BY DEF BlockInv
<1>1. /\ Held(leaf) /\ Held(blk) /\ content[blk] = Fill(0)
      /\ leaf \in Int /\ blk \in Int
  BY <1>0 DEF AllocInv, TypeInv
<1>2. Filed /\ ino \in 1 .. Inodes - 1
  BY <1>0 DEF CopyInv, Filed
<1>3. \A j \in 0 .. Direct + 2 : ip.block[j] = PointersIn(itable[ino])[j]
  BY <1>2, ExactCopy DEF Filed
<1>4. Kept(blk) => AllocInv'
  <2> SUFFICES ASSUME Kept(blk) PROVE AllocInv'
    OBVIOUS
  <2>1. /\ leaf # 0 /\ leaf \in bitmap' \ Reserved
        /\ \A p \in Pointers' : PointsTo(p)' # leaf
    BY <1>1 DEF Kept, Held
  <2>2. Held(leaf)'
    BY <2>1 DEF Held
  <2>. QED  BY <2>2 DEF AllocInv
<1>5. CASE /\ content' = content
           /\ \E h \in Direct .. Direct + 2 : ip' = [ip EXCEPT !.block[h] = blk]
           /\ PutInode(ino, ip')
  <2>1. PICK h \in Direct .. Direct + 2 : ip' = [ip EXCEPT !.block[h] = blk]
    BY <1>5
  <2>2. h \in 0 .. Direct + 2
    BY Ext2Assumption
  <2>3. ip' \in Inode
    BY <1>0, <1>1, <2>1 DEF TypeInv, Inode
  <2>4. \A j \in 0 .. Direct + 2 : ip'.block[j] = IF j = h THEN blk ELSE ip.block[j]
    BY <1>0, <2>1 DEF TypeInv, Inode
  <2>5. itable' = [itable EXCEPT ![ino] = ip']
    BY <1>2, <1>5, Ext2Assumption DEF PutInode, HasPlace
  <2>10. ip'.kind # "embedded" /\ PointersIn(ip') = ip'.block
    <3>1. ip.kind # "embedded"
      BY <1>2 DEF Filed
    <3>2. ip'.kind = ip.kind
      BY <1>0, <2>1 DEF TypeInv, Inode
    <3>. QED  BY <3>1, <3>2, PointersPlain
  <2>6. OwnInv' /\ SelfInv' /\ Kept(blk)
    <3>1. Repoints(ip', ino, h, blk)
      BY <1>3, <2>4, <2>10 DEF Repoints
    <3>. QED  BY <1>0, <1>1, <1>2, <1>5, <2>2, <2>5, <3>1, TableStep
  <2>7. TypeInv'
    BY <1>0, <1>1, <1>2, <1>5, <2>3, <2>5 DEF TypeInv
  <2>8. Filed'
    <3>1. itable'[ino] = ip'
      BY <1>0, <1>2, <2>5 DEF TypeInv
    <3>. QED  BY <1>2, <2>10, <3>1 DEF Filed, Copied
  <2>9. CopyInv'
    BY <2>8 DEF CopyInv
  <2>. QED  BY <1>4, <2>6, <2>7, <2>9 DEF BlockInv
<1>6. CASE /\ UNCHANGED <<itable, ip>>
           /\ \E b \in PointerBlocks, k \in Words :
                content' = [content EXCEPT ![b][k] = blk]
  <2>1. PICK b \in PointerBlocks, k \in Words :
          content' = [content EXCEPT ![b][k] = blk]
    BY <1>6
  <2>2. OwnInv' /\ SelfInv' /\ Kept(blk)
    <3>1. k \in 0 .. P - 1
      BY DEF Words
    <3>. QED  BY <1>0, <1>1, <1>6, <2>1, <3>1, WordStep
  <2>3. TypeInv'
    <3>1. content' \in [0 .. Blocks - 1 -> [0 .. P - 1 -> Int]]
      BY <1>0, <1>1, <2>1 DEF TypeInv
    <3>. QED  BY <1>0, <1>1, <1>6, <3>1 DEF TypeInv
  <2>4. Filed'
    BY <1>2, <1>3, <1>6 DEF Filed, Copied
  <2>5. CopyInv'
    BY <2>4 DEF CopyInv
  <2>. QED  BY <1>4, <2>2, <2>3, <2>5 DEF BlockInv
<1>. QED  BY <1>5, <1>6

(* set_block_number: the block of pointers stores the file's block, or, at *)
(* the third level, its own number.                                        *)
LEMMA BlocksLinkLeaf ==
  ASSUME FirstDataBlock = 0, BlockInv, pc = "link", pc' = "grow",
         UNCHANGED <<bitmap, entry, itable, ip, blk, leaf>>,
         UNCHANGED <<ino, target, word>>,
         NEW b, NEW k \in Words, NEW v, content' = [content EXCEPT ![b][k] = v],
         \/ b \in Outer /\ v = leaf
         \/ b \in Third /\ v = b
  PROVE  BlockInv'
<1>0. TypeInv /\ OwnInv /\ SelfInv /\ AllocInv /\ CopyInv
  BY DEF BlockInv
<1>1. Held(leaf) /\ leaf \in Int
  BY <1>0 DEF AllocInv, TypeInv
<1>2. Filed /\ ino \in 1 .. Inodes - 1
  BY <1>0 DEF CopyInv, Filed
<1>3. \A j \in 0 .. Direct + 2 : ip.block[j] = PointersIn(itable[ino])[j]
  BY <1>2, ExactCopy DEF Filed
<1>4. Filed'
  BY <1>2, <1>3 DEF Filed, Copied
<1>5. AllocInv' /\ CopyInv'
  BY <1>4 DEF AllocInv, CopyInv
<1>6. k \in 0 .. P - 1
  BY DEF Words
<1>7. v \in Int
  <2>1. CASE b \in Third /\ v = b
    <3>1. PICK c \in Below(Heads(Direct + 2)), m \in 0 .. P - 1 : content[c][m] = b
      BY <2>1 DEF Third, Below
    <3>2. c \in PointerBlocks
      BY DEF PointerBlocks
    <3>3. c \in 1 .. Blocks - 1
      BY <1>0, <3>2, WordPlace
    <3>4. c \in 0 .. Blocks - 1
      BY <3>3, Ext2Assumption
    <3>5. content[c][m] \in Int
      BY <1>0, <3>4 DEF TypeInv
    <3>. QED  BY <2>1, <3>1, <3>5
  <2>. QED  BY <1>1, <2>1
<1>8. TypeInv'
  <2>1. content' \in [0 .. Blocks - 1 -> [0 .. P - 1 -> Int]]
    BY <1>0, <1>7 DEF TypeInv
  <2>. QED  BY <1>0, <2>1 DEF TypeInv
<1>9. CASE b \in Outer /\ v = leaf
  <2>1. OwnInv' /\ SelfInv'
    BY <1>0, <1>1, <1>6, <1>9, LeafStep
  <2>. QED  BY <1>5, <1>8, <2>1 DEF BlockInv
<1>10. CASE b \in Third /\ v = b
  <2>1. \A c \in PointerBlocks : content'[c] = content[c]
    <3>1. b \notin PointerBlocks
      BY <1>0, <1>10, ThirdApart
    <3>. QED  BY <1>0, <3>1 DEF TypeInv
  <2>2. \A s \in Third, m \in 0 .. P - 1 :
          content'[s][m] <= 0 \/ content'[s][m] = s
    <3> SUFFICES ASSUME NEW s \in Third, NEW m \in 0 .. P - 1
                 PROVE  content'[s][m] <= 0 \/ content'[s][m] = s
      OBVIOUS
    <3>1. content[s][m] <= 0 \/ content[s][m] = s
      BY <1>0 DEF SelfInv
    <3>2. content'[s][m] = content[s][m] \/ (s = b /\ content'[s][m] = v)
      <4>1. CASE s \in DOMAIN content
        <5>1. DOMAIN content[s] = 0 .. P - 1
          BY <1>0, <4>1 DEF TypeInv
        <5>. QED  BY <4>1, <5>1
      <4>2. CASE s \notin DOMAIN content
        <5>1. \E c \in Below(Heads(Direct + 2)), l \in 0 .. P - 1 :
                content[c][l] = s /\ s # 0
          BY DEF Third, Below
        <5>2. PICK c \in PointerBlocks, l \in 0 .. P - 1 : content[c][l] = s /\ s # 0
          BY <5>1 DEF PointerBlocks
        <5>3. s \in bitmap
          BY <1>0, <5>2, WordPlace DEF OwnInv
        <5>4. s \in 1 .. Blocks - 1
          BY <1>0, <5>2, <5>3, InRange
        <5>. QED  BY <1>0, <4>2, <5>4 DEF TypeInv
      <4>. QED  BY <4>1, <4>2
    <3>. QED  BY <1>10, <3>1, <3>2
  <2>3. OwnInv' /\ SelfInv'
    BY <1>0, <2>1, <2>2, ElsewhereStep
  <2>. QED  BY <1>5, <1>8, <2>3 DEF BlockInv
<1>. QED  BY <1>9, <1>10

(* What a file reads.  With the contents c of the blocks and the pointers f *)
(* of an inode: the way to block n, up to the second level, is complete,   *)
(* and the block it leads to.                                              *)
Whole(c, f, n) ==
  LET d == Len(Path(n))
  IN /\ d = 1 => f[Direct] # 0
     /\ d = 2 => f[Direct + 1] # 0 /\ c[f[Direct + 1]][Path(n)[1]] # 0

BlockAt(c, f, n) ==
  LET d == Len(Path(n))
  IN IF d = 0 THEN f[n]
     ELSE IF d = 1 THEN c[f[Direct]][Path(n)[1]]
     ELSE c[c[f[Direct + 1]][Path(n)[1]]][Path(n)[2]]

(* The way to a block below the third level.                               *)
LEMMA ShortPath ==
  ASSUME NEW n \in 0 .. Triple - 1
  PROVE  /\ n \in 0 .. MaxBlock - 1 /\ n \in Nat /\ n < Triple
         /\ Len(Path(n)) \in 0 .. 2
         /\ Len(Path(n)) = 0 <=> n < Direct
         /\ \A j \in 1 .. Len(Path(n)) : Path(n)[j] \in 0 .. P - 1
         /\ Len(Path(n)) = 1 => n = Direct + Path(n)[1]
         /\ Len(Path(n)) = 2 => n = Double + P * Path(n)[1] + Path(n)[2]
<1> DEFINE Q == P * P
<1>0. Direct \in Nat /\ P \in Nat /\ P >= 1 /\ Q \in Nat /\ Q >= P
  BY Ext2Assumption
<1>1. n \in Nat /\ n < Triple
  BY <1>0 DEF Triple
<1>2. n \in 0 .. MaxBlock - 1
  BY <1>0, <1>1 DEF MaxBlock, Triple
<1>3. CASE n < Direct
  <2>1. Path(n) = <<>>
    BY <1>2, <1>3, PathEmpty
  <2>2. Len(Path(n)) = 0
    BY <2>1
  <2>. QED  BY <1>1, <1>2, <1>3, <2>2
<1>4. CASE n \in Direct .. Double - 1
  <2>1. ~ (n < Direct) /\ n \notin Double .. Triple - 1
    BY <1>0, <1>4 DEF Double, Triple
  <2>2. n - Direct \in 0 .. P - 1 /\ n = Direct + (n - Direct)
    BY <1>0, <1>4 DEF Double
  <2>3. Path(n) = <<n - Direct>>
    BY <1>4, <2>1 DEF Path
  <2>4. Len(Path(n)) = 1 /\ Path(n)[1] = n - Direct
    BY <2>3
  <2>. QED  BY <1>1, <1>2, <2>1, <2>2, <2>4
<1>5. CASE n \in Double .. Triple - 1
  <2> DEFINE b == n - Double
             q == b \div P
             r == b % P
  <2>1. ~ (n < Direct) /\ n \notin Direct .. Double - 1
    BY <1>0, <1>5 DEF Double, Triple
  <2>2. b \in 0 .. P * P - 1 /\ b \in Int
    BY <1>0, <1>5 DEF Double, Triple
  <2>3. Path(n) = <<q, r>>
    BY <1>5, <2>1 DEF Path
  <2>4. Double \in Int /\ n = Double + b
    BY <1>0, <1>1 DEF Double
  <2>. HIDE DEF b
  <2>5. q \in 0 .. P - 1
    BY <1>0, <2>2, Quotient
  <2>6. r \in 0 .. P - 1
    BY <1>0, <2>2
  <2>7. b = P * q + r
    BY <1>0, <2>2
  <2>. HIDE DEF q, r
  <2>8. Len(Path(n)) = 2 /\ Path(n)[1] = q /\ Path(n)[2] = r
    BY <2>3
  <2>9. n = Double + P * q + r
    <3> DEFINE m == P * q
    <3>1. m \in Int /\ r \in Int /\ b = m + r
      BY <1>0, <2>5, <2>6, <2>7
    <3>. HIDE DEF m
    <3>2. n = Double + m + r
      BY <2>4, <3>1
    <3>. QED  BY <3>2 DEF m
  <2>10. \A j \in 1 .. Len(Path(n)) : Path(n)[j] \in 0 .. P - 1
    <3>1. \A j \in 1 .. 2 : j = 1 \/ j = 2
      OBVIOUS
    <3>. QED  BY <2>5, <2>6, <2>8, <3>1
  <2>. QED  BY <1>1, <1>2, <2>1, <2>8, <2>9, <2>10
<1>6. n < Direct \/ n \in Direct .. Double - 1 \/ n \in Double .. Triple - 1
  BY <1>0, <1>1 DEF Double, Triple
<1>. QED  BY <1>3, <1>4, <1>5, <1>6

(* Whole and BlockAt are what set_block_number and get_block_number follow. *)
LEMMA Reached ==
  ASSUME NEW inode, NEW n \in 0 .. Triple - 1
  PROVE  /\ Missing(inode, n) = {} <=> Whole(content, inode.block, n)
         /\ Whole(content, inode.block, n)
              => GetBlockNumber(inode, n) = BlockAt(content, inode.block, n)
<1> DEFINE d == Len(Path(n))
           f == inode.block
<1>0. Direct \in Nat
  BY Ext2Assumption
<1>1. d \in 0 .. 2 /\ TopSlot(n) = Direct + d - 1
  BY ShortPath DEF TopSlot
<1>2. CASE d = 0
  <2>1. DOMAIN Nodes(inode, n) = {}
    BY <1>2 DEF Nodes
  <2>. QED  BY <1>2, <2>1 DEF Missing, Whole, GetBlockNumber, BlockAt
<1>3. CASE d = 1
  <2>1. DOMAIN Nodes(inode, n) = {1} /\ TopSlot(n) = Direct
    BY <1>0, <1>1, <1>3 DEF Nodes
  <2>2. Nodes(inode, n)[1] = f[Direct]
    BY <1>3, <2>1 DEF Nodes
  <2>. QED  BY <1>3, <2>1, <2>2 DEF Missing, Whole, GetBlockNumber, BlockAt
<1>4. CASE d = 2
  <2>1. DOMAIN Nodes(inode, n) = {1, 2} /\ TopSlot(n) = Direct + 1
    BY <1>0, <1>1, <1>4 DEF Nodes
  <2>2. Nodes(inode, n)[1] = f[Direct + 1]
    BY <1>4, <2>1 DEF Nodes
  <2>3. Nodes(inode, n)[2] = Child(f[Direct + 1], Path(n)[1])
    BY <1>4, <2>1 DEF Nodes
  <2>4. Nodes(inode, n)[2] = IF f[Direct + 1] = 0 THEN 0
                             ELSE content[f[Direct + 1]][Path(n)[1]]
    BY <2>3 DEF Child
  <2>. QED  BY <1>4, <2>1, <2>2, <2>4 DEF Missing, Whole, GetBlockNumber, BlockAt
<1>. QED  BY <1>1, <1>2, <1>3, <1>4

(* The pointer to block n of a file.                                       *)
Slot(i, n) ==
  LET d == Len(Path(n))
      f == PointersIn(itable[i])
  IN IF d = 0 THEN <<i, n>>
     ELSE IF d = 1 THEN <<-f[Direct], Path(n)[1]>>
     ELSE <<-content[f[Direct + 1]][Path(n)[1]], Path(n)[2]>>

(* The inode in memory outside "grow".                                     *)
LEMMA SameInode ==
  ASSUME TypeInv, Filed, pc # "grow"
  PROVE  ino \in 1 .. Inodes - 1 /\ ip.block = PointersIn(itable[ino])
<1>1. ino \in 1 .. Inodes - 1 /\ \A j \in 0 .. Direct + 2 : ip.block[j] = PointersIn(itable[ino])[j]
  BY ExactCopy DEF Filed
<1>2. ip.block \in [0 .. Direct + 2 -> Int] /\ PointersIn(itable[ino]) \in [0 .. Direct + 2 -> Int]
  <2>1. itable[ino] \in Inode /\ ip.block \in [0 .. Direct + 2 -> Int]
    BY <1>1 DEF TypeInv, Inode
  <2>. QED  BY <2>1, PointersType
<1>3. /\ ip.block = [j \in 0 .. Direct + 2 |-> ip.block[j]]
      /\ PointersIn(itable[ino]) = [j \in 0 .. Direct + 2 |-> PointersIn(itable[ino])[j]]
  BY <1>2
<1>. QED  BY <1>1, <1>3

(* What set_block_number does, by where the block that is to be the next   *)
(* has its place.                                                          *)
LEMMA LinkShape ==
  ASSUME FirstDataBlock = 0, BlockInv, Link
  PROVE  \/ ip.blocks >= MaxBlock /\ pc' = "grow" /\ UNCHANGED <<itable, content, ip, blk, leaf>>
         \/ /\ ip.blocks < Direct /\ pc' = "grow"
            /\ ip' = [ip EXCEPT !.block[ip.blocks] = leaf]
            /\ UNCHANGED <<itable, content, blk, leaf>>
         \/ /\ pc' = "scan" /\ blk = leaf /\ UNCHANGED <<itable, content, ip, blk, leaf>>
            /\ ip.blocks < Triple => ~ Whole(content, ip.block, ip.blocks)
         \/ /\ pc' = "link" /\ blk # leaf /\ blk' = leaf /\ leaf' = leaf
            /\ \/ /\ content' = content /\ PutInode(ino, ip')
                  /\ \E h \in Direct .. Direct + 2 :
                       ip.block[h] = 0 /\ ip' = [ip EXCEPT !.block[h] = blk]
               \/ /\ UNCHANGED <<itable, ip>>
                  /\ \E b \in PointerBlocks, k \in Words :
                       content[b][k] = 0 /\ content' = [content EXCEPT ![b][k] = blk]
         \/ /\ pc' = "grow" /\ UNCHANGED <<itable, ip, blk, leaf>>
            /\ \/ \E b \in Outer, k \in Words :
                    /\ ip.blocks < Triple /\ Whole(content, ip.block, ip.blocks)
                    /\ <<-b, k>> = Slot(ino, ip.blocks)
                    /\ content' = [content EXCEPT ![b][k] = leaf]
               \/ \E b \in Third, k \in Words :
                    ip.blocks >= Triple /\ content' = [content EXCEPT ![b][k] = b]
<1> DEFINE n == ip.blocks
           path == Path(n)
           missing == Missing(ip, n)
           j == Min(missing)
           node == Nodes(ip, n)
           d == Len(path)
           h == Direct + d - 1
<1>0. TypeInv /\ OwnInv /\ SelfInv /\ AllocInv /\ CopyInv
  BY DEF BlockInv
<1>1. pc = "link"
  BY DEF Link, Goes
<1>2. Filed
  BY <1>0, <1>1 DEF CopyInv
<1>3. n \in Nat /\ Direct \in Nat
  BY <1>0, Ext2Assumption DEF TypeInv, Inode
<1>4. CASE n >= MaxBlock /\ Goes("link", "grow")
           /\ UNCHANGED <<itable, content, ip, blk, leaf>>
  BY <1>4 DEF Goes
<1>5. CASE /\ n < MaxBlock /\ path = <<>> /\ Goes("link", "grow")
           /\ ip' = [ip EXCEPT !.block[n] = leaf]
           /\ UNCHANGED <<itable, content, blk, leaf>>
  <2>1. pc' = "grow"
    BY <1>5 DEF Goes
  <2>2. n \in 0 .. MaxBlock - 1
    BY <1>3, <1>5, Positive
  <2>3. n < Direct
    BY <1>5, <2>2, PathEmpty
  <2>. QED  BY <1>5, <2>1, <2>3
<1>6. n < Triple => n \in 0 .. Triple - 1
  BY <1>3, Positive
<1>7. n < Triple => (missing = {} <=> Whole(content, ip.block, n))
  BY <1>6, Reached
<1>8. CASE /\ n < MaxBlock /\ missing # {} /\ blk = leaf
           /\ Goes("link", "scan")
           /\ UNCHANGED <<itable, content, ip, blk, leaf>>
  <2>1. pc' = "scan"
    BY <1>8 DEF Goes
  <2>. QED  BY <1>7, <1>8, <2>1
<1>9. ASSUME n < MaxBlock, path # <<>>
      PROVE  /\ d \in 1 .. 3 /\ TopSlot(n) = h /\ h \in Direct .. Direct + 2
             /\ DOMAIN node = 1 .. d
             /\ d = 3 <=> n >= Triple
             /\ \A i \in 1 .. d : path[i] \in Words
             /\ node[1] = ip.block[h] /\ node[1] \in {0} \cup Heads(h)
             /\ d >= 2 => node[2] \in {0} \cup Below(Heads(h))
             /\ d = 3 => node[3] \in {0} \cup Third
  <2>1. n \in 0 .. MaxBlock - 1
    BY <1>3, <1>9, Positive
  <2>2. n >= Direct
    BY <1>3, <1>9, <2>1, PathShape
  <2>. QED  BY <1>0, <1>1, <1>2, <2>1, <2>2, NodesPlaced
<1>10. missing = {i \in DOMAIN node : node[i] = 0}
  BY DEF Missing
<1>11. CASE /\ n < MaxBlock /\ missing # {} /\ blk # leaf
            /\ Goes("link", "link")
            /\ IF j = 1
               THEN /\ ip' = [ip EXCEPT !.block[TopSlot(n)] = blk]
                    /\ PutInode(ino, ip')
                    /\ UNCHANGED content
               ELSE /\ content' = [content EXCEPT ![node[j - 1]][path[j - 1]] = blk]
                    /\ UNCHANGED <<itable, ip>>
            /\ blk' = leaf
            /\ UNCHANGED leaf
  <2>1. pc' = "link"
    BY <1>11 DEF Goes
  <2>2. path # <<>>
    <3>1. path = <<>> => DOMAIN node = {}
      BY DEF Nodes
    <3>. QED  BY <1>10, <1>11, <3>1
  <2>3. /\ d \in 1 .. 3 /\ TopSlot(n) = h /\ h \in Direct .. Direct + 2
        /\ DOMAIN node = 1 .. d
        /\ \A i \in 1 .. d : path[i] \in Words
        /\ node[1] = ip.block[h] /\ node[1] \in {0} \cup Heads(h)
        /\ d >= 2 => node[2] \in {0} \cup Below(Heads(h))
    BY <1>9, <1>11, <2>2
  <2>4. j \in missing /\ \A i \in missing : j <= i
    <3>1. missing \in SUBSET Nat
      BY <1>10, <2>3
    <3>. HIDE DEF missing
    <3>. QED  BY <1>11, <3>1, MinLeast
  <2>5. node[j] = 0
    BY <1>10, <2>4
  <2>6. CASE j = 1
    <3>1. ip' = [ip EXCEPT !.block[h] = blk] /\ PutInode(ino, ip') /\ UNCHANGED content
      BY <1>11, <2>3, <2>6
    <3>2. ip.block[h] = 0 /\ h \in Direct .. Direct + 2
      BY <2>3, <2>5, <2>6
    <3>. HIDE DEF h, j, missing, node, path, d, n
    <3>3. \E m \in Direct .. Direct + 2 :
            ip.block[m] = 0 /\ ip' = [ip EXCEPT !.block[m] = blk]
      BY <3>1, <3>2
    <3>. QED  BY <1>11, <2>1, <3>1, <3>3
  <2>7. CASE j # 1
    <3>1. node[j] = Child(node[j - 1], path[j - 1]) \/ j \notin 2 .. d
      <4>1. \A i \in 1 .. d : node[i] = CASE i = 1 -> ip.block[TopSlot(n)]
               [] i = 2 -> Child(ip.block[TopSlot(n)], path[1])
               [] i = 3 -> Child(Child(ip.block[TopSlot(n)], path[1]), path[2])
        BY DEF Nodes
      <4>. HIDE DEF node, path, missing, j
      <4>2. j \in 2 .. d => j = 2 \/ j = 3
        BY <2>3
      <4>3. 1 \in 1 .. d
        <5>1. d \in 1 .. 3
          BY <2>3
        <5>. HIDE DEF d
        <5>. QED  BY <5>1
      <4>4. node[1] = ip.block[TopSlot(n)]
        BY <4>1, <4>3
      <4>5. d >= 2 => node[2] = Child(node[1], path[1])
        <5>1. d >= 2 => 2 \in 1 .. d
          BY <2>3
        <5>. QED  BY <4>1, <4>4, <5>1
      <4>6. d = 3 => node[3] = Child(node[2], path[2])
        <5>1. d = 3 => 3 \in 1 .. d
          OBVIOUS
        <5>. QED  BY <4>1, <4>4, <4>5, <5>1
      <4>7. j \in 2 .. d => d >= 2 /\ (j = 3 => d = 3)
        BY <2>3
      <4>. QED  BY <4>2, <4>5, <4>6, <4>7
    <3>. HIDE DEF j, node, path, h, missing, n, d
    <3>2. j \in 2 .. d /\ j - 1 \in 1 .. d /\ j - 1 \notin missing
      <4>1. j \in 1 .. d
        BY <1>10, <2>3, <2>4
      <4>2. j - 1 \notin missing
        BY <2>4, <4>1
      <4>. QED  BY <2>3, <2>7, <4>1, <4>2
    <3>3. node[j - 1] # 0
      BY <1>10, <2>3, <3>2
    <3>4. node[j - 1] \in PointerBlocks
      <4>0. d \in 1 .. 3 /\ h = Direct + d - 1
        BY <2>3 DEF h, d
      <4>1. h = Direct + 1 \/ h = Direct + 2
        BY <1>3, <3>2, <4>0
      <4>2. j = 2 \/ (j = 3 /\ d >= 2)
        BY <3>2, <4>0
      <4>3. CASE j = 2
        BY <2>3, <3>3, <4>1, <4>3 DEF PointerBlocks
      <4>4. CASE j = 3 /\ d >= 2
        BY <2>3, <3>3, <4>1, <4>4 DEF PointerBlocks
      <4>. QED  BY <4>2, <4>3, <4>4
    <3>5. path[j - 1] \in Words
      BY <2>3, <3>2
    <3>6. content[node[j - 1]][path[j - 1]] = 0
      BY <2>5, <3>1, <3>2, <3>3 DEF Child
    <3>7. content' = [content EXCEPT ![node[j - 1]][path[j - 1]] = blk]
          /\ UNCHANGED <<itable, ip>>
      BY <1>11, <2>7
    <3>8. \E b \in PointerBlocks, k \in Words :
            content[b][k] = 0 /\ content' = [content EXCEPT ![b][k] = blk]
      BY <3>4, <3>5, <3>6, <3>7
    <3>. QED  BY <1>11, <2>1, <3>7, <3>8
  <2>. QED  BY <2>6, <2>7
<1>12. CASE /\ n < MaxBlock /\ path # <<>> /\ missing = {}
            /\ Goes("link", "grow")
            /\ content' = [content EXCEPT ![node[d]][path[d]] =
                             IF n >= Triple THEN node[d] ELSE leaf]
            /\ UNCHANGED <<itable, ip, blk, leaf>>
  <2>1. pc' = "grow"
    BY <1>12 DEF Goes
  <2>2. /\ d \in 1 .. 3 /\ h \in Direct .. Direct + 2 /\ TopSlot(n) = h
        /\ DOMAIN node = 1 .. d
        /\ d = 3 <=> n >= Triple
        /\ \A i \in 1 .. d : path[i] \in Words
        /\ node[1] = ip.block[h] /\ node[1] \in {0} \cup Heads(h)
        /\ d >= 2 => node[2] \in {0} \cup Below(Heads(h))
        /\ d = 3 => node[3] \in {0} \cup Third
    BY <1>9, <1>12
  <2>3. d \in 1 .. d /\ node[d] # 0 /\ path[d] \in Words
    <3>1. d \in 1 .. d
      BY <2>2
    <3>. HIDE DEF node, path, missing, d
    <3>. QED  BY <1>10, <1>12, <2>2, <3>1
  <2>4. n < Triple \/ n >= Triple
    BY <1>3, Positive
  <2>5. CASE d = 3
    <3>1. n >= Triple /\ node[d] \in Third
      BY <2>2, <2>3, <2>5
    <3>2. content' = [content EXCEPT ![node[d]][path[d]] = node[d]]
      BY <1>12, <3>1
    <3>. HIDE DEF node, path, d
    <3>3. \E b \in Third, k \in Words :
            ip.blocks >= Triple /\ content' = [content EXCEPT ![b][k] = b]
      BY <2>3, <3>1, <3>2
    <3>. QED  BY <1>12, <2>1, <3>3
  <2>6. CASE d # 3
    <3>1. ~ (n >= Triple) /\ n < Triple
      BY <2>2, <2>4, <2>6
    <3>2. content' = [content EXCEPT ![node[d]][path[d]] = leaf]
      BY <1>12, <3>1
    <3>3. Whole(content, ip.block, n)
      BY <1>7, <1>12, <3>1
    <3>4. ip.block = PointersIn(itable[ino])
      BY <1>0, <1>1, <1>2, SameInode
    <3>5. CASE d = 1
      <4>1. h = Direct
        BY <1>3, <3>5
      <4>2. node[d] = ip.block[Direct] /\ node[d] \in Outer
        BY <2>2, <2>3, <3>5, <4>1 DEF Outer
      <4>3. <<-node[d], path[d]>> = Slot(ino, n)
        BY <3>4, <3>5, <4>2 DEF Slot
      <4>. HIDE DEF node, path, d
      <4>4. \E b \in Outer, k \in Words :
              /\ ip.blocks < Triple /\ Whole(content, ip.block, ip.blocks)
              /\ <<-b, k>> = Slot(ino, ip.blocks)
              /\ content' = [content EXCEPT ![b][k] = leaf]
        BY <2>3, <3>1, <3>2, <3>3, <4>2, <4>3
      <4>. QED  BY <1>12, <2>1, <4>4
    <3>6. CASE d = 2
      <4>1. h = Direct + 1
        BY <1>3, <3>6
      <4>2. node[d] \in Outer
        BY <2>2, <2>3, <3>6, <4>1 DEF Outer
      <4>3. node[d] = content[ip.block[Direct + 1]][path[1]]
        <5>1. node[d] = Child(ip.block[h], path[1])
          BY <2>2, <3>6 DEF Nodes
        <5>. QED  BY <2>3, <4>1, <5>1 DEF Child
      <4>4. <<-node[d], path[d]>> = Slot(ino, n)
        BY <3>4, <3>6, <4>3 DEF Slot
      <4>. HIDE DEF node, path, d
      <4>5. \E b \in Outer, k \in Words :
              /\ ip.blocks < Triple /\ Whole(content, ip.block, ip.blocks)
              /\ <<-b, k>> = Slot(ino, ip.blocks)
              /\ content' = [content EXCEPT ![b][k] = leaf]
        BY <2>3, <3>1, <3>2, <3>3, <4>2, <4>4
      <4>. QED  BY <1>12, <2>1, <4>5
    <3>. QED  BY <2>2, <2>6, <3>5, <3>6
  <2>. QED  BY <2>5, <2>6
<1>. QED  BY <1>4, <1>5, <1>8, <1>11, <1>12 DEF Link
LEMMA BlocksLink ==
  ASSUME FirstDataBlock = 0, BlockInv, Link
  PROVE  BlockInv'
<1>1. pc = "link" /\ UNCHANGED <<bitmap, entry>> /\ UNCHANGED <<ino, target, word>>
  BY DEF Link, Goes, call
<1>2. CASE /\ pc' \in {"grow", "scan"} /\ UNCHANGED <<itable, content, blk, leaf>>
           /\ \/ UNCHANGED ip /\ (pc' = "scan" => blk = leaf)
              \/ /\ ip.blocks < Direct /\ pc' = "grow"
                 /\ ip' = [ip EXCEPT !.block[ip.blocks] = leaf]
  BY <1>1, <1>2, BlocksLinkDirect
<1>3. CASE /\ pc' = "link" /\ blk # leaf /\ blk' = leaf /\ leaf' = leaf
           /\ \/ /\ content' = content /\ PutInode(ino, ip')
                 /\ \E h \in Direct .. Direct + 2 : ip' = [ip EXCEPT !.block[h] = blk]
              \/ /\ UNCHANGED <<itable, ip>>
                 /\ \E b \in PointerBlocks, k \in Words :
                      content' = [content EXCEPT ![b][k] = blk]
  BY <1>1, <1>3, BlocksLinkPointers
<1>4. CASE /\ pc' = "grow" /\ UNCHANGED <<itable, ip, blk, leaf>>
           /\ \/ \E b \in Outer, k \in Words : content' = [content EXCEPT ![b][k] = leaf]
              \/ \E b \in Third, k \in Words : content' = [content EXCEPT ![b][k] = b]
  BY <1>1, <1>4, BlocksLinkLeaf
<1>. QED  BY <1>2, <1>3, <1>4, LinkShape

LEMMA BlocksGrow ==
  ASSUME FirstDataBlock = 0, BlockInv, Grow
  PROVE  BlockInv'
<1> DEFINE grown == [ip EXCEPT !.blocks = @ + 1]
<1>0. TypeInv /\ OwnInv /\ SelfInv /\ AllocInv /\ CopyInv
  BY DEF BlockInv
<1>1. /\ pc = "grow" /\ ip' = grown /\ PutInode(ino, grown) /\ leaf' = 0
      /\ pc' = Allocates(ip', target)
      /\ UNCHANGED <<bitmap, content, entry, blk>>
      /\ UNCHANGED <<ino, target, word>>
  BY DEF Grow, Goes, call
<1>2. pc' \in {"scan", "data"}
  BY <1>1 DEF Allocates
<1>3. grown \in Inode /\ grown.block = ip.block /\ grown.kind = ip.kind
  BY <1>0 DEF TypeInv, Inode
<1>4. ip.blocks \in Nat
  BY <1>0 DEF TypeInv, Inode
<1>12. grown.kind # "embedded" /\ PointersIn(grown) = ip.block
  BY <1>0, <1>1, <1>3, PointersPlain DEF CopyInv, Filed
<1>. HIDE DEF grown
<1>5. ino \in 1 .. Inodes - 1 /\ Copied
  BY <1>0, <1>1 DEF CopyInv, Filed
<1>6. itable' = [itable EXCEPT ![ino] = grown]
  BY <1>1, <1>5, Ext2Assumption DEF PutInode, HasPlace
<1>7. OwnInv' /\ SelfInv'
  <2>1. CASE \A j \in 0 .. Direct + 2 : ip.block[j] = PointersIn(itable[ino])[j]
    <3>1. 0 \in 0 .. Direct + 2
      BY Ext2Assumption
    <3>2. Repoints(grown, ino, 0, 0)
      BY <1>12, <2>1 DEF Repoints
    <3>. QED  BY <1>0, <1>1, <1>5, <1>6, <3>1, <3>2, TableStep
  <2>2. CASE ~ \A j \in 0 .. Direct + 2 : ip.block[j] = PointersIn(itable[ino])[j]
    <3>1. ip.blocks \in 0 .. Direct + 2 /\ ip.blocks < Direct /\ Held(leaf)
      BY <1>5, <2>2 DEF Copied
    <3>2. Repoints(grown, ino, ip.blocks, leaf)
      BY <1>12, <1>5 DEF Copied, Repoints
    <3>. QED  BY <1>0, <1>1, <1>5, <1>6, <3>1, <3>2, TableStep
  <2>. QED  BY <2>1, <2>2
<1>8. TypeInv'
  BY <1>0, <1>1, <1>3, <1>5, <1>6 DEF TypeInv
<1>9. AllocInv'
  BY <1>1, <1>2 DEF AllocInv
<1>10. Filed'
  <2>1. itable'[ino] = grown
    BY <1>0, <1>5, <1>6 DEF TypeInv
  <2>. QED  BY <1>1, <1>3, <1>5, <1>12, <2>1 DEF Filed, Copied
<1>11. CopyInv'
  BY <1>2, <1>10 DEF CopyInv
<1>. QED  BY <1>7, <1>8, <1>9, <1>11 DEF BlockInv

(* The block of a file is none of the blocks of pointers.                  *)
LEMMA BlockOfFile ==
  ASSUME FirstDataBlock = 0, BlockInv, Filed, pc # "grow",
         NEW n \in 0 .. MaxBlock - 1, Missing(ip, n) = {}
  PROVE  /\ GetBlockNumber(ip, n) \notin PointerBlocks
<1> DEFINE d == Len(Path(n))
           node == Nodes(ip, n)
           h == Direct + d - 1
<1>0. TypeInv /\ OwnInv /\ SelfInv
  BY DEF BlockInv
<1>1. Direct \in Nat /\ n \in Nat
  BY Ext2Assumption, Positive
<1>2. CASE n < Direct
  <2>1. ~ (n >= Direct) /\ n \in 0 .. Direct - 1 /\ n \in 0 .. Direct + 2
    BY <1>1, <1>2
  <2>3. Path(n) = <<>>
    BY <1>2, PathEmpty
  <2>4. GetBlockNumber(ip, n) = ip.block[n]
    BY <2>3 DEF GetBlockNumber
  <2>5. ip.block[n] = PointersIn(itable[ino])[n] /\ ino \in 1 .. Inodes - 1
    BY <2>1, ExactCopy DEF Filed
  <2>. QED  BY <1>0, <2>1, <2>4, <2>5, DirectApart
<1>3. CASE n >= Direct
  <2>1. /\ d \in 1 .. 3 /\ DOMAIN node = 1 .. d
        /\ \A i \in 1 .. d : Path(n)[i] \in Words
        /\ node[1] \in {0} \cup Heads(h)
        /\ d >= 2 => node[2] \in {0} \cup Below(Heads(h))
        /\ d = 3 => node[3] \in {0} \cup Third
    BY <1>0, <1>3, NodesPlaced
  <2>2. d \in 1 .. d /\ node[d] # 0 /\ Path(n)[d] \in 0 .. P - 1
    BY <2>1 DEF Missing, Words
  <2>3. GetBlockNumber(ip, n) = content[node[d]][Path(n)[d]]
    <3>1. Len(Path(n)) # 0
      BY <2>1
    <3>. QED  BY <3>1 DEF GetBlockNumber
  <2>4. h = Direct + d - 1
    OBVIOUS
  <2>. HIDE DEF d, node, h
  <2>5. CASE d = 1
    <3>1. h = Direct
      BY <1>1, <2>4, <2>5
    <3>2. node[d] \in Outer
      BY <2>1, <2>2, <2>5, <3>1 DEF Outer
    <3>. QED  BY <1>0, <2>2, <2>3, <3>2, OuterWords
  <2>6. CASE d = 2
    <3>1. h = Direct + 1
      BY <1>1, <2>4, <2>6
    <3>2. node[d] \in Outer
      BY <2>1, <2>2, <2>6, <3>1 DEF Outer
    <3>. QED  BY <1>0, <2>2, <2>3, <3>2, OuterWords
  <2>7. CASE d = 3
    <3>1. node[d] \in Third
      BY <2>1, <2>2, <2>7
    <3> DEFINE g == content[node[d]][Path(n)[d]]
    <3>2. g <= 0 \/ g = node[d]
      BY <1>0, <2>2, <3>1 DEF SelfInv
    <3>3. ASSUME g \in PointerBlocks PROVE FALSE
      <4>1. 0 \in 0 .. P - 1
        BY Ext2Assumption
      <4>2. g \in 1 .. Blocks - 1
        BY <1>0, <3>3, <4>1, WordPlace
      <4>3. g = node[d]
        BY <3>2, <4>2, Ext2Assumption
      <4>. QED  BY <1>0, <3>1, <3>3, <4>3, ThirdApart
    <3>. QED  BY <2>3, <3>3
  <2>. QED  BY <2>1, <2>5, <2>6, <2>7
<1>. QED  BY <1>1, <1>2, <1>3

LEMMA BlocksWriteBlock ==
  ASSUME FirstDataBlock = 0, BlockInv, WriteBlock, ~ broken'
  PROVE  BlockInv'
<1> DEFINE g == GetBlockNumber(ip, target)
<1>0. TypeInv /\ OwnInv /\ SelfInv /\ AllocInv /\ CopyInv
  BY DEF BlockInv
<1>1. /\ pc = "data" /\ Missing(ip, target) = {}
      /\ content' = [content EXCEPT ![g] = Fill(word)] /\ Over
      /\ UNCHANGED <<bitmap, itable, entry>>
  <2>1. Numbered(ip, target)
    BY DEF WriteBlock
  <2>. QED  BY <2>1 DEF WriteBlock, Numbered, inodes
<1>2. Filed /\ target \in 0 .. MaxBlock - 1 /\ word \in Int /\ word <= 0
  BY <1>0, <1>1 DEF CopyInv, TypeInv
<1>3. g \notin PointerBlocks
  BY <1>1, <1>2, BlockOfFile
<1>. HIDE DEF g
<1>4. Fill(word) \in [0 .. P - 1 -> Int] /\ \A k \in 0 .. P - 1 : Fill(word)[k] = word
  BY <1>2 DEF Fill
<1>5. content' \in [0 .. Blocks - 1 -> [0 .. P - 1 -> Int]]
  BY <1>0, <1>1, <1>4 DEF TypeInv
<1>6. OwnInv' /\ SelfInv'
  <2>1. \A b : b # g => content'[b] = content[b]
    BY <1>0, <1>1 DEF TypeInv
  <2>2. \A b \in PointerBlocks : content'[b] = content[b]
    BY <1>3, <2>1
  <2>3. \A s \in Third, k \in 0 .. P - 1 : content'[s][k] <= 0 \/ content'[s][k] = s
    <3> SUFFICES ASSUME NEW s \in Third, NEW k \in 0 .. P - 1
                 PROVE  content'[s][k] <= 0 \/ content'[s][k] = s
      OBVIOUS
    <3>1. content[s][k] <= 0 \/ content[s][k] = s
      BY <1>0 DEF SelfInv
    <3>2. CASE s = g /\ s \in DOMAIN content
      <4>1. content'[s][k] = word
        BY <1>1, <1>4, <3>2
      <4>. QED  BY <1>2, <4>1
    <3>3. CASE s # g \/ s \notin DOMAIN content
      <4>1. content'[s] = content[s]
        BY <1>0, <1>1, <2>1, <3>3 DEF TypeInv
      <4>. QED  BY <3>1, <4>1
    <3>. QED  BY <3>2, <3>3
  <2>4. bitmap \subseteq bitmap' /\ itable' = itable
    BY <1>1
  <2>. QED  BY <1>0, <2>2, <2>3, <2>4, ElsewhereStep
<1>7. TypeInv' /\ AllocInv' /\ CopyInv'
  <2>1. itable' \in [1 .. Inodes - 1 -> Inode] /\ entry' \in [Names -> 0 .. Inodes]
    BY <1>0, <1>1 DEF TypeInv
  <2>. QED  BY <1>0, <1>1, <1>5, <2>1, BlocksOver
<1>. QED  BY <1>6, <1>7 DEF BlockInv

LEMMA BlocksCrash ==
  ASSUME FirstDataBlock = 0, BlockInv, Crash
  PROVE  BlockInv'
<1>0. TypeInv /\ OwnInv /\ SelfInv
  BY DEF BlockInv
<1>1. Over /\ UNCHANGED <<bitmap, itable, content, entry>>
  BY DEF Crash, disk
<1>2. OwnInv' /\ SelfInv' /\ Kept(0)
  BY <1>0, <1>1, SameBlocks
<1>3. TypeInv' /\ AllocInv' /\ CopyInv'
  <2>1. /\ itable' \in [1 .. Inodes - 1 -> Inode]
        /\ content' \in [0 .. Blocks - 1 -> [0 .. P - 1 -> Int]]
        /\ entry' \in [Names -> 0 .. Inodes]
    BY <1>0, <1>1 DEF TypeInv
  <2>. QED  BY <1>0, <1>1, <2>1, BlocksOver
<1>. QED  BY <1>2, <1>3 DEF BlockInv

LEMMA BlocksStutter ==
  ASSUME FirstDataBlock = 0, BlockInv, UNCHANGED vars
  PROVE  BlockInv'
<1>0. TypeInv /\ OwnInv /\ SelfInv /\ AllocInv /\ CopyInv
  BY DEF BlockInv
<1>1. /\ UNCHANGED <<bitmap, free, itable, content, entry, pc>>
      /\ UNCHANGED <<ino, target, word, ip, blk, leaf>>
  BY DEF vars, disk, call
<1>2. OwnInv' /\ SelfInv' /\ Kept(0)
  BY <1>0, <1>1, SameBlocks
<1>3. TypeInv'
  BY <1>0, <1>1 DEF TypeInv
<1>4. (Held(blk) => Held(blk)') /\ (Held(leaf) => Held(leaf)')
  <2>1. \A b \in Int : Held(b) => Held(b)'
    BY <1>2, HeldKept DEF Held
  <2>2. blk \in Int /\ leaf \in Int
    BY <1>0 DEF TypeInv
  <2>. QED  BY <1>1, <2>1, <2>2 DEF Held
<1>5. AllocInv'
  <2>1. Fill(0)' = Fill(0)
    BY DEF Fill
  <2>. QED  BY <1>0, <1>1, <1>4, <2>1 DEF AllocInv
<1>6. Filed => Filed'
  BY <1>1, <1>4 DEF Filed, Copied
<1>7. CopyInv'
  BY <1>0, <1>1, <1>6 DEF CopyInv
<1>. QED  BY <1>2, <1>3, <1>5, <1>7 DEF BlockInv

LEMMA BlocksStep ==
  ASSUME FirstDataBlock = 0, IInv, ~ broken => BlockInv, [Next]_vars
  PROVE  ~ broken' => BlockInv'
<1> SUFFICES ASSUME ~ broken' PROVE BlockInv'
  OBVIOUS
<1>1. CASE Call
  <2>1. ~ broken => BlockInv
    OBVIOUS
  <2>2. ASSUME NEW i \in Files, Truncate(i) PROVE BlockInv'
    BY <2>2, BlocksTruncate DEF Truncate, Begins
  <2>3. ASSUME NEW i \in Files, NEW n \in Targets, NEW w \in Data, Write(i, n, w)
        PROVE  BlockInv'
    BY <2>3, BlocksWrite DEF Write, Begins
  <2>4. ASSUME NEW x \in Names, Unlink(x) PROVE BlockInv'
    BY <2>4, BlocksUnlink DEF Unlink, Begins
  <2>5. ASSUME NEW x \in Names, NEW kind \in Kinds, Create(x, kind) PROVE BlockInv'
    BY <2>5, BlocksCreate DEF Create, Begins
  <2>. QED  BY <1>1, <2>2, <2>3, <2>4, <2>5 DEF Call
<1>2. CASE WriteInode \/ CreateEntry \/ WriteSize \/ Scan \/ ScanFails \/ Count \/ Zero
  <2>1. BlockInv
    BY <1>2 DEF WriteInode, CreateEntry, WriteSize, Scan, ScanFails, Count, Zero
  <2>. QED  BY <1>2, <2>1, BlocksWriteInode, BlocksCreateEntry, BlocksWriteSize,
               BlocksScan, BlocksScanFails, BlocksCount, BlocksZero
<1>3. CASE Link
  BY <1>3, BlocksLink DEF Link
<1>4. CASE Grow
  BY <1>4, BlocksGrow DEF Grow
<1>5. CASE WriteBlock
  <2>1. broken' = broken \/ broken' = TRUE
    BY <1>5 DEF WriteBlock
  <2>. QED  BY <1>5, <2>1, BlocksWriteBlock
<1>6. CASE Crash
  BY <1>6, BlocksCrash DEF Crash
<1>7. CASE UNCHANGED vars
  BY <1>7, BlocksStutter DEF vars
<1>. QED  BY <1>1, <1>2, <1>3, <1>4, <1>5, <1>6, <1>7 DEF Next, Proceed

(* What mke2fs leaves.                                                     *)
LEMMA BlocksInit ==
  ASSUME FirstDataBlock = 0, Init
  PROVE  BlockInv
<1>0. /\ Direct \in Nat /\ Direct >= 1 /\ Inodes \in Nat /\ Inodes > 2
      /\ Blocks \in Nat /\ OldFile = 2 /\ OldFile \in 1 .. Inodes - 1
      /\ OldBlock \in 1 .. Blocks - 1 /\ OldBlock \notin Reserved
      /\ Reserved \subseteq 1 .. Blocks - 1 /\ OldBlock # 0 /\ OldBlock \in Int
  BY Ext2Assumption DEF OldFile
<1>1. bitmap = Reserved \cup {OldBlock, 0}
  BY <1>0 DEF Init
<1>2. /\ Fresh("none") \in Inode /\ Fresh("file") \in Inode
      /\ \A j \in 0 .. Direct + 2 : /\ Fresh("none").block[j] = 0
                                    /\ Fresh("file").block[j] = 0
  BY FreshInode DEF Kinds
<1> DEFINE old == [Fresh("file") EXCEPT !.size = 1, !.blocks = 1, !.block[0] = OldBlock]
<1>3. old \in Inode
  <2>1. 0 \in 0 .. Direct + 2
    BY <1>0
  <2>. QED  BY <1>0, <1>2, <2>1 DEF Inode
<1>4. \A j \in 0 .. Direct + 2 : old.block[j] = IF j = 0 THEN OldBlock ELSE 0
  BY <1>2 DEF Inode
<1>. HIDE DEF old
<1>5. itable = [i \in 1 .. Inodes - 1 |-> IF i = OldFile THEN old ELSE Fresh("none")]
  BY DEF Init, old
<1>6. \A i \in 1 .. Inodes - 1, j \in 0 .. Direct + 2 :
        PointersIn(itable[i])[j] = IF i = OldFile /\ j = 0 THEN OldBlock ELSE 0
  <2>1. old.kind = "file" /\ Fresh("none").kind = "none"
    BY DEF old, Fresh
  <2>2. PointersIn(old) = old.block /\ PointersIn(Fresh("none")) = Fresh("none").block
    BY <2>1, PointersPlain
  <2>. QED  BY <1>2, <1>4, <1>5, <2>2
<1>7. /\ Heads(Direct) = {} /\ Heads(Direct + 1) = {} /\ Heads(Direct + 2) = {}
  <2>1. /\ Direct \in 0 .. Direct + 2 /\ Direct + 1 \in 0 .. Direct + 2
        /\ Direct + 2 \in 0 .. Direct + 2
        /\ Direct # 0 /\ Direct + 1 # 0 /\ Direct + 2 # 0
    BY <1>0
  <2>2. DOMAIN itable = 1 .. Inodes - 1
    BY <1>5
  <2>. QED  BY <1>6, <2>1, <2>2 DEF Heads
<1>8. PointerBlocks = {} /\ Third = {}
  BY <1>7 DEF PointerBlocks, Third, Below
<1>9. TypeInv
  <2>1. itable \in [1 .. Inodes - 1 -> Inode]
    BY <1>2, <1>3, <1>5
  <2>2. content \in [0 .. Blocks - 1 -> [0 .. P - 1 -> Int]]
    BY <1>0, Ext2Assumption DEF Init, Fill
  <2>3. bitmap \subseteq Bits /\ {0} \cup Reserved \subseteq bitmap
    BY <1>0, <1>1 DEF Bits
  <2>4. entry \in [Names -> 0 .. Inodes] /\ ino \in 0 .. Inodes
    BY <1>0 DEF Init
  <2>5. 0 \in 0 .. MaxBlock - 1
    BY <1>0, Positive
  <2>. QED  BY <1>2, <2>1, <2>2, <2>3, <2>4, <2>5 DEF Init, TypeInv
<1>10. \A p \in Pointers : PointsTo(p) # 0 => p = <<OldFile, 0>> /\ PointsTo(p) = OldBlock
  <2> SUFFICES ASSUME NEW p \in Pointers, PointsTo(p) # 0
               PROVE  p = <<OldFile, 0>> /\ PointsTo(p) = OldBlock
    OBVIOUS
  <2>1. DOMAIN itable = 1 .. Inodes - 1
    BY <1>5
  <2>2. PICK i \in 1 .. Inodes - 1, j \in 0 .. Direct + 2 : p = <<i, j>>
    BY <1>8, <2>1 DEF Pointers
  <2>3. PointsTo(p) = PointersIn(itable[i])[j]
    BY <2>2 DEF PointsTo
  <2>. QED  BY <1>6, <2>2, <2>3
<1>11. OwnInv
  BY <1>0, <1>1, <1>10 DEF OwnInv
<1>12. SelfInv /\ AllocInv /\ CopyInv
  BY <1>8 DEF Init, SelfInv, AllocInv, CopyInv
<1>. QED  BY <1>9, <1>11, <1>12 DEF BlockInv

(* On a disk whose bitmap starts with block 0, every block that an inode or *)
(* a block of pointers names is marked in the bitmap, is none of the file  *)
(* system's own and is named once, at every moment between two writes and  *)
(* after every crash: what allocate_block returns is nobody's, and it is   *)
(* cleared before set_block_number links it.                               *)
THEOREM BlocksCorrect ==
  ASSUME FirstDataBlock = 0
  PROVE  Spec => []BlocksOwned
<1> DEFINE J == IInv /\ (~ broken => BlockInv)
<1>1. Init => J
  BY BlocksInit, CountInit
<1>2. J /\ [Next]_vars => J'
  BY BlocksStep, CountStep
<1>3. J => BlocksOwned
  <2> SUFFICES ASSUME J, ~ broken PROVE BlocksOwned
    BY DEF BlocksOwned
  <2>1. TypeInv /\ OwnInv
    BY DEF BlockInv
  <2>2. \A p \in Pointers : PointsTo(p) # 0 =>
          PointsTo(p) - FirstDataBlock \in bitmap /\ PointsTo(p) \notin Reserved
    <3> SUFFICES ASSUME NEW p \in Pointers, PointsTo(p) # 0
                 PROVE  /\ PointsTo(p) - FirstDataBlock \in bitmap
                        /\ PointsTo(p) \notin Reserved
      OBVIOUS
    <3>1. PointsTo(p) \in bitmap \ Reserved
      BY <2>1 DEF OwnInv
    <3>2. PointsTo(p) \in Int
      <4>1. PointsTo(p) \in Bits
        BY <2>1, <3>1 DEF TypeInv
      <4>2. Bits \subseteq Int
        BY Ext2Assumption DEF Bits
      <4>. QED  BY <4>1, <4>2
    <3>3. PointsTo(p) - FirstDataBlock = PointsTo(p)
      BY <3>2
    <3>. QED  BY <3>1, <3>3
  <2>3. \A p, q \in Pointers : PointsTo(p) # 0 /\ PointsTo(p) = PointsTo(q) => p = q
    BY <2>1 DEF OwnInv
  <2>. QED  BY <2>2, <2>3 DEF BlocksOwned
<1>. HIDE DEF J
<1>. QED  BY <1>1, <1>2, <1>3, PTL DEF Spec

-----------------------------------------------------------------------------
(* Block n of a file is there and holds what was written last, or there was *)
(* no block left for the pointers to it, and there is none now.            *)
Filled(i, n) ==
  IF Whole(content, PointersIn(itable[i]), n)
  THEN /\ BlockAt(content, PointersIn(itable[i]), n) # 0
       /\ content[BlockAt(content, PointersIn(itable[i]), n)] = file[i][n]
  ELSE free = 0 /\ pc \notin {"count", "zero", "link"}

(* The inode in memory tells as many blocks as the one on the disk.        *)
Agree == ino # 0 => /\ ip.kind = itable[ino].kind
                    /\ ip.blocks = itable[ino].blocks

Working == pc \notin {"idle", "inode", "entry"}

LengthInv ==
  /\ file \in [1 .. Inodes -> [0 .. MaxBlock - 1 -> [0 .. P - 1 -> Int]]]
  /\ \A i \in 1 .. Inodes - 1, n \in 0 .. Triple - 1 :
       n >= itable[i].blocks => file[i][n] = Fill(0)
  /\ \A i \in 1 .. Inodes - 1 :
       i \notin imarked \/ (pc = "inode" /\ ino = i)
         => itable[i].kind = "none" /\ itable[i].blocks = 0
  /\ pc = "inode" => ip.blocks = 0
  /\ pc = "entry" /\ HasPlace(ino) => Agree
  /\ Working => Agree
  /\ pc = "data" => target < ip.blocks

FilledInv ==
  \A i \in 1 .. Inodes - 1, n \in 0 .. Triple - 1 :
    n < itable[i].blocks => Filled(i, n)

(* The block that is to be the file's next is empty, and what "grow" adds   *)
(* is that block, if there was one for the pointers.                       *)
NextInv ==
  /\ pc \in {"scan", "count", "zero", "link"} /\ leaf # 0 => content[leaf] = Fill(0)
  /\ pc = "scan" /\ leaf # 0 /\ ip.blocks < Triple
       => ~ Whole(content, ip.block, ip.blocks)
  /\ pc = "grow" /\ ip.blocks < Triple =>
       IF Whole(content, ip.block, ip.blocks)
       THEN /\ leaf # 0 /\ BlockAt(content, ip.block, ip.blocks) = leaf
            /\ content[leaf] = Fill(0)
       ELSE free = 0

(* A directory or link with a block of its own gets it, or is being made,  *)
(* or a crash cut that short.                                              *)
DotsInv ==
  /\ pc # "idle" /\ ip.kind \in Buffered => target = 0 /\ word = Dots
  /\ \A i \in 1 .. Inodes - 1 :
       itable[i].kind \in Buffered /\ itable[i].size > 0
         => \/ file[i][0] = Fill(Dots)
            \/ pc # "idle" /\ ino = i
            \/ i \in cut

(* An embedded link has its target from the moment it is made.             *)
Worded(inode) == inode.kind = "embedded" => inode.size > 0 /\ inode.block = Text

TextInv == Worded(ip) /\ \A i \in 1 .. Inodes - 1 : Worded(itable[i])

FileInv == LengthInv /\ FilledInv /\ NextInv /\ DotsInv

EntryInv ==
  /\ imarked \subseteq 1 .. Inodes /\ OldFile \in imarked
  /\ \A x \in Names : entry[x] # 0 =>
       /\ entry[x] \in imarked
       /\ HasPlace(entry[x]) => itable[entry[x]].kind # "none"
       /\ \A y \in Names : entry[x] = entry[y] => x = y
  /\ ino # 0 => ino \in imarked
  /\ pc \in {"inode", "entry"} => ino # 0 /\ \A x \in Names : entry[x] # ino
  /\ pc = "inode" => ip.kind # "none"
  /\ pc = "entry" /\ HasPlace(ino) => itable[ino].kind # "none"

LEMMA Slots ==
  ASSUME FirstDataBlock = 0, TypeInv, OwnInv, NEW i \in 1 .. Inodes - 1,
         NEW n \in 0 .. Triple - 1, Whole(content, PointersIn(itable[i]), n)
  PROVE  /\ Slot(i, n) \in Pointers
         /\ PointsTo(Slot(i, n)) = BlockAt(content, PointersIn(itable[i]), n)
         /\ \/ n < Direct /\ Slot(i, n) = <<i, n>>
            \/ \E b \in Outer, k \in 0 .. P - 1 : Slot(i, n) = <<-b, k>>
         /\ Len(Path(n)) = 1 => PointersIn(itable[i])[Direct] \in Heads(Direct)
         /\ Len(Path(n)) = 2 =>
              /\ PointersIn(itable[i])[Direct + 1] \in Heads(Direct + 1)
              /\ content[PointersIn(itable[i])[Direct + 1]][Path(n)[1]]
                   \in Below(Heads(Direct + 1))
<1> DEFINE d == Len(Path(n))
           f == PointersIn(itable[i])
           b == content[f[Direct + 1]][Path(n)[1]]
<1>0. Direct \in Nat /\ DOMAIN itable = 1 .. Inodes - 1
  BY Ext2Assumption DEF TypeInv
<1>1. /\ d \in 0 .. 2 /\ (d = 0 <=> n < Direct)
      /\ \A j \in 1 .. d : Path(n)[j] \in 0 .. P - 1
  BY ShortPath
<1>2. CASE d = 0
  <2>1. n \in 0 .. Direct + 2 /\ n < Direct
    BY <1>0, <1>1, <1>2
  <2>2. Slot(i, n) = <<i, n>> /\ BlockAt(content, f, n) = f[n]
    BY <1>2 DEF Slot, BlockAt
  <2>. QED  BY <1>2, <2>1, <2>2, HeadPlace
<1>3. CASE d = 1
  <2>1. Slot(i, n) = <<-f[Direct], Path(n)[1]>>
        /\ BlockAt(content, f, n) = content[f[Direct]][Path(n)[1]]
    BY <1>3 DEF Slot, BlockAt
  <2>2. f[Direct] \in Heads(Direct) /\ Path(n)[1] \in 0 .. P - 1
    BY <1>0, <1>1, <1>3 DEF Whole, Heads
  <2>3. f[Direct] \in Outer /\ f[Direct] \in PointerBlocks
    BY <2>2 DEF Outer, PointerBlocks
  <2>. QED  BY <1>3, <2>1, <2>2, <2>3, WordPlace
<1>4. CASE d = 2
  <2>1. Slot(i, n) = <<-b, Path(n)[2]>>
        /\ BlockAt(content, f, n) = content[b][Path(n)[2]]
    BY <1>4 DEF Slot, BlockAt
  <2>2. f[Direct + 1] \in Heads(Direct + 1) /\ b # 0
    BY <1>0, <1>4 DEF Whole, Heads
  <2>3. Path(n)[1] \in 0 .. P - 1 /\ Path(n)[2] \in 0 .. P - 1
    BY <1>1, <1>4
  <2>4. b \in Below(Heads(Direct + 1))
    BY <2>2, <2>3 DEF Below
  <2>5. b \in Outer /\ b \in PointerBlocks
    BY <2>4 DEF Outer, PointerBlocks
  <2>. HIDE DEF b
  <2>6. /\ <<-b, Path(n)[2]>> \in Pointers
        /\ PointsTo(<<-b, Path(n)[2]>>) = content[b][Path(n)[2]]
    BY <2>3, <2>5, WordPlace
  <2>7. /\ Slot(i, n) \in Pointers
        /\ PointsTo(Slot(i, n)) = BlockAt(content, f, n)
    BY <2>1, <2>6
  <2>8. \E h \in Outer, k \in 0 .. P - 1 : Slot(i, n) = <<-h, k>>
    BY <2>1, <2>3, <2>5
  <2>9. /\ d # 1 /\ f[Direct + 1] \in Heads(Direct + 1)
        /\ b \in Below(Heads(Direct + 1))
    BY <1>4, <2>2, <2>4
  <2>. QED  BY <2>7, <2>8, <2>9 DEF b
<1>. QED  BY <1>1, <1>2, <1>3, <1>4

(* A file's block is no block of pointers, and has one place in one file.  *)
LEMMA DataBlock ==
  ASSUME FirstDataBlock = 0, TypeInv, OwnInv, NEW i \in 1 .. Inodes - 1,
         NEW n \in 0 .. Triple - 1, Whole(content, PointersIn(itable[i]), n),
         BlockAt(content, PointersIn(itable[i]), n) # 0
  PROVE  LET b == BlockAt(content, PointersIn(itable[i]), n)
         IN b \in 1 .. Blocks - 1 /\ b \notin PointerBlocks /\ b \notin Third
<1> DEFINE b == BlockAt(content, PointersIn(itable[i]), n)
<1>1. /\ Slot(i, n) \in Pointers /\ PointsTo(Slot(i, n)) = b
      /\ \/ n < Direct /\ Slot(i, n) = <<i, n>>
         \/ \E h \in Outer, k \in 0 .. P - 1 : Slot(i, n) = <<-h, k>>
  BY Slots
<1>2. b \in 1 .. Blocks - 1
  BY <1>1, InRange DEF OwnInv
<1>3. CASE n < Direct /\ Slot(i, n) = <<i, n>>
  <2>1. n \in 0 .. Direct - 1 /\ n \in 0 .. Direct + 2
    BY <1>3, Ext2Assumption
  <2>2. b = PointersIn(itable[i])[n]
    BY <1>1, <1>3, <2>1, HeadPlace
  <2>3. b \notin PointerBlocks
    BY <2>1, <2>2, DirectApart
  <2>4. b \in Third => FALSE
    <3> SUFFICES ASSUME b \in Third PROVE FALSE
      OBVIOUS
    <3>1. PICK c \in Below(Heads(Direct + 2)), k \in 0 .. P - 1 : content[c][k] = b
      BY DEF Third, Below
    <3>2. c \in PointerBlocks
      BY DEF PointerBlocks
    <3>3. /\ c \in 1 .. Blocks - 1 /\ <<-c, k>> \in Pointers
          /\ PointsTo(<<-c, k>>) = b
      BY <3>1, <3>2, WordPlace
    <3>4. <<-c, k>> = <<i, n>>
      BY <1>1, <1>2, <1>3, <3>3, Ext2Assumption DEF OwnInv
    <3>. QED  BY <3>3, <3>4, Ext2Assumption
  <2>. QED  BY <1>2, <2>3, <2>4
<1>4. CASE \E h \in Outer, k \in 0 .. P - 1 : Slot(i, n) = <<-h, k>>
  <2>1. PICK h \in Outer, k \in 0 .. P - 1 : Slot(i, n) = <<-h, k>>
    BY <1>4
  <2>2. h \in PointerBlocks
    BY Sides
  <2>3. b = content[h][k] /\ b # 0
    BY <1>1, <2>1, <2>2, WordPlace
  <2>4. b \notin PointerBlocks
    BY <2>3, OuterWords
  <2>5. b \in Third => FALSE
    <3> SUFFICES ASSUME b \in Third PROVE FALSE
      OBVIOUS
    <3>1. PICK c \in Below(Heads(Direct + 2)), l \in 0 .. P - 1 : content[c][l] = b
      BY DEF Third, Below
    <3>2. c \in PointerBlocks /\ c \in Inner
      BY DEF PointerBlocks, Inner
    <3>3. h # c
      BY <3>2, OuterNotInner
    <3>. QED  BY <2>2, <2>3, <3>1, <3>2, <3>3, WordsApart
  <2>. QED  BY <1>2, <2>4, <2>5
<1>. QED  BY <1>1, <1>3, <1>4

LEMMA SlotsApart ==
  ASSUME FirstDataBlock = 0, TypeInv, OwnInv,
         NEW i \in 1 .. Inodes - 1, NEW n \in 0 .. Triple - 1,
         NEW j \in 1 .. Inodes - 1, NEW m \in 0 .. Triple - 1,
         Whole(content, PointersIn(itable[i]), n), Whole(content, PointersIn(itable[j]), m),
         Slot(i, n) = Slot(j, m)
  PROVE  i = j /\ n = m
<1> DEFINE d == Len(Path(n))
           e == Len(Path(m))
           f == PointersIn(itable[i])
           g == PointersIn(itable[j])
<1>0. Direct \in Nat /\ P \in Nat /\ P >= 1 /\ Double \in Int
  BY Ext2Assumption DEF Double
<1>1. /\ d \in 0 .. 2 /\ (d = 0 <=> n < Direct)
      /\ \A l \in 1 .. d : Path(n)[l] \in 0 .. P - 1
      /\ d = 1 => n = Direct + Path(n)[1]
      /\ d = 2 => n = Double + P * Path(n)[1] + Path(n)[2]
  BY ShortPath
<1>2. /\ e \in 0 .. 2 /\ (e = 0 <=> m < Direct)
      /\ \A l \in 1 .. e : Path(m)[l] \in 0 .. P - 1
      /\ e = 1 => m = Direct + Path(m)[1]
      /\ e = 2 => m = Double + P * Path(m)[1] + Path(m)[2]
  BY ShortPath
<1>3. /\ d = 1 => f[Direct] \in Heads(Direct)
      /\ d = 2 => /\ f[Direct + 1] \in Heads(Direct + 1)
                  /\ content[f[Direct + 1]][Path(n)[1]] \in Below(Heads(Direct + 1))
  BY Slots
<1>4. /\ e = 1 => g[Direct] \in Heads(Direct)
      /\ e = 2 => /\ g[Direct + 1] \in Heads(Direct + 1)
                  /\ content[g[Direct + 1]][Path(m)[1]] \in Below(Heads(Direct + 1))
  BY Slots
<1>5. \A b \in Outer : b \in 1 .. Blocks - 1 /\ b \in PointerBlocks
  <2>1. 0 \in 0 .. P - 1
    BY <1>0
  <2>. QED  BY <2>1, Sides, WordPlace
<1>6. /\ d = 0 => Slot(i, n) = <<i, n>>
      /\ d = 1 => Slot(i, n) = <<-f[Direct], Path(n)[1]>>
      /\ d = 2 => Slot(i, n) = <<-content[f[Direct + 1]][Path(n)[1]], Path(n)[2]>>
  BY DEF Slot
<1>7. /\ e = 0 => Slot(j, m) = <<j, m>>
      /\ e = 1 => Slot(j, m) = <<-g[Direct], Path(m)[1]>>
      /\ e = 2 => Slot(j, m) = <<-content[g[Direct + 1]][Path(m)[1]], Path(m)[2]>>
  BY DEF Slot
<1>8. /\ Direct \in 0 .. Direct + 2 /\ Direct + 1 \in 0 .. Direct + 2
      /\ Direct + 1 \in Direct + 1 .. Direct + 2
  BY <1>0
(* Two inodes do not share a block of pointers.                            *)
<1>9. ASSUME NEW s \in 0 .. Direct + 2, f[s] = g[s], f[s] # 0
      PROVE  i = j
  <2>1. /\ <<i, s>> \in Pointers /\ PointsTo(<<i, s>>) = f[s]
        /\ <<j, s>> \in Pointers /\ PointsTo(<<j, s>>) = g[s]
    BY HeadPlace
  <2>2. <<i, s>> = <<j, s>>
    BY <1>9, <2>1 DEF OwnInv
  <2>. QED  BY <2>2
<1>. HIDE DEF d, e
<1>10. (d = 1 => f[Direct] \in Outer) /\ (e = 1 => g[Direct] \in Outer)
  BY <1>3, <1>4 DEF Outer
<1>11. /\ d = 2 => content[f[Direct + 1]][Path(n)[1]] \in Outer
       /\ e = 2 => content[g[Direct + 1]][Path(m)[1]] \in Outer
  BY <1>3, <1>4 DEF Outer
<1>12. CASE d = 0
  <2>1. e # 1 /\ e # 2
    <3>1. \A b \in 1 .. Blocks - 1 : i # -b
      BY Ext2Assumption
    <3>. QED  BY <1>5, <1>6, <1>7, <1>10, <1>11, <1>12, <3>1
  <2>2. e = 0
    BY <1>2, <2>1
  <2>. QED  BY <1>6, <1>7, <1>12, <2>2
<1>13. CASE d = 1
  <2>1. e # 0
    <3>1. \A b \in 1 .. Blocks - 1 : j # -b
      BY Ext2Assumption
    <3>. QED  BY <1>5, <1>6, <1>7, <1>10, <1>13, <3>1
  <2>2. e # 2
    <3> SUFFICES ASSUME e = 2 PROVE FALSE
      OBVIOUS
    <3>1. -f[Direct] = -content[g[Direct + 1]][Path(m)[1]]
      BY <1>6, <1>7, <1>13
    <3>2. /\ f[Direct] \in 1 .. Blocks - 1
          /\ content[g[Direct + 1]][Path(m)[1]] \in 1 .. Blocks - 1
      BY <1>5, <1>10, <1>11, <1>13
    <3>3. f[Direct] = content[g[Direct + 1]][Path(m)[1]]
      BY <3>1, <3>2, Ext2Assumption
    <3>. QED  BY <1>3, <1>4, <1>8, <1>13, <3>3, HeadsNotBelow
  <2>3. e = 1
    BY <1>2, <2>1, <2>2
  <2>4. -f[Direct] = -g[Direct] /\ Path(n)[1] = Path(m)[1]
    BY <1>6, <1>7, <1>13, <2>3
  <2>5. f[Direct] \in 1 .. Blocks - 1 /\ g[Direct] \in 1 .. Blocks - 1
    BY <1>5, <1>10, <1>13, <2>3
  <2>6. f[Direct] = g[Direct] /\ f[Direct] # 0
    BY <2>4, <2>5, Ext2Assumption
  <2>7. i = j
    BY <1>8, <1>9, <2>6
  <2>. QED  BY <1>1, <1>2, <1>13, <2>3, <2>4, <2>7
<1>14. CASE d = 2
  <2> DEFINE b == content[f[Direct + 1]][Path(n)[1]]
             c == content[g[Direct + 1]][Path(m)[1]]
  <2>1. e # 0
    <3>1. \A h \in 1 .. Blocks - 1 : j # -h
      BY Ext2Assumption
    <3>. QED  BY <1>5, <1>6, <1>7, <1>11, <1>14, <3>1
  <2>2. e # 1
    <3> SUFFICES ASSUME e = 1 PROVE FALSE
      OBVIOUS
    <3>1. -g[Direct] = -b
      BY <1>6, <1>7, <1>14
    <3>2. g[Direct] \in 1 .. Blocks - 1 /\ b \in 1 .. Blocks - 1
      BY <1>5, <1>10, <1>11, <1>14
    <3>3. g[Direct] = b
      BY <3>1, <3>2, Ext2Assumption
    <3>. QED  BY <1>3, <1>4, <1>8, <1>14, <3>3, HeadsNotBelow
  <2>3. e = 2
    BY <1>2, <2>1, <2>2
  <2>4. -b = -c /\ Path(n)[2] = Path(m)[2]
    BY <1>6, <1>7, <1>14, <2>3
  <2>5. b \in 1 .. Blocks - 1 /\ c \in 1 .. Blocks - 1
    BY <1>5, <1>11, <1>14, <2>3
  <2>6. b = c /\ b # 0
    BY <2>4, <2>5, Ext2Assumption
  <2>7. /\ Path(n)[1] \in 0 .. P - 1 /\ Path(m)[1] \in 0 .. P - 1
        /\ f[Direct + 1] \in PointerBlocks /\ g[Direct + 1] \in PointerBlocks
    BY <1>1, <1>2, <1>3, <1>4, <1>14, <2>3 DEF PointerBlocks
  <2>8. /\ f[Direct + 1] \in 1 .. Blocks - 1 /\ g[Direct + 1] \in 1 .. Blocks - 1
        /\ <<-f[Direct + 1], Path(n)[1]>> \in Pointers
        /\ PointsTo(<<-f[Direct + 1], Path(n)[1]>>) = b
        /\ <<-g[Direct + 1], Path(m)[1]>> \in Pointers
        /\ PointsTo(<<-g[Direct + 1], Path(m)[1]>>) = c
    BY <2>7, WordPlace
  <2>9. <<-f[Direct + 1], Path(n)[1]>> = <<-g[Direct + 1], Path(m)[1]>>
    BY <2>6, <2>8 DEF OwnInv
  <2>10. -f[Direct + 1] = -g[Direct + 1] /\ Path(n)[1] = Path(m)[1]
    BY <2>9
  <2>11. f[Direct + 1] = g[Direct + 1] /\ f[Direct + 1] # 0
    BY <2>8, <2>10, Ext2Assumption
  <2>12. i = j
    BY <1>8, <1>9, <2>11
  <2>. QED  BY <1>1, <1>2, <1>14, <2>3, <2>4, <2>10, <2>12
<1>. QED  BY <1>1, <1>12, <1>13, <1>14

LEMMA BlocksApart ==
  ASSUME FirstDataBlock = 0, TypeInv, OwnInv,
         NEW i \in 1 .. Inodes - 1, NEW n \in 0 .. Triple - 1,
         NEW j \in 1 .. Inodes - 1, NEW m \in 0 .. Triple - 1,
         Whole(content, PointersIn(itable[i]), n), Whole(content, PointersIn(itable[j]), m),
         BlockAt(content, PointersIn(itable[i]), n) # 0,
         BlockAt(content, PointersIn(itable[i]), n) = BlockAt(content, PointersIn(itable[j]), m)
  PROVE  i = j /\ n = m
<1>1. /\ Slot(i, n) \in Pointers
      /\ PointsTo(Slot(i, n)) = BlockAt(content, PointersIn(itable[i]), n)
  BY Slots
<1>2. /\ Slot(j, m) \in Pointers
      /\ PointsTo(Slot(j, m)) = BlockAt(content, PointersIn(itable[j]), m)
  BY Slots
<1>3. Slot(i, n) = Slot(j, m)
  BY <1>1, <1>2 DEF OwnInv
<1>. QED  BY <1>3, SlotsApart

-----------------------------------------------------------------------------
(* The records: lengths, kinds and entries, step by step.                  *)
Records == LengthInv /\ DotsInv /\ EntryInv

(* One inode of the table is written, and keeps its kind and its blocks.   *)
LEMMA Rewritten ==
  ASSUME TypeInv, NEW i \in 1 .. Inodes - 1, NEW inode,
         itable' = [itable EXCEPT ![i] = inode]
  PROVE  \A m \in 1 .. Inodes - 1 : itable'[m] = IF m = i THEN inode ELSE itable[m]
BY DEF TypeInv

LEMMA RecordsWrite ==
  ASSUME BlockInv, Records, NEW i \in Files, NEW n \in Targets, NEW w \in Data,
         Write(i, n, w)
  PROVE  Records'
<1> DEFINE grown == [itable[i] EXCEPT !.size = Max({@, n + 1})]
<1>0. TypeInv /\ LengthInv /\ DotsInv /\ EntryInv
  BY DEF BlockInv, Records
<1>1. /\ pc = "idle" /\ ~ broken /\ ino' = i /\ ip' = grown /\ target' = n
      /\ PutInode(i, grown) /\ pc' = Allocates(grown, n)
      /\ UNCHANGED <<imarked, entry, file, cut, broken>>
  BY DEF Write, Begins
<1>2. /\ i \in 1 .. Inodes - 1 /\ HasPlace(i) /\ itable[i] \in Inode
      /\ itable[i].kind = "file"
  BY <1>0, FileInodes DEF Files
<1>3. grown.kind = "file" /\ grown.blocks = itable[i].blocks /\ grown.blocks \in Nat
  BY <1>2 DEF Inode
<1>4. n \in Nat
  BY Ext2Assumption, Positive
<1>5. pc' \in {"scan", "data"} /\ (pc' = "data" => n < grown.blocks)
  BY <1>1, <1>3, <1>4 DEF Allocates
<1>. HIDE DEF grown
<1>6. \A m \in 1 .. Inodes - 1 : itable'[m] = IF m = i THEN grown ELSE itable[m]
  <2>1. itable' = [itable EXCEPT ![i] = grown]
    BY <1>1, <1>2 DEF PutInode
  <2>. QED  BY <1>0, <1>2, <2>1, Rewritten
<1>7. i \in imarked
  BY <1>0, <1>2 DEF LengthInv
<1>8. LengthInv'
  BY <1>0, <1>1, <1>2, <1>3, <1>5, <1>6, <1>7 DEF LengthInv, Agree, Working
<1>9. DotsInv'
  <2>1. grown.kind \notin Buffered /\ itable[i].kind \notin Buffered
    BY <1>2, <1>3 DEF Buffered
  <2>. QED  BY <1>0, <1>1, <1>2, <1>6, <2>1 DEF DotsInv
<1>10. EntryInv'
  <2>1. \A m \in 1 .. Inodes - 1 : itable'[m].kind = itable[m].kind
    BY <1>2, <1>3, <1>6
  <2>2. \A x \in Names : entry[x] # 0 /\ HasPlace(entry[x]) => entry[x] \in 1 .. Inodes - 1
    BY <1>0, Ext2Assumption DEF TypeInv, HasPlace
  <2>. QED  BY <1>0, <1>1, <1>5, <1>7, <2>1, <2>2 DEF EntryInv
<1>. QED  BY <1>8, <1>9, <1>10 DEF Records

LEMMA RecordsTruncate ==
  ASSUME BlockInv, Records, NEW i \in Files, Truncate(i)
  PROVE  Records'
<1> DEFINE short == [itable[i] EXCEPT !.size = 0]
<1>0. TypeInv /\ LengthInv /\ DotsInv /\ EntryInv
  BY DEF BlockInv, Records
<1>1. /\ pc = "idle" /\ pc' = "idle" /\ ~ broken /\ PutInode(i, short)
      /\ UNCHANGED <<imarked, entry, file, cut, broken, ino, ip, target, word>>
  BY DEF Truncate, Begins, call
<1>2. i \in 1 .. Inodes - 1 /\ HasPlace(i) /\ itable[i] \in Inode
  BY <1>0, FileInodes
<1>3. /\ short.kind = itable[i].kind /\ short.blocks = itable[i].blocks
      /\ short.size = 0
  BY <1>2 DEF Inode
<1>. HIDE DEF short
<1>4. \A m \in 1 .. Inodes - 1 : itable'[m] = IF m = i THEN short ELSE itable[m]
  <2>1. itable' = [itable EXCEPT ![i] = short]
    BY <1>1, <1>2 DEF PutInode
  <2>. QED  BY <1>0, <1>2, <2>1, Rewritten
<1>5. \A m \in 1 .. Inodes - 1 : /\ itable'[m].kind = itable[m].kind
                                 /\ itable'[m].blocks = itable[m].blocks
  BY <1>3, <1>4
<1>6. LengthInv'
  BY <1>0, <1>1, <1>5 DEF LengthInv, Working
<1>7. DotsInv'
  BY <1>0, <1>1, <1>3, <1>4 DEF DotsInv
<1>8. EntryInv'
  <2>1. \A x \in Names : entry[x] # 0 /\ HasPlace(entry[x]) => entry[x] \in 1 .. Inodes - 1
    BY <1>0, Ext2Assumption DEF TypeInv, HasPlace
  <2>. QED  BY <1>0, <1>1, <1>5, <2>1 DEF EntryInv
<1>. QED  BY <1>6, <1>7, <1>8 DEF Records

LEMMA RecordsUnlink ==
  ASSUME BlockInv, Records, NEW x \in Names, Unlink(x)
  PROVE  Records'
<1>0. TypeInv /\ LengthInv /\ DotsInv /\ EntryInv
  BY DEF BlockInv, Records
<1>1. /\ pc = "idle" /\ pc' = "idle" /\ entry' = [entry EXCEPT ![x] = 0]
      /\ UNCHANGED <<imarked, itable, file, cut, broken, ino, ip, target, word>>
  BY DEF Unlink, Begins, call
<1>2. \A y \in Names : entry'[y] = IF y = x THEN 0 ELSE entry[y]
  BY <1>0, <1>1 DEF TypeInv
<1>3. LengthInv' /\ DotsInv'
  BY <1>0, <1>1 DEF LengthInv, DotsInv, Working
<1>4. EntryInv'
  BY <1>0, <1>1, <1>2 DEF EntryInv
<1>. QED  BY <1>3, <1>4 DEF Records

LEMMA RecordsCreate ==
  ASSUME BlockInv, IInv, Records, NEW x \in Names, NEW kind \in Kinds, Create(x, kind)
  PROVE  Records'
<1> DEFINE unmarked == (1 .. Inodes) \ imarked
           i == IF free = 0 THEN 0 ELSE Min(unmarked)
<1>0. TypeInv /\ LengthInv /\ DotsInv /\ EntryInv
  BY DEF BlockInv, Records
<1>1. /\ pc = "idle" /\ ~ broken
      /\ IF free > 0 THEN unmarked # {} ELSE kind \in Buffered
      /\ imarked' = IF i = 0 THEN imarked ELSE imarked \cup {i}
      /\ ino' = i /\ ip' = NewInode(kind) /\ target' = 0 /\ word' = Dots
      /\ pc' = IF i # 0 THEN "inode" ELSE "scan"
      /\ UNCHANGED <<itable, entry, file, cut, broken>>
  BY DEF Create, Begins
<1>2. free \in Nat
  <2>1. free = Cardinality(Clear) + lost + (IF pc = "count" THEN 1 ELSE 0)
    BY <1>1 DEF IInv, FreeCounted
  <2>. QED  BY <2>1, ClearFinite DEF IInv
<1>3. i = 0 \/ (i \in 1 .. Inodes /\ i \notin imarked)
  <2>1. CASE free > 0
    <3>1. unmarked # {} /\ unmarked \in SUBSET Nat
      BY <1>1, <2>1, Ext2Assumption
    <3>2. Min(unmarked) \in unmarked
      BY <3>1, MinLeast
    <3>. QED  BY <2>1, <3>2
  <2>. QED  BY <1>2, <2>1
<1>. HIDE DEF i
<1>4. NewInode(kind).kind = kind /\ kind # "none" /\ NewInode(kind).blocks = 0
  BY NewInodes DEF Kinds
<1>5. 0 \notin 1 .. Inodes
  OBVIOUS
<1>6. LengthInv'
  BY <1>0, <1>1, <1>3, <1>4 DEF LengthInv, Working, Agree
<1>7. DotsInv'
  BY <1>0, <1>1 DEF DotsInv
<1>8. EntryInv'
  <2>1. imarked' \subseteq 1 .. Inodes /\ imarked \subseteq imarked' /\ (i # 0 => i \in imarked')
    BY <1>0, <1>1, <1>3 DEF EntryInv
  <2>2. i # 0 => \A y \in Names : entry[y] # i
    BY <1>0, <1>3 DEF EntryInv
  <2>. QED  BY <1>0, <1>1, <1>4, <2>1, <2>2 DEF EntryInv
<1>. QED  BY <1>6, <1>7, <1>8 DEF Records

LEMMA RecordsWriteInode ==
  ASSUME BlockInv, Records, WriteInode
  PROVE  Records'
<1>0. TypeInv /\ CopyInv /\ LengthInv /\ DotsInv /\ EntryInv
  BY DEF BlockInv, Records
<1>1. /\ pc = "inode" /\ pc' = "entry" /\ PutInode(ino, ip)
      /\ UNCHANGED <<imarked, entry, file, cut, broken, ino, ip, target, word>>
  BY DEF WriteInode, Goes, call
<1>2. ino # 0 /\ ip.kind # "none" /\ ip.blocks = 0 /\ ino \in imarked
  BY <1>0, <1>1 DEF LengthInv, EntryInv
<1>3. \A m \in 1 .. Inodes - 1 : itable'[m] = IF m = ino THEN ip ELSE itable[m]
  <2>1. CASE HasPlace(ino)
    <3>1. ino \in 1 .. Inodes - 1
      BY <1>0, <1>2, <2>1, Ext2Assumption DEF TypeInv, HasPlace
    <3>. QED  BY <1>0, <1>1, <2>1, <3>1, Rewritten DEF PutInode
  <2>2. CASE ~ HasPlace(ino)
    <3>1. ino \notin 1 .. Inodes - 1
      BY <2>2, Ext2Assumption DEF HasPlace
    <3>. QED  BY <1>1, <2>2, <3>1 DEF PutInode
  <2>. QED  BY <2>1, <2>2
<1>4. HasPlace(ino) => ino \in 1 .. Inodes - 1
  BY <1>0, <1>2, Ext2Assumption DEF TypeInv, HasPlace
<1>5. LengthInv'
  <2>1. \A m \in 1 .. Inodes - 1 : itable'[m].blocks = itable[m].blocks
    BY <1>0, <1>1, <1>2, <1>3 DEF LengthInv
  <2>. QED  BY <1>0, <1>1, <1>2, <1>3, <1>4, <2>1 DEF LengthInv, Working, Agree
<1>6. DotsInv'
  BY <1>0, <1>1, <1>3 DEF DotsInv
<1>7. EntryInv'
  <2>1. \A x \in Names : entry[x] # 0 /\ HasPlace(entry[x]) => entry[x] \in 1 .. Inodes - 1
    BY <1>0, Ext2Assumption DEF TypeInv, HasPlace
  <2>. QED  BY <1>0, <1>1, <1>2, <1>3, <1>4, <2>1 DEF EntryInv
<1>. QED  BY <1>5, <1>6, <1>7 DEF Records

LEMMA RecordsCreateEntry ==
  ASSUME BlockInv, Records, CreateEntry
  PROVE  Records'
<1>0. TypeInv /\ CopyInv /\ LengthInv /\ DotsInv /\ EntryInv
  BY DEF BlockInv, Records
<1>1. /\ pc = "entry" /\ entry' = [entry EXCEPT ![name] = ino]
      /\ UNCHANGED <<imarked, itable, file, cut, broken>>
  BY DEF CreateEntry, Goes
<1>2. \/ ip.kind \notin Buffered /\ pc' = "idle" /\ ino' = 0
      \/ /\ ip.kind \in Buffered /\ pc' = "size"
         /\ UNCHANGED <<ip, ino, target, word>>
  BY DEF CreateEntry, Goes, Over, call
<1>3. \A y \in Names : entry'[y] = IF y = name THEN ino ELSE entry[y]
  BY <1>0, <1>1 DEF TypeInv
<1>4. \A m \in 1 .. Inodes - 1 : HasPlace(m)
  BY Ext2Assumption DEF HasPlace
<1>5. ip.kind \in Buffered => ino \in 1 .. Inodes - 1
  BY <1>0, <1>1 DEF CopyInv, Filed
<1>6. LengthInv'
  BY <1>0, <1>1, <1>2, <1>4, <1>5 DEF LengthInv, Working, Agree
<1>7. DotsInv'
  <2>1. ip.kind \notin Buffered /\ ino \in 1 .. Inodes - 1
          => itable[ino].kind \notin Buffered
    <3>1. ino \in 1 .. Inodes - 1 => ino # 0
      OBVIOUS
    <3>. QED  BY <1>0, <1>1, <1>4, <3>1 DEF LengthInv, Agree
  <2>. QED  BY <1>0, <1>1, <1>2, <2>1 DEF DotsInv
<1>8. EntryInv'
  <2>1. ino \in imarked /\ ino # 0 /\ \A x \in Names : entry[x] # ino
    BY <1>0, <1>1 DEF EntryInv
  <2>2. HasPlace(ino) => itable[ino].kind # "none"
    BY <1>0, <1>1 DEF EntryInv
  <2>. QED  BY <1>0, <1>1, <1>2, <1>3, <2>1, <2>2 DEF EntryInv
<1>. QED  BY <1>6, <1>7, <1>8 DEF Records

LEMMA RecordsWriteSize ==
  ASSUME BlockInv, Records, WriteSize
  PROVE  Records'
<1> DEFINE sized == [ip EXCEPT !.size = 1]
<1>0. TypeInv /\ CopyInv /\ LengthInv /\ DotsInv /\ EntryInv
  BY DEF BlockInv, Records
<1>1. /\ pc = "size" /\ pc' = "scan" /\ ip' = sized /\ PutInode(ino, sized)
      /\ UNCHANGED <<imarked, entry, file, cut, broken, ino, target, word>>
  BY DEF WriteSize, Goes, call
<1>2. sized.kind = ip.kind /\ sized.blocks = ip.blocks
  BY <1>0 DEF TypeInv, Inode
<1>. HIDE DEF sized
<1>3. ino \in 1 .. Inodes - 1
  BY <1>0, <1>1 DEF CopyInv, Filed
<1>4. \A m \in 1 .. Inodes - 1 : itable'[m] = IF m = ino THEN sized ELSE itable[m]
  <2>1. itable' = [itable EXCEPT ![ino] = sized]
    BY <1>1, <1>3, Ext2Assumption DEF PutInode, HasPlace
  <2>. QED  BY <1>0, <1>3, <2>1, Rewritten
<1>5. ip.kind = itable[ino].kind /\ ip.blocks = itable[ino].blocks
  BY <1>0, <1>1, <1>3 DEF LengthInv, Working, Agree
<1>6. \A m \in 1 .. Inodes - 1 : /\ itable'[m].kind = itable[m].kind
                                 /\ itable'[m].blocks = itable[m].blocks
  BY <1>2, <1>4, <1>5
<1>7. LengthInv'
  BY <1>0, <1>1, <1>2, <1>3, <1>4, <1>6 DEF LengthInv, Working, Agree
<1>8. DotsInv'
  BY <1>0, <1>1, <1>2, <1>4 DEF DotsInv
<1>9. EntryInv'
  <2>1. \A x \in Names : entry[x] # 0 /\ HasPlace(entry[x]) => entry[x] \in 1 .. Inodes - 1
    BY <1>0, Ext2Assumption DEF TypeInv, HasPlace
  <2>. QED  BY <1>0, <1>1, <1>6, <2>1 DEF EntryInv
<1>. QED  BY <1>7, <1>8, <1>9 DEF Records

(* Inside allocate_block and set_block_number.                             *)
LEMMA RecordsInside ==
  ASSUME BlockInv, Records, Filed, pc \in {"scan", "count", "zero", "link"},
         pc' \in {"scan", "count", "zero", "link", "grow"},
         UNCHANGED <<imarked, entry, file, cut, broken, ino, target, word>>,
         ip'.kind = ip.kind, ip'.blocks = ip.blocks,
         \A m \in 1 .. Inodes - 1 : /\ itable'[m].kind = itable[m].kind
                                    /\ itable'[m].blocks = itable[m].blocks
                                    /\ itable'[m].size = itable[m].size
                                         \/ m = ino
  PROVE  Records'
<1>0. TypeInv /\ LengthInv /\ DotsInv /\ EntryInv
  BY DEF BlockInv, Records
<1>1. ino \in 1 .. Inodes - 1
  BY DEF Filed
<1>2. Agree'
  BY <1>0, <1>1 DEF LengthInv, Agree, Working
<1>3. LengthInv'
  BY <1>0, <1>2 DEF LengthInv, Working
<1>4. DotsInv'
  BY <1>0 DEF DotsInv
<1>5. EntryInv'
  <2>1. \A x \in Names : entry[x] # 0 /\ HasPlace(entry[x]) => entry[x] \in 1 .. Inodes - 1
    BY <1>0, Ext2Assumption DEF TypeInv, HasPlace
  <2>. QED  BY <1>0, <2>1 DEF EntryInv
<1>. QED  BY <1>3, <1>4, <1>5 DEF Records

LEMMA RecordsGrow ==
  ASSUME BlockInv, Records, Grow
  PROVE  Records'
<1> DEFINE grown == [ip EXCEPT !.blocks = @ + 1]
<1>0. TypeInv /\ CopyInv /\ LengthInv /\ DotsInv /\ EntryInv
  BY DEF BlockInv, Records
<1>1. /\ pc = "grow" /\ ip' = grown /\ PutInode(ino, grown)
      /\ pc' = Allocates(grown, target)
      /\ UNCHANGED <<imarked, entry, file, cut, broken, ino, target, word>>
  BY DEF Grow, Goes, call
<1>2. grown.kind = ip.kind /\ grown.blocks = ip.blocks + 1 /\ ip.blocks \in Nat
  BY <1>0 DEF TypeInv, Inode
<1>. HIDE DEF grown
<1>3. target \in Int
  BY <1>0, Positive DEF TypeInv
<1>4. pc' \in {"scan", "data"} /\ (pc' = "data" => target < grown.blocks)
  BY <1>1, <1>2, <1>3 DEF Allocates
<1>5. ino \in 1 .. Inodes - 1 /\ ino \in imarked
  <2>1. ino \in 1 .. Inodes - 1 /\ ino # 0
    BY <1>0, <1>1 DEF CopyInv, Filed
  <2>. QED  BY <1>0, <2>1 DEF EntryInv
<1>6. \A m \in 1 .. Inodes - 1 : itable'[m] = IF m = ino THEN grown ELSE itable[m]
  <2>1. itable' = [itable EXCEPT ![ino] = grown]
    BY <1>1, <1>5, Ext2Assumption DEF PutInode, HasPlace
  <2>. QED  BY <1>0, <1>5, <2>1, Rewritten
<1>7. ip.kind = itable[ino].kind /\ ip.blocks = itable[ino].blocks
  BY <1>0, <1>1, <1>5 DEF LengthInv, Working, Agree
<1>8. /\ \A m \in 1 .. Inodes - 1 : itable'[m].kind = itable[m].kind
      /\ \A m \in (1 .. Inodes - 1) \ {ino} : itable'[m].blocks = itable[m].blocks
  BY <1>2, <1>6, <1>7
<1>9. LengthInv'
  <2>1. \A i \in 1 .. Inodes - 1, n \in 0 .. Triple - 1 :
          n >= itable'[i].blocks => file[i][n] = Fill(0)
    <3> SUFFICES ASSUME NEW i \in 1 .. Inodes - 1, NEW n \in 0 .. Triple - 1,
                        n >= itable'[i].blocks
                 PROVE  n >= itable[i].blocks
      BY <1>0 DEF LengthInv
    <3>. QED  BY <1>2, <1>6, <1>7
  <2>2. Agree'
    BY <1>1, <1>5, <1>6 DEF Agree
  <2>. QED  BY <1>0, <1>1, <1>4, <1>5, <1>8, <2>1, <2>2 DEF LengthInv
<1>10. DotsInv'
  BY <1>0, <1>1, <1>2, <1>4, <1>6 DEF DotsInv
<1>11. EntryInv'
  <2>1. \A x \in Names : entry[x] # 0 /\ HasPlace(entry[x]) => entry[x] \in 1 .. Inodes - 1
    BY <1>0, Ext2Assumption DEF TypeInv, HasPlace
  <2>. QED  BY <1>0, <1>1, <1>4, <1>8, <2>1 DEF EntryInv
<1>. QED  BY <1>9, <1>10, <1>11 DEF Records

LEMMA RecordsCrash ==
  ASSUME BlockInv, Records, Crash
  PROVE  Records'
<1>0. TypeInv /\ CopyInv /\ LengthInv /\ DotsInv /\ EntryInv
  BY DEF BlockInv, Records
<1>1. /\ pc # "idle" /\ pc' = "idle" /\ ino' = 0
      /\ cut' = IF ip.kind \in Buffered THEN cut \cup {ino} ELSE cut
      /\ UNCHANGED <<imarked, itable, entry, file, broken>>
  BY DEF Crash, Over, disk
<1>2. LengthInv'
  BY <1>0, <1>1 DEF LengthInv, Working
<1>3. DotsInv'
  <2>1. \A m \in 1 .. Inodes - 1 : HasPlace(m) /\ m # 0
    BY Ext2Assumption DEF HasPlace
  <2>2. ip.kind \notin Buffered /\ ino \in 1 .. Inodes - 1
          => itable[ino].kind \notin Buffered
    <3>1. pc = "inode" \/ pc = "entry" \/ Working
      BY <1>1 DEF Working
    <3>2. "none" \notin Buffered
      BY DEF Buffered
    <3>. QED  BY <1>0, <2>1, <3>1, <3>2 DEF LengthInv, Agree
  <2>. QED  BY <1>0, <1>1, <2>2 DEF DotsInv
<1>4. EntryInv'
  BY <1>0, <1>1 DEF EntryInv
<1>. QED  BY <1>2, <1>3, <1>4 DEF Records

LEMMA RecordsWriteBlock ==
  ASSUME BlockInv, Records, WriteBlock, ~ broken'
  PROVE  Records'
<1>0. TypeInv /\ CopyInv /\ LengthInv /\ DotsInv /\ EntryInv
  BY DEF BlockInv, Records
<1>1. /\ pc = "data" /\ pc' = "idle" /\ ino' = 0
      /\ UNCHANGED <<imarked, itable, entry, cut>>
      /\ file' = [file EXCEPT ![ino][target] = Fill(word)]
  BY DEF WriteBlock, Over, inodes
<1>2. EntryInv'
  BY <1>0, <1>1 DEF EntryInv
<1>3. LengthInv' /\ DotsInv'
  <2>1. /\ ino \in 1 .. Inodes - 1 /\ ino \in 1 .. Inodes
        /\ ip.kind = itable[ino].kind /\ ip.blocks = itable[ino].blocks
        /\ target < ip.blocks /\ ip.blocks \in Nat
        /\ target \in 0 .. MaxBlock - 1 /\ word \in Int
    <3>1. ino \in 1 .. Inodes - 1 /\ ino # 0 /\ ino \in 1 .. Inodes
      BY <1>0, <1>1, Ext2Assumption DEF CopyInv, Filed
    <3>2. Agree
      BY <1>0, <1>1 DEF LengthInv, Working
    <3>. QED  BY <1>0, <1>1, <3>1, <3>2 DEF LengthInv, Agree, TypeInv, Inode
  <2>2. Fill(word) \in [0 .. P - 1 -> Int]
    BY <2>1 DEF Fill
  <2>3. file \in [1 .. Inodes -> [0 .. MaxBlock - 1 -> [0 .. P - 1 -> Int]]]
    BY <1>0 DEF LengthInv
  <2>4. /\ file' \in [1 .. Inodes -> [0 .. MaxBlock - 1 -> [0 .. P - 1 -> Int]]]
        /\ \A i \in 1 .. Inodes, n \in 0 .. MaxBlock - 1 :
             file'[i][n] = IF i = ino /\ n = target THEN Fill(word) ELSE file[i][n]
    <3> DEFINE w == Fill(word)
               V == [0 .. P - 1 -> Int]
               D == 0 .. MaxBlock - 1
    <3>1. /\ w \in V /\ ino \in 1 .. Inodes /\ target \in D
          /\ file \in [1 .. Inodes -> [D -> V]]
          /\ file' = [file EXCEPT ![ino][target] = w]
      BY <1>1, <2>1, <2>2, <2>3
    <3>. HIDE DEF w, V, D
    <3>2. /\ file' \in [1 .. Inodes -> [D -> V]]
          /\ \A i \in 1 .. Inodes, n \in D :
               file'[i][n] = IF i = ino /\ n = target THEN w ELSE file[i][n]
      BY <3>1
    <3>. QED  BY <3>2 DEF w, V, D
  <2>5. \A n \in 0 .. Triple - 1 : n \in 0 .. MaxBlock - 1
    BY ShortPath
  <2>6. \A i \in 1 .. Inodes - 1 : i \in 1 .. Inodes
    BY Ext2Assumption
  <2>7. LengthInv'
    <3>1. \A i \in 1 .. Inodes - 1, n \in 0 .. Triple - 1 :
            n >= itable[i].blocks => file'[i][n] = Fill(0)
      BY <1>0, <2>1, <2>4, <2>5, <2>6 DEF LengthInv
    <3>. QED  BY <1>0, <1>1, <2>4, <3>1 DEF LengthInv, Working
  <2>8. DotsInv'
    <3>1. 0 \in 0 .. MaxBlock - 1
      BY Positive, Ext2Assumption
    <3>2. ip.kind \in Buffered => target = 0 /\ word = Dots
      BY <1>0, <1>1 DEF DotsInv
    <3>. QED  BY <1>0, <1>1, <2>1, <2>4, <2>6, <3>1, <3>2 DEF DotsInv
  <2>. QED  BY <2>7, <2>8
<1>. QED  BY <1>2, <1>3 DEF Records

-----------------------------------------------------------------------------
(* What the blocks of files hold.  A step keeps the pointers that name a   *)
(* block, but for those of S.                                              *)
Keeps(S) ==
  \A q \in Pointers \ S : PointsTo(q) # 0 => PointsTo(q)' = PointsTo(q)

LEMMA PlaceNext ==
  /\ \A i \in 1 .. Inodes - 1, j \in 0 .. Direct + 2 :
       PointsTo(<<i, j>>)' = PointersIn(itable'[i])[j]
  /\ \A b \in 1 .. Blocks - 1, k \in 0 .. P - 1 :
       PointsTo(<<-b, k>>)' = content'[b][k]
<1>1. \A b \in 1 .. Blocks - 1 : ~ (-b > 0) /\ -(-b) = b
  BY Ext2Assumption
<1>. QED  BY <1>1 DEF PointsTo

LEMMA KeepsPlaces ==
  ASSUME FirstDataBlock = 0, TypeInv, OwnInv, NEW S,
         \A i \in 1 .. Inodes - 1, j \in 0 .. Direct + 2 :
           PointersIn(itable[i])[j] # 0 /\ <<i, j>> \notin S
             => PointersIn(itable'[i])[j] = PointersIn(itable[i])[j],
         \A b \in PointerBlocks, k \in 0 .. P - 1 :
           content[b][k] # 0 /\ <<-b, k>> \notin S => content'[b][k] = content[b][k]
  PROVE  Keeps(S)
<1> SUFFICES ASSUME NEW q \in Pointers \ S, PointsTo(q) # 0
             PROVE  PointsTo(q)' = PointsTo(q)
  BY DEF Keeps
<1>1. CASE \E i \in 1 .. Inodes - 1, j \in 0 .. Direct + 2 : q = <<i, j>>
  <2>1. PICK i \in 1 .. Inodes - 1, j \in 0 .. Direct + 2 : q = <<i, j>>
    BY <1>1
  <2>2. PointsTo(q) = PointersIn(itable[i])[j] /\ PointsTo(q)' = PointersIn(itable'[i])[j]
    BY <2>1, HeadPlace, PlaceNext
  <2>. QED  BY <2>1, <2>2
<1>2. CASE \E b \in PointerBlocks, k \in 0 .. P - 1 : q = <<-b, k>>
  <2>1. PICK b \in PointerBlocks, k \in 0 .. P - 1 : q = <<-b, k>>
    BY <1>2
  <2>2. b \in 1 .. Blocks - 1 /\ PointsTo(q) = content[b][k]
    BY <2>1, WordPlace
  <2>3. PointsTo(q)' = content'[b][k]
    BY <2>1, <2>2, PlaceNext
  <2>. QED  BY <2>1, <2>2, <2>3
<1>3. DOMAIN itable = 1 .. Inodes - 1
  BY DEF TypeInv
<1>. QED  BY <1>1, <1>2, <1>3 DEF Pointers

LEMMA WayKept ==
  ASSUME FirstDataBlock = 0, TypeInv, OwnInv, NEW i \in 1 .. Inodes - 1,
         NEW n \in 0 .. Triple - 1, Whole(content, PointersIn(itable[i]), n),
         BlockAt(content, PointersIn(itable[i]), n) # 0,
         NEW S, Keeps(S), Slot(i, n) \notin S,
         \A p \in S : PointsTo(p) \notin PointerBlocks
  PROVE  /\ Whole(content', PointersIn(itable'[i]), n)
         /\ BlockAt(content', PointersIn(itable'[i]), n) = BlockAt(content, PointersIn(itable[i]), n)
<1> DEFINE d == Len(Path(n))
           f == PointersIn(itable[i])
           g == PointersIn(itable'[i])
           a == BlockAt(content, f, n)
<1>0. Direct \in Nat /\ DOMAIN itable = 1 .. Inodes - 1
      /\ Direct \in 0 .. Direct + 2 /\ Direct + 1 \in 0 .. Direct + 2
  BY Ext2Assumption DEF TypeInv
<1>1. /\ d \in 0 .. 2 /\ (d = 0 <=> n < Direct)
      /\ \A j \in 1 .. d : Path(n)[j] \in 0 .. P - 1
  BY ShortPath
<1>2. /\ Slot(i, n) \in Pointers /\ PointsTo(Slot(i, n)) = a
      /\ d = 1 => f[Direct] \in Heads(Direct)
      /\ d = 2 => /\ f[Direct + 1] \in Heads(Direct + 1)
                  /\ content[f[Direct + 1]][Path(n)[1]] \in Below(Heads(Direct + 1))
  BY Slots
<1>3. \A q : q = Slot(i, n) => PointsTo(q)' = a
  BY <1>2 DEF Keeps
<1>4. ASSUME NEW j \in 0 .. Direct + 2, f[j] \in PointerBlocks, f[j] # 0
      PROVE  g[j] = f[j]
  <2>1. <<i, j>> \in Pointers /\ PointsTo(<<i, j>>) = f[j]
    BY HeadPlace
  <2>2. <<i, j>> \notin S
    BY <1>4, <2>1
  <2>3. PointsTo(<<i, j>>)' = f[j]
    BY <1>4, <2>1, <2>2 DEF Keeps
  <2>. QED  BY <2>3, PlaceNext
<1>5. CASE d = 0
  <2>1. Slot(i, n) = <<i, n>> /\ n \in 0 .. Direct + 2
    BY <1>0, <1>1, <1>5 DEF Slot
  <2>2. g[n] = a
    BY <1>3, <2>1, PlaceNext
  <2>3. BlockAt(content', g, n) = g[n]
    BY <1>5 DEF BlockAt
  <2>. QED  BY <1>5, <2>2, <2>3 DEF Whole
<1>6. CASE d = 1
  <2>1. f[Direct] \in PointerBlocks /\ f[Direct] # 0
    BY <1>2, <1>6 DEF PointerBlocks, Heads
  <2>2. g[Direct] = f[Direct]
    BY <1>0, <1>4, <2>1
  <2>3. Path(n)[1] \in 0 .. P - 1 /\ Slot(i, n) = <<-f[Direct], Path(n)[1]>>
    BY <1>1, <1>6 DEF Slot
  <2>4. f[Direct] \in 1 .. Blocks - 1
    BY <2>1, <2>3, WordPlace
  <2>5. content'[f[Direct]][Path(n)[1]] = a
    <3>1. PICK h, k : h = f[Direct] /\ k = Path(n)[1]
      OBVIOUS
    <3>2. PointsTo(<<-h, k>>)' = a
      BY <1>3, <2>3, <3>1
    <3>. QED  BY <2>3, <2>4, <3>1, <3>2, PlaceNext
  <2>6. BlockAt(content', g, n) = content'[g[Direct]][Path(n)[1]]
    BY <1>6 DEF BlockAt
  <2>. QED  BY <1>6, <2>1, <2>2, <2>5, <2>6 DEF Whole
<1>7. CASE d = 2
  <2> DEFINE x == content[f[Direct + 1]][Path(n)[1]]
  <2>1. /\ f[Direct + 1] \in PointerBlocks /\ f[Direct + 1] # 0
        /\ x \in PointerBlocks /\ x # 0
    <3>1. \A b \in Heads(Direct + 1) : b \in PointerBlocks /\ b # 0
      BY DEF PointerBlocks, Heads
    <3>2. \A b \in Below(Heads(Direct + 1)) : b \in PointerBlocks /\ b # 0
      BY DEF PointerBlocks, Below
    <3>. QED  BY <1>2, <1>7, <3>1, <3>2
  <2>2. g[Direct + 1] = f[Direct + 1]
    BY <1>0, <1>4, <2>1
  <2>. HIDE DEF x
  <2>3. PICK h, k, l, y : h = f[Direct + 1] /\ k = Path(n)[1] /\ l = Path(n)[2] /\ y = x
    OBVIOUS
  <2>4. k \in 0 .. P - 1 /\ l \in 0 .. P - 1 /\ y = content[h][k]
    BY <1>1, <1>7, <2>3 DEF x
  <2>5. /\ h \in 1 .. Blocks - 1 /\ <<-h, k>> \in Pointers
        /\ PointsTo(<<-h, k>>) = y /\ y \in 1 .. Blocks - 1
    BY <2>1, <2>3, <2>4, WordPlace
  <2>6. content'[h][k] = y
    <3>1. PointsTo(<<-h, k>>)' = y
      BY <2>1, <2>3, <2>5 DEF Keeps
    <3>. QED  BY <2>4, <2>5, <3>1, PlaceNext
  <2>7. content'[y][l] = a
    <3>1. <<-y, l>> = Slot(i, n)
      BY <1>7, <2>3 DEF Slot, x
    <3>2. PointsTo(<<-y, l>>)' = a
      BY <1>3, <3>1
    <3>. QED  BY <2>4, <2>5, <3>2, PlaceNext
  <2>8. BlockAt(content', g, n) = content'[content'[g[Direct + 1]][Path(n)[1]]][Path(n)[2]]
    BY <1>7 DEF BlockAt
  <2>9. Whole(content', g, n)
    BY <1>7, <2>1, <2>2, <2>3, <2>6 DEF Whole
  <2>. QED  BY <2>2, <2>3, <2>6, <2>7, <2>8, <2>9
<1>. QED  BY <1>1, <1>5, <1>6, <1>7

(* A way that is not complete stays so.                                    *)
LEMMA WayMissing ==
  ASSUME FirstDataBlock = 0, TypeInv, OwnInv, NEW i \in 1 .. Inodes - 1,
         NEW n \in 0 .. Triple - 1, ~ Whole(content, PointersIn(itable[i]), n),
         PointersIn(itable'[i])[Direct] = PointersIn(itable[i])[Direct],
         PointersIn(itable'[i])[Direct + 1] = PointersIn(itable[i])[Direct + 1],
         \A b \in PointerBlocks : content'[b] = content[b]
  PROVE  ~ Whole(content', PointersIn(itable'[i]), n)
<1> DEFINE f == PointersIn(itable[i])
<1>1. f[Direct + 1] # 0 => f[Direct + 1] \in PointerBlocks
  BY DEF TypeInv, PointerBlocks, Heads
<1>. QED  BY <1>1 DEF Whole

(* A file's block that no step touches.                                    *)
LEMMA FilledKept ==
  ASSUME FirstDataBlock = 0, TypeInv, OwnInv, NEW i \in 1 .. Inodes - 1,
         NEW n \in 0 .. Triple - 1, Filled(i, n), file'[i][n] = file[i][n],
         NEW S, Keeps(S), \A p \in S : PointsTo(p) \notin PointerBlocks,
         Whole(content, PointersIn(itable[i]), n)
           => /\ Slot(i, n) \notin S
              /\ content'[BlockAt(content, PointersIn(itable[i]), n)]
                   = content[BlockAt(content, PointersIn(itable[i]), n)],
         ~ Whole(content, PointersIn(itable[i]), n)
           => /\ ~ Whole(content', PointersIn(itable'[i]), n)
              /\ free' = free /\ pc' \notin {"count", "zero", "link"}
  PROVE  Filled(i, n)'
<1>1. CASE Whole(content, PointersIn(itable[i]), n)
  <2>1. /\ BlockAt(content, PointersIn(itable[i]), n) # 0
        /\ content[BlockAt(content, PointersIn(itable[i]), n)] = file[i][n]
    BY <1>1 DEF Filled
  <2>2. /\ Whole(content', PointersIn(itable'[i]), n)
        /\ BlockAt(content', PointersIn(itable'[i]), n) = BlockAt(content, PointersIn(itable[i]), n)
    BY <1>1, <2>1, WayKept
  <2>. QED  BY <1>1, <2>1, <2>2 DEF Filled
<1>2. CASE ~ Whole(content, PointersIn(itable[i]), n)
  BY <1>2 DEF Filled
<1>. QED  BY <1>1, <1>2

(* No file's length or pointers change, nor any block.                     *)
LEMMA FilledSame ==
  ASSUME FirstDataBlock = 0, TypeInv, OwnInv, FilledInv, UNCHANGED <<content, file>>,
         \A i \in 1 .. Inodes - 1 :
           \/ itable'[i].blocks = 0
           \/ PointersIn(itable'[i]) = PointersIn(itable[i]) /\ itable'[i].blocks = itable[i].blocks,
         \/ free > 0
         \/ pc \in {"count", "zero", "link"}
         \/ free' = free /\ pc' \notin {"count", "zero", "link"}
  PROVE  FilledInv'
<1> SUFFICES ASSUME NEW i \in 1 .. Inodes - 1, NEW n \in 0 .. Triple - 1,
                    n < itable'[i].blocks
             PROVE  Filled(i, n)'
  BY DEF FilledInv
<1>1. n \in Nat
  BY ShortPath
<1>2. PointersIn(itable'[i]) = PointersIn(itable[i]) /\ itable'[i].blocks = itable[i].blocks
  BY <1>1
<1>3. Filled(i, n)
  BY <1>2 DEF FilledInv
<1>4. ~ (free > 0 /\ free = 0)
  OBVIOUS
<1>. QED  BY <1>2, <1>3, <1>4 DEF Filled

(* allocate_block clears a block that is nobody's.                         *)
LEMMA FilledZero ==
  ASSUME FirstDataBlock = 0, BlockInv, FilledInv, Zero
  PROVE  FilledInv'
<1>0. TypeInv /\ OwnInv /\ AllocInv
  BY DEF BlockInv
<1>1. /\ pc = "zero" /\ content' = [content EXCEPT ![blk] = Fill(0)]
      /\ UNCHANGED <<itable, file>>
  BY DEF Zero, Goes, inodes
<1>2. Held(blk)
  BY <1>0, <1>1 DEF AllocInv
<1>3. blk \notin PointerBlocks
  BY <1>0, <1>2, Origin DEF Held
<1>4. \A b : b # blk => content'[b] = content[b]
  BY <1>0, <1>1 DEF TypeInv
<1>5. Keeps({})
  BY <1>0, <1>1, <1>3, <1>4, KeepsPlaces
<1> SUFFICES ASSUME NEW i \in 1 .. Inodes - 1, NEW n \in 0 .. Triple - 1,
                    n < itable'[i].blocks
             PROVE  Filled(i, n)'
  BY DEF FilledInv
<1>6. Filled(i, n)
  BY <1>1 DEF FilledInv
<1>7. Whole(content, PointersIn(itable[i]), n)
  BY <1>1, <1>6 DEF Filled
<1>8. BlockAt(content, PointersIn(itable[i]), n) # blk
  BY <1>0, <1>2, <1>7, Slots DEF Held
<1>. QED  BY <1>0, <1>1, <1>4, <1>5, <1>6, <1>7, <1>8, FilledKept

(* set_block_number writes to no block of a file.  S is the pointer to the *)
(* block that is to be the next.                                           *)
LEMMA FilledLink ==
  ASSUME FirstDataBlock = 0, TypeInv, OwnInv, FilledInv, pc = "link", file' = file,
         NEW S, Keeps(S), \A p \in S : PointsTo(p) \notin PointerBlocks,
         \A b : b \notin PointerBlocks \cup Third => content'[b] = content[b],
         \A i \in 1 .. Inodes - 1 : itable'[i].blocks = itable[i].blocks,
         \A i \in 1 .. Inodes - 1, n \in 0 .. Triple - 1 :
           n < itable[i].blocks /\ Whole(content, PointersIn(itable[i]), n)
             => Slot(i, n) \notin S
  PROVE  FilledInv'
<1> SUFFICES ASSUME NEW i \in 1 .. Inodes - 1, NEW n \in 0 .. Triple - 1,
                    n < itable'[i].blocks
             PROVE  Filled(i, n)'
  BY DEF FilledInv
<1>1. Filled(i, n) /\ n < itable[i].blocks
  BY DEF FilledInv
<1>2. Whole(content, PointersIn(itable[i]), n) /\ BlockAt(content, PointersIn(itable[i]), n) # 0
  BY <1>1 DEF Filled
<1>3. BlockAt(content, PointersIn(itable[i]), n) \notin PointerBlocks \cup Third
  BY <1>2, DataBlock
<1>. QED  BY <1>1, <1>2, <1>3, FilledKept

LEMMA FilledGrow ==
  ASSUME FirstDataBlock = 0, BlockInv, LengthInv, FilledInv, NextInv, Grow
  PROVE  FilledInv'
<1> DEFINE m == ip.blocks
           S == {<<ino, j>> : j \in {m} \cap 0 .. Direct - 1}
           grown == [ip EXCEPT !.blocks = @ + 1]
<1>0. TypeInv /\ OwnInv /\ CopyInv
  BY DEF BlockInv
<1>1. /\ pc = "grow" /\ PutInode(ino, grown) /\ pc' \in {"scan", "data"}
      /\ UNCHANGED <<content, file, free>>
  BY DEF Grow, Goes, Allocates
<1>2. grown.block = ip.block /\ grown.blocks = m + 1 /\ m \in Nat /\ grown.kind = ip.kind
  BY <1>0 DEF TypeInv, Inode
<1>. HIDE DEF grown
<1>3. ino \in 1 .. Inodes - 1 /\ Copied /\ PointersIn(grown) = ip.block
  <2>1. Filed
    BY <1>0, <1>1 DEF CopyInv
  <2>2. grown.kind # "embedded" /\ ino \in 1 .. Inodes - 1 /\ Copied
    BY <1>2, <2>1 DEF Filed
  <2>3. PointersIn(grown) = grown.block
    BY <2>2, PointersPlain
  <2>. QED  BY <1>2, <2>2, <2>3
<1>4. \A i \in 1 .. Inodes - 1 : itable'[i] = IF i = ino THEN grown ELSE itable[i]
  <2>1. itable' = [itable EXCEPT ![ino] = grown]
    BY <1>1, <1>3, Ext2Assumption DEF PutInode, HasPlace
  <2>. QED  BY <1>0, <1>3, <2>1 DEF TypeInv
<1>5. itable[ino].blocks = m
  BY <1>1, <1>3 DEF LengthInv, Working, Agree
<1>6. Direct \in Nat /\ Direct \in 0 .. Direct + 2 /\ Direct + 1 \in 0 .. Direct + 2
  BY Ext2Assumption
<1>7. \A j \in 0 .. Direct + 2 :
        ip.block[j] = PointersIn(itable[ino])[j] \/ (j = m /\ j \in 0 .. Direct - 1)
  BY <1>3, <1>6 DEF Copied
<1>8. Keeps(S)
  <2>1. \A i \in 1 .. Inodes - 1, j \in 0 .. Direct + 2 :
          <<i, j>> \notin S => PointersIn(itable'[i])[j] = PointersIn(itable[i])[j]
    BY <1>3, <1>4, <1>7
  <2>. HIDE DEF S
  <2>. QED  BY <1>0, <1>1, <2>1, KeepsPlaces
<1>9. \A p \in S : PointsTo(p) \notin PointerBlocks
  <2> SUFFICES ASSUME NEW j \in {m} \cap 0 .. Direct - 1
               PROVE  PointsTo(<<ino, j>>) \notin PointerBlocks
    OBVIOUS
  <2>1. j \in 0 .. Direct + 2
    BY <1>6
  <2>2. PointsTo(<<ino, j>>) = PointersIn(itable[ino])[j]
    BY <1>0, <1>3, <2>1, HeadPlace
  <2>. QED  BY <1>0, <1>3, <2>2, DirectApart
<1> SUFFICES ASSUME NEW i \in 1 .. Inodes - 1, NEW n \in 0 .. Triple - 1,
                    n < itable'[i].blocks
             PROVE  Filled(i, n)'
  BY DEF FilledInv
<1>10. n \in Nat
  BY ShortPath
<1>11. CASE i = ino /\ n = m
  <2>1. m < Triple
    BY <1>11, ShortPath
  <2>2. PointersIn(itable'[i]) = ip.block
    BY <1>3, <1>4, <1>11
  <2>3. file[i][n] = Fill(0)
    BY <1>2, <1>5, <1>11 DEF LengthInv
  <2>4. CASE Whole(content, ip.block, n)
    <3>1. leaf # 0 /\ BlockAt(content, ip.block, n) = leaf /\ content[leaf] = Fill(0)
      BY <1>1, <1>11, <2>1, <2>4 DEF NextInv
    <3>. QED  BY <1>1, <2>2, <2>3, <2>4, <3>1 DEF Filled
  <2>5. CASE ~ Whole(content, ip.block, n)
    <3>1. free = 0
      BY <1>1, <1>11, <2>1, <2>5 DEF NextInv
    <3>. QED  BY <1>1, <2>2, <2>5, <3>1 DEF Filled
  <2>. QED  BY <2>4, <2>5
<1>12. CASE ~ (i = ino /\ n = m)
  <2>1. n < itable[i].blocks
    BY <1>2, <1>4, <1>5, <1>10, <1>12
  <2>2. Filled(i, n)
    BY <2>1 DEF FilledInv
  <2>3. Whole(content, PointersIn(itable[i]), n) => Slot(i, n) \notin S
    <3> SUFFICES ASSUME Whole(content, PointersIn(itable[i]), n), Slot(i, n) \in S
                 PROVE  FALSE
      OBVIOUS
    <3>1. PICK j \in {m} \cap 0 .. Direct - 1 : Slot(i, n) = <<ino, j>>
      OBVIOUS
    <3>2. \/ Slot(i, n) = <<i, n>>
          \/ \E b \in Outer, k \in 0 .. P - 1 : Slot(i, n) = <<-b, k>>
      BY <1>0, Slots
    <3>3. ASSUME NEW b \in Outer, NEW k \in 0 .. P - 1, Slot(i, n) = <<-b, k>>
          PROVE  FALSE
      <4>1. b \in PointerBlocks
        BY Sides
      <4>2. b \in 1 .. Blocks - 1
        BY <1>0, <4>1, WordPlace
      <4>3. ino = -b
        BY <3>1, <3>3
      <4>. QED  BY <1>3, <4>2, <4>3, Ext2Assumption
    <3>. QED  BY <1>12, <3>1, <3>2, <3>3
  <2>4. ~ Whole(content, PointersIn(itable[i]), n) => ~ Whole(content', PointersIn(itable'[i]), n)
    <3>1. /\ PointersIn(itable'[i])[Direct] = PointersIn(itable[i])[Direct]
          /\ PointersIn(itable'[i])[Direct + 1] = PointersIn(itable[i])[Direct + 1]
      <4>1. Direct \notin 0 .. Direct - 1 /\ Direct + 1 \notin 0 .. Direct - 1
        BY <1>6
      <4>. QED  BY <1>3, <1>4, <1>6, <1>7, <4>1
    <3>. QED  BY <1>0, <1>1, <3>1, WayMissing
  <2>. HIDE DEF S
  <2>. QED  BY <1>0, <1>1, <1>8, <1>9, <2>2, <2>3, <2>4, FilledKept
<1>. QED  BY <1>11, <1>12

LEMMA FilledWriteBlock ==
  ASSUME FirstDataBlock = 0, BlockInv, LengthInv, FilledInv, WriteBlock, ~ broken'
  PROVE  FilledInv'
<1> DEFINE g == GetBlockNumber(ip, target)
<1>0. TypeInv /\ OwnInv /\ SelfInv /\ CopyInv
  BY DEF BlockInv
<1>1. /\ pc = "data" /\ pc' = "idle" /\ Missing(ip, target) = {}
      /\ content' = [content EXCEPT ![g] = Fill(word)]
      /\ file' = [file EXCEPT ![ino][target] = Fill(word)]
      /\ UNCHANGED <<itable, free>>
  BY DEF WriteBlock, Numbered, Over, inodes
<1>2. Filed /\ target \in 0 .. MaxBlock - 1
  BY <1>0, <1>1 DEF CopyInv, TypeInv
<1>3. ino \in 1 .. Inodes - 1 /\ ino \in 1 .. Inodes /\ ip.block = PointersIn(itable[ino])
  BY <1>0, <1>1, <1>2, SameInode, Ext2Assumption
<1>4. g \notin PointerBlocks
  BY <1>1, <1>2, BlockOfFile
<1>5. target \in 0 .. Triple - 1
        => /\ Whole(content, PointersIn(itable[ino]), target)
           /\ g = BlockAt(content, PointersIn(itable[ino]), target)
  BY <1>1, <1>3, Reached
<1>6. target \notin 0 .. Triple - 1 => g <= 0 \/ g \in Third
  <2> SUFFICES ASSUME target \notin 0 .. Triple - 1 PROVE g <= 0 \/ g \in Third
    OBVIOUS
  <2> DEFINE d == Len(Path(target))
             node == Nodes(ip, target)
             h == Direct + d - 1
  <2>1. target >= Direct /\ target >= Triple
    BY <1>2, Positive, Ext2Assumption
  <2>2. /\ d \in 1 .. 3 /\ DOMAIN node = 1 .. d
        /\ d = 3 <=> target >= Triple
        /\ \A j \in 1 .. d : Path(target)[j] \in Words
        /\ d = 3 => node[3] \in {0} \cup Third
    BY <1>0, <1>1, <1>2, <2>1, NodesPlaced
  <2>3. d = 3 /\ node[3] # 0 /\ node[3] \in Third /\ Path(target)[3] \in 0 .. P - 1
    BY <1>1, <2>1, <2>2 DEF Missing, Words
  <2>4. g = content[node[3]][Path(target)[3]]
    BY <2>3 DEF GetBlockNumber
  <2>. QED  BY <1>0, <2>3, <2>4 DEF SelfInv
<1>. HIDE DEF g
<1>7. \A b : b # g => content'[b] = content[b]
  BY <1>0, <1>1 DEF TypeInv
<1>8. Keeps({})
  BY <1>0, <1>1, <1>4, <1>7, KeepsPlaces
<1>9. \A i \in 1 .. Inodes - 1, n \in 0 .. Triple - 1 :
        file'[i][n] = IF i = ino /\ n = target THEN Fill(word) ELSE file[i][n]
  <2> DEFINE w == Fill(word)
             V == [0 .. P - 1 -> Int]
             D == 0 .. MaxBlock - 1
  <2>1. /\ ino \in 1 .. Inodes /\ target \in D
        /\ file \in [1 .. Inodes -> [D -> V]]
        /\ file' = [file EXCEPT ![ino][target] = w]
    BY <1>0, <1>1, <1>2, <1>3 DEF LengthInv
  <2>2. \A i \in 1 .. Inodes - 1, n \in 0 .. Triple - 1 : i \in 1 .. Inodes /\ n \in D
    BY ShortPath, Ext2Assumption
  <2>. HIDE DEF w, V, D
  <2>3. \A i \in 1 .. Inodes, n \in D :
          file'[i][n] = IF i = ino /\ n = target THEN w ELSE file[i][n]
    BY <2>1
  <2>. QED  BY <2>2, <2>3 DEF w
<1> SUFFICES ASSUME NEW i \in 1 .. Inodes - 1, NEW n \in 0 .. Triple - 1,
                    n < itable'[i].blocks
             PROVE  Filled(i, n)'
  BY DEF FilledInv
<1>10. Filled(i, n)
  BY <1>1 DEF FilledInv
<1>11. CASE i = ino /\ n = target
  <2>1. Whole(content, PointersIn(itable[i]), n) /\ g = BlockAt(content, PointersIn(itable[i]), n) /\ g # 0
    BY <1>5, <1>10, <1>11 DEF Filled
  <2>2. g \in 0 .. Blocks - 1
    <3>1. g \in 1 .. Blocks - 1
      BY <1>0, <2>1, DataBlock
    <3>. QED  BY <3>1, Ext2Assumption
  <2>3. content'[g] = Fill(word)
    BY <1>0, <1>1, <2>2 DEF TypeInv
  <2>4. /\ Whole(content', PointersIn(itable'[i]), n)
        /\ BlockAt(content', PointersIn(itable'[i]), n) = g
    BY <1>0, <1>8, <2>1, WayKept
  <2>. QED  BY <1>9, <1>11, <2>1, <2>3, <2>4 DEF Filled
<1>12. CASE ~ (i = ino /\ n = target)
  <2>1. ASSUME Whole(content, PointersIn(itable[i]), n)
        PROVE  BlockAt(content, PointersIn(itable[i]), n) # g
    <3>1. BlockAt(content, PointersIn(itable[i]), n) # 0
      BY <1>10, <2>1 DEF Filled
    <3>2. CASE target \in 0 .. Triple - 1
      BY <1>0, <1>3, <1>5, <1>12, <2>1, <3>1, <3>2, BlocksApart
    <3>3. CASE target \notin 0 .. Triple - 1
      <4>1. /\ BlockAt(content, PointersIn(itable[i]), n) \in 1 .. Blocks - 1
            /\ BlockAt(content, PointersIn(itable[i]), n) \notin Third
        BY <1>0, <2>1, <3>1, DataBlock
      <4>2. \A b \in 1 .. Blocks - 1 : ~ (b <= 0)
        BY Ext2Assumption
      <4>. QED  BY <1>6, <3>3, <4>1, <4>2
    <3>. QED  BY <3>2, <3>3
  <2>2. ~ Whole(content, PointersIn(itable[i]), n) => ~ Whole(content', PointersIn(itable'[i]), n)
    BY <1>0, <1>1, <1>4, <1>7, WayMissing
  <2>. QED  BY <1>0, <1>1, <1>7, <1>8, <1>9, <1>10, <1>12, <2>1, <2>2, FilledKept
<1>. QED  BY <1>11, <1>12

(* The file's next block is where get_block_number looks for it.           *)
LEMMA LeafPlaced ==
  ASSUME FirstDataBlock = 0, TypeInv, OwnInv, ip.block = PointersIn(itable[ino]),
         ino \in 1 .. Inodes - 1, ip.blocks \in 0 .. Triple - 1,
         Whole(content, ip.block, ip.blocks),
         NEW b \in Outer, NEW k \in 0 .. P - 1, <<-b, k>> = Slot(ino, ip.blocks),
         content' = [content EXCEPT ![b][k] = leaf]
  PROVE  /\ Whole(content', ip.block, ip.blocks)
         /\ BlockAt(content', ip.block, ip.blocks) = leaf
<1> DEFINE n == ip.blocks
           d == Len(Path(n))
           f == ip.block
           x == content[f[Direct + 1]][Path(n)[1]]
<1>0. Whole(content, PointersIn(itable[ino]), n) /\ n \in 0 .. Triple - 1
  OBVIOUS
<1>1. /\ d \in 0 .. 2 /\ (d = 0 <=> n < Direct)
      /\ \A j \in 1 .. d : Path(n)[j] \in 0 .. P - 1
  BY <1>0, ShortPath
<1>2. /\ d = 1 => f[Direct] \in Heads(Direct)
      /\ d = 2 => f[Direct + 1] \in Heads(Direct + 1) /\ x \in Below(Heads(Direct + 1))
  BY <1>0, Slots
<1>3. \A c \in Outer : c \in PointerBlocks /\ c \in 1 .. Blocks - 1
  <2>1. \A c \in Outer : c \in PointerBlocks
    BY Sides
  <2>. QED  BY <2>1, WordPlace
<1>4. \A c \in 0 .. Blocks - 1, m \in 0 .. P - 1 :
        content'[c][m] = IF c = b /\ m = k THEN leaf ELSE content[c][m]
  BY DEF TypeInv
<1>5. b \in 0 .. Blocks - 1
  BY <1>3, Ext2Assumption
<1>6. \A c \in 1 .. Blocks - 1 : (-c = -b => c = b) /\ ino # -b
  BY <1>3, Ext2Assumption
<1>7. d # 0
  <2> SUFFICES ASSUME d = 0 PROVE FALSE
    OBVIOUS
  <2>1. Slot(ino, n) = <<ino, n>>
    BY DEF Slot
  <2>2. ino = -b
    BY <2>1
  <2>. QED  BY <1>3, <1>6, <2>2
<1>8. CASE d = 1
  <2>1. Slot(ino, n) = <<-f[Direct], Path(n)[1]>>
    BY <1>8 DEF Slot
  <2>2. f[Direct] \in Outer /\ -f[Direct] = -b /\ Path(n)[1] = k
    BY <1>2, <1>8, <2>1 DEF Outer
  <2>3. f[Direct] = b
    BY <1>3, <1>6, <2>2
  <2>4. BlockAt(content', f, n) = content'[f[Direct]][Path(n)[1]]
    BY <1>8 DEF BlockAt
  <2>5. Whole(content', f, n)
    BY <1>8 DEF Whole
  <2>. QED  BY <1>4, <1>5, <2>2, <2>3, <2>4, <2>5
<1>9. CASE d = 2
  <2>1. Slot(ino, n) = <<-x, Path(n)[2]>>
    BY <1>9 DEF Slot
  <2>. HIDE DEF x
  <2>2. x \in Outer /\ -x = -b /\ Path(n)[2] = k
    BY <1>2, <1>9, <2>1 DEF Outer
  <2>3. x = b
    BY <1>3, <1>6, <2>2
  <2>4. f[Direct + 1] \in Inner /\ f[Direct + 1] \in PointerBlocks
    BY <1>2, <1>9 DEF Inner, PointerBlocks
  <2>5. f[Direct + 1] # b
    BY <2>4, OuterNotInner
  <2>6. Path(n)[1] \in 0 .. P - 1
    BY <1>1, <1>9
  <2>7. f[Direct + 1] \in 0 .. Blocks - 1
    <3>1. f[Direct + 1] \in 1 .. Blocks - 1
      BY <2>4, <2>6, WordPlace
    <3>. QED  BY <3>1, Ext2Assumption
  <2>8. content'[f[Direct + 1]][Path(n)[1]] = b
    BY <1>4, <2>3, <2>5, <2>6, <2>7 DEF x
  <2>9. BlockAt(content', f, n) = content'[content'[f[Direct + 1]][Path(n)[1]]][Path(n)[2]]
    BY <1>9 DEF BlockAt
  <2>10. Whole(content', f, n)
    <3>1. b # 0
      BY <1>3, Ext2Assumption
    <3>. QED  BY <1>0, <1>9, <2>8, <3>1 DEF Whole
  <2>. QED  BY <1>4, <1>5, <2>2, <2>8, <2>9, <2>10
<1>. QED  BY <1>1, <1>7, <1>8, <1>9

LEMMA FilesLink ==
  ASSUME FirstDataBlock = 0, BlockInv, FileInv, EntryInv, Link
  PROVE  FileInv' /\ EntryInv'
<1> DEFINE n == ip.blocks
<1>0. /\ TypeInv /\ OwnInv /\ AllocInv /\ CopyInv
      /\ LengthInv /\ FilledInv /\ NextInv /\ DotsInv /\ Records
  BY DEF BlockInv, FileInv, Records
<1>1. /\ pc = "link" /\ UNCHANGED <<free, imarked, entry, file, cut, broken>>
      /\ UNCHANGED <<ino, target, word>>
  BY DEF Link, Goes, call
<1>2. Filed /\ ino \in 1 .. Inodes - 1 /\ ip.block = PointersIn(itable[ino])
  BY <1>0, <1>1, SameInode DEF CopyInv
<1>3. Held(leaf) /\ leaf # 0 /\ content[leaf] = Fill(0)
  BY <1>0, <1>1 DEF AllocInv, NextInv, Held
<1>4. leaf \in 1 .. Blocks - 1 /\ leaf \notin PointerBlocks
  <2>1. leaf \in 1 .. Blocks - 1
    BY <1>0, <1>3, InRange DEF Held
  <2>2. leaf \notin PointerBlocks
    BY <1>0, <1>3, Origin DEF Held
  <2>. QED  BY <2>1, <2>2
<1>5. n \in Nat /\ itable[ino].blocks = n
  BY <1>0, <1>1, <1>2 DEF LengthInv, Working, Agree, TypeInv, Inode
<1>6. n < Triple => n \in 0 .. Triple - 1
  BY <1>5, Positive
<1>7. n < Direct => Len(Path(n)) = 0
  <2> SUFFICES ASSUME n < Direct PROVE Len(Path(n)) = 0
    OBVIOUS
  <2>1. n \in 0 .. MaxBlock - 1
    BY <1>5, Positive, Ext2Assumption
  <2>2. Path(n) = <<>>
    BY <2>1, PathEmpty
  <2>. QED  BY <2>2
<1>8. ip \in Inode
  BY <1>0 DEF TypeInv
(* The table and the blocks stay.                                          *)
<1>9. ASSUME UNCHANGED <<itable, content>>, pc' \in {"scan", "grow"},
             ip'.kind = ip.kind, ip'.blocks = n, NextInv'
      PROVE  FileInv' /\ EntryInv'
  <2>1. Records'
    BY <1>0, <1>1, <1>2, <1>9, RecordsInside
  <2>2. FilledInv'
    BY <1>0, <1>1, <1>9, FilledSame
  <2>. QED  BY <1>9, <2>1, <2>2 DEF FileInv, Records
<1>10. CASE /\ n >= MaxBlock /\ pc' = "grow"
            /\ UNCHANGED <<itable, content, ip, blk, leaf>>
  <2>1. ~ (n < Triple)
    BY <1>5, <1>10, Positive
  <2>2. NextInv'
    BY <1>10, <2>1 DEF NextInv
  <2>. QED  BY <1>9, <1>10, <2>2
<1>11. CASE /\ n < Direct /\ pc' = "grow" /\ ip' = [ip EXCEPT !.block[n] = leaf]
            /\ UNCHANGED <<itable, content, blk, leaf>>
  <2>1. /\ ip'.kind = ip.kind /\ ip'.blocks = n
        /\ ip'.block = [ip.block EXCEPT ![n] = leaf]
    BY <1>8, <1>11 DEF Inode
  <2>2. ip'.block[n] = leaf
    <3>1. n \in 0 .. Direct + 2
      BY <1>5, <1>11, Ext2Assumption
    <3>2. ip.block \in [0 .. Direct + 2 -> Int]
      BY <1>8 DEF Inode
    <3>. QED  BY <2>1, <3>1, <3>2
  <2>3. Whole(content, ip'.block, n) /\ BlockAt(content, ip'.block, n) = leaf
    BY <1>7, <1>11, <2>2 DEF Whole, BlockAt
  <2>4. NextInv'
    BY <1>3, <1>11, <2>1, <2>3 DEF NextInv
  <2>. QED  BY <1>9, <1>11, <2>1, <2>4
<1>12. CASE /\ pc' = "scan" /\ blk = leaf /\ UNCHANGED <<itable, content, ip, blk, leaf>>
            /\ n < Triple => ~ Whole(content, ip.block, n)
  <2>1. NextInv'
    BY <1>3, <1>12 DEF NextInv
  <2>. QED  BY <1>9, <1>12, <2>1
(* A block of pointers was missing.                                        *)
<1>13. CASE /\ pc' = "link" /\ leaf' = leaf
            /\ content' = content /\ PutInode(ino, ip')
            /\ \E h \in Direct .. Direct + 2 :
                 ip.block[h] = 0 /\ ip' = [ip EXCEPT !.block[h] = blk]
  <2>1. PICK h \in Direct .. Direct + 2 :
          ip.block[h] = 0 /\ ip' = [ip EXCEPT !.block[h] = blk]
    BY <1>13
  <2>2. /\ ip'.kind = ip.kind /\ ip'.blocks = n /\ ip'.size = ip.size
        /\ \A j \in 0 .. Direct + 2 :
             PointersIn(ip')[j] = IF j = h THEN blk ELSE ip.block[j]
    <3>1. /\ ip'.kind = ip.kind /\ ip'.blocks = n /\ ip'.size = ip.size
          /\ \A j \in 0 .. Direct + 2 : ip'.block[j] = IF j = h THEN blk ELSE ip.block[j]
      BY <1>8, <2>1 DEF Inode
    <3>2. PointersIn(ip') = ip'.block
      BY <1>2, <3>1, PointersPlain DEF Filed
    <3>. QED  BY <3>1, <3>2
  <2>3. \A m \in 1 .. Inodes - 1 : itable'[m] = IF m = ino THEN ip' ELSE itable[m]
    <3>1. itable' = [itable EXCEPT ![ino] = ip']
      BY <1>2, <1>13, Ext2Assumption DEF PutInode, HasPlace
    <3>. QED  BY <1>0, <1>2, <3>1 DEF TypeInv
  <2>4. ip.kind = itable[ino].kind
    BY <1>0, <1>1, <1>2 DEF LengthInv, Working, Agree
  <2>5. Records'
    BY <1>0, <1>1, <1>2, <1>5, <1>13, <2>2, <2>3, <2>4, RecordsInside
  <2>6. Keeps({})
    <3>1. \A i \in 1 .. Inodes - 1, j \in 0 .. Direct + 2 :
            PointersIn(itable[i])[j] # 0 => PointersIn(itable'[i])[j] = PointersIn(itable[i])[j]
      <4> SUFFICES ASSUME NEW i \in 1 .. Inodes - 1, NEW j \in 0 .. Direct + 2,
                          PointersIn(itable[i])[j] # 0
                   PROVE  PointersIn(itable'[i])[j] = PointersIn(itable[i])[j]
        OBVIOUS
      <4>1. CASE i = ino
        <5>1. j # h
          BY <1>2, <2>1, <4>1
        <5>. QED  BY <1>2, <2>2, <2>3, <4>1, <5>1
      <4>. QED  BY <2>3, <4>1
    <3>. QED  BY <1>0, <1>13, <3>1, KeepsPlaces
  <2>7. \A i \in 1 .. Inodes - 1 : itable'[i].blocks = itable[i].blocks
    BY <1>5, <2>2, <2>3
  <2>8. FilledInv'
    BY <1>0, <1>1, <1>13, <2>6, <2>7, FilledLink
  <2>9. NextInv'
    BY <1>3, <1>13 DEF NextInv
  <2>. QED  BY <2>5, <2>8, <2>9 DEF FileInv, Records
<1>14. CASE /\ pc' = "link" /\ leaf' = leaf /\ UNCHANGED <<itable, ip>>
            /\ \E b \in PointerBlocks, k \in Words :
                 content[b][k] = 0 /\ content' = [content EXCEPT ![b][k] = blk]
  <2>1. PICK b \in PointerBlocks, k \in 0 .. P - 1 :
          content[b][k] = 0 /\ content' = [content EXCEPT ![b][k] = blk]
    BY <1>14 DEF Words
  <2>2. Records'
    BY <1>0, <1>1, <1>2, <1>14, RecordsInside
  <2>3. \A c : c # b => content'[c] = content[c]
    BY <1>0, <2>1 DEF TypeInv
  <2>4. Keeps({})
    <3>1. \A c \in PointerBlocks, m \in 0 .. P - 1 :
            content[c][m] # 0 => content'[c][m] = content[c][m]
      <4> SUFFICES ASSUME NEW c \in PointerBlocks, NEW m \in 0 .. P - 1,
                          content[c][m] # 0
                   PROVE  content'[c][m] = content[c][m]
        OBVIOUS
      <4>1. c \in 0 .. Blocks - 1
        <5>1. c \in 1 .. Blocks - 1
          BY <1>0, WordPlace
        <5>. QED  BY <5>1, Ext2Assumption
      <4>. QED  BY <1>0, <2>1, <4>1 DEF TypeInv
    <3>. QED  BY <1>0, <1>14, <3>1, KeepsPlaces
  <2>5. FilledInv'
    BY <1>0, <1>1, <1>14, <2>3, <2>4, FilledLink
  <2>6. content'[leaf] = Fill(0)
    BY <1>3, <1>4, <2>3
  <2>7. NextInv'
    BY <1>14, <2>6 DEF NextInv
  <2>. QED  BY <2>2, <2>5, <2>7 DEF FileInv, Records
(* The block itself.                                                       *)
<1>15. CASE /\ pc' = "grow" /\ UNCHANGED <<itable, ip, leaf>>
            /\ \E b \in Outer, k \in Words :
                 /\ n < Triple /\ Whole(content, ip.block, n)
                 /\ <<-b, k>> = Slot(ino, n)
                 /\ content' = [content EXCEPT ![b][k] = leaf]
  <2>1. PICK b \in Outer, k \in 0 .. P - 1 :
          /\ n < Triple /\ Whole(content, ip.block, n)
          /\ <<-b, k>> = Slot(ino, n)
          /\ content' = [content EXCEPT ![b][k] = leaf]
    BY <1>15 DEF Words
  <2> DEFINE S == {<<-b, k>>}
  <2>2. Records'
    BY <1>0, <1>1, <1>2, <1>15, RecordsInside
  <2>3. b \in PointerBlocks
    BY Sides
  <2>4. \A c : c # b => content'[c] = content[c]
    BY <1>0, <2>1 DEF TypeInv
  <2>5. Keeps(S)
    <3>1. \A c \in PointerBlocks, m \in 0 .. P - 1 :
            <<-c, m>> \notin S => content'[c][m] = content[c][m]
      <4> SUFFICES ASSUME NEW c \in PointerBlocks, NEW m \in 0 .. P - 1,
                          <<-c, m>> \notin S
                   PROVE  content'[c][m] = content[c][m]
        OBVIOUS
      <4>1. c \in 0 .. Blocks - 1
        <5>1. c \in 1 .. Blocks - 1
          BY <1>0, WordPlace
        <5>. QED  BY <5>1, Ext2Assumption
      <4>2. ~ (c = b /\ m = k)
        OBVIOUS
      <4>. QED  BY <1>0, <2>1, <4>1, <4>2 DEF TypeInv
    <3>. HIDE DEF S
    <3>. QED  BY <1>0, <1>15, <3>1, KeepsPlaces
  <2>6. \A p \in S : PointsTo(p) \notin PointerBlocks
    <3>1. PointsTo(<<-b, k>>) = content[b][k]
      BY <1>0, <2>3, WordPlace
    <3>2. content[b][k] \notin PointerBlocks
      BY <1>0, OuterWords
    <3>. QED  BY <3>1, <3>2
  <2>7. ASSUME NEW i \in 1 .. Inodes - 1, NEW m \in 0 .. Triple - 1,
               m < itable[i].blocks, Whole(content, PointersIn(itable[i]), m),
               Slot(i, m) \in S
        PROVE  FALSE
    <3>1. Slot(i, m) = Slot(ino, n) /\ Whole(content, PointersIn(itable[ino]), n)
      BY <1>2, <2>1, <2>7
    <3>2. i = ino /\ m = n
      BY <1>0, <1>2, <1>6, <2>1, <2>7, <3>1, SlotsApart
    <3>. QED  BY <1>5, <2>7, <3>2
  <2>8. FilledInv'
    <3>. HIDE DEF S
    <3>. QED  BY <1>0, <1>1, <1>15, <2>3, <2>4, <2>5, <2>6, <2>7, FilledLink
  <2>9. Whole(content', ip.block, n) /\ BlockAt(content', ip.block, n) = leaf
    BY <1>0, <1>2, <1>6, <2>1, LeafPlaced
  <2>10. content'[leaf] = Fill(0)
    BY <1>3, <1>4, <2>3, <2>4
  <2>11. NextInv'
    BY <1>3, <1>15, <2>9, <2>10 DEF NextInv
  <2>. QED  BY <2>2, <2>8, <2>11 DEF FileInv, Records
<1>16. CASE /\ pc' = "grow" /\ UNCHANGED <<itable, ip>>
            /\ \E b \in Third, k \in Words :
                 n >= Triple /\ content' = [content EXCEPT ![b][k] = b]
  <2>1. PICK b \in Third, k \in Words :
          n >= Triple /\ content' = [content EXCEPT ![b][k] = b]
    BY <1>16
  <2>2. Records'
    BY <1>0, <1>1, <1>2, <1>16, RecordsInside
  <2>3. b \notin PointerBlocks
    BY <1>0, ThirdApart
  <2>4. \A c : c # b => content'[c] = content[c]
    BY <1>0, <2>1 DEF TypeInv
  <2>5. Keeps({})
    BY <1>0, <1>16, <2>3, <2>4, KeepsPlaces
  <2>6. FilledInv'
    BY <1>0, <1>1, <1>16, <2>4, <2>5, FilledLink
  <2>7. ~ (n < Triple)
    BY <1>5, <2>1, Positive
  <2>8. NextInv'
    BY <1>16, <2>7 DEF NextInv
  <2>. QED  BY <2>2, <2>6, <2>8 DEF FileInv, Records
<1>. QED  BY <1>10, <1>11, <1>12, <1>13, <1>14, <1>15, <1>16, LinkShape

(* The other steps.                                                        *)
LEMMA NextClear ==
  ASSUME pc' \notin {"count", "zero", "link", "grow"}, pc' = "scan" => leaf' = 0
  PROVE  NextInv'
BY DEF NextInv

LEMMA FilesCall ==
  ASSUME FirstDataBlock = 0, IInv, BlockInv, FileInv, EntryInv, Call
  PROVE  FileInv' /\ EntryInv'
<1>0. /\ TypeInv /\ OwnInv /\ AllocInv
      /\ LengthInv /\ FilledInv /\ NextInv /\ DotsInv /\ Records
  BY DEF BlockInv, FileInv, Records
<1>1. ASSUME Records', FilledInv', pc' \in {"idle", "inode", "scan", "data"},
             pc = "idle", leaf' = leaf
      PROVE  FileInv' /\ EntryInv'
  <2>1. leaf' = 0
    BY <1>0, <1>1 DEF AllocInv
  <2>2. NextInv'
    BY <1>1, <2>1, NextClear
  <2>. QED  BY <1>1, <2>2 DEF FileInv, Records
<1>2. ASSUME NEW i \in Files, Truncate(i) PROVE FileInv' /\ EntryInv'
  <2> DEFINE short == [itable[i] EXCEPT !.size = 0]
  <2>1. /\ pc = "idle" /\ pc' = "idle" /\ PutInode(i, short)
        /\ UNCHANGED <<free, content, file, leaf>>
    BY <1>2 DEF Truncate, Begins
  <2>2. i \in 1 .. Inodes - 1 /\ HasPlace(i) /\ itable[i] \in Inode
    BY <1>0, FileInodes
  <2>3. PointersIn(short) = PointersIn(itable[i]) /\ short.blocks = itable[i].blocks
    BY <2>2, InodeSize DEF Inode
  <2>. HIDE DEF short
  <2>4. \A m \in 1 .. Inodes - 1 : itable'[m] = IF m = i THEN short ELSE itable[m]
    <3>1. itable' = [itable EXCEPT ![i] = short]
      BY <2>1, <2>2 DEF PutInode
    <3>. QED  BY <1>0, <2>2, <3>1, Rewritten
  <2>5. FilledInv'
    BY <1>0, <2>1, <2>3, <2>4, FilledSame
  <2>6. Records'
    BY <1>0, <1>2, RecordsTruncate
  <2>. QED  BY <1>1, <2>1, <2>5, <2>6
<1>3. ASSUME NEW i \in Files, NEW n \in Targets, NEW w \in Data, Write(i, n, w)
      PROVE  FileInv' /\ EntryInv'
  <2> DEFINE grown == [itable[i] EXCEPT !.size = Max({@, n + 1})]
  <2>1. /\ pc = "idle" /\ pc' \in {"scan", "data"} /\ PutInode(i, grown)
        /\ UNCHANGED <<free, content, file, leaf>>
    BY <1>3 DEF Write, Begins, Allocates
  <2>2. i \in 1 .. Inodes - 1 /\ HasPlace(i) /\ itable[i] \in Inode
    BY <1>0, FileInodes
  <2>3. PointersIn(grown) = PointersIn(itable[i]) /\ grown.blocks = itable[i].blocks
    BY <2>2 DEF Inode, PointersIn
  <2>. HIDE DEF grown
  <2>4. \A m \in 1 .. Inodes - 1 : itable'[m] = IF m = i THEN grown ELSE itable[m]
    <3>1. itable' = [itable EXCEPT ![i] = grown]
      BY <2>1, <2>2 DEF PutInode
    <3>. QED  BY <1>0, <2>2, <3>1, Rewritten
  <2>5. FilledInv'
    BY <1>0, <2>1, <2>3, <2>4, FilledSame
  <2>6. Records'
    BY <1>0, <1>3, RecordsWrite
  <2>. QED  BY <1>1, <2>1, <2>5, <2>6
<1>4. ASSUME NEW x \in Names, Unlink(x) PROVE FileInv' /\ EntryInv'
  <2>1. pc = "idle" /\ pc' = "idle" /\ UNCHANGED <<free, itable, content, file, leaf>>
    BY <1>4 DEF Unlink, Begins
  <2>2. FilledInv'
    BY <1>0, <2>1, FilledSame
  <2>3. Records'
    BY <1>0, <1>4, RecordsUnlink
  <2>. QED  BY <1>1, <2>1, <2>2, <2>3
<1>5. ASSUME NEW x \in Names, NEW kind \in Kinds, Create(x, kind)
      PROVE  FileInv' /\ EntryInv'
  <2>1. /\ pc = "idle" /\ pc' \in {"inode", "scan"}
        /\ UNCHANGED <<free, itable, content, file, leaf>>
    BY <1>5 DEF Create, Begins
  <2>2. FilledInv'
    BY <1>0, <2>1, FilledSame
  <2>3. Records'
    BY <1>0, <1>5, RecordsCreate
  <2>. QED  BY <1>1, <2>1, <2>2, <2>3
<1>. QED  BY <1>2, <1>3, <1>4, <1>5 DEF Call

LEMMA FilesMaking ==
  ASSUME FirstDataBlock = 0, BlockInv, FileInv, EntryInv,
         WriteInode \/ CreateEntry \/ WriteSize
  PROVE  FileInv' /\ EntryInv'
<1>0. /\ TypeInv /\ OwnInv /\ AllocInv /\ CopyInv
      /\ LengthInv /\ FilledInv /\ NextInv /\ DotsInv /\ Records
  BY DEF BlockInv, FileInv, Records
<1>1. ASSUME Records', FilledInv', pc' \in {"idle", "entry", "size", "scan"}, leaf' = 0
      PROVE  FileInv' /\ EntryInv'
  <2>1. NextInv'
    BY <1>1, NextClear
  <2>. QED  BY <1>1, <2>1 DEF FileInv, Records
<1>2. CASE WriteInode
  <2>1. /\ pc = "inode" /\ pc' = "entry" /\ PutInode(ino, ip)
        /\ UNCHANGED <<free, content, file, leaf>>
    BY <1>2 DEF WriteInode, Goes
  <2>2. leaf' = 0 /\ ip.blocks = 0
    BY <1>0, <2>1 DEF AllocInv, LengthInv
  <2>3. \A m \in 1 .. Inodes - 1 : itable'[m] = itable[m] \/ itable'[m].blocks = 0
    <3>1. \A m \in 1 .. Inodes - 1 : [itable EXCEPT ![ino] = ip][m]
                                       = IF m = ino THEN ip ELSE itable[m]
      BY <1>0 DEF TypeInv
    <3>. QED  BY <2>1, <2>2, <3>1 DEF PutInode
  <2>4. FilledInv'
    BY <1>0, <2>1, <2>3, FilledSame
  <2>5. Records'
    BY <1>0, <1>2, RecordsWriteInode
  <2>. QED  BY <1>1, <2>1, <2>2, <2>4, <2>5
<1>3. CASE CreateEntry
  <2>1. /\ pc = "entry" /\ pc' \in {"idle", "size"} /\ leaf' \in {0, leaf}
        /\ UNCHANGED <<free, itable, content, file>>
    BY <1>3 DEF CreateEntry, Goes, Over
  <2>2. leaf' = 0
    BY <1>0, <2>1 DEF AllocInv
  <2>3. FilledInv'
    BY <1>0, <2>1, FilledSame
  <2>4. Records'
    BY <1>0, <1>3, RecordsCreateEntry
  <2>. QED  BY <1>1, <2>1, <2>2, <2>3, <2>4
<1>4. CASE WriteSize
  <2> DEFINE sized == [ip EXCEPT !.size = 1]
  <2>1. /\ pc = "size" /\ pc' = "scan" /\ PutInode(ino, sized)
        /\ UNCHANGED <<free, content, file, leaf>>
    BY <1>4 DEF WriteSize, Goes
  <2>2. leaf' = 0
    BY <1>0, <2>1 DEF AllocInv
  <2>3. ino \in 1 .. Inodes - 1 /\ ip.block = PointersIn(itable[ino])
    BY <1>0, <2>1, SameInode DEF CopyInv
  <2>4. ip.blocks = itable[ino].blocks
    BY <1>0, <2>1, <2>3 DEF LengthInv, Working, Agree
  <2>5. PointersIn(sized) = PointersIn(itable[ino]) /\ sized.blocks = ip.blocks
    <3>1. PointersIn(sized) = PointersIn(ip) /\ sized.blocks = ip.blocks
      BY <1>0, InodeSize DEF TypeInv, Inode
    <3>2. PointersIn(ip) = ip.block
      BY <1>0, <2>1, PointersPlain DEF CopyInv, Filed
    <3>. QED  BY <2>3, <3>1, <3>2
  <2>. HIDE DEF sized
  <2>6. \A m \in 1 .. Inodes - 1 : itable'[m] = IF m = ino THEN sized ELSE itable[m]
    <3>1. itable' = [itable EXCEPT ![ino] = sized]
      BY <2>1, <2>3, Ext2Assumption DEF PutInode, HasPlace
    <3>. QED  BY <1>0, <2>3, <3>1, Rewritten
  <2>7. FilledInv'
    BY <1>0, <2>1, <2>3, <2>4, <2>5, <2>6, FilledSame
  <2>8. Records'
    BY <1>0, <1>4, RecordsWriteSize
  <2>. QED  BY <1>1, <2>1, <2>2, <2>7, <2>8
<1>. QED  BY <1>2, <1>3, <1>4

LEMMA FilesAllocate ==
  ASSUME FirstDataBlock = 0, BlockInv, FileInv, EntryInv,
         Scan \/ ScanFails \/ Count \/ Zero
  PROVE  FileInv' /\ EntryInv'
<1>0. /\ TypeInv /\ OwnInv /\ AllocInv /\ CopyInv
      /\ LengthInv /\ FilledInv /\ NextInv /\ DotsInv /\ Records
  BY DEF BlockInv, FileInv, Records
<1>1. /\ pc \in {"scan", "count", "zero"} /\ pc' \in {"count", "zero", "link", "grow"}
      /\ UNCHANGED <<imarked, itable, entry, file, cut, broken, ip>>
      /\ UNCHANGED <<ino, target, word>>
  BY DEF Scan, ScanFails, Count, Zero, Goes, disk, inodes, call
<1>2. Filed
  <2>1. pc = "scan" => free > 0 \/ leaf # 0
    BY DEF Scan, ScanFails, Count, Zero, Goes
  <2>2. ~ (free > 0 /\ free = 0)
    OBVIOUS
  <2>. QED  BY <1>0, <1>1, <2>1, <2>2 DEF CopyInv
<1>3. Records'
  BY <1>0, <1>1, <1>2, RecordsInside
<1>4. ASSUME FilledInv', NextInv' PROVE FileInv' /\ EntryInv'
  BY <1>3, <1>4 DEF FileInv, Records
<1>5. CASE Scan
  <2>1. pc = "scan" /\ pc' = "count" /\ free > 0 /\ UNCHANGED <<free, content, leaf>>
    BY <1>5 DEF Scan, Goes
  <2>2. FilledInv'
    BY <1>0, <1>1, <2>1, FilledSame
  <2>3. NextInv'
    BY <1>0, <2>1 DEF NextInv
  <2>. QED  BY <1>4, <2>2, <2>3
<1>6. CASE ScanFails
  <2>1. /\ pc = "scan" /\ pc' = "grow" /\ free = 0 /\ leaf # 0
        /\ UNCHANGED <<free, content, leaf>>
    BY <1>6 DEF ScanFails, Goes, disk
  <2>2. FilledInv'
    BY <1>0, <1>1, <2>1, FilledSame
  <2>3. NextInv'
    BY <1>0, <1>1, <2>1 DEF NextInv
  <2>. QED  BY <1>4, <2>2, <2>3
<1>7. CASE Count
  <2>1. pc = "count" /\ pc' = "zero" /\ UNCHANGED <<content, leaf>>
    BY <1>7 DEF Count, Goes
  <2>2. FilledInv'
    BY <1>0, <1>1, <2>1, FilledSame
  <2>3. NextInv'
    BY <1>0, <2>1 DEF NextInv
  <2>. QED  BY <1>4, <2>2, <2>3
<1>8. CASE Zero
  <2>1. /\ pc = "zero" /\ pc' = "link" /\ content' = [content EXCEPT ![blk] = Fill(0)]
        /\ leaf' = IF leaf = 0 THEN blk ELSE leaf
    BY <1>8 DEF Zero, Goes
  <2>2. Held(blk) /\ (leaf = 0 \/ (Held(leaf) /\ leaf # blk))
    BY <1>0, <2>1 DEF AllocInv
  <2>3. blk \in 0 .. Blocks - 1
    <3>1. blk \in 1 .. Blocks - 1
      BY <1>0, <2>2, InRange DEF Held
    <3>. QED  BY <3>1, Ext2Assumption
  <2>4. content'[leaf'] = Fill(0)
    <3>1. CASE leaf = 0
      BY <1>0, <2>1, <2>3, <3>1 DEF TypeInv
    <3>2. CASE leaf # 0
      <4>1. content[leaf] = Fill(0)
        BY <1>0, <2>1, <3>2 DEF NextInv
      <4>. QED  BY <1>0, <2>1, <2>2, <3>2, <4>1 DEF TypeInv
    <3>. QED  BY <3>1, <3>2
  <2>5. NextInv'
    BY <2>1, <2>4 DEF NextInv
  <2>6. FilledInv'
    BY <1>0, <1>8, FilledZero
  <2>. QED  BY <1>4, <2>5, <2>6
<1>. QED  BY <1>5, <1>6, <1>7, <1>8

LEMMA FilesGrow ==
  ASSUME FirstDataBlock = 0, BlockInv, FileInv, EntryInv, Grow
  PROVE  FileInv' /\ EntryInv'
<1>1. Records'
  BY RecordsGrow DEF FileInv, Records
<1>2. FilledInv'
  BY FilledGrow DEF FileInv
<1>3. pc' \in {"scan", "data"} /\ leaf' = 0
  BY DEF Grow, Goes, Allocates
<1>4. NextInv'
  BY <1>3, NextClear
<1>. QED  BY <1>1, <1>2, <1>4 DEF FileInv, Records

LEMMA FilesWriteBlock ==
  ASSUME FirstDataBlock = 0, BlockInv, FileInv, EntryInv, WriteBlock, ~ broken'
  PROVE  FileInv' /\ EntryInv'
<1>1. Records'
  BY RecordsWriteBlock DEF FileInv, Records
<1>2. FilledInv'
  BY FilledWriteBlock DEF FileInv
<1>3. pc' = "idle"
  BY DEF WriteBlock, Over
<1>4. NextInv'
  BY <1>3, NextClear
<1>. QED  BY <1>1, <1>2, <1>4 DEF FileInv, Records

LEMMA FilesCrash ==
  ASSUME FirstDataBlock = 0, BlockInv, FileInv, EntryInv, Crash
  PROVE  FileInv' /\ EntryInv'
<1>1. pc' = "idle" /\ UNCHANGED <<free, itable, content, file>>
  BY DEF Crash, Over, disk
<1>2. Records'
  BY RecordsCrash DEF FileInv, Records
<1>3. FilledInv'
  BY <1>1, FilledSame DEF BlockInv, FileInv
<1>4. NextInv'
  BY <1>1, NextClear
<1>. QED  BY <1>2, <1>3, <1>4 DEF FileInv, Records

LEMMA FilesStutter ==
  ASSUME UNCHANGED vars
  PROVE  (FileInv => FileInv') /\ (EntryInv => EntryInv')
<1>1. /\ UNCHANGED <<free, imarked, itable, content, entry, pc, file, cut, broken>>
      /\ UNCHANGED <<ino, target, word, ip, leaf>>
  BY DEF vars, disk, call
<1>2. LengthInv => LengthInv'
  BY <1>1 DEF LengthInv, Agree, Working
<1>3. FilledInv => FilledInv'
  BY <1>1 DEF FilledInv, Filled
<1>4. NextInv => NextInv'
  BY <1>1 DEF NextInv
<1>5. DotsInv => DotsInv'
  BY <1>1 DEF DotsInv
<1>6. EntryInv => EntryInv'
  BY <1>1 DEF EntryInv
<1>. QED  BY <1>2, <1>3, <1>4, <1>5, <1>6 DEF FileInv

(* What is written to the inode table is the inode in memory, a regular     *)
(* file's, or that of an inode which has pointers.                         *)
LEMMA TextStep ==
  ASSUME BlockInv, TextInv, [Next]_vars, ~ broken'
  PROVE  TextInv'
<1> DEFINE Table(inode) == \/ itable' = itable
                           \/ \E i \in Int : itable' = [itable EXCEPT ![i] = inode]
<1>0. TypeInv /\ CopyInv
  BY DEF BlockInv
<1>1. ASSUME Worded(ip'), NEW inode, Worded(inode), Table(inode)
      PROVE  TextInv'
  BY <1>0, <1>1 DEF TextInv, TypeInv
<1>2. \A i, inode : PutInode(i, inode) /\ i \in Int => Table(inode)
  BY DEF PutInode
<1>3. Worded(Fresh("none"))
  BY DEF Worded, Fresh
<1>4. Inodes \in Nat /\ ino \in Int
  BY <1>0, Ext2Assumption DEF TypeInv
<1>. HIDE DEF Table
<1>5. ASSUME itable' = itable, ip' \in {ip, Fresh("none")} PROVE TextInv'
  BY <1>3, <1>5 DEF TextInv
<1>6. ASSUME NEW i \in Files, NEW s \in Nat, PutInode(i, [itable[i] EXCEPT !.size = s]),
             ip' \in {ip, [itable[i] EXCEPT !.size = s]}
      PROVE  TextInv'
  <2>1. /\ i \in 1 .. Inodes - 1 /\ i \in Int
        /\ itable[i] \in Inode /\ itable[i].kind = "file"
    BY <1>0, <1>4, FileInodes
  <2>2. [itable[i] EXCEPT !.size = s].kind = "file"
    BY <2>1, InodeSize
  <2>3. Worded([itable[i] EXCEPT !.size = s])
    BY <2>2 DEF Worded
  <2>. QED  BY <1>1, <1>2, <1>6, <2>1, <2>3 DEF TextInv
<1>7. CASE Call
  <2>1. ASSUME NEW i \in Files, Truncate(i) PROVE TextInv'
    BY <1>6, <2>1 DEF Truncate
  <2>2. ASSUME NEW i \in Files, NEW n \in Targets, NEW w \in Data, Write(i, n, w)
        PROVE  TextInv'
    <3>1. Max({itable[i].size, n + 1}) \in Nat
      <4>1. itable[i] \in Inode
        BY <1>0, FileInodes
      <4>2. itable[i].size \in Nat /\ n + 1 \in Nat
        BY <4>1, Positive, Ext2Assumption DEF Inode
      <4>. QED  BY <4>2, MaxNat
    <3>. QED  BY <1>6, <2>2, <3>1 DEF Write
  <2>3. ASSUME NEW x \in Names, Unlink(x) PROVE TextInv'
    BY <1>5, <2>3 DEF Unlink
  <2>4. ASSUME NEW x \in Names, NEW kind \in Kinds, Create(x, kind) PROVE TextInv'
    <3>1. ip' = NewInode(kind) /\ itable' = itable
      BY <2>4 DEF Create
    <3>2. CASE kind = "embedded"
      <4>1. NewInode(kind) = [kind |-> kind, size |-> 1, blocks |-> 0, block |-> Text]
        BY <3>2 DEF NewInode, Fresh
      <4>. QED  BY <3>1, <4>1 DEF TextInv, Worded
    <3>3. CASE kind # "embedded"
      <4>1. NewInode(kind).kind = kind
        BY NewInodes
      <4>. QED  BY <3>1, <3>3, <4>1 DEF TextInv, Worded
    <3>. QED  BY <3>2, <3>3
  <2>. QED  BY <1>7, <2>1, <2>2, <2>3, <2>4 DEF Call
<1>8. CASE WriteInode
  BY <1>1, <1>2, <1>4, <1>8 DEF WriteInode, TextInv
<1>9. CASE CreateEntry \/ Scan \/ ScanFails \/ Count \/ Zero \/ WriteBlock \/ Crash
  BY <1>5, <1>9 DEF CreateEntry, Scan, ScanFails, Count, Zero, WriteBlock, Crash, Over,
                    disk, inodes
(* An inode that has pointers is written from memory.                      *)
<1>10. ASSUME Filed, ip'.kind = ip.kind, itable' = itable \/ PutInode(ino, ip')
       PROVE  TextInv'
  <2>1. Worded(ip')
    BY <1>10 DEF Filed, Worded
  <2>2. Table(ip')
    BY <1>2, <1>4, <1>10 DEF Table
  <2>. QED  BY <1>1, <2>1, <2>2
<1>11. CASE WriteSize
  <2>1. ip'.kind = ip.kind
    BY <1>0, <1>11 DEF WriteSize, TypeInv, Inode
  <2>. QED  BY <1>0, <1>10, <1>11, <2>1 DEF WriteSize, Goes, CopyInv
<1>12. CASE Link
  <2>1. ip'.kind = ip.kind
    BY <1>0, <1>12 DEF Link, TypeInv, Inode
  <2>. QED  BY <1>0, <1>10, <1>12, <2>1 DEF Link, CopyInv
<1>13. CASE Grow
  <2>1. ip'.kind = ip.kind
    BY <1>0, <1>13 DEF Grow, TypeInv, Inode
  <2>. QED  BY <1>0, <1>10, <1>13, <2>1 DEF Grow, CopyInv
<1>14. CASE UNCHANGED vars
  BY <1>5, <1>14 DEF vars, disk
<1>. QED  BY <1>7, <1>8, <1>9, <1>11, <1>12, <1>13, <1>14 DEF Next, Proceed

LEMMA FilesStep ==
  ASSUME FirstDataBlock = 0, IInv, BlockInv, FileInv, EntryInv, [Next]_vars, ~ broken'
  PROVE  FileInv' /\ EntryInv'
<1>1. CASE UNCHANGED vars
  BY <1>1, FilesStutter
<1>2. CASE Call
  BY <1>2, FilesCall
<1>3. CASE WriteInode \/ CreateEntry \/ WriteSize
  BY <1>3, FilesMaking
<1>4. CASE Scan \/ ScanFails \/ Count \/ Zero
  BY <1>4, FilesAllocate
<1>5. CASE Link
  BY <1>5, FilesLink
<1>6. CASE Grow
  BY <1>6, FilesGrow
<1>7. CASE WriteBlock
  BY <1>7, FilesWriteBlock
<1>8. CASE Crash
  BY <1>8, FilesCrash
<1>. QED  BY <1>1, <1>2, <1>3, <1>4, <1>5, <1>6, <1>7, <1>8 DEF Next, Proceed

LEMMA FilesInit ==
  ASSUME Init
  PROVE  FileInv /\ EntryInv /\ TextInv
<1> DEFINE old == [Fresh("file") EXCEPT !.size = 1, !.blocks = 1, !.block[0] = OldBlock]
<1>0. /\ Direct \in Nat /\ Direct >= 1 /\ Inodes \in Nat /\ Inodes > 2 /\ OldFile = 2
      /\ OldBlock \in 1 .. Blocks - 1 /\ OldBlock \in 0 .. Blocks - 1 /\ OldBlock # 0
  BY Ext2Assumption DEF OldFile
<1>1. /\ pc = "idle" /\ ino = 0 /\ ip = Fresh("none") /\ imarked = {1, 2}
      /\ itable = [i \in 1 .. Inodes - 1 |-> IF i = OldFile THEN old ELSE Fresh("none")]
      /\ entry = [x \in Names |-> 0]
      /\ content = [b \in 0 .. Blocks - 1 |-> Fill(IF b = OldBlock THEN Dots ELSE OldBlock)]
      /\ file = [i \in 1 .. Inodes |->
                   [n \in 0 .. MaxBlock - 1 |->
                      IF i = OldFile /\ n = 0 THEN Fill(Dots) ELSE Fill(0)]]
  BY DEF Init, Root, OldFile
<1>2. old.kind = "file" /\ old.blocks = 1 /\ PointersIn(old)[0] = OldBlock
  <2>1. 0 \in 0 .. Direct + 2
    BY <1>0
  <2>2. old.kind = "file" /\ old.blocks = 1 /\ old.block[0] = OldBlock
    BY <2>1 DEF Fresh
  <2>. QED  BY <2>2, PointersPlain
<1>3. Fresh("none").kind = "none" /\ Fresh("none").blocks = 0
  BY DEF Fresh
<1>. HIDE DEF old
<1>4. \A i \in 1 .. Inodes - 1 : itable[i] = IF i = OldFile THEN old ELSE Fresh("none")
  BY <1>1
<1>5. \A i \in 1 .. Inodes - 1, n \in 0 .. Triple - 1 :
        file[i][n] = IF i = OldFile /\ n = 0 THEN Fill(Dots) ELSE Fill(0)
  <2> SUFFICES ASSUME NEW i \in 1 .. Inodes - 1, NEW n \in 0 .. Triple - 1
               PROVE  file[i][n] = IF i = OldFile /\ n = 0 THEN Fill(Dots) ELSE Fill(0)
    OBVIOUS
  <2>1. i \in 1 .. Inodes /\ n \in 0 .. MaxBlock - 1
    BY <1>0, ShortPath
  <2>. QED  BY <1>1, <2>1
<1>6. LengthInv
  <2>1. file \in [1 .. Inodes -> [0 .. MaxBlock - 1 -> [0 .. P - 1 -> Int]]]
    <3>1. Fill(Dots) \in [0 .. P - 1 -> Int] /\ Fill(0) \in [0 .. P - 1 -> Int]
      BY Ext2Assumption DEF Fill
    <3>. QED  BY <1>1, <3>1
  <2>2. \A i \in 1 .. Inodes - 1, n \in 0 .. Triple - 1 :
          n >= itable[i].blocks => file[i][n] = Fill(0)
    BY <1>2, <1>4, <1>5
  <2>3. \A i \in 1 .. Inodes - 1 : i \notin imarked
          => itable[i].kind = "none" /\ itable[i].blocks = 0
    BY <1>0, <1>1, <1>3, <1>4
  <2>. QED  BY <1>1, <2>1, <2>2, <2>3 DEF LengthInv, Working
<1>7. FilledInv
  <2> SUFFICES ASSUME NEW i \in 1 .. Inodes - 1, NEW n \in 0 .. Triple - 1,
                      n < itable[i].blocks
               PROVE  Filled(i, n)
    BY DEF FilledInv
  <2>1. n \in Nat
    BY ShortPath
  <2>2. i = OldFile /\ n = 0 /\ itable[i] = old
    BY <1>2, <1>3, <1>4, <2>1
  <2>3. Len(Path(n)) = 0
    BY <1>0, <2>2, ShortPath
  <2>4. /\ Whole(content, PointersIn(itable[i]), n)
        /\ BlockAt(content, PointersIn(itable[i]), n) = OldBlock
    <3>1. Whole(content, PointersIn(itable[i]), n)
      BY <2>3 DEF Whole
    <3>2. BlockAt(content, PointersIn(itable[i]), n) = PointersIn(itable[i])[n]
      BY <2>3 DEF BlockAt
    <3>. QED  BY <1>2, <2>2, <3>1, <3>2
  <2>5. content[OldBlock] = Fill(Dots)
    BY <1>0, <1>1
  <2>. QED  BY <1>0, <1>5, <2>2, <2>4, <2>5 DEF Filled
<1>8. NextInv
  BY <1>1 DEF NextInv
<1>9. DotsInv
  BY <1>1, <1>2, <1>3, <1>4 DEF DotsInv, Buffered
<1>10. EntryInv
  BY <1>0, <1>1 DEF EntryInv
<1>11. TextInv
  BY <1>1, <1>2, <1>3, <1>4 DEF TextInv, Worded
<1>. QED  BY <1>6, <1>7, <1>8, <1>9, <1>10, <1>11 DEF FileInv

(* The invariant of the files, with that of the blocks it needs.  A block   *)
(* without a number that is written may be anyone's, the inode table's and *)
(* the directory's too: nothing is left of it then.                        *)
ContentInv == IInv /\ (~ broken => BlockInv /\ FileInv /\ EntryInv /\ TextInv)

LEMMA ContentSpec ==
  ASSUME FirstDataBlock = 0
  PROVE  Spec => []ContentInv
<1>1. Init => ContentInv
  BY CountInit, BlocksInit, FilesInit DEF ContentInv
<1>2. ContentInv /\ [Next]_vars => ContentInv'
  <2> SUFFICES ASSUME ContentInv, [Next]_vars PROVE ContentInv'
    OBVIOUS
  <2>1. IInv'
    BY CountStep DEF ContentInv
  <2>2. ~ broken' => ~ broken
    <3>1. CASE UNCHANGED vars
      BY <3>1 DEF vars
    <3>2. CASE Next
      BY <3>2 DEF Next, Call, Truncate, Write, Unlink, Create, Begins, Proceed,
                  WriteInode, CreateEntry, WriteSize, Scan, ScanFails, Count, Zero,
                  Link, Grow, WriteBlock, Crash
    <3>. QED  BY <3>1, <3>2
  <2>3. ASSUME ~ broken' PROVE BlockInv' /\ FileInv' /\ EntryInv' /\ TextInv'
    <3>1. IInv /\ BlockInv /\ FileInv /\ EntryInv /\ TextInv
      BY <2>2, <2>3 DEF ContentInv
    <3>2. BlockInv'
      BY <2>3, <3>1, BlocksStep
    <3>3. FileInv' /\ EntryInv'
      BY <2>3, <3>1, FilesStep
    <3>4. TextInv'
      BY <2>3, <3>1, TextStep
    <3>. QED  BY <3>2, <3>3, <3>4
  <2>. QED  BY <2>1, <2>3 DEF ContentInv
<1>. QED  BY <1>1, <1>2, PTL DEF Spec

LEMMA ContentReads ==
  ASSUME FirstDataBlock = 0, ContentInv, ~ broken,
         NEW i \in 1 .. Inodes - 1, NEW n \in 0 .. Triple - 1,
         itable[i].kind # "embedded", Missing(itable[i], n) = {}
  PROVE  ReadBlock(itable[i], n) = file[i][n]
<1>0. BlockInv /\ LengthInv /\ FilledInv
  BY DEF ContentInv, FileInv
<1>1. /\ Whole(content, PointersIn(itable[i]), n)
      /\ GetBlockNumber(itable[i], n) = BlockAt(content, PointersIn(itable[i]), n)
  BY Reached, PointersPlain
<1>2. n \in Nat /\ itable[i].blocks \in Nat
  BY <1>0, ShortPath DEF BlockInv, TypeInv, Inode
<1>3. CASE n < itable[i].blocks
  <2>1. Filled(i, n)
    BY <1>0, <1>3 DEF FilledInv
  <2>2. ~ (n >= itable[i].blocks)
    BY <1>2, <1>3
  <2>. QED  BY <1>1, <2>1, <2>2 DEF Filled, ReadBlock
<1>4. CASE n >= itable[i].blocks
  BY <1>0, <1>4 DEF LengthInv, ReadBlock
<1>. QED  BY <1>2, <1>3, <1>4

(* What inode_write_block wrote last to a block of a file is what           *)
(* inode_read_block returns, after any calls and crashes, for every file   *)
(* the root names: no other file's write, no block of pointers and no block *)
(* cleared by allocate_block ever went over it.                            *)
THEOREM ReadCorrect ==
  ASSUME FirstDataBlock = 0
  PROVE  Spec => []ReadBack
<1>1. ContentInv => ReadBack
  <2> SUFFICES ASSUME ContentInv, ~ broken,
                      NEW i \in {OldFile} \cup {entry[x] : x \in Names},
                      NEW n \in 0 .. Triple - 1,
                      i # 0, HasPlace(i), itable[i].kind # "embedded",
                      Missing(itable[i], n) = {}
               PROVE  ReadBlock(itable[i], n) = file[i][n]
    BY DEF ReadBack
  <2>1. i \in 0 .. Inodes
    BY Ext2Assumption DEF ContentInv, BlockInv, TypeInv, OldFile
  <2>2. i \in 1 .. Inodes - 1
    BY <2>1, Ext2Assumption DEF HasPlace
  <2>. QED  BY <2>2, ContentReads
<1>. QED  BY <1>1, ContentSpec, PTL

(* An entry of the root names an inode that allocate_inode marked and      *)
(* write_inode wrote, and no second entry names it; an embedded link has   *)
(* its target, and a directory or another link that is not being made and  *)
(* that no crash cut has the block with "." and ".." or its target.        *)
THEOREM EntriesCorrect ==
  ASSUME FirstDataBlock = 0
  PROVE  Spec => []EntriesInitialised
<1>1. ContentInv => EntriesInitialised
  <2> SUFFICES ASSUME ContentInv, ~ broken, NEW x \in Names, entry[x] # 0
               PROVE  /\ entry[x] \in imarked
                      /\ \A y \in Names : entry[x] = entry[y] => x = y
                      /\ HasPlace(entry[x]) =>
                           LET inode == itable[entry[x]]
                           IN /\ inode.kind # "none"
                              /\ Worded(inode)
                              /\ inode.kind \in Buffered /\ inode.size > 0
                                   => \/ ReadBlock(inode, 0) = Fill(Dots)
                                      \/ pc # "idle" /\ ino = entry[x]
                                      \/ entry[x] \in cut
    BY DEF EntriesInitialised, Worded
  <2>1. EntryInv /\ TextInv /\ DotsInv
    BY DEF ContentInv, FileInv
  <2>2. HasPlace(entry[x]) => entry[x] \in 1 .. Inodes - 1
    <3>1. entry[x] \in 0 .. Inodes
      BY DEF ContentInv, BlockInv, TypeInv
    <3>. QED  BY <3>1, Ext2Assumption DEF HasPlace
  <2>3. ASSUME HasPlace(entry[x]), itable[entry[x]].kind \in Buffered,
               itable[entry[x]].size > 0
        PROVE  \/ ReadBlock(itable[entry[x]], 0) = Fill(Dots)
               \/ pc # "idle" /\ ino = entry[x]
               \/ entry[x] \in cut
    <3> DEFINE i == entry[x]
    <3>1. \/ file[i][0] = Fill(Dots)
          \/ pc # "idle" /\ ino = i
          \/ i \in cut
      BY <2>1, <2>2, <2>3 DEF DotsInv
    <3>2. ReadBlock(itable[i], 0) = file[i][0]
      <4>1. 0 \in 0 .. Triple - 1 /\ 0 < Direct
        BY Positive, Ext2Assumption
      <4>2. Len(Path(0)) = 0
        BY <4>1, ShortPath
      <4>3. Missing(itable[i], 0) = {}
        BY <4>2 DEF Missing, Nodes
      <4>4. itable[i].kind # "embedded"
        BY <2>3 DEF Buffered
      <4>. QED  BY <2>2, <2>3, <4>1, <4>3, <4>4, ContentReads
    <3>. QED  BY <3>1, <3>2
  <2>4. HasPlace(entry[x]) => itable[entry[x]].kind # "none" /\ Worded(itable[entry[x]])
    BY <2>1, <2>2 DEF EntryInv, TextInv
  <2>. QED  BY <2>1, <2>3, <2>4 DEF EntryInv
<1>. QED  BY <1>1, ContentSpec, PTL
=============================================================================
