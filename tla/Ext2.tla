-------------------------------- MODULE Ext2 --------------------------------
(***************************************************************************)
(* Writing to an ext2 file system (modules/fs/ext2.cpp): files, directories *)
(* and symbolic links are created under the root and unlinked, files are   *)
(* written block by block and truncated, and the machine may stop between  *)
(* any two writes to the disk and mount what it finds there.               *)
(*                                                                         *)
(* USE_CACHE is 0: write_block goes to the disk at once, one step each; a  *)
(* step of memory is part of the next one.  One task writes: nothing but   *)
(* single blocks is under fs->lock, and two writers would take one block.  *)
(*                                                                         *)
(* Left out: the superblock's counters, free_inodes_count, used_dirs_count *)
(* and links_count, which nothing reads; times, owners and modes; the      *)
(* layout of a directory's entries, of which the root has enough room.     *)
(* There is one block group.  Nothing frees a block or an inode.           *)
(***************************************************************************)
EXTENDS Integers, Sequences, FiniteSets, FiniteSetsExt

CONSTANTS
  Blocks,          \* blocks_count: the blocks 0 .. Blocks - 1
  FirstDataBlock,  \* first_data_block: the block of bit 0 of the bitmap
  Reserved,        \* the blocks of superblock, bitmaps, inode table, root
  OldBlock,        \* the block of a file that mke2fs put there
  Inodes,          \* inodes_per_group
  Direct,          \* EXT2_DIRECT_BLOCKS
  P,               \* pointer_per_block
  Names,           \* of entries in the root
  Data,            \* what a block of a file is filled with: negative words
  Dots,            \* the block with "." and ".." or a link's target
  Targets,         \* which blocks of a file are written
  MaxCalls,        \* bound: the number of calls
  MaxCrashes       \* bound: how often the machine stops

Root == 1
OldFile == 2

(* The range of set_block_number: its last part is one block of pointers.  *)
Double == Direct + P
Triple == Direct + P + P * P
MaxBlock == Triple + P

ASSUME Ext2Assumption ==
  /\ Blocks \in Nat /\ FirstDataBlock \in {0, 1}
  /\ Reserved \subseteq 1 .. Blocks - 1
  /\ OldBlock \in (1 .. Blocks - 1) \ Reserved
  /\ Inodes \in Nat /\ Inodes > OldFile
  /\ Direct \in Nat \ {0} /\ P \in Nat \ {0}
  /\ Data \subseteq {w \in Int : w < 0} /\ Dots \in Int /\ Dots < 0
  /\ Targets \subseteq 0 .. MaxBlock - 1
  /\ MaxCalls \in Nat /\ MaxCrashes \in Nat

VARIABLES
  \* on the disk
  bitmap,     \* the set bits of the block bitmap
  free,       \* free_blocks_count, there and in memory
  imarked,    \* the inodes whose bit in the inode bitmap is set
  itable,     \* the inode table
  content,    \* what the blocks hold, P words each
  entry,      \* the root directory: an inode for each name, or 0
  \* in memory
  pc,         \* where the call is
  ino, ip,    \* the inode it works on, and its copy
  name,       \* the name of the entry to make
  target,     \* block, and what the buffer is filled with
  word,
  enough,     \* history: the disk had the blocks that the call needs
  blk,        \* block_no, the block allocated last
  leaf,       \* the block that is to be the file's next, 0 before it is there
  \* history
  file,       \* what was last written to each block of each file
  lost,       \* blocks a crash left marked but counted as free
  cut,        \* inodes a crash left without their first block
  broken,     \* a block was written that had no number
  calls, crashes

disk == <<bitmap, free, imarked, itable, content, entry>>
call == <<ino, name, target, word, enough>>
vars == <<disk, pc, call, ip, blk, leaf, file, lost, cut, broken, calls, crashes>>

SomeName == CHOOSE x \in Names : TRUE

(***************************************************************************)
(* pc: "idle"; "inode", "entry", "size" of ext2_create, ext2_mkdir and     *)
(* ext2_symlink; "scan", "count", "zero" of allocate_block; "link" of      *)
(* set_block_number, "grow" of allocate_inode_block; "data" about to write *)
(* the block itself.                                                       *)
(***************************************************************************)
Places == {"idle", "inode", "entry", "size", "scan", "count", "zero", "link",
           "grow", "data"}

(* "embedded" is a link whose target has at most 60 bytes.                 *)
Kinds == {"file", "dir", "link", "embedded"}

(* The kinds whose first block is written when they are made.              *)
Buffered == {"dir", "link"}

Fill(w) == [j \in 0 .. P - 1 |-> w]

Fresh(kind) ==
  [kind |-> kind, size |-> 0, blocks |-> 0,
   block |-> [j \in 0 .. Direct + 2 |-> 0]]

(* An embedded link keeps its target where other inodes have pointers.     *)
Text == [j \in 0 .. Direct + 2 |-> Dots]

NewInode(kind) ==
  IF kind = "embedded" THEN [Fresh(kind) EXCEPT !.size = 1, !.block = Text]
                       ELSE Fresh(kind)

Bits == 0 .. Blocks - 1 - FirstDataBlock
Clear == Bits \ bitmap

(* read_inode and write_inode divide by the inodes of a group before they  *)
(* take 1: the last inode of the group is looked up in the next group, and *)
(* with one group its write goes beyond the end of the disk.               *)
HasPlace(i) == i < Inodes

PutInode(i, inode) == itable' = IF HasPlace(i) THEN [itable EXCEPT ![i] = inode]
                                               ELSE itable

-----------------------------------------------------------------------------
(* Mutation: the second index is left out. *)
PathOneOff(n) ==
  LET b == n - Double
      c == n - Triple
  IN CASE n < Direct -> <<>>
       [] n \in Direct .. Double - 1 -> <<n - Direct>>
       [] n \in Double .. Triple - 1 -> <<b \div P, 0>>
       [] OTHER -> <<c \div (P * P), (c % (P * P)) \div P, c % P>>

(* The indices on the way from the inode to block n of a file. *)
Path(n) ==
  LET b == n - Double
      c == n - Triple
  IN CASE n < Direct -> <<>>
       [] n \in Direct .. Double - 1 -> <<n - Direct>>
       [] n \in Double .. Triple - 1 -> <<b \div P, b % P>>
       [] OTHER -> <<c \div (P * P), (c % (P * P)) \div P, c % P>>

(* Where the inode points to the first block of pointers on that way. *)
TopSlot(n) == Direct + Len(Path(n)) - 1

(* What block b of pointers has at index k. *)
Child(b, k) == IF b = 0 THEN 0 ELSE content[b][k]

(* The blocks of pointers on that way, 0 from the first that is missing. *)
Nodes(inode, n) ==
  LET first  == inode.block[TopSlot(n)]
      second == Child(first, Path(n)[1])
  IN [j \in 1 .. Len(Path(n)) |-> CASE j = 1 -> first
                                    [] j = 2 -> second
                                    [] j = 3 -> Child(second, Path(n)[2])]

Missing(inode, n) == {j \in DOMAIN Nodes(inode, n) : Nodes(inode, n)[j] = 0}

(* get_block_number, when no block of pointers is missing *)
GetBlockNumber(inode, n) ==
  LET d == Len(Path(n))
  IN IF d = 0 THEN inode.block[n] ELSE content[Nodes(inode, n)[d]][Path(n)[d]]

(* inode_read_block *)
ReadBlock(inode, n) ==
  IF n >= inode.blocks THEN Fill(0) ELSE content[GetBlockNumber(inode, n)]

(* The blocks that a file of n blocks takes. *)
Takes(n) ==
  n + (IF n > Direct THEN 1 ELSE 0)
    + (IF n > Double THEN 1 + (Min({n, Triple}) - Double + P - 1) \div P ELSE 0)
    + (IF n > Triple THEN 3 ELSE 0)

-----------------------------------------------------------------------------
(* What mke2fs leaves: root, and one file of one block; the blocks that are *)
(* free hold what was there before.                                        *)
Init ==
  /\ bitmap = {b - FirstDataBlock : b \in Reserved \cup {OldBlock}}
               \cup (IF FirstDataBlock = 0 THEN {0} ELSE {})
  /\ free = Cardinality(Clear)
  /\ imarked = {Root, OldFile}
  /\ itable = [i \in 1 .. Inodes - 1 |->
                 IF i = OldFile
                 THEN [Fresh("file") EXCEPT !.size = 1, !.blocks = 1,
                                            !.block[0] = OldBlock]
                 ELSE Fresh("none")]
  /\ content = [b \in 0 .. Blocks - 1 |-> Fill(IF b = OldBlock THEN Dots
                                                              ELSE OldBlock)]
  /\ entry = [x \in Names |-> 0]
  /\ pc = "idle" /\ ino = 0 /\ ip = Fresh("none") /\ name = SomeName
  /\ target = 0 /\ word = 0 /\ blk = 0 /\ leaf = 0
  /\ file = [i \in 1 .. Inodes |->
               [n \in 0 .. MaxBlock - 1 |->
                  IF i = OldFile /\ n = 0 THEN Fill(Dots) ELSE Fill(0)]]
  /\ lost = 0 /\ cut = {} /\ enough = TRUE /\ broken = FALSE
  /\ calls = 0 /\ crashes = 0

-----------------------------------------------------------------------------
(* The files there are to work on; the last inode of the group is read from *)
(* nowhere and the model leaves it.                                        *)
Files == {i \in {OldFile} \cup {entry[x] : x \in Names} :
            i # 0 /\ HasPlace(i) /\ itable[i].kind = "file"}

Begins == /\ pc = "idle" /\ ~broken
          /\ calls < MaxCalls
          /\ calls' = calls + 1
          /\ UNCHANGED <<blk, leaf, file, lost, cut, broken, crashes>>

Enough(inode, n) == Cardinality(Clear) >= Takes(n) - Takes(inode.blocks)

(* The while of inode_write_block. *)
Allocates(inode, n) == IF n >= inode.blocks THEN "scan" ELSE "data"

(* write_ext2 of one block: the size first, then the block. *)
Write(i, n, w) ==
  LET grown == [itable[i] EXCEPT !.size = Max({@, n + 1})]
  IN /\ Begins
     /\ ino' = i /\ ip' = grown /\ target' = n /\ word' = w
     /\ PutInode(i, grown)
     /\ enough' = (n < grown.blocks \/ Enough(grown, n + 1))
     /\ pc' = Allocates(grown, n)
     /\ UNCHANGED <<bitmap, free, imarked, content, entry, name>>

(* ext2_open with O_TRUNC: the blocks stay. *)
Truncate(i) ==
  /\ Begins
  /\ PutInode(i, [itable[i] EXCEPT !.size = 0])
  /\ UNCHANGED <<bitmap, free, imarked, content, entry, pc, call, ip>>

(* ext2_unlink: neither the inode nor its blocks are freed. *)
Unlink(x) ==
  /\ Begins
  /\ entry[x] # 0
  /\ entry' = [entry EXCEPT ![x] = 0]
  /\ UNCHANGED <<bitmap, free, imarked, itable, content, pc, call, ip>>

(* allocate_inode for a name that is not there.  It asks for free blocks   *)
(* instead of free inodes; with all inodes taken it reads on behind the    *)
(* bitmap, and the model ends there.  Without a free block the inode is 0: *)
(* no file or embedded link comes of it, and what needs a block allocates  *)
(* for ever.                                                               *)
Create(x, kind) ==
  LET unmarked == (1 .. Inodes) \ imarked
      i == IF free = 0 THEN 0 ELSE Min(unmarked)
  IN /\ Begins
     /\ entry[x] = 0
     /\ IF free > 0 THEN unmarked # {} ELSE kind \in Buffered
     /\ kind \in Buffered => HasPlace(i)
     /\ imarked' = IF i = 0 THEN imarked ELSE imarked \cup {i}
     /\ ino' = i /\ ip' = NewInode(kind) /\ name' = x
     /\ target' = 0 /\ word' = Dots
     /\ enough' = (kind \in Buffered => Enough(Fresh(kind), 1))
     /\ pc' = IF i # 0 THEN "inode" ELSE "scan"
     /\ UNCHANGED <<bitmap, free, itable, content, entry>>

Goes(from, to) == pc = from /\ pc' = to /\ UNCHANGED <<call, calls, crashes>>

(* The call is over, and what it had in memory is gone. *)
Over == /\ pc' = "idle"
        /\ ino' = 0 /\ ip' = Fresh("none") /\ name' = SomeName
        /\ target' = 0 /\ word' = 0 /\ blk' = 0 /\ leaf' = 0
        /\ enough' = TRUE

(* Mutation: the inode is not written. *)
WriteInodeForgotten == /\ Goes("inode", "entry")
                       /\ UNCHANGED <<disk, ip, blk, leaf, file, lost, cut, broken>>

(* write_inode of the new inode *)
WriteInode == /\ Goes("inode", "entry")
              /\ PutInode(ino, ip)
              /\ UNCHANGED <<bitmap, free, imarked, content, entry, ip, blk, leaf,
                             file, lost, cut, broken>>

(* create_entry *)
CreateEntry ==
  /\ entry' = [entry EXCEPT ![name] = ino]
  /\ \/ /\ pc = "entry" /\ ip.kind \notin Buffered
        /\ Over
     \/ /\ Goes("entry", "size") /\ ip.kind \in Buffered
        /\ UNCHANGED <<ip, blk, leaf>>
  /\ UNCHANGED <<bitmap, free, imarked, itable, content, file, lost, cut, broken,
                 calls, crashes>>

(* inode->size = block_size, or the target's in write_inode_buffer *)
WriteSize == /\ Goes("size", "scan")
             /\ ip' = [ip EXCEPT !.size = 1]
             /\ PutInode(ino, ip')
             /\ UNCHANGED <<bitmap, free, imarked, content, entry, blk, leaf, file,
                            lost, cut, broken>>

-----------------------------------------------------------------------------
(* allocate_block                                                          *)
inodes == <<imarked, itable, entry>>

(* The first clear bit.  (A count that is too high is trusted: the scan    *)
(* leaves the bitmap, and the model ends there.)                           *)
Scan == /\ Goes("scan", "count")
        /\ free > 0 /\ Clear # {}
        /\ blk' = Min(Clear)
        /\ bitmap' = bitmap \cup {Min(Clear)}
        /\ UNCHANGED <<free, content, inodes, ip, leaf, file, lost, cut, broken>>

(* No block for a block of pointers: the result of set_block_number is     *)
(* ignored.  (No block for the file itself: the while goes round for ever.)*)
ScanFails == /\ Goes("scan", "grow")
             /\ free = 0 /\ leaf # 0
             /\ UNCHANGED <<disk, ip, blk, leaf, file, lost, cut, broken>>

(* Mutation: only the superblock is told. *)
CountForgotten == /\ Goes("count", "zero")
                  /\ UNCHANGED <<disk, ip, blk, leaf, file, lost, cut, broken>>

(* The group descriptor *)
Count == /\ Goes("count", "zero")
         /\ free' = free - 1
         /\ UNCHANGED <<bitmap, content, inodes, ip, blk, leaf, file, lost, cut,
                        broken>>

(* Mutation: the block is not cleared. *)
ZeroForgotten == /\ Goes("zero", "link")
                 /\ leaf' = IF leaf = 0 THEN blk ELSE leaf
                 /\ UNCHANGED <<disk, ip, blk, file, lost, cut, broken>>

(* The new block is cleared; it is the file's, or one of pointers. *)
Zero == /\ Goes("zero", "link")
        /\ content' = [content EXCEPT ![blk] = Fill(0)]
        /\ leaf' = IF leaf = 0 THEN blk ELSE leaf
        /\ UNCHANGED <<bitmap, free, inodes, ip, blk, file, lost, cut, broken>>

(* set_block_number for the block after the last: a missing block of       *)
(* pointers is allocated and linked, then comes the block itself.  At the  *)
(* third level the block of pointers stores its own number.                *)
Link ==
  LET n == ip.blocks
      path == Path(n)
      missing == Missing(ip, n)
      j == Min(missing)
      last == Nodes(ip, n)[Len(path)]
  IN /\ pc = "link"
     /\ UNCHANGED <<bitmap, free, imarked, entry, file, lost, cut, broken>>
     /\ \/ \* E_BADBLOCK
           /\ n >= MaxBlock
           /\ Goes("link", "grow")
           /\ UNCHANGED <<itable, content, ip, blk, leaf>>
        \/ /\ n < MaxBlock /\ path = <<>>
           /\ Goes("link", "grow")
           /\ ip' = [ip EXCEPT !.block[n] = leaf]
           /\ UNCHANGED <<itable, content, blk, leaf>>
        \/ \* a block of pointers is missing, and not allocated yet
           /\ n < MaxBlock /\ missing # {} /\ blk = leaf
           /\ Goes("link", "scan")
           /\ UNCHANGED <<itable, content, ip, blk, leaf>>
        \/ /\ n < MaxBlock /\ missing # {} /\ blk # leaf
           /\ Goes("link", "link")
           /\ IF j = 1
              THEN /\ ip' = [ip EXCEPT !.block[TopSlot(n)] = blk]
                   /\ PutInode(ino, ip')
                   /\ UNCHANGED content
              ELSE /\ content' =
                        [content EXCEPT ![Nodes(ip, n)[j - 1]][path[j - 1]] = blk]
                   /\ UNCHANGED <<itable, ip>>
           /\ blk' = leaf
           /\ UNCHANGED leaf
        \/ /\ n < MaxBlock /\ path # <<>> /\ missing = {}
           /\ Goes("link", "grow")
           /\ content' = [content EXCEPT ![last][path[Len(path)]] =
                            IF n >= Triple THEN last ELSE leaf]
           /\ UNCHANGED <<itable, ip, blk, leaf>>

(* Mutation: the inode is read back before its new length is on the disk.  *)
GrowForgets == /\ Goes("grow", "scan")
               /\ ip' = itable[ino]
               /\ leaf' = 0
               /\ UNCHANGED <<disk, blk, file, lost, cut, broken>>

(* The end of allocate_inode_block, and refresh_inode. *)
Grow == /\ pc = "grow"
        /\ ip' = [ip EXCEPT !.blocks = @ + 1]
        /\ Goes("grow", Allocates(ip', target))
        /\ PutInode(ino, ip')
        /\ leaf' = 0
        /\ UNCHANGED <<bitmap, free, imarked, content, entry, blk, file, lost, cut,
                       broken>>

(* get_block_number comes upon a number that is one.  If a block of        *)
(* pointers is missing it takes a word of memory nobody wrote, or of a     *)
(* block that was read before; on the third level, where the first write   *)
(* went over the block of pointers itself, a word of the file's data.      *)
Numbered(inode, n) == Missing(inode, n) = {} /\ GetBlockNumber(inode, n) > 0

(* A block of the file system's own is overwritten: the words are taken    *)
(* for bits, all of them set or clear, for inodes, or for entries.  (Those *)
(* of the superblock and the descriptors are read by the next mount only.) *)
Overrun ==
  \/ UNCHANGED <<bitmap, inodes>>
  \/ bitmap' \in {{}, Bits} /\ UNCHANGED inodes
  \/ imarked' \in {{}, 1 .. Inodes} /\ UNCHANGED <<bitmap, itable, entry>>
  \/ /\ itable' = [i \in DOMAIN itable |->
                     [Fresh("none") EXCEPT !.block = [j \in DOMAIN @ |-> word]]]
     /\ UNCHANGED <<bitmap, imarked, entry>>
  \/ /\ entry' = [x \in Names |-> 0]
     /\ UNCHANGED <<bitmap, imarked, itable>>

(* The block itself.  Without a number any block may be overwritten, or    *)
(* none, as 0 and numbers beyond the disk are refused.                     *)
WriteBlock ==
  /\ pc = "data"
  /\ \/ /\ Numbered(ip, target)
        /\ content' = [content EXCEPT ![GetBlockNumber(ip, target)] = Fill(word)]
        /\ file' = [file EXCEPT ![ino][target] = Fill(word)]
        /\ UNCHANGED <<bitmap, inodes, broken>>
     \/ /\ ~Numbered(ip, target)
        /\ \/ UNCHANGED <<content, bitmap, inodes>>
           \/ \E b \in 1 .. Blocks - 1 :
                /\ content' = [content EXCEPT ![b] = Fill(word)]
                /\ IF b \in Reserved THEN Overrun ELSE UNCHANGED <<bitmap, inodes>>
        /\ broken' = TRUE
        /\ UNCHANGED file
  /\ Over
  /\ UNCHANGED <<free, lost, cut, calls, crashes>>

-----------------------------------------------------------------------------
(* The machine stops; mount_ext2 reads the descriptors again. *)
Crash ==
  /\ crashes < MaxCrashes
  /\ pc # "idle"
  /\ Over
  /\ crashes' = crashes + 1
  /\ lost' = IF pc = "count" THEN lost + 1 ELSE lost
  /\ cut' = IF ip.kind \in Buffered THEN cut \cup {ino} ELSE cut
  /\ UNCHANGED <<disk, file, broken, calls>>

Call ==
  \/ \E i \in Files : Truncate(i) \/ \E n \in Targets, w \in Data : Write(i, n, w)
  \/ \E x \in Names : Unlink(x) \/ \E kind \in Kinds : Create(x, kind)

Proceed ==
  \/ WriteInode \/ CreateEntry \/ WriteSize
  \/ Scan \/ ScanFails \/ Count \/ Zero \/ Link \/ Grow \/ WriteBlock

Next == Call \/ Proceed \/ Crash

(* The task that writes is scheduled again and again. *)
Spec == Init /\ [][Next]_vars /\ WF_vars(Proceed)

-----------------------------------------------------------------------------
TypeOK ==
  /\ bitmap \subseteq Bits
  /\ free \in Int
  /\ imarked \subseteq 1 .. Inodes
  /\ entry \in [Names -> 0 .. Inodes]
  /\ pc \in Places
  /\ ino \in 0 .. Inodes
  /\ lost \in Nat
  /\ calls \in 0 .. MaxCalls /\ crashes \in 0 .. MaxCrashes

(* The pointers in an inode: the words of an embedded link are none.       *)
PointersIn(inode) ==
  IF inode.kind = "embedded" THEN [j \in 0 .. Direct + 2 |-> 0] ELSE inode.block

(* The pointers on the disk: in an inode, and in the blocks of pointers    *)
(* below it (but not what the third level stores).                         *)
Heads(j) == {PointersIn(itable[i])[j] : i \in DOMAIN itable} \ {0}

Below(S) == {content[b][j] : b \in S, j \in 0 .. P - 1} \ {0}

PointerBlocks == Heads(Direct) \cup Heads(Direct + 1) \cup Below(Heads(Direct + 1))
                   \cup Heads(Direct + 2) \cup Below(Heads(Direct + 2))

Pointers == {<<i, j>> : i \in DOMAIN itable, j \in 0 .. Direct + 2}
              \cup {<<-b, j>> : b \in PointerBlocks, j \in 0 .. P - 1}

PointsTo(p) == IF p[1] > 0 THEN PointersIn(itable[p[1]])[p[2]]
                            ELSE content[-p[1]][p[2]]

(* On the disk, at every moment: a block that a pointer names is marked in *)
(* the bitmap, is none of the file system's own, and no other pointer      *)
(* names it.  (Up to the first write of a block without a number.)         *)
BlocksOwned ==
  ~broken =>
    LET used == {p \in Pointers : PointsTo(p) # 0}
    IN /\ \A p \in used : /\ PointsTo(p) - FirstDataBlock \in bitmap
                          /\ PointsTo(p) \notin Reserved
       /\ \A p, q \in used : PointsTo(p) = PointsTo(q) => p = q

(* A file reads as it was last written, at every moment and after a crash, *)
(* up to the blocks of the third level.                                    *)
ReadBack ==
  ~broken =>
    \A i \in {OldFile} \cup {entry[x] : x \in Names} : \A n \in 0 .. Triple - 1 :
      i # 0 /\ HasPlace(i) /\ itable[i].kind # "embedded" /\ Missing(itable[i], n) = {}
        => ReadBlock(itable[i], n) = file[i][n]

(* An entry's inode is marked, was written, and no other entry has it; an  *)
(* embedded link has its text, and a directory or another link that has a  *)
(* size its first block too, unless it is being made or a crash cut that   *)
(* short.  The last inode of the group is an exception: its entry is there,*)
(* its inode nowhere.                                                      *)
EntriesInitialised ==
  ~broken =>
    \A x \in Names : entry[x] # 0 =>
      /\ entry[x] \in imarked
      /\ \A y \in Names : entry[x] = entry[y] => x = y
      /\ HasPlace(entry[x]) =>
           LET inode == itable[entry[x]]
           IN /\ inode.kind # "none"
              /\ inode.kind = "embedded" => inode.size > 0 /\ inode.block = Text
              /\ inode.kind \in Buffered /\ inode.size > 0
                   => \/ ReadBlock(inode, 0) = Fill(Dots)
                      \/ pc # "idle" /\ ino = entry[x]
                      \/ entry[x] \in cut

(* The free count is the number of clear bits, but for an allocation under *)
(* way and for those that a crash cut: as long as there was none the scan  *)
(* of a group with free blocks ends inside the bitmap.                     *)
FreeCounted ==
  ~broken =>
    free = Cardinality(Clear) + lost + (IF pc = "count" THEN 1 ELSE 0)

(* A call returns if the disk has the blocks it needs, and takes no more.  *)
CallReturns == pc # "idle" /\ enough ~> pc = "idle"
=============================================================================
