-------------------------------- MODULE Vfs --------------------------------
(***************************************************************************)
(* The virtual file system (vfs.cpp): mounting, and looking up a path.     *)
(*                                                                         *)
(* fs_tree is a function from paths to what is mounted there: its domain   *)
(* is closed under prefixes, the root is the empty path, and a directory   *)
(* that only leads to a mount has NoFile.  A canonical path is a sequence  *)
(* of names; a path as a caller writes it may be relative and may hold "." *)
(* and "..".  A FILE is what it is a copy of, a mounted file or an entry   *)
(* of a directory.                                                         *)
(*                                                                         *)
(* kopen answers NoFile (null), a file, or Bad: an error number turned     *)
(* into a pointer, which the callers take for a file.  kopen_recur does so *)
(* too with the answer of its own recursive call; what comes of that is    *)
(* undefined, and is Wild.                                                 *)
(***************************************************************************)
EXTENDS Integers, SequencesExt, FiniteSetsExt

CONSTANTS
  Words,            \* the elements of paths
  Directory,        \* the entries of each node that has a finddir
  LinkTarget,       \* the path each symbolic link holds
  Up, Dot,          \* PATH_UP and PATH_DOT
  O_NOFOLLOW, O_PATH,
  MAX_SYMLINK_DEPTH,
  NoFile, Bad, Wild

Links == DOMAIN LinkTarget

ASSUME VfsAssumption ==
  /\ MAX_SYMLINK_DEPTH \in Nat
  /\ {Up, Dot} \subseteq Words /\ Up # Dot /\ O_NOFOLLOW # O_PATH
  /\ NoFile \notin {Bad, Wild} /\ Bad # Wild
  /\ \A dir \in DOMAIN Directory : DOMAIN Directory[dir] \subseteq Words
  /\ \A link \in Links : LinkTarget[link] \in [absolute : BOOLEAN, names : Seq(Words)]
  /\ Links \cap DOMAIN Directory = {}
  /\ {NoFile, Bad, Wild} \cap (Links \cup DOMAIN Directory) = {}
  /\ \A dir \in DOMAIN Directory : {Up, Dot} \cap DOMAIN Directory[dir] = {}

(* A path as a caller gives it. *)
Path(absolute, names) == [absolute |-> absolute, names |-> names]

-----------------------------------------------------------------------------
(* canonicalize_path: the words of the working directory, then those of the*)
(* path, with a stack.  No element is looked up.                           *)
Canonicalize(cwd, path) ==
  LET names == path.names
      stack[i \in 0 .. Len(names)] ==
        IF i = 0 THEN IF path.absolute \/ names = <<>> THEN <<>> ELSE cwd
        ELSE LET below == stack[i - 1]
             IN CASE names[i] = Up -> IF below = <<>> THEN <<>> ELSE Front(below)
                  [] names[i] = Dot -> below
                  [] OTHER -> Append(below, names[i])
  IN stack[Len(names)]

PrefixesOf(p) == {SubSeq(p, 1, k) : k \in 0 .. Len(p)}

(* vfs_install: a root with nothing mounted. *)
EmptyTree == [p \in {<<>>} |-> NoFile]

(* vfs_mount *)
VfsMount(tree, path, file) ==
  IF file = NoFile THEN tree
  ELSE [p \in DOMAIN tree \cup PrefixesOf(path) |->
          IF p = path THEN file
          ELSE IF p \in DOMAIN tree THEN tree[p] ELSE NoFile]

(* get_mount_point: how many names of the path the last mount on it takes. *)
MountDepth(tree, p) ==
  Max({0} \cup {k \in 1 .. Len(p) : /\ SubSeq(p, 1, k) \in DOMAIN tree
                                    /\ tree[SubSeq(p, 1, k)] # NoFile})

(* fs_finddir *)
FindDir(node, name) ==
  IF node \in DOMAIN Directory
  THEN IF name \in DOMAIN Directory[node] THEN Directory[node][name] ELSE NoFile
  ELSE NoFile

(* Mutation: the path rebuilt for a relative link keeps the link's name.   *)
FollowFromLink(opened, p, depth, link, flags, links) ==
  LET leaf == depth = Len(p) - 1
      target == opened[links + 1, SubSeq(p, 1, depth + 1), link]
  IN CASE leaf /\ {O_NOFOLLOW, O_PATH} \subseteq flags -> link
       [] leaf /\ flags \cap {O_NOFOLLOW, O_PATH} = {O_NOFOLLOW} -> Bad
       [] OTHER -> IF links >= MAX_SYMLINK_DEPTH THEN Bad
                   ELSE CASE target = NoFile -> Bad
                          [] target \in {Bad, Wild} -> Wild
                          [] OTHER -> target

(* A link at that depth of the path, p[depth + 1], met by the loop of      *)
(* kopen_recur: the file the loop goes on with, or the answer.  opened is  *)
(* what kopen_recur answers when it calls itself for a link.               *)
Follow(opened, p, depth, link, flags, links) ==
  LET leaf == depth = Len(p) - 1
      target == opened[links + 1, SubSeq(p, 1, depth), link]
  IN CASE leaf /\ {O_NOFOLLOW, O_PATH} \subseteq flags -> link
       [] leaf /\ flags \cap {O_NOFOLLOW, O_PATH} = {O_NOFOLLOW} -> Bad
       [] OTHER -> IF links >= MAX_SYMLINK_DEPTH THEN Bad
                   ELSE CASE target = NoFile -> Bad
                          [] target \in {Bad, Wild} -> Wild
                          [] OTHER -> target

(* The loop of kopen_recur from a node on, with that many names behind it. *)
Walk(opened, p, depth, node, flags, links) ==
  LET reached[d \in depth .. Len(p)] ==
        IF d = depth THEN node
        ELSE LET before == reached[d - 1]
                 found == FindDir(before, p[d])
             IN IF before \in {NoFile, Bad, Wild} THEN before
                ELSE IF found \in Links
                     THEN Follow(opened, p, d - 1, found, flags, links)
                     ELSE found
  IN reached[Len(p)]

(* kopen_recur; without a root "/" is copied from address 0. *)
KopenRecur(opened, tree, cwd, path, flags, links) ==
  LET p == Canonicalize(cwd, path)
      depth == MountDepth(tree, p)
      node == tree[SubSeq(p, 1, depth)]
  IN IF node = NoFile THEN IF p = <<>> THEN Wild ELSE NoFile
     ELSE Walk(opened, p, depth, node, flags, links)

Kopen(tree, cwd, path, flags) ==
  LET opened[links \in 1 .. MAX_SYMLINK_DEPTH, at \in Seq(Words), link \in Links] ==
        KopenRecur(opened, tree, at, LinkTarget[link], {}, links)
  IN KopenRecur(opened, tree, cwd, path, flags, 0)

-----------------------------------------------------------------------------
(* What a path means: one step at a time through the name space that the   *)
(* mounts and the directories make together.                               *)

NodeAt(tree, p) ==
  LET node[k \in 0 .. Len(p)] ==
        LET at == SubSeq(p, 1, k)
        IN IF at \in DOMAIN tree /\ tree[at] # NoFile THEN tree[at]
           ELSE IF k = 0 THEN NoFile ELSE FindDir(node[k - 1], p[k])
  IN node[Len(p)]

(* The path without links and dots that the names lead to, or NoFile.      *)
(* within: the links that are being followed.                              *)
RealPath(tree, start, words, within) ==
  LET real[from \in Seq(Words), names \in Seq(Words), inside \in SUBSET Links] ==
        LET name == Head(names)
            at == Append(from, name)
            node == NodeAt(tree, at)
            to == real[IF LinkTarget[node].absolute THEN <<>> ELSE from,
                       LinkTarget[node].names, inside \cup {node}]
        IN CASE names = <<>> -> from
             [] names # <<>> /\ name = Dot -> real[from, Tail(names), inside]
             [] names # <<>> /\ name = Up ->
                  real[IF from = <<>> THEN from ELSE Front(from), Tail(names), inside]
             [] OTHER ->
                  IF node \in Links
                  THEN IF node \in inside \/ to = NoFile THEN NoFile
                       ELSE real[to, Tail(names), inside]
                  ELSE IF node = NoFile /\ at \notin DOMAIN tree THEN NoFile
                  ELSE real[at, Tail(names), inside]
  IN real[start, words, within]

Real(tree, p) == RealPath(tree, <<>>, p, {})

(* The file a canonical path names. *)
FileNamed(tree, p, flags) ==
  LET parent == IF p = <<>> THEN <<>> ELSE Real(tree, Front(p))
      leaf == IF p = <<>> \/ parent = NoFile THEN NoFile
              ELSE NodeAt(tree, Append(parent, Last(p)))
      real == Real(tree, p)
  IN CASE leaf \in Links /\ O_NOFOLLOW \in flags -> IF O_PATH \in flags THEN leaf
                                                    ELSE Bad
       [] OTHER -> IF real = NoFile THEN NoFile ELSE NodeAt(tree, real)

(* A link leads the path into a directory below which something is mounted.*)
MountBeyondLink(tree, p) ==
  \E k \in 1 .. Len(p) - 1 :
    LET at == Real(tree, SubSeq(p, 1, k))
    IN /\ at \notin {NoFile, SubSeq(p, 1, k)}
       /\ \E q \in DOMAIN tree : IsStrictPrefix(at, q)

(* No link before the last name, and every step there leads somewhere. *)
StepsExist(tree, from, names) ==
  \A k \in 1 .. Len(names) :
    LET at == RealPath(tree, from, SubSeq(names, 1, k), {})
    IN /\ at # NoFile
       /\ k < Len(names) =>
            at = Canonicalize(from, Path(FALSE, SubSeq(names, 1, k)))
=============================================================================
