-------------------------------- MODULE Boot --------------------------------
(***************************************************************************)
(* Boot from the virtual file system to the root file system (kmain.cpp):  *)
(* the loader of modules over the tree of mounts.                          *)
(*                                                                         *)
(* A driver mounts its device file from its init, or from the call that    *)
(* init has put off, and then the file is a pipe.  make_pipe asks for it   *)
(* by the name pipe_driver, and the first loaded module of that name       *)
(* answers: only that of pipe.cpp makes a pipe.  unixpipe.cpp would write  *)
(* two pointers to a low address and return null, no module at all returns *)
(* IOCTL_NULL; the caller then stores through that pointer, and the model  *)
(* ends there.  Then the serial port gets its file, and ext2 is mounted on *)
(* the first disk.                                                         *)
(***************************************************************************)
EXTENDS ModuleLoader, Vfs

CONSTANTS
  Device,       \* the path each module mounts its file at, <<>> if it has none
  PipeModule, DiskModule, Ext2Module,   \* pipe.cpp, ata.cpp, ext2.cpp
  DevPath, Ram1Path, Com1Path,
  DevDir, Ram1, Com1, RootDir,          \* the files of the kernel itself
  Asked,        \* the paths a caller may open,
  Cwds,         \* its working directories,
  FlagSets      \* and its flags

ASSUME BootAssumption ==
  /\ {PipeModule, DiskModule, Ext2Module} \subseteq Modules
  /\ Modules \cap {DevDir, Ram1, Com1, RootDir, NoFile, Bad, Wild} = {}

(* Every driver has a path of its own. *)
ASSUME DeviceAssumption ==
  /\ Device \in [Modules -> Seq(Words \ {Up, Dot})]
  /\ \A m, o \in Modules : Device[m] = Device[o] /\ Device[m] # <<>> => m = o
  /\ \A m \in Modules : Device[m] # Com1Path

VARIABLES
  tree,         \* fs_tree
  stage         \* kmain: "modules", "serial", "up"

bootVars == <<vars, tree, stage>>

-----------------------------------------------------------------------------
(* vfs_install with a ram disk *)
BootInit ==
  /\ Init
  /\ tree = VfsMount(VfsMount(EmptyTree, DevPath, DevDir), Ram1Path, Ram1)
  /\ stage = "modules"

(* The module that module_ioctl finds by a name. *)
Answers(list, m) ==
  \E i \in 1 .. Len(list) :
    /\ list[i] = m
    /\ \A j \in 1 .. i - 1 : NameOf[list[j]] # NameOf[m]

Mounts(m) ==
  tree' = IF Device[m] = <<>> THEN tree ELSE VfsMount(tree, Device[m], m)

(* The init of a driver that waits for nothing; a disk may be missing. *)
LoadModule ==
  /\ Load
  /\ LET m == order[next]
     IN IF WaitsFor[m] # <<>> THEN UNCHANGED tree
        ELSE \/ Mounts(m)
             \/ m = DiskModule /\ UNCHANGED tree
  /\ UNCHANGED stage

(* Mutation: the call mounts nothing. *)
RunScheduledUnmounted ==
  /\ RunScheduled
  /\ HashHas(quick, Quick(NameOf[order[next]], turn)) => Answers(modlist, PipeModule)
  /\ UNCHANGED <<tree, stage>>

(* keyboard_sched_ini, mouse_mod_init_sched *)
RunScheduledCall ==
  /\ RunScheduled
  /\ LET key == Quick(NameOf[order[next]], turn)
     IN IF HashHas(quick, key)
        THEN /\ Answers(modlist, PipeModule)
             /\ Mounts(HashGet(quick, key)[1])
        ELSE UNCHANGED tree
  /\ UNCHANGED stage

(* Serial::init_late *)
SerialInitLate ==
  /\ phase = "done"
  /\ stage = "modules"
  /\ Answers(modlist, PipeModule)
  /\ tree' = VfsMount(tree, Com1Path, Com1)
  /\ stage' = "serial"
  /\ UNCHANGED vars

(* vfs_mount_type: ext2 is registered by its module, and opens the disk,   *)
(* which may hold no file system.                                          *)
MountRoot ==
  /\ stage = "serial"
  /\ \/ /\ Ext2Module \in ToSet(modlist)
        /\ Kopen(tree, <<>>, Path(TRUE, Device[DiskModule]), {}) = DiskModule
        /\ tree' = VfsMount(tree, <<>>, RootDir)
     \/ UNCHANGED tree
  /\ stage' = "up"
  /\ UNCHANGED vars

(* The rest of the loader mounts nothing; modules go when boot is over. *)
LoaderStep ==
  /\ \/ PassOver
     \/ FilesDone
     \/ RunLate
     \/ /\ stage = "up"
        /\ \/ ModuleRemove
           \/ \E m \in Modules : AddAgain(m)
  /\ UNCHANGED <<tree, stage>>

BootNext ==
  \/ LoadModule
  \/ RunScheduledCall
  \/ SerialInitLate
  \/ MountRoot
  \/ LoaderStep

BootSpec == BootInit /\ [][BootNext]_bootVars

-----------------------------------------------------------------------------
(* When boot is over, kopen finds the file of every driver whose module    *)
(* was loaded, in whatever order the ram disk had them, disks apart.  Not  *)
(* of a driver that put its call off after pipe_driver had come.           *)
DevicesFound ==
  stage = "up" =>
    \A m \in ToSet(order) \cap Modules :
      /\ Device[m] # <<>>
      /\ m # DiskModule
      /\ \A i \in 1 .. Len(WaitsFor[m]) : <<m, i>> \in early
      => Kopen(tree, <<>>, Path(TRUE, Device[m]), {}) = m

(* kopen opens the file a path means, or fails where there is none: through*)
(* links and mounts, and with a path that is made canonical without        *)
(* looking ("Path elements should be checked for existence!", vfs.cpp).    *)
(* The exceptions: a mount below a directory that a link leads to is not   *)
(* seen, and the dots of a path with a link or a hole in it are taken off  *)
(* by name.  No path here has links enough for MAX_SYMLINK_DEPTH but for   *)
(* the loop.  (Removing a module mounts nothing: looked at until then.)    *)
OpenFindsFile ==
  removed = 0 =>
  \A path \in Asked, cwd \in Cwds, flags \in FlagSets :
    LET p == Canonicalize(cwd, path)
        from == IF path.absolute \/ path.names = <<>> THEN <<>> ELSE cwd
        file == FileNamed(tree, p, flags)
        opened == Kopen(tree, cwd, path, flags)
    IN /\ ~MountBeyondLink(tree, p) =>
            \/ opened = file
            \/ file = NoFile /\ opened \in {Bad, Wild}
       /\ StepsExist(tree, from, path.names) =>
            RealPath(tree, from, path.names, {}) = Real(tree, p)
=============================================================================
