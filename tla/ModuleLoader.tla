---------------------------- MODULE ModuleLoader ----------------------------
(***************************************************************************)
(* Loading the modules of the initial ram disk and removing them again     *)
(* (module.cpp, module.h).                                                 *)
(*                                                                         *)
(* modules_load takes the files in the order of the ram disk.  A file that *)
(* is no ELF, fails to load, or carries no entry point (a dependency, a    *)
(* data file) is passed over.  module_add stores the callbacks of a module *)
(* under its name, runs init and puts manager functions in their place.    *)
(* The init of a module may put a call of its own off with module_schedule *)
(* until a module of a given name is loaded (QUICK) or until all are (LATE)*)
(* : keyboard and mouse wait for pipe_driver in this way.  Boot is one task*)
(* and takes one step after the other.                                     *)
(*                                                                         *)
(* Names need not be unique (pipe.cpp and unixpipe.cpp are both            *)
(* pipe_driver, ata.cpp and ext2.cpp both ext2_driver).  The same image may *)
(* list its files in any order.                                            *)
(***************************************************************************)
EXTENDS HashMap

CONSTANTS
  Files,        \* the files of the ram disk
  Orders,       \* the orders in which it may list them
  Modules,      \* those of them with an entry point
  NameOf,       \* the name of a module
  WaitsFor,     \* the sequence of names a module's init schedules calls for
  Late,         \* the modules whose init schedules a call after all others
  Removes,      \* how many modules are removed after loading
  Manager       \* module_init_cback and module_remover_manager

Names == {NameOf[m] : m \in Modules}

(* A scheduled call: the n-th one the init of m asks for. *)
Calls == {<<m, n>> : m \in Modules, n \in 0 .. 2}

(* The keys: the names, "name_i" for the i-th call, "i" (no name) for the  *)
(* i-th late call.                                                         *)
Quick(name, i) == <<name, i>>
Number(i) == <<<<>>, i>>

ASSUME LoaderAssumption ==
  /\ Modules \subseteq Files
  /\ \A disk \in Orders : disk \in Seq(Files) \ {<<>>} /\ IsInjective(disk)
  /\ NameOf \in [Modules -> Keys]
  /\ WaitsFor \in [Modules -> Seq(Keys)]
  /\ Late \subseteq Modules
  /\ Removes \in Nat
  /\ Modules \cup Calls \cup {Manager} \subseteq Values
  /\ Null \notin Values
  /\ Manager \notin Modules

(* The names that calls wait for. *)
Awaited == UNION {ToSet(WaitsFor[m]) : m \in Modules}

(* Calls wait for one name only: the keys are numbered over all names, so  *)
(* with a second name each would see the other's numbers as gaps.  Some    *)
(* module on the ram disk has it, and no name looks like a key.            *)
ASSUME ScheduleAssumption ==
  /\ IsFiniteSet(Modules)
  /\ \A m \in Modules : Len(WaitsFor[m]) <= 2
  /\ \A name, other \in Awaited : name = other
  /\ \A name \in Awaited, n \in 0 .. Cardinality(Calls) :
       Quick(name, n) \in Keys \ (Names \cup Awaited)
  /\ \A n \in 0 .. Cardinality(Late) : Number(n) \in Keys
  /\ \A disk \in Orders : \A m \in ToSet(disk) \cap Modules :
       ToSet(WaitsFor[m]) \subseteq {NameOf[o] : o \in ToSet(disk) \cap Modules}

VARIABLES
  order,      \* the ram disk
  next,       \* the index of the file modules_load is at
  phase,      \* "files", "scheduled" (the loop over name_0, ...), "late", "done"
  turn,       \* the index of that loop
  modlist,    \* the list of loaded modules
  initlist,   \* mod_initlist, mod_quitlist: callbacks under the module's name
  quitlist,
  cback,      \* the callback a modent_t holds: its own or the manager
  quick,      \* mod_sched_quick
  late,       \* mod_sched_last
  numbered,   \* modules_quick_scheduled, modules_scheduled
  loaded,     \* history: the names loaded so far
  early,      \* history: calls scheduled before a module of their name was there
  ran,        \* history: the scheduled calls that were run, in order
  detached,   \* history: modules removed without getting their callbacks back
  removed     \* the number of removals, at most Removes

vars == <<order, next, phase, turn, modlist, initlist, quitlist, cback, quick,
          late, numbered, loaded, early, ran, detached, removed>>

scheduling == <<quick, late, numbered, early>>
lists == <<modlist, initlist, quitlist, cback>>

-----------------------------------------------------------------------------
(* The head of modules_load *)
Init ==
  /\ order \in Orders
  /\ next = 1
  /\ phase = "files"
  /\ turn = 0
  /\ modlist = <<>>
  /\ initlist = HashCreate(Len(order))
  /\ quitlist = HashCreate(Len(order))
  /\ cback = [m \in Modules |-> m]
  /\ quick = HashCreate(1)
  /\ late = HashCreate(1)
  /\ numbered = [quick |-> 0, late |-> 0]
  /\ loaded = {}
  /\ early = {}
  /\ ran = <<>>
  /\ detached = {}
  /\ removed = 0

(* Mutation: the counter is read after its increment. *)
QuickMapOneOff(m) ==
  LET waits == WaitsFor[m]
      one[i \in 0 .. Len(waits)] ==
        IF i = 0 THEN quick
        ELSE HashSet(HashSet(one[i - 1],
                             Quick(waits[i], numbered.quick + i), <<m, i>>),
                     waits[i], Null)
  IN one[Len(waits)]

(* module_schedule QUICK, for each name m's init waits for: the call under *)
(* "name_n", n counting the calls for all names, and the name itself.      *)
QuickMap(m) ==
  LET waits == WaitsFor[m]
      one[i \in 0 .. Len(waits)] ==
        IF i = 0 THEN quick
        ELSE HashSet(HashSet(one[i - 1],
                             Quick(waits[i], numbered.quick + i - 1), <<m, i>>),
                     waits[i], Null)
  IN one[Len(waits)]

(* What the init of m does to the schedules, while modules are loading. *)
RunInit(m) ==
  /\ quick' = QuickMap(m)
  /\ late' = IF m \in Late THEN HashSet(late, Number(numbered.late), <<m, 0>>)
                           ELSE late
  /\ numbered' = [quick |-> numbered.quick + Len(WaitsFor[m]),
                  late |-> numbered.late + (IF m \in Late THEN 1 ELSE 0)]
  /\ early' = early \cup {<<m, i>> : i \in {j \in 1 .. Len(WaitsFor[m]) :
                                              WaitsFor[m][j] \notin loaded}}
                    \cup (IF m \in Late THEN {<<m, 0>>} ELSE {})

(* module_add but for running init. *)
ModuleAdd(m) ==
  /\ initlist' = HashSet(initlist, NameOf[m], cback[m])
  /\ quitlist' = HashSet(quitlist, NameOf[m], cback[m])
  /\ cback' = [cback EXCEPT ![m] = Manager]
  /\ modlist' = Append(modlist, m)

(* A file that yields no module to run. *)
PassOver ==
  /\ phase = "files"
  /\ next <= Len(order)
  /\ order[next] \notin Modules
  /\ next' = next + 1
  /\ UNCHANGED <<order, phase, turn, lists, scheduling, loaded, ran, detached,
                 removed>>

(* A module is added; calls wait for its name, or the next file follows. *)
Load ==
  /\ phase = "files"
  /\ next <= Len(order)
  /\ order[next] \in Modules
  /\ LET m == order[next]
         wanted == HashHas(quick', NameOf[m])
     IN /\ ModuleAdd(m)
        /\ RunInit(m)
        /\ loaded' = loaded \cup {NameOf[m]}
        /\ phase' = IF wanted THEN "scheduled" ELSE "files"
        /\ next' = IF wanted THEN next ELSE next + 1
  /\ turn' = 0
  /\ UNCHANGED <<order, ran, detached, removed>>

(* The loop over name_0, name_1, ... up to the first that is missing. *)
RunScheduled ==
  LET name == NameOf[order[next]]
      key == Quick(name, turn)
  IN /\ phase = "scheduled"
     /\ IF HashHas(quick, key)
        THEN /\ ran' = Append(ran, HashGet(quick, key))
             /\ quick' = HashRemove(quick, key)
             /\ turn' = turn + 1
             /\ UNCHANGED <<next, phase>>
        ELSE /\ quick' = HashRemove(quick, name)
             /\ phase' = "files"
             /\ next' = next + 1
             /\ UNCHANGED <<turn, ran>>
     /\ UNCHANGED <<order, lists, late, numbered, loaded, early, detached,
                    removed>>

FilesDone ==
  /\ phase = "files"
  /\ next > Len(order)
  /\ phase' = "late"
  /\ turn' = 0
  /\ UNCHANGED <<order, next, lists, scheduling, loaded, ran, detached, removed>>

(* hashmap_get_i for each number of late calls; the second one is read     *)
(* beyond the array of a map of one bucket, and the model ends there.      *)
RunLate ==
  /\ phase = "late"
  /\ IF turn < HashSize(late)
     THEN /\ ~GetIFaults(late, turn)
          /\ ran' = Append(ran, HashGetI(late, turn))
          /\ turn' = turn + 1
          /\ UNCHANGED phase
     ELSE /\ phase' = "done"
          /\ UNCHANGED <<turn, ran>>
  /\ UNCHANGED <<order, next, lists, scheduling, loaded, early, detached, removed>>

-----------------------------------------------------------------------------
(* After loading: module_schedule returns at once.                         *)

(* Mutation: the callbacks stay redirected. *)
RemoveNameKeeps(name) ==
  LET found == {i \in 1 .. Len(modlist) : NameOf[modlist[i]] = name}
      i == CHOOSE k \in found : \A j \in found : k <= j
  IN /\ found # {}
     /\ initlist' = HashRemove(initlist, name)
     /\ quitlist' = HashRemove(quitlist, name)
     /\ modlist' = RemoveAt(modlist, i)
     /\ UNCHANGED <<cback, detached>>

(* module_remove by name: the first module of that name gets back what is  *)
(* stored under the name (a null finit would be jumped to).                *)
RemoveName(name) ==
  LET found == {i \in 1 .. Len(modlist) : NameOf[modlist[i]] = name}
      i == CHOOSE k \in found : \A j \in found : k <= j
  IN /\ found # {}
     /\ HashGet(quitlist, name) # Null
     /\ cback' = [cback EXCEPT ![modlist[i]] = HashGet(initlist, name)]
     /\ initlist' = HashRemove(initlist, name)
     /\ quitlist' = HashRemove(quitlist, name)
     /\ modlist' = RemoveAt(modlist, i)
     /\ UNCHANGED detached

(* module_remove by index or by address: off the list, that is all. *)
RemoveEntry(i) ==
  /\ detached' = detached \cup {modlist[i]}
  /\ modlist' = RemoveAt(modlist, i)
  /\ UNCHANGED <<initlist, quitlist, cback>>

ModuleRemove ==
  /\ phase = "done"
  /\ removed < Removes
  /\ removed' = removed + 1
  /\ \/ \E name \in Names : RemoveName(name)
     \/ \E i \in 1 .. Len(modlist) : RemoveEntry(i)
  /\ UNCHANGED <<order, next, phase, turn, scheduling, loaded, ran>>

(* module_add of a module that was removed. *)
AddAgain(m) ==
  /\ phase = "done"
  /\ m \notin ToSet(modlist)
  /\ ModuleAdd(m)
  /\ UNCHANGED <<order, next, phase, turn, scheduling, loaded, ran, detached,
                 removed>>

-----------------------------------------------------------------------------
TypeOK ==
  /\ next \in 1 .. Len(order) + 1
  /\ phase \in {"files", "scheduled", "late", "done"}
  /\ turn \in Nat
  /\ \A map \in {initlist, quitlist, quick, late} : WellFormed(map)
  /\ modlist \in Seq(Modules)
  /\ cback \in [Modules -> Modules \cup {Manager}]
  /\ ran \in Seq(Calls)
  /\ detached \subseteq Modules
  /\ removed \in 0 .. Removes

(* A call scheduled before any module of its name was loaded runs once, and*)
(* it has run when loading is over.  ("Try to initialize all scheduled     *)
(* calls (could be more than 1)", module.cpp.)                             *)
ScheduledRunOnce ==
  /\ IsInjective(ran)
  /\ phase = "done" => early \subseteq ToSet(ran)

(* The callbacks of a module can be got back: while it is on the list the  *)
(* maps hold its own under its name, afterwards it has them again.  Not so *)
(* for a module that was taken off the list by index or address, which     *)
(* keeps the manager for good, nor for two modules of one name.            *)
CallbacksKept ==
  \A m \in Modules :
    /\ \A o \in Modules \ {m} : NameOf[o] # NameOf[m]
    /\ m \notin detached
    => IF m \in ToSet(modlist)
       THEN /\ HashGet(initlist, NameOf[m]) = m
            /\ HashGet(quitlist, NameOf[m]) = m
            /\ cback[m] = Manager
       ELSE cback[m] = m
=============================================================================
