------------------------------- MODULE MCBoot -------------------------------
(***************************************************************************)
(* Ram disks for TLC: modules that share a name or wait for each other, a  *)
(* data file, and a small disk with links of every kind.                   *)
(***************************************************************************)
EXTENDS Boot

CONSTANTS keyboard, mouse, pipe, unixpipe, pit, ata, ext2, symdb,
          etc, bin, conf, sh, here, up, lnk, devs, loop, gone, twice

(* The names of MODULE_DEF and the keys that module_schedule makes. *)
ModuleNames == {<<"keyboard_driver">>, <<"mouse_driver">>, <<"pipe_driver">>,
                <<"pit_driver">>, <<"ext2_driver">>}
AllKeys == ModuleNames \cup {Quick(name, i) : name \in ModuleNames, i \in 0 .. 21}
                       \cup {Number(i) : i \in 0 .. 1}

(* Some hash that puts two names into one bucket. *)
SomeHash ==
  [k \in AllKeys |-> IF k \in {<<"keyboard_driver">>, <<"pit_driver">>} THEN 1 ELSE 2]

SomeNames ==
  [m \in Modules |-> CASE m = keyboard -> <<"keyboard_driver">>
                       [] m = mouse -> <<"mouse_driver">>
                       [] m \in {pipe, unixpipe} -> <<"pipe_driver">>
                       [] m = pit -> <<"pit_driver">>
                       [] m \in {ata, ext2} -> <<"ext2_driver">>]

(* keyboard.cpp and mouse.cpp wait for pipe_driver. *)
PipeWaiters ==
  [m \in Modules |-> IF m \in {keyboard, mouse} THEN <<<<"pipe_driver">>>> ELSE <<>>]

(* What the maps hold: callbacks, scheduled calls, the manager. *)
AllValues == Modules \cup Calls \cup {Manager}

(* The order matters for those of pipe_driver and those that wait for it.  *)
SomeOrders ==
  LET pipes == SetToSeqs({keyboard, mouse, pipe, unixpipe})
  IN {<<ata, symdb>> \o o \o <<ext2, pit>> : o \in pipes}
     \cup {<<ext2, pit>> \o o \o <<symdb, ata>> : o \in pipes}
     \cup SetToSeqs({keyboard, pipe, ext2})

Dev(name) == <<"dev", name>>

SomeDevices ==
  [m \in Modules |-> CASE m = keyboard -> Dev("kbd")
                       [] m = mouse -> Dev("mouse")
                       [] m = pit -> Dev("timer")
                       [] m = ata -> Dev("hda")
                       [] OTHER -> <<>>]
Dev0 == <<"dev">>
DevRam1 == Dev("ram1")
DevCom1 == Dev("com1")

-----------------------------------------------------------------------------
Entries0(pairs) == [n \in {pair[1] : pair \in pairs} |->
                      (CHOOSE pair \in pairs : pair[1] = n)[2]]

SomeDirectory ==
  [d \in {RootDir, etc, bin, Ram1} |->
     CASE d = RootDir -> Entries0({<<"etc", etc>>, <<"bin", bin>>, <<"lnk", lnk>>,
                                   <<"devs", devs>>, <<"loop", loop>>,
                                   <<"gone", gone>>, <<"twice", twice>>})
       [] d = etc -> Entries0({<<"conf", conf>>, <<"here", here>>, <<"up", up>>})
       [] d = bin -> Entries0({<<"sh", sh>>})
       [] d = Ram1 -> Entries0({<<"symdb", symdb>>})]

(* here -> conf, up -> ../bin, lnk -> /etc, devs -> /dev, twice -> lnk/here *)
SomeTargets ==
  [l \in {here, up, lnk, devs, loop, gone, twice} |->
     CASE l = here -> Path(FALSE, <<"conf">>)
       [] l = up -> Path(FALSE, <<Up, "bin">>)
       [] l = lnk -> Path(TRUE, <<"etc">>)
       [] l = devs -> Path(TRUE, <<"dev">>)
       [] l = loop -> Path(FALSE, <<Dot, "loop">>)
       [] l = gone -> Path(TRUE, <<"nosuch">>)
       [] l = twice -> Path(FALSE, <<"lnk", "here">>)]

SomePaths ==
  {Path(TRUE, names) : names \in {
     <<>>, <<"dev">>, <<"dev", "kbd">>, <<"dev", "ram1", "symdb">>,
     <<"dev", "ram1", "none">>, <<"etc", "here">>, <<"etc", "up", "sh">>,
     <<"lnk", "conf">>, <<"twice">>, <<"loop">>, <<"gone">>, <<"gone", "conf">>,
     <<"devs", "kbd">>, <<"etc", Up, "bin", Dot, "sh">>, <<"etc", "conf", "sh">>,
     <<"lnk", Up, "bin", "sh">>, <<"nosuch", Up, "etc">>}}
  \cup {Path(FALSE, names) : names \in {
     <<>>, <<"here">>, <<Up, Up, "bin">>, <<"up", "sh">>, <<Up, "lnk", "here">>}}

SomeWords ==
  {Up, Dot, "dev", "kbd", "mouse", "timer", "hda", "ram1", "com1"}
  \cup {"etc", "bin", "lnk", "devs", "loop", "gone", "twice", "conf", "here", "up",
        "sh", "symdb", "nosuch", "none"}

SomeCwds == {<<>>, <<"etc">>}
SomeFlags == {{}, {O_NOFOLLOW}, {O_NOFOLLOW, O_PATH}}
=============================================================================
