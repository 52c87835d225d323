SPECIFICATION BootSpec
CONSTANTS
  keyboard = keyboard
  mouse = mouse
  pipe = pipe
  unixpipe = unixpipe
  pit = pit
  ata = ata
  ext2 = ext2
  symdb = symdb
  Null = Null
  Manager = Manager
  Keys <- AllKeys
  Values <- AllValues
  Hash <- SomeHash
  Files = {keyboard, mouse, pipe, unixpipe, pit, ata, ext2, symdb}
  Modules = {keyboard, mouse, pipe, unixpipe, pit, ata, ext2}
  Orders <- SomeOrders
  NameOf <- SomeNames
  WaitsFor <- PipeWaiters
  Late = {pit}
  Removes = 2
  Device <- SomeDevices
  PipeModule = pipe
  DiskModule = ata
  Ext2Module = ext2
  DevPath <- Dev0
  Ram1Path <- DevRam1
  Com1Path <- DevCom1
  DevDir = DevDir
  Ram1 = Ram1
  Com1 = Com1
  RootDir = RootDir
  etc = etc
  bin = bin
  conf = conf
  sh = sh
  here = here
  up = up
  lnk = lnk
  devs = devs
  loop = loop
  gone = gone
  twice = twice
  Up = Up
  Dot = Dot
  O_NOFOLLOW = O_NOFOLLOW
  O_PATH = O_PATH
  MAX_SYMLINK_DEPTH = 3
  NoFile = NoFile
  Bad = Bad
  Wild = Wild
  Words <- SomeWords
  Directory <- SomeDirectory
  LinkTarget <- SomeTargets
  Asked <- SomePaths
  Cwds <- SomeCwds
  FlagSets <- SomeFlags
INVARIANTS
  ScheduledRunOnce
  CallbacksKept
  DevicesFound
  OpenFindsFile
CHECK_DEADLOCK FALSE
