SPECIFICATION MCSpec
CONSTANTS
  NONE = NONE
  None = None
  cli = cli
  bus = bus
  sock = sock
  Clients = {cli, bus, sock}
  Door <- MCDoor
  FrontCasts <- MCFrontCasts
  LaneCapacity = 1
  MaxInst = 2
  MaxIds = 2
  MaxFrontFaults = 2
  daemon = daemon
  command = command
  Procs = {daemon, command}
  KeyOf <- MCKeyOf
  Casts <- MCCasts
  Disks <- MCDisks
  Rotations = 2
  MaxLines = 1
  MaxFaults = 2
  Keys = {k1, k2}
  Values = {v1, v2}
  Ages = {0, 1}
  MaxRevision = 3
  MaxEpochs = 2
  s1 = s1
  s2 = s2
  Interval <- MCInterval
  MaxOwners = 2
  t1 = t1
  t2 = t2
  Threads = {t1, t2}
  Requests <- MCRequests
  MaxSwitches = 1
  MaxRefusals = 2
  l1 = l1
  l2 = l2
  LinkWorkers = {l1, l2}
  LinkJobs <- MCLinkJobs
  ForeignLink = other
  MaxLinkFaults = 2
  CastProfiles = {c1, c2}
  Reconcilers = {loop, toggler}
  Toggler = toggler
  CastTarget = c1
  MaxCastMoves = 1
  i1 = i1
  u1 = u1
  Items = {i1, i2}
  Uuids = {u1, u2}
  Wanted <- MCWanted
  Instances = {d1, d2, d3}
  MaxInstances = 2
  Width = 1
  MaxLookupMoves = 2
  HotspotInputs <- MCHotspotInputs
  NoSignal = NoSignal
  Scripts <- MCScripts
  Consumers = {f1}
  RivalWindow = 0
  RepeatWindow = 1
  ControlRoom = 1
  MaxTicks = 1
  MaxStirs = 1
  r1 = r1
  r2 = r2
  x1 = x1
  Readers = {r1, r2}
  Scanners = {x1}
  SnapCasts <- MCSnapCasts
  StaleAfter = 0
  MaxAge = 1
  MaxScanFaults = 1
CHECK_DEADLOCK FALSE
INVARIANTS AtMostOnce  MirrorFaithful RefreshServes AirplaneHolds  
 NetworksHonest
PROPERTIES RecordsKept  ConsentFollowed OwnerLossStops
