SPECIFICATION TasksSpec
CONSTANTS
  \* Sequence numbers 0..1, so that a millisecond is exhausted by two ids; the
  \* clocks move freely in 0..1.
  Machines = {0, 1}
  Callers = {"t1", "t2"}
  MachineSpan = 2
  SequenceSpan = 2
  Attempts = 2
  MaxMs = 1
  MaxIssued = 3
  \* Channels with room for one frame: both directions fill up.
  OutboundFrames = 1
  InboundFrames = 1
  MaxPieces = 2
  MaxFramesOut = 2
  \* Two connections that write to each other, of one user or of two.
  WsUsers = {u1, u2}
  Sockets = {c1, c2}
  Pushers = {p}
  OutboundCapacity = 1
  MaxTexts = 2
  MaxPushes = 1
  Nobody = Nobody
  \* Channels with room for one command and one event.
  CmdCapacity = 1
  EventCapacity = 1
  MaxCalls = 2
  MaxEventFrames = 1
  MaxOutages = 1
INVARIANTS IdsIncrease MachinesDisjoint EndIsClean RouteServes BridgeOutlivesPump
PROPERTIES CallReturns GatewayReturns BusyReturns CallsReturn
CHECK_DEADLOCK FALSE
