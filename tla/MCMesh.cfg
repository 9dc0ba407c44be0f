\* Two devices and two messages around a relay that remembers one; three
\* transfers over two pins; three neighbours in a table of two, whose links count for less
\* time than their beacons, and two tasks that report them; two tasks that enqueue realtime
\* frames.
SPECIFICATION MCSpec
CONSTANTS
  Nobody = Nobody
  NoId = NoId
  Peers = {p, q}
  Ids = {m1, m2}
  Hops = {0, 1, 2, 3}
  SeenSize = 1
  Transfers = {t, u, v}
  Shared = {t, u}
  PinSize = 2
  PinTTL = 2
  Devices = {d, e, s}
  LeafNodes = {s}
  MaxPeers = 2
  HeardFor = 2
  LinkedFor = 0
  SameFor = 1
  ReportEvery = 1
  MaxNews = 4
  Callers = {p1, p2}
  Depth = 3
  Low = 1
  Mid = 1
  High = 2
  VoiceAttempts = 2
  SpeedAttempts = 3
  MaxCalls = 4
SYMMETRY MCSymmetry
CHECK_DEADLOCK FALSE
INVARIANT ReportIsTrue
INVARIANT BacklogBounded
INVARIANT StreamsInOrder
PROPERTY NoWorseCopy
PROPERTY PathPinned
