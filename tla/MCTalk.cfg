\* A packet whose ACK is not recognised and a normal one, over a table of one
\* slot, with loss, duplication, delay, retries, eviction and exhaustion; two
\* devices that converse; two phones that ask.
SPECIFICATION MCSpec
CONSTANTS
  Messages <- WithSeqZero
  TableSize = 1
  MaxAttempts = 2
  AckTimeouts = {1}
  Slack = 0
  MaxDelay = 1
  DedupeSize = 2
  DedupeWindow = 3
  MaxSends = 1
  Nodes = {"a", "b"}
  Channels = {"ch"}
  Client = "x"
  Host = "b"
  Headless = {"b"}
  Forwarding = {"a"}
  MaxSays = 2
  MaxTurns = 2
  Asked = {"no_place", "rpc"}
  LaneSize = 1
  MaxAsks = 2
  MaxJoins = 2
  MaxReports = 1
CHECK_DEADLOCK FALSE
INVARIANT AtMostOncePerSend
INVARIANT AckedTextDelivered
INVARIANT EffortBounded
 
PROPERTY LossIsJustified
