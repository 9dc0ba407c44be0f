\* The two tasks of the phones; three settings of which one is the sensors' and
\* one the location; two scripts of two chunks; images of two chunks;
\* two tasks that talk and a place that is published, over counters that wrap.
SPECIFICATION MCSpec
CONSTANTS
  Tasks = {ble, usb}
  LastKey = 3
  SensorKey = 2
  LocationKey = 3
  MaxRequests = 2
  Ids = {1, 2}
  Sizes = {2}
  StoreMax = 2
  Images = {i, j}
  Size = 2
  Factory = f
  None = None
  Talkers = {talker1, talker2}
  Channels = {"c1"}
  MacEnd = 1
  Streams = {1}
  Seqs = 2
  Stamps = 2
  MaxFrames = 3
  MaxMasks = 1
  Primaries = {"p1"}
  Clock = 4
  Minute = 2
  Numbers = 4
  MaxTicks = 6
  MaxRecords = 6
SYMMETRY AnyTask
CHECK_DEADLOCK FALSE
 
INVARIANT EraseOnlyOnRequest
 
INVARIANT DeviceBoots
INVARIANT OpenManetKept
