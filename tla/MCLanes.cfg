\* Two tasks push to a lane of one and one of two slots; a mobile lane of two frames over a wire of one;
\* two phones change the settings of the beacon.
SPECIFICATION MCSpec
CONSTANTS
  Producers = {p1, p2}
  ControlSlots = 1
  RealtimeSlots = 2
  MaxFrames = 3
  LaneDepth = 2
  WireDepth = 1
  Tasks = {ble, usb}
  Sleeps = {TRUE, FALSE}
  MaxRequests = 2
CHECK_DEADLOCK FALSE
INVARIANT Accounted
 
PROPERTY LanesAreFifo
PROPERTY FairQueueMoves
PROPERTY LaneCalms
