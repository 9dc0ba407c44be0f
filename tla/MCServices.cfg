\* One phone, the boot and the power task, two profiles; an LED switched on or
\* resumed twice; two BLE links; an event loop of three events and two changes of
\* the access point.
SPECIFICATION MCSpec
CONSTANTS
  Phones = {ble}
  Boot = boot
  Power = power
  Profiles = {p, q}
  None = None
  MaxGeneration = 2
  MaxLinks = 2
  MaxEvents = 3
  MaxSettings = 2
CHECK_DEADLOCK FALSE
INVARIANT AnswerIsTrue
 
INVARIANT RunReleasesAll
INVARIANT LinkIsFresh
PROPERTY FairRequestsEnd
 
