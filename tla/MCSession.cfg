\* Two writers and one logging task over two sessions; one phone that sets the
\* GPS twice, the beacon task, and room for a second GPS task; two selectors,
\* one of which names no script, and two fields of sensor data.
SPECIFICATION MCSpec
CONSTANTS
  Writers = {"writer", "dispatcher"}
  Loggers = {"task"}
  MaxRequests = 4
  MaxRecords = 2
  MaxTexts = 1
  Phones = {"ble"}
  GpsTasks = {"g1", "g2"}
  Scripts = {a, b}
  Named = {a}
  Stored = {a}
  Fields = {t, h}
  None = None
CHECK_DEADLOCK FALSE
INVARIANT SessionAgrees
PROPERTY SessionsCutNoRecord
PROPERTY FairSessionsSettle
PROPERTY LatestIsOneRun
 
