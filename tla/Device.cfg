SPECIFICATION Spec
CONSTANTS
  WIFI_MAX_RETRY = 1
  MaxOutside = 4
INVARIANTS TypeOK HeapIsOwned CrashesHaveACause TasksHaveResources GivesUpOnlyWhenCut
PROPERTY EndsUpConnected
CHECK_DEADLOCK FALSE
