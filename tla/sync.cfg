CONSTANTS
  Day = 5
  BadCronDelay = 1
  WakeFloor = 1
  DefaultPoll = 2
  BadCron = BadCron
  JobIds = {"a", "b"}
  NoJob = NoJob
  Manifests <- MCManifests
  Epoch = 12
  StartTime = 12
  Horizon = 17
  MaxAwake = 2
  MaxChanges = 1
  MaxRestarts = 1
  Outages = {0, 4}
  MaxAge = 3
  DefaultAlarm = 3
  Builds <- PassBuilds
SPECIFICATION Spec
INVARIANTS TypeOK FullPassShowsCurrent NoSlotSleptThrough ClockNeverAhead
PROPERTIES FastPathIsFreshAwake LastSyncNeverGoesBack
CHECK_DEADLOCK FALSE
