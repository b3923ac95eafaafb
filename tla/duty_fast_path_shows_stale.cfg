CONSTANTS
  Day = 5
  BadCronDelay = 1
  WakeFloor = 1
  DefaultPoll = 2
  BadCron = BadCron
  JobIds = {"a", "b"}
  NoJob = NoJob
  Manifests <- MCManifests
  Epoch = 12
  StartTime = 12
  Horizon = 17
  MaxAwake = 2
  MaxChanges = 1
  MaxRestarts = 0
  Outages = {0, 4}
  MaxAge = 3
  DefaultAlarm = 3
  Builds <- FastDuty
SPECIFICATION Spec
INVARIANT ShownWasCurrent
CHECK_DEADLOCK FALSE
