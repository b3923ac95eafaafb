CONSTANTS
  Callers = {"main", "http", "shell"}
  Jobs = {j1, j2}
  None = None
  Prio <- MCPrio
  WorkerPrio = 5
  Builds <- PassBuilds
  MaxCmds = 3
SPECIFICATION FairSpec
INVARIANTS TypeOK PanelExclusive NotStranded ShowReportsOwnPaint NoWaitInVain
PROPERTIES CommandCompletes WaiterReturns ImplementsPanelService
CHECK_DEADLOCK FALSE
