CONSTANTS
  G = G
  S = S
  X = X
  NoGoal = NoGoal
  NoSchema = NoSchema
  NoMsg = NoMsg
  Goals <- MC_Goals
  ApiGoals = {G}
  PlanGoals <- MC_PlanGoals
  SubGoal <- MC_SubGoal
  GoalSchema <- MC_GoalSchema
  Msgs = {}
  MsgSchema <- MC_MsgSchema
  MsgValue <- MC_MsgValue
  WellFormed = {}
  DropOnFlag = {}
  NeedsFlag <- MC_NeedsFlag
  MaxCalls = 3
  MaxControls = 2
  QueueBound = 2
  NoSleep = NoSleep
  SleepMs <- MC_SleepMs
  SearchTicks = 3

SPECIFICATION Spec
CHECK_DEADLOCK FALSE

INVARIANT NoOrphanSubGoals

