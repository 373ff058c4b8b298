CONSTANTS
  G = G
  S = S
  X = X
  NoGoal = NoGoal
  NoSchema = NoSchema
  NoMsg = NoMsg
  Goals <- MC_Goals
  ApiGoals = {G}
  PlanGoals <- MC_PlanGoals
  SubGoal <- MC_SubGoal
  GoalSchema <- MC_GoalSchema
  Msgs = {}
  MsgSchema <- MC_MsgSchema
  MsgValue <- MC_MsgValue
  WellFormed = {}
  DropOnFlag = {}
  NeedsFlag <- MC_NeedsFlag
  MaxCalls = 2
  MaxControls = 2
  QueueBound = 2
  NoSleep = NoSleep
  SleepMs <- MC_SleepMs
  SearchTicks = 1

SPECIFICATION Spec
CHECK_DEADLOCK FALSE


PROPERTY StopClearsDesires
