CONSTANTS
  A = A
  B = B
  NoGoal = NoGoal
  NoSchema = NoSchema
  NoMsg = NoMsg
  Goals <- MC_Goals
  ApiGoals <- MC_Goals
  PlanGoals <- MC_Goals
  SubGoal <- MC_SubGoal
  GoalSchema <- MC_GoalSchema
  Msgs = {}
  MsgSchema <- MC_MsgSchema
  MsgValue <- MC_MsgValue
  WellFormed = {}
  DropOnFlag = {}
  NeedsFlag = {}
  MaxCalls = 2
  MaxControls = 1
  QueueBound = 2
  NoSleep = NoSleep
  SleepMs <- MC_SleepMsAB
  SearchTicks = 1

SPECIFICATION Spec
PROPERTY TimersFireWhenDue
