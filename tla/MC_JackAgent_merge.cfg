CONSTANTS
  P = P
  X = X
  m1 = m1
  m2 = m2
  mbad = mbad
  NoGoal = NoGoal
  NoSchema = NoSchema
  NoMsg = NoMsg
  Goals <- MC_Goals
  ApiGoals <- MC_Goals
  PlanGoals <- MC_PlanGoals
  SubGoal <- MC_SubGoal
  GoalSchema <- MC_GoalSchema
  Msgs = {m1, m2}
  MsgSchema <- MC_MsgSchema
  MsgValue <- MC_MsgValue
  WellFormed = {m1, m2}
  DropOnFlag = {P}
  NeedsFlag = {}
  MaxCalls = 2
  MaxControls = 2
  QueueBound = 2
  NoSleep = NoSleep
  SleepMs <- MC_SleepMs
  SearchTicks = 3

SPECIFICATION Spec
CHECK_DEADLOCK FALSE
INVARIANT PersistentPursueMerged
