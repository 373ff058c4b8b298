CONSTANTS
  Members = {m1, m2}
  Candidates = {m1, m2}
  NoMember = NoMember
  Scores = {1}
  FailedCost = 9
  Window = 1
  MaxSchedules = 2
  AnalyseTicks = 2
  EnvFlags = {"GOAL_ADDED", "GOAL_REMOVED"}
SPECIFICATION Spec
PROPERTY AuctionsClose
PROPERTY PendingResolved
PROPERTY DelegationAnswered
INVARIANT TypeOK
INVARIANT WinnerBidForThisSchedule
