CONSTANTS
  g = g
  p1 = p1
  p2 = p2
  t1 = t1
  t2 = t2
  d1 = d1
  a1 = a1
  a2 = a2
  s1 = s1
  s2 = s2
  s3 = s3
  Goals = {g}
  Plans = {p1, p2}
  PlanGoal <- MC_PlanGoal
  AgentPlans <- MC_AgentPlans
  PlanActions <- MC_PlanActions
  Tactics = {t1, t2}
  TacticGoal <- MC_TacticGoal
  TacticAllows <- MC_TacticAllows
  Desires = {d1}
  DesireGoal <- MC_DesireGoal
  Actions = {a1, a2}
  AgentActions = {a1}
  Services = {s1, s2, s3}
  Template <- MC_Template
  ServiceActions <- MC_ServiceActions
  ServiceList <- MC_ServiceList
  Forward = FALSE
  Searches <- MC_Searches
  QueueBound = 2
  NoTactic = NoTactic
  NoService = NoService
  NoAction = NoAction
  Miss = Miss
  NoCall = NoCall

SPECIFICATION Spec
INVARIANT PlanListsCurrent
INVARIANT OneServicePerTemplate
PROPERTY HandlesPlanCurrent
