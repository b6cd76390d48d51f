SPECIFICATION FairSpec
CONSTANTS
  Requests = {r1}
  Turns = {t1, t2}
  Concepts = {Shop, Cart}
  MaxPhases = 2
  Recharge = 2
  MaxPlans = 8
  Disturbances = {"llm", "template", "preview", "stop", "restart"}
  WebClient = TRUE
INVARIANTS TypeOK OneOpenPhase PendingHasBudget PhasesBounded
PROPERTIES PlansPhases BuildsEnd RequestsReachPlanning
