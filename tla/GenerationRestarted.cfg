SPECIFICATION Spec
CONSTANTS
  Requests = {r1}
  Turns = {t1}
  Concepts = {Shop}
  MaxPhases = 2
  Recharge = 2
  MaxPlans = 8
  Disturbances = {}
  WebClient = FALSE
INVARIANTS RequestsRestarted
