SPECIFICATION Spec
CONSTANTS
  Requests = {}
  Turns = {}
  Concepts = {Shop}
  MaxPhases = 2
  Recharge = 2
  MaxPlans = 5
  Disturbances = {"template", "restart"}
  WebClient = FALSE
INVARIANTS FlagFallsOnFailure
