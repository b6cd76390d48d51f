------------------------ MODULE MCDeploymentManager ------------------------
(* Bounds for model checking DeploymentManager.  The calls of a run are      *)
(* model values named for their role: files brings files of its own, forced  *)
(* asks for a redeploy, plain does neither and may be the call that a health *)
(* check makes.                                                              *)
EXTENDS DeploymentManager, TLC

CONSTANT Bringers  \* the calls that bring files: all of them

MCBrings == [c \in Calls |-> IF c \in Bringers THEN Files ELSE {}]

(* Sessions, instances and slots are interchangeable names. *)
Symmetry == Permutations(Sessions) \cup Permutations(Instances)
              \cup Permutations(Attempts)

(* A service that is down may do whatever one that is up does, so safety is  *)
(* checked during the outage.                                                *)
Outage == ~up

(* An outage during which one loop has failed at most, and once. *)
ShortOutage ==
  \/ up
  \/ /\ \A c \in Calls : loop[c].failures <= 1
     /\ \A c, d \in Calls : loop[c].failures = 1 /\ loop[d].failures = 1 => c = d
=============================================================================
