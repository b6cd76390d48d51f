------------------------ MODULE DeploymentWatchProofs ------------------------
(***************************************************************************)
(* The proof that the health check of DeploymentManager watches the        *)
(* instance the agent deploys to (WatchesCurrent).  It follows where the   *)
(* instance id of every attempt comes from.                                *)
(***************************************************************************)
EXTENDS DeploymentManagerProofs

-----------------------------------------------------------------------------
(* The inductive invariant.                                                  *)

AtWork(c) == loop[c].stage \in {"deploying", "backoff"}

(* Only the shared loop is at work, and nothing came from outside it.  Once    *)
(* another loop is at work it stays so until it makes something, which is      *)
(* stray, or until a restart.                                                 *)
Clean == ~stray /\ \A c \in Calls : AtWork(c) => promise = c

(* The attempt its loop waits for works on the instance of the agent. *)
OfInstance ==
  \A a \in Attempts :
    attempt[a].stage \in {"status", "write"} /\ ~Zombie(a) => attempt[a].inst = instance

(* It has made that instance, so that its success moves the health check. *)
NewlyMade ==
  \E a \in Attempts : attempt[a].stage = "write" /\ ~Zombie(a) /\ attempt[a].redeployed

(* The health check watches another instance only while one is being made. *)
Follows == health = None \/ instance = None \/ health = instance \/ NewlyMade

Ended ==
  (\E c \in Calls : loop[c].stage \in {"setup", "resolved"})
    /\ (\A c \in Calls : ~AtWork(c))
  => health = instance

Current == Clean => OfInstance /\ Follows /\ Ended

-----------------------------------------------------------------------------
LEMMA InitCurrent == Init => Current
  BY DEF Init, Current, OfInstance, Follows, Ended, OffLoop, FreeAttempt

(* An attempt that is not abandoned has a loop that waits for it. *)
LEMMA Awaited ==
  ASSUME IInv, NEW a \in Attempts, attempt[a].stage # "free", ~Zombie(a)
  PROVE  /\ attempt[a].of \in Calls
         /\ loop[attempt[a].of].current = a
         /\ loop[attempt[a].of].stage = "deploying"
         /\ AtWork(attempt[a].of)
  BY ConstantsAssumption DEF IInv, AttemptsBelong, LoopsPoint, Zombie, AtWork

(* The same in the next state. *)
LEMMA AwaitedNext ==
  ASSUME IInv', NEW a \in Attempts, attempt'[a].stage # "free", (~Zombie(a))'
  PROVE  /\ attempt'[a].of \in Calls
         /\ loop'[attempt'[a].of].current = a
         /\ loop'[attempt'[a].of].stage = "deploying"
  BY ConstantsAssumption DEF IInv, AttemptsBelong, LoopsPoint, Zombie, AtWork

(* What an attempt is about when it begins. *)
LEMMA BeginsAt ==
  ASSUME IInv, NEW c \in Calls, NEW f \in 0..(ResetEvery - 1), BeginAttempt(c, f)
  PROVE  /\ instance' \in {None, instance}
         /\ loop'[c].stage = "deploying"
         /\ \A k \in Calls : k # c => loop'[k] = loop[k]
         /\ LET a == loop'[c].current
            IN a \in Attempts => /\ attempt'[a].stage # "write"
                                 /\ attempt'[a].stage = "status" => attempt'[a].inst = instance'
  <1>1. instance' \in {None, instance}
    <2>1. CASE c \in Forced
      BY <2>1, ResetTypes DEF BeginAttempt, IInv
    <2>2. CASE c \notin Forced
      BY <2>2 DEF BeginAttempt
    <2> QED BY <2>1, <2>2
  <1> DEFINE made  == [FreeAttempt EXCEPT !.stage = "create", !.of = c, !.client = session']
             known == [FreeAttempt EXCEPT !.stage = "status", !.of = c, !.inst = instance',
                                          !.reaches = instance' \in sandbox']
             r     == IF instance' = None THEN made ELSE known
             l(a)  == [OffLoop EXCEPT !.stage = "deploying", !.failures = f, !.current = a]
  <1>2. PICK a \in FreeSlots : /\ attempt' = [attempt EXCEPT ![a] = r]
                               /\ loop' = [loop EXCEPT ![c] = l(a)]
    BY Zenon DEF BeginAttempt
  <1>3. made.stage = "create" /\ known.stage = "status" /\ known.inst = instance'
    BY DEF FreeAttempt
  <1>4. l(a).stage = "deploying" /\ l(a).current = a
    BY DEF OffLoop
  <1> HIDE DEF made, known, l
  <1>5. r.stage # "write" /\ (r.stage = "status" => r.inst = instance')
    BY <1>3
  <1> HIDE DEF r
  <1>6. a \in Attempts /\ attempt'[a] = r
    BY <1>2 DEF FreeSlots, IInv, TypeOK
  <1>7. loop'[c] = l(a) /\ \A k \in Calls : k # c => loop'[k] = loop[k]
    BY <1>2 DEF IInv, TypeOK
  <1> QED BY <1>1, <1>4, <1>5, <1>6, <1>7

-----------------------------------------------------------------------------
(* Every action preserves it.                                                *)

(* A loop that begins an attempt is the shared one, or stray work lies ahead. *)
LEMMA BeginCurrent ==
  ASSUME IInv, IInv', Current, NEW c \in Calls, NEW f \in 0..(ResetEvery - 1),
         BeginAttempt(c, f), loop[c].stage \in {"off", "backoff"},
         loop[c].stage = "backoff" => promise' = promise,
         health' \in {health, None}, stray' = stray
  PROVE  Current'
  <1> SUFFICES ASSUME Clean' PROVE OfInstance' /\ Follows' /\ Ended'
    BY DEF Current
  <1> USE BeginsAt
  <1>1. AtWork(c)' /\ promise' = c
    BY DEF AtWork, Clean
  <1>2. \A k \in Calls : k # c => ~AtWork(k)
    BY <1>1 DEF AtWork, Clean
  <1>3. Clean
    BY <1>1, <1>2 DEF Clean, AtWork
  <1>4. ~NewlyMade
    BY <1>2, Awaited DEF NewlyMade
  <1>5. OfInstance'
    <2> SUFFICES ASSUME NEW a \in Attempts, attempt'[a].stage \in {"status", "write"},
                        (~Zombie(a))'
                 PROVE  attempt'[a].inst = instance'
      BY DEF OfInstance
    <2>1. attempt'[a].of \in Calls /\ loop'[attempt'[a].of].current = a
          /\ loop'[attempt'[a].of].stage = "deploying"
      BY AwaitedNext
    <2>2. attempt'[a].of = c
      BY <1>1, <2>1 DEF Clean, AtWork
    <2> QED BY <2>1, <2>2
  <1>6. Follows'
    BY <1>3, <1>4 DEF Current, Follows
  <1>7. Ended'
    BY <1>1 DEF Ended
  <1> QED BY <1>5, <1>6, <1>7

(* A loop that fails forgets the instance, and nothing else is at work. *)
LEMMA CatchCurrent ==
  ASSUME IInv, IInv', NEW c \in Calls, NEW e \in BOOLEAN, Catch(c, e)
  PROVE  Current'
  <1> SUFFICES ASSUME Clean' PROVE OfInstance' /\ Follows' /\ Ended'
    BY DEF Current
  <1>1. instance' = None /\ loop'[c].stage = "backoff"
    BY CatchFacts DEF IInv, TypeOK
  <1>2. AtWork(c)' /\ promise' = c
    BY <1>1 DEF AtWork, Clean
  <1>3. OfInstance'
    BY <1>1, <1>2, AwaitedNext DEF OfInstance, Clean, AtWork
  <1> QED BY <1>1, <1>2, <1>3 DEF Follows, Ended

(* Nothing moves but the shared promise, which may be cleared. *)
LEMMA StillCurrent ==
  ASSUME IInv, Current, promise' \in {promise, None},
         UNCHANGED <<instance, health, loop, attempt, stray>>
  PROVE  Current'
  <1> SUFFICES ASSUME Clean' PROVE OfInstance' /\ Follows' /\ Ended'
    BY DEF Current
  <1>1. Clean
    BY ConstantsAssumption DEF Clean, AtWork
  <1> QED BY <1>1 DEF Current, OfInstance, Follows, NewlyMade, Ended, Zombie, AtWork

(* One attempt moves on or settles; the loops are not told. *)
LEMMA MoveCurrent ==
  ASSUME IInv, Current, NEW a \in Attempts, NEW r,
         attempt' = [attempt EXCEPT ![a] = r],
         UNCHANGED <<health, promise, loop>>,
         ~stray' => ~stray /\ \/ instance' = instance
                              \/ ~Outside(a) /\ r.stage = "write" /\ r.redeployed /\ r.of = attempt[a].of,
         attempt[a].stage # "free",
         attempt[a].stage = "write" => Zombie(a),
         r.stage = "status" => FALSE,
         r.stage = "write" => /\ r.of = attempt[a].of
                              /\ \/ attempt[a].stage = "status" /\ r.inst = attempt[a].inst
                                    /\ instance' = instance
                                 \/ r.inst = instance' 
  PROVE  Current'
  <1> SUFFICES ASSUME Clean' PROVE OfInstance' /\ Follows' /\ Ended'
    BY DEF Current
  <1>1. Clean
    BY DEF Clean, AtWork
  <1>2. /\ attempt'[a] = r
        /\ \A b \in Attempts : b # a => attempt'[b] = attempt[b]
    BY DEF IInv, TypeOK
  <1>3. OfInstance /\ Follows /\ Ended
    BY <1>1 DEF Current
  <1>4. CASE instance' = instance
    <2>1. OfInstance'
      BY <1>2, <1>3, <1>4 DEF OfInstance, Zombie
    <2>2. Follows'
      BY <1>2, <1>3, <1>4 DEF Follows, NewlyMade, Zombie
    <2>3. Ended'
      BY <1>3, <1>4 DEF Ended, AtWork
    <2> QED BY <2>1, <2>2, <2>3
  <1>5. CASE instance' # instance
    <2>1. ~Outside(a) /\ r.stage = "write" /\ r.redeployed /\ r.of = attempt[a].of
          /\ r.inst = instance'
      BY <1>5 DEF Clean
    <2>2. /\ promise = attempt[a].of /\ loop[attempt[a].of].current = a
          /\ attempt[a].of \in Calls /\ AtWork(attempt[a].of)
      BY <2>1, Awaited DEF Outside, Zombie
    <2>3. OfInstance'
      <3> SUFFICES ASSUME NEW b \in Attempts, b # a, attempt[b].stage # "free", ~Zombie(b)
                   PROVE  FALSE
        BY <1>2, <2>1 DEF OfInstance, Zombie
      <3> QED BY <2>2, Awaited, <1>1 DEF Clean
    <2>4. Follows'
      BY <1>2, <2>1, <2>2 DEF Follows, NewlyMade, Zombie
    <2>5. Ended'
      BY <2>2 DEF Ended, AtWork
    <2> QED BY <2>3, <2>4, <2>5
  <1> QED BY <1>4, <1>5

(* writeFiles has succeeded: the health check follows the instance written to. *)
LEMMA WrittenCurrent ==
  ASSUME IInv, IInv', Current, NEW a \in Attempts, Written(a)
  PROVE  Current'
  <1> SUFFICES ASSUME Clean' PROVE OfInstance' /\ Follows' /\ Ended'
    BY DEF Current
  <1> DEFINE c == attempt[a].of
  <1>1. ~stray /\ ~Outside(a) /\ attempt[a].stage = "write" /\ instance' = instance
    BY DEF Written, Clean
  <1>0. PICK result : AttemptSucceeds(a, result)
    BY DEF Written
  <1>2. ~Zombie(a) /\ promise = c /\ c \in Calls /\ loop[c].current = a /\ AtWork(c)
    BY <1>1, Awaited DEF Outside
  <1>3. /\ loop'[c].stage \in {"setup", "resolved"}
        /\ \A k \in Calls : k # c => loop'[k] = loop[k]
        /\ promise' \in {promise, None}
        /\ health' = IF attempt[a].redeployed \/ health = None THEN attempt[a].inst ELSE health
    <2> DEFINE restart == attempt[a].redeployed \/ health = None
               off == [OffLoop EXCEPT !.stage = "resolved", !.result = result]
               set == [loop[c] EXCEPT !.stage = "setup", !.current = None,
                                      !.result = result]
    <2>1. health' = IF restart THEN attempt[a].inst ELSE health
      BY <1>0 DEF AttemptSucceeds
    <2>2. loop \in [Calls -> LoopType]
      BY DEF IInv, TypeOK
    <2>3. off.stage = "resolved" /\ set.stage = "setup"
      BY <1>2, <2>2 DEF OffLoop, LoopType
    <2>4. CASE Resolve(c, result)
      <3>1. loop' = [loop EXCEPT ![c] = off] /\ promise' \in {promise, None}
        BY <2>4 DEF Resolve
      <3> HIDE DEF off, set, restart
      <3> QED BY <1>2, <2>1, <2>2, <2>3, <3>1 DEF restart
    <2>5. CASE loop' = [loop EXCEPT ![c] = set] /\ UNCHANGED <<call, promise>>
      <3> HIDE DEF off, set, restart
      <3> QED BY <1>2, <2>1, <2>2, <2>3, <2>5 DEF restart
    <2>6. \/ Resolve(c, result)
          \/ loop' = [loop EXCEPT ![c] = set] /\ UNCHANGED <<call, promise>>
      BY <1>0 DEF AttemptSucceeds
    <2> QED BY <2>4, <2>5, <2>6
  <1>4. \A k \in Calls : ~AtWork(k)'
    BY <1>2, <1>3, ConstantsAssumption DEF Clean, AtWork
  <1>5. Clean
    BY <1>1, <1>2, <1>3, <1>4 DEF Clean, AtWork
  <1>6. OfInstance /\ Follows
    BY <1>5 DEF Current
  <1>7. attempt[a].inst = instance /\ instance # None
    BY <1>1, <1>2, <1>6, ConstantsAssumption DEF OfInstance, IInv, AttemptsBelong
  <1>8. NewlyMade => attempt[a].redeployed
    <2> SUFFICES ASSUME NEW b \in Attempts, attempt[b].stage = "write", ~Zombie(b)
                 PROVE  b = a
      BY DEF NewlyMade
    <2> QED BY <1>2, <1>5, Awaited DEF Clean
  <1>9. health' = instance'
    BY <1>1, <1>3, <1>6, <1>7, <1>8 DEF Follows
  <1>10. OfInstance'
    BY <1>4, AwaitedNext DEF OfInstance, AtWork
  <1> QED BY <1>9, <1>10 DEF Follows, Ended

(* The setup commands are through. *)
LEMMA SetupDoneCurrent ==
  ASSUME IInv, IInv', Current, NEW c \in Calls, SetupDone(c)
  PROVE  Current'
  <1> SUFFICES ASSUME Clean' PROVE OfInstance' /\ Follows' /\ Ended'
    BY DEF Current
  <1>1. /\ loop[c].stage = "setup" /\ loop[c].current = None
        /\ loop'[c].stage = "resolved" /\ loop'[c].current = None
        /\ \A k \in Calls : k # c => loop'[k] = loop[k]
        /\ promise' \in {promise, None}
        /\ UNCHANGED <<instance, health, attempt, stray>>
    BY DEF SetupDone, Resolve, OffLoop, IInv, TypeOK, LoopsPoint
  <1>2. Clean
    BY <1>1, ConstantsAssumption DEF Clean, AtWork
  <1>3. OfInstance /\ Follows /\ Ended
    BY <1>2 DEF Current
  <1>4. \A a \in Attempts : attempt[a].stage # "free" => (Zombie(a)' <=> Zombie(a))
    BY <1>1 DEF Zombie, IInv, AttemptsBelong
  <1>5. OfInstance' /\ Follows'
    BY <1>1, <1>3, <1>4 DEF OfInstance, Follows, NewlyMade
  <1>6. Ended'
    BY <1>1, <1>3 DEF Ended, AtWork
  <1> QED BY <1>5, <1>6

LEMMA AttemptCurrent ==
  ASSUME IInv, IInv', Current, NEW a \in Attempts, AttemptStep(a)
  PROVE  Current'
  <1>1. CASE StatusHealthy(a)
    <2> DEFINE with == [attempt[a] EXCEPT
                  !.reaches = attempt[a].inst \in sandbox,
                  !.writes  = IF attempt[a].of \in WithFiles THEN Brings[attempt[a].of] ELSE saved]
               w == [with EXCEPT !.stage = "write"]
               r == IF Zombie(a) THEN FreeAttempt ELSE w
    <2>1. attempt[a] \in AttemptType /\ attempt[a].stage = "status"
      BY <1>1 DEF StatusHealthy, IInv, TypeOK
    <2>2. w.stage = "write" /\ w.of = attempt[a].of /\ w.inst = attempt[a].inst
      BY <2>1 DEF AttemptType
    <2>3. attempt' = [attempt EXCEPT ![a] = r]
          /\ UNCHANGED <<instance, health, promise, loop, stray>>
      BY <1>1 DEF StatusHealthy, BeginWrite, shared
    <2> HIDE DEF w
    <2>4. r.stage # "status" /\ (r.stage = "write" => r.of = attempt[a].of /\ r.inst = attempt[a].inst)
      BY <2>2 DEF FreeAttempt
    <2> HIDE DEF r
    <2> QED BY <2>1, <2>3, <2>4, MoveCurrent
  <1>2. CASE StatusUnhealthy(a)
    <2> DEFINE r == [FreeAttempt EXCEPT !.stage = "create", !.of = attempt[a].of, !.client = session]
    <2>1. r.stage = "create"
      BY DEF FreeAttempt
    <2>2. attempt' = [attempt EXCEPT ![a] = r] /\ attempt[a].stage = "status"
          /\ UNCHANGED <<instance, health, promise, loop, stray>>
      BY <1>2 DEF StatusUnhealthy, shared
    <2> HIDE DEF r
    <2> QED BY <2>1, <2>2, MoveCurrent
  <1>3. CASE Created(a)
    <2> DEFINE with == [attempt[a] EXCEPT
                  !.client = None, !.inst = instance', !.reaches = instance' \in sandbox',
                  !.redeployed = TRUE, !.writes = saved]
               w == [with EXCEPT !.stage = "write"]
               r == IF Zombie(a) THEN FreeAttempt ELSE w
    <2>1. attempt[a] \in AttemptType /\ attempt[a].stage = "create"
      BY <1>3 DEF Created, IInv, TypeOK
    <2>2. w.stage = "write" /\ w.of = attempt[a].of /\ w.inst = instance' /\ w.redeployed
      BY <2>1 DEF AttemptType
    <2>3. attempt' = [attempt EXCEPT ![a] = r]
          /\ UNCHANGED <<health, promise, loop>>
          /\ stray' = (stray \/ Outside(a))
      BY <1>3 DEF Created, BeginWrite, shared
    <2> HIDE DEF w
    <2>4. /\ r.stage # "status"
          /\ r.stage = "write" => r.of = attempt[a].of /\ r.inst = instance'
          /\ ~Outside(a) => r.stage = "write" /\ r.redeployed /\ r.of = attempt[a].of
      BY <2>2 DEF FreeAttempt, Outside
    <2> HIDE DEF r
    <2> QED BY <2>1, <2>3, <2>4, MoveCurrent
  <1>4. CASE Written(a)
    BY <1>4, WrittenCurrent
  <1>5. CASE ServiceFails(a)
    <2>1. PICK e \in BOOLEAN : AttemptFails(a, e)
      BY <1>5 DEF ServiceFails
    <2>2. attempt[a].stage # "free" /\ attempt[a].of \in Calls
      BY <1>5 DEF ServiceFails, IInv, AttemptsBelong
    <2>3. CASE Zombie(a)
      <3>1. attempt' = [attempt EXCEPT ![a] = FreeAttempt]
            /\ UNCHANGED <<instance, health, promise, loop, stray>>
        BY <2>1, <2>3 DEF AttemptFails, shared
      <3>2. FreeAttempt.stage = "free"
        BY DEF FreeAttempt
      <3> QED BY <2>2, <2>3, <3>1, <3>2, MoveCurrent
    <2>4. CASE ~Zombie(a)
      BY <2>1, <2>2, <2>4, CatchCurrent DEF AttemptFails
    <2> QED BY <2>3, <2>4
  <1> QED BY <1>1, <1>2, <1>3, <1>4, <1>5 DEF AttemptStep

LEMMA CallCurrent ==
  ASSUME IInv, IInv', Current, NEW c \in Calls,
         DeployToSandbox(c) \/ MasterTimeout(c) \/ LoopStep(c)
  PROVE  Current'
  <1>1. CASE DeployToSandbox(c)
    <2>1. CASE promise = None
      <3>1. BeginAttempt(c, 0) /\ loop[c].stage = "off"
            /\ UNCHANGED <<health, stray>>
        BY <1>1, <2>1 DEF DeployToSandbox, OwnDeployment, IInv, CallsRoles
      <3> QED BY <3>1, BeginCurrent, ConstantsAssumption
    <2>2. CASE promise # None
      <3>1. UNCHANGED <<instance, promise, health, loop, attempt, stray>>
        BY <1>1, <2>2 DEF DeployToSandbox, JoinDeployment
      <3> QED BY <3>1, StillCurrent
    <2> QED BY <2>1, <2>2
  <1>2. CASE MasterTimeout(c)
    <2>1. promise' \in {promise, None} /\ UNCHANGED <<instance, health, loop, attempt, stray>>
      BY <1>2 DEF MasterTimeout
    <2> QED BY <2>1, StillCurrent
  <1>3. CASE AttemptTimeout(c)
    BY <1>3, CatchCurrent DEF AttemptTimeout
  <1>4. CASE SetupDone(c)
    BY <1>4, SetupDoneCurrent
  <1>5. CASE SetupFails(c)
    BY <1>5, CatchCurrent DEF SetupFails
  <1>6. CASE Retry(c)
    <2>1. /\ BeginAttempt(c, loop[c].failures) /\ loop[c].stage = "backoff"
          /\ loop[c].failures \in 0..(ResetEvery - 1)
          /\ UNCHANGED <<promise, health, stray>>
      BY <1>6 DEF Retry, shared, IInv, TypeOK, LoopType
    <2> QED BY <2>1, BeginCurrent
  <1> QED BY <1>1, <1>2, <1>3, <1>4, <1>5, <1>6 DEF LoopStep

LEMMA HealthAnswerCurrent ==
  ASSUME IInv, IInv', Current, NEW t \in ticks, HealthAnswer(t)
  PROVE  Current'
  <1>1. stray' = stray
    BY DEF HealthAnswer
  <1>2. CASE UNCHANGED <<session, sandbox, instance, promise, health, call, loop, attempt>>
    BY <1>1, <1>2, StillCurrent
  <1>3. CASE /\ health' = None
             /\ \E c \in Calls \ (WithFiles \cup Forced) :
                  call[c].stage = "idle" /\ OwnDeployment(c)
    <2>1. PICK c \in Calls : call[c].stage = "idle" /\ OwnDeployment(c)
      BY <1>3
    <2>2. BeginAttempt(c, 0) /\ loop[c].stage = "off"
      BY <2>1 DEF OwnDeployment, IInv, CallsRoles
    <2> QED BY <1>1, <1>3, <2>2, BeginCurrent, ConstantsAssumption
  <1> QED BY <1>2, <1>3 DEF HealthAnswer

(* After a restart nothing is at work and nothing is watched. *)
LEMMA RestartCurrent ==
  ASSUME Restart
  PROVE  Current'
  BY DEF Restart, Current, OfInstance, Follows, Ended, OffLoop, FreeAttempt

LEMMA NextCurrent ==
  ASSUME IInv, IInv', Current, [Next]_vars
  PROVE  Current'
  <1>1. ASSUME HealthTick \/ ServiceRecovers \/ UNCHANGED vars
        PROVE  Current'
    <2>1. UNCHANGED <<instance, promise, health, loop, attempt, stray>>
      BY <1>1 DEF HealthTick, ServiceRecovers, vars, shared
    <2> QED BY <2>1, StillCurrent
  <1> QED
    BY <1>1, CallCurrent, AttemptCurrent, HealthAnswerCurrent, RestartCurrent DEF Next

-----------------------------------------------------------------------------
(* Every reachable state follows the instance. *)
THEOREM CurrentInvariance == Spec => []Current
  <1>1. IInv /\ IInv' /\ Current /\ [Next]_vars => Current'
    BY NextCurrent
  <1> QED BY InitCurrent, Inductive, <1>1, PTL DEF Spec

(* startHealthCheckInterval: once no loop is at work the interval watches the  *)
(* instance the agent deploys to, unless an abandoned attempt or loop has      *)
(* recorded one of its own.                                                   *)
THEOREM WatchesTheCurrent == Spec => []WatchesCurrent
  <1>1. Current => WatchesCurrent
    BY DEF Current, Clean, Ended, AtWork, WatchesCurrent, Running
  <1> QED BY <1>1, CurrentInvariance, PTL
=============================================================================
