---------------------- MODULE DeploymentManagerProofs ----------------------
(***************************************************************************)
(* Proofs about DeploymentManager, for any number of calls, attempts,      *)
(* sessions and instances and any ResetEvery: the types, the ownership of  *)
(* the shared promise, the health check that is never lost, and the files  *)
(* an owner finds in its preview.                                          *)
(***************************************************************************)
EXTENDS DeploymentManager, TLAPS

-----------------------------------------------------------------------------
(* The inductive invariant, as a conjunction of what each part relies on.    *)

(* A loop points at an attempt exactly while it waits for deploy(). *)
LoopsPoint ==
  \A c \in Calls : loop[c].current # None <=> loop[c].stage = "deploying"

(* An attempt works for a call; one that asks for a status or writes knows    *)
(* the instance, and one that writes is the attempt its loop waits for.       *)
AttemptsBelong ==
  \A a \in Attempts :
    /\ attempt[a].stage # "free" => attempt[a].of \in Calls
    /\ attempt[a].stage \in {"status", "write"} => attempt[a].inst \in Instances
    /\ attempt[a].stage = "write" => ~Zombie(a)

(* Only the owner of a call has a loop, an owner waits on its own loop, and   *)
(* got is set when a call returns, for an owner because its loop has ended.   *)
CallsRoles ==
  \A c \in Calls :
    /\ call[c].stage \in {"idle", "waiter"} => loop[c].stage = "off"
    /\ call[c].stage = "owner" => call[c].joined = c
    /\ call[c].got => call[c].stage = "returned" /\ loop[c].stage \in {"off", "resolved"}

(* The files of an owner are saved before its loop starts, and every attempt  *)
(* that gets as far as writing sends them.                                    *)
FilesFollow ==
  \A c \in Calls :
    /\ loop[c].stage # "off" => Brings[c] \subseteq saved
    /\ loop[c].stage \in {"setup", "resolved"} => Carries(c, loop[c].result)
    /\ \A a \in Attempts :
         attempt[a].stage = "write" /\ attempt[a].of = c => Brings[c] \subseteq attempt[a].writes

(* Monitored, with the setup commands included: they run with a health check  *)
(* in place, and may outlive it only while another loop is on its way to one. *)
Watched ==
  (\E c \in Calls : loop[c].stage \in {"setup", "resolved"})
    => health # None \/ \E c \in Calls : loop[c].stage \in {"deploying", "backoff"}

IInv == /\ TypeOK
        /\ LoopsPoint
        /\ AttemptsBelong
        /\ CallsRoles
        /\ FilesFollow
        /\ PromiseIsOwned
        /\ OwnerFilesWritten
        /\ Watched

-----------------------------------------------------------------------------
(* The failure counter stays below ResetEvery. *)
LEMMA CounterWraps ==
  ASSUME NEW n \in Nat \ {0}, NEW x \in 0..(n - 1)
  PROVE  (x + 1) % n \in 0..(n - 1)
  OBVIOUS

(* The records that stand for a call, a loop and a slot not in use. *)
LEMMA RestTypes ==
  IdleCall \in CallType /\ Nothing \in ResultType /\ OffLoop \in LoopType /\ FreeAttempt \in AttemptType
  <1>1. 0 \in 0..(ResetEvery - 1)
    BY ConstantsAssumption
  <1> QED
    BY <1>1 DEF IdleCall, OffLoop, Nothing, FreeAttempt, CallType, LoopType, ResultType,
                AttemptType,
                CallStages, LoopStages, AttemptStages

(* Whatever a successful response says of the files it was sent, those of a    *)
(* caller among them are written or reported as failed, and its theme files   *)
(* are written.                                                               *)
LEMMA ResultsCarry ==
  \A c \in Calls, files \in SUBSET Files : \A result \in Results(files) :
    Brings[c] \subseteq files => /\ result \in ResultType /\ Carries(c, result)
                              /\ result.wrote \subseteq files
  <1> SUFFICES ASSUME NEW c \in Calls, NEW files \in SUBSET Files,
                      NEW result \in Results(files), Brings[c] \subseteq files
               PROVE  /\ result \in ResultType /\ Carries(c, result)
                      /\ result.wrote \subseteq files
    OBVIOUS
  <1>1. PICK failed \in SUBSET (files \ Theme) :
          result = [wrote |-> files \ failed, failed |-> failed]
    BY DEF Results
  <1>2. /\ result.wrote = files \ failed /\ result.failed = failed
        /\ result \in ResultType
    BY <1>1 DEF ResultType
  <1> QED BY <1>1, <1>2 DEF Carries

LEMMA InitIInv == Init => IInv
  <1> SUFFICES ASSUME Init PROVE IInv
    OBVIOUS
  <1> USE ConstantsAssumption DEF Init
  <1>1. TypeOK
    BY RestTypes DEF TypeOK
  <1>2. LoopsPoint /\ AttemptsBelong /\ CallsRoles
    BY DEF LoopsPoint, AttemptsBelong, CallsRoles, IdleCall, OffLoop, FreeAttempt
  <1>3. FilesFollow /\ PromiseIsOwned /\ OwnerFilesWritten /\ Watched
    BY DEF FilesFollow, PromiseIsOwned, OwnerFilesWritten, Watched,
           IdleCall, OffLoop, FreeAttempt
  <1> QED BY <1>1, <1>2, <1>3 DEF IInv

-----------------------------------------------------------------------------
(* What the fragments of the actions do.                                     *)

LEMMA ResetTypes ==
  ASSUME TypeOK, ResetSession
  PROVE  session' \in Sessions /\ sandbox' = {} /\ instance' = None
  BY DEF TypeOK, ResetSession, FreshSessions

(* A new attempt takes a free slot, and its loop points at it. *)
LEMMA BeginFacts ==
  ASSUME TypeOK, NEW c \in Calls, NEW f \in 0..(ResetEvery - 1), BeginAttempt(c, f)
  PROVE  /\ session' \in Sessions
         /\ sandbox' \in SUBSET Instances
         /\ instance' \in Instances \cup {None}
         /\ \E a \in Attempts, r \in AttemptType, l \in LoopType :
              /\ attempt[a].stage = "free"
              /\ attempt' = [attempt EXCEPT ![a] = r]
              /\ r.stage \in {"create", "status"} /\ r.of = c
              /\ r.stage = "status" => r.inst \in Instances
              /\ loop' = [loop EXCEPT ![c] = l]
              /\ l.stage = "deploying" /\ l.current = a /\ l.result = Nothing
  <1>1. /\ session' \in Sessions
        /\ sandbox' \in SUBSET Instances
        /\ instance' \in Instances \cup {None}
    <2>1. CASE c \in Forced
      BY <2>1, ResetTypes DEF BeginAttempt
    <2>2. CASE c \notin Forced
      BY <2>2 DEF BeginAttempt, TypeOK
    <2> QED BY <2>1, <2>2
  <1> DEFINE r == IF instance' = None
                    THEN [FreeAttempt EXCEPT !.stage = "create", !.of = c, !.client = session']
                    ELSE [FreeAttempt EXCEPT !.stage = "status", !.of = c, !.inst = instance',
                                             !.reaches = instance' \in sandbox']
             l(a) == [OffLoop EXCEPT !.stage = "deploying", !.failures = f, !.current = a]
  <1>2. PICK a \in FreeSlots : /\ attempt' = [attempt EXCEPT ![a] = r]
                               /\ loop' = [loop EXCEPT ![c] = l(a)]
    BY Zenon DEF BeginAttempt
  <1>3. a \in Attempts /\ attempt[a].stage = "free"
    BY <1>2 DEF FreeSlots, Busy
  <1>4. /\ r \in AttemptType /\ r.stage \in {"create", "status"} /\ r.of = c
        /\ r.stage = "status" => r.inst \in Instances
    <2> DEFINE here == instance' \in sandbox'
    <2>1. here \in BOOLEAN
      OBVIOUS
    <2> HIDE DEF here
    <2>2. CASE instance' = None
      BY <1>1, <2>2 DEF FreeAttempt, AttemptType, AttemptStages
    <2>3. CASE instance' # None
      <3>1. r = [FreeAttempt EXCEPT !.stage = "status", !.of = c, !.inst = instance',
                                    !.reaches = here]
        BY <2>3 DEF here
      <3> HIDE DEF r
      <3>2. instance' \in Instances
        BY <1>1, <2>3
      <3>3. r = [stage |-> "status", of |-> c, client |-> None, inst |-> instance',
                 reaches |-> here, redeployed |-> FALSE, writes |-> {}]
        BY <3>1 DEF FreeAttempt
      <3> QED BY <2>1, <3>2, <3>3 DEF AttemptType, AttemptStages
    <2> QED BY <2>2, <2>3
  <1>5. /\ l(a) \in LoopType /\ l(a).stage = "deploying" /\ l(a).current = a
        /\ l(a).result = Nothing
    BY <1>3, RestTypes DEF OffLoop, LoopType, LoopStages
  <1> HIDE DEF r, l
  <1> QED BY <1>1, <1>2, <1>3, <1>4, <1>5

(* A failure sends the loop into its backoff and forgets the instance. *)
LEMMA CatchFacts ==
  ASSUME TypeOK, NEW c \in Calls, NEW e \in BOOLEAN, Catch(c, e)
  PROVE  /\ session' \in Sessions
         /\ sandbox' \in SUBSET Instances
         /\ instance' = None
         /\ \E l \in LoopType : /\ loop' = [loop EXCEPT ![c] = l]
                                /\ l.stage = "backoff" /\ l.current = None
  <1> DEFINE n == (loop[c].failures + 1) % ResetEvery
             l == [OffLoop EXCEPT !.stage = "backoff", !.failures = n]
  <1>1. loop[c].failures \in 0..(ResetEvery - 1)
    BY DEF TypeOK, LoopType
  <1>2. n \in 0..(ResetEvery - 1)
    BY <1>1, CounterWraps, ConstantsAssumption
  <1>3. l \in LoopType /\ l.stage = "backoff" /\ l.current = None
    BY <1>2, RestTypes DEF OffLoop, LoopType, LoopStages
  <1>4. loop' = [loop EXCEPT ![c] = l]
    BY DEF Catch
  <1>5. /\ session' \in Sessions
        /\ sandbox' \in SUBSET Instances
        /\ instance' = None
    <2>1. CASE e \/ n = 0
      BY <2>1, ResetTypes DEF Catch
    <2>2. CASE ~(e \/ n = 0)
      BY <2>2 DEF Catch, TypeOK
    <2> QED BY <2>1, <2>2
  <1> HIDE DEF l
  <1> QED BY <1>3, <1>4, <1>5

-----------------------------------------------------------------------------
(* Every action preserves the invariant.                                     *)

(* The part of the invariant about loops and attempts, when c begins one. *)
LEMMA BeginPreserves ==
  ASSUME IInv, NEW c \in Calls, NEW f \in 0..(ResetEvery - 1), BeginAttempt(c, f),
         loop[c].stage \in {"off", "backoff"}
  PROVE  /\ session' \in Sessions
         /\ sandbox' \in SUBSET Instances
         /\ instance' \in Instances \cup {None}
         /\ loop' \in [Calls -> LoopType]
         /\ attempt' \in [Attempts -> AttemptType]
         /\ LoopsPoint' /\ AttemptsBelong'
         /\ \A k \in Calls : k # c => loop'[k] = loop[k]
         /\ loop'[c].stage = "deploying"
         /\ \A a \in Attempts : attempt'[a].stage = "write" => attempt'[a] = attempt[a]
  <1> USE DEF IInv
  <1>1. PICK a \in Attempts, r \in AttemptType, l \in LoopType :
              /\ attempt[a].stage = "free"
              /\ attempt' = [attempt EXCEPT ![a] = r]
              /\ r.stage \in {"create", "status"} /\ r.of = c
              /\ r.stage = "status" => r.inst \in Instances
              /\ loop' = [loop EXCEPT ![c] = l]
              /\ l.stage = "deploying" /\ l.current = a /\ l.result = Nothing
    BY BeginFacts
  <1>2. loop' \in [Calls -> LoopType] /\ attempt' \in [Attempts -> AttemptType]
    BY <1>1 DEF TypeOK
  <1>3. /\ \A k \in Calls : k # c => loop'[k] = loop[k]
        /\ loop'[c] = l
        /\ \A b \in Attempts : b # a => attempt'[b] = attempt[b]
        /\ attempt'[a] = r
    BY <1>1 DEF TypeOK
  <1>4. LoopsPoint'
    BY <1>1, <1>3, ConstantsAssumption DEF LoopsPoint
  <1>5. loop[c].current = None
    BY DEF LoopsPoint
  <1>6. AttemptsBelong'
    <2> SUFFICES ASSUME NEW b \in Attempts
                 PROVE  /\ attempt'[b].stage # "free" => attempt'[b].of \in Calls
                        /\ attempt'[b].stage \in {"status", "write"}
                             => attempt'[b].inst \in Instances
                        /\ attempt'[b].stage = "write"
                             => loop'[attempt'[b].of].current = b
      BY DEF AttemptsBelong, Zombie
    <2>1. CASE b = a
      BY <1>1, <1>3, <2>1
    <2>2. CASE b # a
      <3>1. attempt[b].stage = "write" => attempt[b].of # c
        BY <1>5, ConstantsAssumption DEF AttemptsBelong, Zombie
      <3> QED BY <1>3, <2>2, <3>1 DEF AttemptsBelong, Zombie
    <2> QED BY <2>1, <2>2
  <1> QED BY <1>1, <1>2, <1>3, <1>4, <1>6, BeginFacts

LEMMA OwnPreserves ==
  ASSUME IInv, NEW c \in Calls, OwnDeployment(c), call[c].stage = "idle", promise = None,
         Brings[c] \subseteq saved', saved \subseteq saved', saved' \in SUBSET Files,
         health' \in {health, None}, ticks' \in SUBSET ticks, UNCHANGED <<up, stray>>
  PROVE  IInv'
  <1> USE DEF IInv
  <1>1. loop[c].stage = "off"
    BY DEF CallsRoles
  <1>2. BeginAttempt(c, 0) /\ 0 \in 0..(ResetEvery - 1)
    BY ConstantsAssumption DEF OwnDeployment
  <1>3. /\ loop' \in [Calls -> LoopType]
        /\ \A k \in Calls : k # c => loop'[k] = loop[k]
        /\ loop'[c].stage = "deploying"
        /\ \A a \in Attempts : attempt'[a].stage = "write" => attempt'[a] = attempt[a]
        /\ LoopsPoint' /\ AttemptsBelong'
    BY <1>1, <1>2, BeginPreserves
  <1> DEFINE o == [IdleCall EXCEPT !.stage = "owner", !.joined = c]
  <1>4. o \in CallType /\ o.stage = "owner" /\ o.joined = c /\ ~o.got
    BY DEF IdleCall, CallType, CallStages
  <1>5. call' = [call EXCEPT ![c] = o] /\ promise' = c
    BY DEF OwnDeployment
  <1> HIDE DEF o
  <1>6. call' \in [Calls -> CallType] /\ call'[c] = o
        /\ \A k \in Calls : k # c => call'[k] = call[k]
    BY <1>4, <1>5 DEF TypeOK
  <1>7. TypeOK'
    BY <1>1, <1>2, <1>5, <1>6, BeginPreserves DEF TypeOK
  <1>8. CallsRoles'
    BY <1>3, <1>4, <1>6 DEF CallsRoles
  <1>9. FilesFollow' /\ OwnerFilesWritten'
    BY <1>3, <1>4, <1>6, ConstantsAssumption DEF FilesFollow, OwnerFilesWritten
  <1>10. PromiseIsOwned'
    BY <1>3, <1>4, <1>5, <1>6, ConstantsAssumption DEF PromiseIsOwned, Running
  <1>11. Watched'
    BY <1>3 DEF Watched
  <1> QED BY <1>3, <1>7, <1>8, <1>9, <1>10, <1>11

LEMMA DeployPreserves ==
  ASSUME IInv, NEW c \in Calls, DeployToSandbox(c)
  PROVE  IInv'
  <1>0. /\ call[c].stage = "idle" /\ saved' = saved \cup Brings[c]
        /\ UNCHANGED <<up, health, ticks, stray>>
    BY DEF DeployToSandbox
  <1>3. /\ saved \subseteq saved' /\ saved' \in SUBSET Files
        /\ Brings[c] \subseteq saved'
    BY <1>0, ConstantsAssumption DEF IInv, TypeOK
  <1>1. CASE promise = None
    <2>1. OwnDeployment(c)
      BY <1>1 DEF DeployToSandbox
    <2>2. health' = health /\ ticks' = ticks /\ UNCHANGED <<up, stray>>
      BY <1>0
    <2> QED BY <1>0, <1>1, <1>3, <2>1, <2>2, OwnPreserves
  <1>2. CASE promise # None
    <2> USE DEF IInv
    <2> DEFINE w == [IdleCall EXCEPT !.stage = "waiter", !.joined = promise]
    <2>1. w \in CallType /\ w.stage = "waiter" /\ ~w.got
      BY DEF IdleCall, CallType, CallStages, TypeOK
    <2>2. call' = [call EXCEPT ![c] = w]
          /\ UNCHANGED <<session, sandbox, instance, promise, loop, attempt>>
      BY <1>2 DEF DeployToSandbox, JoinDeployment
    <2> HIDE DEF w
    <2>3. call' \in [Calls -> CallType] /\ call'[c] = w
          /\ \A k \in Calls : k # c => call'[k] = call[k]
      BY <2>1, <2>2 DEF TypeOK
    <2>4. TypeOK'
      BY <1>0, <1>3, <2>2, <2>3 DEF TypeOK
    <2>5. CallsRoles' /\ OwnerFilesWritten'
      BY <1>0, <2>1, <2>2, <2>3 DEF CallsRoles, OwnerFilesWritten
    <2>6. PromiseIsOwned'
      BY <1>0, <2>1, <2>2, <2>3 DEF PromiseIsOwned, Running
    <2>7. LoopsPoint' /\ AttemptsBelong' /\ FilesFollow' /\ Watched'
      BY <1>0, <2>2 DEF LoopsPoint, AttemptsBelong, Zombie, FilesFollow, Watched
    <2> QED BY <2>4, <2>5, <2>6, <2>7
  <1> QED BY <1>1, <1>2

(* A loop that fails and goes into its backoff: the attempt it waited for is  *)
(* abandoned before it writes, or has settled.                                *)
LEMMA CatchPreserves ==
  ASSUME IInv, NEW c \in Calls, NEW e \in BOOLEAN, Catch(c, e),
         loop[c].stage \in {"deploying", "setup"},
         \A a \in Attempts :
           \/ attempt'[a] = FreeAttempt
           \/ /\ attempt'[a] = attempt[a]
              /\ ~(attempt[a].stage = "write" /\ attempt[a].of = c),
         attempt' \in [Attempts -> AttemptType],
         UNCHANGED <<up, saved, shared, call, stray>>
  PROVE  IInv'
  <1> USE DEF IInv, shared
  <1>1. PICK l \in LoopType : /\ loop' = [loop EXCEPT ![c] = l]
                              /\ l.stage = "backoff" /\ l.current = None
    BY CatchFacts
  <1>2. /\ loop' \in [Calls -> LoopType] /\ loop'[c] = l
        /\ \A k \in Calls : k # c => loop'[k] = loop[k]
    BY <1>1 DEF TypeOK
  <1>3. TypeOK'
    BY <1>2, CatchFacts DEF TypeOK
  <1>4. LoopsPoint'
    BY <1>1, <1>2 DEF LoopsPoint
  <1>5. AttemptsBelong'
    BY <1>2 DEF AttemptsBelong, Zombie, FreeAttempt
  <1>6. CallsRoles'
    BY <1>1, <1>2 DEF CallsRoles
  <1>7. FilesFollow'
    <2> SUFFICES ASSUME NEW k \in Calls
                 PROVE  /\ loop'[k].stage # "off" => Brings[k] \subseteq saved
                        /\ loop'[k].stage \in {"setup", "resolved"}
                             => Carries(k, loop'[k].result)
                        /\ \A a \in Attempts :
                             attempt'[a].stage = "write" /\ attempt'[a].of = k
                               => Brings[k] \subseteq attempt'[a].writes
      BY DEF FilesFollow
    <2>1. \A a \in Attempts : attempt'[a].stage = "write" => attempt'[a] = attempt[a]
      BY DEF FreeAttempt
    <2> QED BY <1>1, <1>2, <2>1 DEF FilesFollow
  <1>8. OwnerFilesWritten'
    BY <1>1, <1>2, ConstantsAssumption DEF OwnerFilesWritten, CallsRoles, FilesFollow
  <1>9. PromiseIsOwned'
    BY <1>1, <1>2 DEF PromiseIsOwned, Running
  <1>10. Watched'
    BY <1>1, <1>2 DEF Watched
  <1> QED BY <1>3, <1>4, <1>5, <1>6, <1>7, <1>8, <1>9, <1>10

LEMMA FailurePreserves ==
  ASSUME IInv, NEW a \in Attempts, ServiceFails(a)
  PROVE  IInv'
  <1> USE DEF IInv
  <1>1. PICK e \in BOOLEAN : AttemptFails(a, e)
    BY DEF ServiceFails
  <1>2. /\ attempt' \in [Attempts -> AttemptType]
        /\ \A b \in Attempts : attempt'[b] = IF b = a THEN FreeAttempt ELSE attempt[b]
        /\ UNCHANGED <<up, saved, shared, call, stray>>
    BY <1>1, RestTypes DEF AttemptFails, TypeOK
  <1>3. attempt[a].of \in Calls
    BY DEF AttemptsBelong, ServiceFails
  <1>4. CASE Zombie(a)
    <2> USE <1>1, <1>2, <1>4 DEF AttemptFails, shared
    <2>1. TypeOK'
      BY DEF TypeOK
    <2>2. LoopsPoint' /\ AttemptsBelong' /\ CallsRoles'
      BY DEF LoopsPoint, AttemptsBelong, Zombie, CallsRoles, FreeAttempt
    <2>3. FilesFollow' /\ PromiseIsOwned' /\ OwnerFilesWritten' /\ Watched'
      BY DEF FilesFollow, PromiseIsOwned, Running, OwnerFilesWritten, Watched, FreeAttempt
    <2> QED BY <2>1, <2>2, <2>3
  <1>5. CASE ~Zombie(a)
    <2> DEFINE c == attempt[a].of
    <2>1. Catch(c, e)
      BY <1>1, <1>5 DEF AttemptFails
    <2>2. loop[c].current = a /\ loop[c].stage = "deploying"
      BY <1>3, <1>5, ConstantsAssumption DEF Zombie, LoopsPoint
    <2>3. \A b \in Attempts : b # a => ~(attempt[b].stage = "write" /\ attempt[b].of = c)
      BY <2>2 DEF AttemptsBelong, Zombie
    <2> HIDE DEF c
    <2> QED BY <1>2, <1>3, <2>1, <2>2, <2>3, CatchPreserves DEF c
  <1> QED BY <1>4, <1>5

LEMMA AttemptTimeoutPreserves ==
  ASSUME IInv, NEW c \in Calls, AttemptTimeout(c)
  PROVE  IInv'
  <1> USE DEF IInv
  <1>1. /\ loop[c].stage = "deploying" /\ Catch(c, FALSE)
        /\ attempt' = [a \in Attempts |-> IF a = loop[c].current /\ attempt[a].stage = "write"
                                            THEN FreeAttempt ELSE attempt[a]]
        /\ UNCHANGED <<up, saved, shared, call, stray>>
    BY DEF AttemptTimeout
  <1>2. attempt' \in [Attempts -> AttemptType]
    BY <1>1, RestTypes DEF TypeOK
  <1>3. \A a \in Attempts : attempt[a].stage = "write" /\ attempt[a].of = c
                              => a = loop[c].current
    BY DEF AttemptsBelong, Zombie
  <1>4. \A a \in Attempts :
           \/ attempt'[a] = FreeAttempt
           \/ /\ attempt'[a] = attempt[a]
              /\ ~(attempt[a].stage = "write" /\ attempt[a].of = c)
    BY <1>1, <1>3
  <1> QED BY <1>1, <1>2, <1>4, CatchPreserves

LEMMA SetupFailsPreserves ==
  ASSUME IInv, NEW c \in Calls, SetupFails(c)
  PROVE  IInv'
  <1> USE DEF IInv
  <1>1. loop[c].stage = "setup" /\ UNCHANGED <<up, saved, shared, call, attempt, stray>>
    BY DEF SetupFails
  <1>2. PICK e \in BOOLEAN : Catch(c, e)
    BY DEF SetupFails
  <1>3. \A a \in Attempts : ~(attempt[a].stage = "write" /\ attempt[a].of = c)
    BY <1>1, ConstantsAssumption DEF AttemptsBelong, Zombie, LoopsPoint
  <1>4. attempt' \in [Attempts -> AttemptType]
    BY <1>1 DEF TypeOK
  <1> QED BY <1>1, <1>2, <1>3, <1>4, CatchPreserves

LEMMA RetryPreserves ==
  ASSUME IInv, NEW c \in Calls, Retry(c)
  PROVE  IInv'
  <1> USE DEF IInv
  <1>1. /\ loop[c].stage = "backoff" /\ BeginAttempt(c, loop[c].failures)
        /\ UNCHANGED <<up, saved, shared, call, stray>>
    BY DEF Retry
  <1>2. loop[c].failures \in 0..(ResetEvery - 1)
    BY DEF TypeOK, LoopType
  <1>3. /\ loop' \in [Calls -> LoopType]
        /\ \A k \in Calls : k # c => loop'[k] = loop[k]
        /\ loop'[c].stage = "deploying"
        /\ \A a \in Attempts : attempt'[a].stage = "write" => attempt'[a] = attempt[a]
        /\ LoopsPoint' /\ AttemptsBelong'
    BY <1>1, <1>2, BeginPreserves
  <1>4. TypeOK'
    BY <1>1, <1>2, BeginPreserves DEF TypeOK, shared
  <1>5. CallsRoles'
    BY <1>1, <1>3 DEF CallsRoles
  <1>6. PromiseIsOwned'
    <2>1. UNCHANGED <<call, promise>>
      BY <1>1 DEF shared
    <2>2. promise # None => loop'[promise].stage \in {"deploying", "setup", "backoff"}
      BY <1>3 DEF PromiseIsOwned, Running, TypeOK
    <2> QED BY <2>1, <2>2 DEF PromiseIsOwned, Running
  <1>7. Watched'
    BY <1>1, <1>3 DEF Watched, shared
  <1>8. FilesFollow' /\ OwnerFilesWritten'
    BY <1>1, <1>3, ConstantsAssumption DEF FilesFollow, OwnerFilesWritten, CallsRoles
  <1> QED BY <1>3, <1>4, <1>5, <1>6, <1>7, <1>8

(* A loop that ends with a health check in place and the files it wrote. *)
LEMMA ResolvePreserves ==
  ASSUME IInv, NEW c \in Calls, NEW result \in ResultType, Resolve(c, result),
         loop[c].stage \in {"deploying", "setup"},
         Carries(c, result),
         \A a \in Attempts :
           \/ attempt'[a] = FreeAttempt
           \/ /\ attempt'[a] = attempt[a]
              /\ ~(attempt[a].stage = "write" /\ attempt[a].of = c),
         attempt' \in [Attempts -> AttemptType],
         health' \in Instances \cup {None},
         health' # None \/ \E k \in Calls : k # c /\ loop[k].stage \in {"deploying", "backoff"},
         stray' \in BOOLEAN,
         UNCHANGED <<up, session, sandbox, instance, saved, ticks>>
  PROVE  IInv'
  <1> USE DEF IInv
  <1> DEFINE l == [OffLoop EXCEPT !.stage = "resolved", !.result = result]
  <1>1. l \in LoopType /\ l.stage = "resolved" /\ l.current = None /\ l.result = result
    BY RestTypes DEF OffLoop, LoopType, LoopStages
  <1>2. loop' = [loop EXCEPT ![c] = l]
    BY DEF Resolve
  <1> HIDE DEF l
  <1>3. /\ loop' \in [Calls -> LoopType] /\ loop'[c] = l
        /\ \A k \in Calls : k # c => loop'[k] = loop[k]
    BY <1>1, <1>2 DEF TypeOK
  <1> DEFINE done == [stage |-> "returned", joined |-> None, got |-> TRUE]
  <1>4. done \in CallType /\ done.stage = "returned" /\ done.joined = None
    BY DEF CallType, CallStages
  <1>5. call' = [k \in Calls |-> IF Waiting(k) /\ call[k].joined = c THEN done ELSE call[k]]
    BY DEF Resolve
  <1> HIDE DEF done
  <1>6. /\ call' \in [Calls -> CallType]
        /\ \A k \in Calls : call'[k] = IF Waiting(k) /\ call[k].joined = c
                                         THEN done ELSE call[k]
    BY <1>4, <1>5 DEF TypeOK
  <1>7. promise' = IF call[c].stage = "owner" THEN None ELSE promise
    BY DEF Resolve
  <1>8. TypeOK'
    BY <1>3, <1>6, <1>7 DEF TypeOK
  <1>9. LoopsPoint' /\ AttemptsBelong'
    BY <1>1, <1>3 DEF LoopsPoint, AttemptsBelong, Zombie, FreeAttempt
  <1>10. \A k \in Calls : Waiting(k) /\ call[k].joined = c /\ k # c => loop[k].stage = "off"
    BY DEF Waiting, CallsRoles
  <1>11. CallsRoles'
    <2> SUFFICES ASSUME NEW k \in Calls
                 PROVE  /\ call'[k].stage \in {"idle", "waiter"} => loop'[k].stage = "off"
                        /\ call'[k].stage = "owner" => call'[k].joined = k
                        /\ call'[k].got => call'[k].stage = "returned"
                                             /\ loop'[k].stage \in {"off", "resolved"}
      BY DEF CallsRoles
    <2>1. CASE k = c
      BY <1>1, <1>3, <1>4, <1>6, <2>1 DEF CallsRoles
    <2>2. CASE k # c
      BY <1>3, <1>4, <1>6, <1>10, <2>2 DEF CallsRoles
    <2> QED BY <2>1, <2>2
  <1>12. FilesFollow'
    BY <1>1, <1>3, ConstantsAssumption DEF FilesFollow, FreeAttempt
  <1>13. OwnerFilesWritten'
    BY <1>1, <1>3, <1>6, <1>10, ConstantsAssumption DEF OwnerFilesWritten
  <1>14. PromiseIsOwned'
    <2>1. \A k \in Calls : call'[k].stage = "owner" <=> promise' = k
      <3>1. CASE call[c].stage = "owner"
        <4>1. promise = c /\ promise' = None /\ call'[c] = done
          BY <1>6, <1>7, <3>1 DEF PromiseIsOwned, CallsRoles, Waiting
        <4> QED BY <1>4, <1>6, <4>1, ConstantsAssumption DEF PromiseIsOwned
      <3>2. CASE call[c].stage # "owner"
        <4>1. promise' = promise /\ promise # c
          BY <1>7, <3>2 DEF PromiseIsOwned
        <4>2. \A k \in Calls : call[k].stage = "owner" => call'[k] = call[k]
          BY <1>6, <3>2 DEF CallsRoles
        <4> QED BY <1>4, <1>6, <4>1, <4>2 DEF PromiseIsOwned
      <3> QED BY <3>1, <3>2
    <2>2. promise' # None => loop'[promise'].stage \in {"deploying", "setup", "backoff"}
      BY <1>3, <1>7 DEF PromiseIsOwned, Running, TypeOK
    <2> QED BY <2>1, <2>2 DEF PromiseIsOwned, Running
  <1>15. Watched'
    BY <1>3 DEF Watched
  <1> QED BY <1>8, <1>9, <1>11, <1>12, <1>13, <1>14, <1>15

LEMMA SetupDonePreserves ==
  ASSUME IInv, NEW c \in Calls, SetupDone(c)
  PROVE  IInv'
  <1> USE DEF IInv
  <1>1. /\ loop[c].stage = "setup" /\ Resolve(c, loop[c].result)
        /\ UNCHANGED <<up, session, sandbox, instance, saved, health, ticks, attempt, stray>>
    BY DEF SetupDone
  <1>2. loop[c].result \in ResultType /\ Carries(c, loop[c].result)
    BY <1>1 DEF TypeOK, LoopType, FilesFollow
  <1>3. \A a \in Attempts : ~(attempt[a].stage = "write" /\ attempt[a].of = c)
    BY <1>1, ConstantsAssumption DEF AttemptsBelong, Zombie, LoopsPoint
  <1>4. health' # None \/ \E k \in Calls : k # c /\ loop[k].stage \in {"deploying", "backoff"}
    BY <1>1 DEF Watched
  <1>5. /\ health' \in Instances \cup {None} /\ stray' \in BOOLEAN
        /\ attempt' \in [Attempts -> AttemptType]
    BY <1>1 DEF TypeOK
  <1> QED BY <1>1, <1>2, <1>3, <1>4, <1>5, ResolvePreserves

LEMMA WrittenPreserves ==
  ASSUME IInv, NEW a \in Attempts, Written(a)
  PROVE  IInv'
  <1> USE DEF IInv
  <1> DEFINE c == attempt[a].of
  <1>1. /\ attempt[a].stage = "write" /\ attempt' = [attempt EXCEPT ![a] = FreeAttempt]
        /\ UNCHANGED <<up, session, sandbox, instance, saved, ticks>>
    BY DEF Written
  <1>0. PICK result \in Results(attempt[a].writes) : AttemptSucceeds(a, result)
    BY DEF Written
  <1>2. c \in Calls /\ loop[c].current = a /\ loop[c].stage = "deploying"
    BY <1>1, ConstantsAssumption DEF AttemptsBelong, Zombie, LoopsPoint
  <1>3. attempt[a].inst \in Instances /\ attempt[a].inst # None
    BY <1>1, ConstantsAssumption DEF AttemptsBelong
  <1>4. result \in ResultType /\ Carries(c, result)
    <2>1. attempt[a].writes \in SUBSET Files /\ Brings[c] \subseteq attempt[a].writes
      BY <1>1, <1>2 DEF TypeOK, AttemptType, FilesFollow
    <2> HIDE DEF c
    <2> QED BY Zenon, <1>0, <1>2, <2>1, ResultsCarry
  <1>5. health' \in Instances \cup {None} /\ health' # None
    BY <1>0, <1>3 DEF AttemptSucceeds, TypeOK
  <1>6. /\ attempt' \in [Attempts -> AttemptType]
        /\ \A b \in Attempts : attempt'[b] = IF b = a THEN FreeAttempt ELSE attempt[b]
    BY <1>1, RestTypes DEF TypeOK
  <1>7. \A b \in Attempts : b # a => ~(attempt[b].stage = "write" /\ attempt[b].of = c)
    BY <1>2 DEF AttemptsBelong, Zombie
  <1>8. stray' \in BOOLEAN
    BY DEF Written, TypeOK
  <1>9. CASE Resolve(c, result)
    <2> HIDE DEF c
    <2> QED BY <1>1, <1>2, <1>4, <1>5, <1>6, <1>7, <1>8, <1>9, ResolvePreserves
  <1> DEFINE l == [loop[c] EXCEPT !.stage = "setup", !.current = None,
                                  !.result = result]
  <1>10. CASE loop' = [loop EXCEPT ![c] = l] /\ UNCHANGED <<call, promise>>
    <2>1. l \in LoopType /\ l.stage = "setup" /\ l.current = None
          /\ l.result = result
      BY <1>2, <1>4 DEF TypeOK, LoopType, LoopStages
    <2> HIDE DEF l, c
    <2>2. /\ loop' \in [Calls -> LoopType] /\ loop'[c] = l
          /\ \A k \in Calls : k # c => loop'[k] = loop[k]
      BY <1>2, <1>10, <2>1 DEF TypeOK
    <2>3. TypeOK'
      BY <1>1, <1>5, <1>6, <1>8, <1>10, <2>2 DEF TypeOK
    <2>4. LoopsPoint' /\ CallsRoles'
      BY <1>2, <1>10, <2>1, <2>2 DEF LoopsPoint, CallsRoles
    <2>5. AttemptsBelong'
      BY <1>2, <1>6, <1>7, <2>2 DEF AttemptsBelong, Zombie, FreeAttempt
    <2>6. FilesFollow'
      BY <1>1, <1>2, <1>4, <1>6, <2>1, <2>2, ConstantsAssumption DEF FilesFollow, FreeAttempt
    <2>7. PromiseIsOwned' /\ OwnerFilesWritten'
      BY <1>2, <1>10, <2>1, <2>2, ConstantsAssumption
         DEF PromiseIsOwned, Running, OwnerFilesWritten, CallsRoles
    <2>8. Watched'
      BY <1>5 DEF Watched
    <2> QED BY <2>3, <2>4, <2>5, <2>6, <2>7, <2>8
  <1> QED BY <1>0, <1>9, <1>10 DEF AttemptSucceeds

(* The steps that move one attempt on, without its loop.  An attempt that     *)
(* starts to write is the one its loop waits for and writes its owner's files. *)
LEMMA MovePreserves ==
  ASSUME IInv, NEW a \in Attempts, NEW r \in AttemptType,
         attempt' = [attempt EXCEPT ![a] = r],
         r.stage # "free" => r.of \in Calls,
         r.stage # "status",
         r.stage = "write" => /\ loop[r.of].current = a
                              /\ r.inst \in Instances
                              /\ Brings[r.of] \subseteq r.writes,
         sandbox' \in SUBSET Instances,
         instance' \in Instances \cup {None},
         stray' \in BOOLEAN,
         UNCHANGED <<up, session, saved, shared, call, loop>>
  PROVE  IInv'
  <1> USE DEF IInv, shared
  <1>1. /\ attempt' \in [Attempts -> AttemptType]
        /\ \A b \in Attempts : attempt'[b] = IF b = a THEN r ELSE attempt[b]
    BY DEF TypeOK
  <1>2. TypeOK'
    BY <1>1 DEF TypeOK
  <1>3. AttemptsBelong'
    BY <1>1 DEF AttemptsBelong, Zombie
  <1>4. FilesFollow'
    BY <1>1 DEF FilesFollow
  <1>5. LoopsPoint' /\ CallsRoles' /\ PromiseIsOwned' /\ OwnerFilesWritten' /\ Watched'
    BY DEF LoopsPoint, CallsRoles, PromiseIsOwned, Running, OwnerFilesWritten, Watched
  <1> QED BY <1>2, <1>3, <1>4, <1>5

LEMMA StatusUnhealthyPreserves ==
  ASSUME IInv, NEW a \in Attempts, StatusUnhealthy(a)
  PROVE  IInv'
  <1> DEFINE r == [FreeAttempt EXCEPT !.stage = "create", !.of = attempt[a].of,
                                      !.client = session]
  <1>1. attempt[a].of \in Calls /\ session \in Sessions
    BY DEF StatusUnhealthy, IInv, AttemptsBelong, TypeOK
  <1>2. r \in AttemptType /\ r.stage = "create" /\ r.of = attempt[a].of
    BY <1>1, RestTypes DEF FreeAttempt, AttemptType, AttemptStages
  <1>3. /\ attempt' = [attempt EXCEPT ![a] = r]
        /\ UNCHANGED <<up, session, sandbox, instance, saved, shared, call, loop, stray>>
    BY DEF StatusUnhealthy
  <1>4. /\ sandbox' \in SUBSET Instances /\ instance' \in Instances \cup {None}
        /\ stray' \in BOOLEAN
    BY <1>3 DEF IInv, TypeOK
  <1> HIDE DEF r
  <1> QED BY <1>1, <1>2, <1>3, <1>4, MovePreserves

LEMMA StatusHealthyPreserves ==
  ASSUME IInv, NEW a \in Attempts, StatusHealthy(a)
  PROVE  IInv'
  <1> USE DEF IInv
  <1> DEFINE c == attempt[a].of
             files == IF c \in WithFiles THEN Brings[c] ELSE saved
             here == attempt[a].inst \in sandbox
             w == [attempt[a] EXCEPT !.reaches = here, !.writes = files, !.stage = "write"]
             r == IF Zombie(a) THEN FreeAttempt ELSE w
  <1>1. c \in Calls /\ attempt[a].inst \in Instances
    BY DEF StatusHealthy, AttemptsBelong
  <1>2. files \in SUBSET Files /\ Brings[c] \subseteq files
    BY <1>1, ConstantsAssumption DEF TypeOK, WithFiles
  <1>3. here \in BOOLEAN
    OBVIOUS
  <1>4. /\ attempt' = [attempt EXCEPT ![a] = r]
        /\ UNCHANGED <<up, session, sandbox, instance, saved, shared, call, loop, stray>>
    BY DEF StatusHealthy, BeginWrite
  <1> HIDE DEF files, here
  <1>5. /\ w \in AttemptType /\ w.stage = "write" /\ w.of = c
        /\ w.inst = attempt[a].inst /\ w.writes = files
    BY <1>2, <1>3 DEF TypeOK, AttemptType, AttemptStages
  <1>6. ~Zombie(a) => loop[c].current = a
    BY DEF Zombie
  <1> HIDE DEF w, c
  <1>7. /\ r \in AttemptType /\ r.stage \in {"free", "write"}
        /\ r.stage = "write" => /\ r.of = c /\ r.inst \in Instances /\ r.writes = files
                                /\ loop[c].current = a
    BY <1>1, <1>5, <1>6, RestTypes DEF FreeAttempt
  <1>8. /\ sandbox' \in SUBSET Instances /\ instance' \in Instances \cup {None}
        /\ stray' \in BOOLEAN
    BY <1>4 DEF TypeOK
  <1> HIDE DEF r
  <1> QED BY <1>1, <1>2, <1>4, <1>7, <1>8, MovePreserves

LEMMA CreatedPreserves ==
  ASSUME IInv, NEW a \in Attempts, Created(a)
  PROVE  IInv'
  <1> USE DEF IInv
  <1> DEFINE c == attempt[a].of
             here == instance' \in sandbox'
             w == [attempt[a] EXCEPT !.client = None, !.inst = instance', !.reaches = here,
                                     !.redeployed = TRUE, !.writes = saved,
                                     !.stage = "write"]
             r == IF Zombie(a) THEN FreeAttempt ELSE w
  <1>1. c \in Calls
    BY DEF Created, AttemptsBelong
  <1>2. instance' \in Instances
    BY DEF Created, FreshInstances
  <1>3. here \in BOOLEAN
    OBVIOUS
  <1>4. /\ attempt' = [attempt EXCEPT ![a] = r]
        /\ UNCHANGED <<up, session, saved, shared, call, loop>>
    BY DEF Created, BeginWrite
  <1>5. sandbox' \in SUBSET Instances /\ stray' \in BOOLEAN
    BY <1>2 DEF Created, TypeOK
  <1> HIDE DEF here
  <1>6. /\ w \in AttemptType /\ w.stage = "write" /\ w.of = c
        /\ w.inst = instance' /\ w.writes = saved
    BY <1>2, <1>3 DEF TypeOK, AttemptType, AttemptStages
  <1>7. ~Zombie(a) => /\ loop[c].current = a
                      /\ Brings[c] \subseteq saved
    BY <1>1, ConstantsAssumption DEF Created, Zombie, LoopsPoint, FilesFollow
  <1> HIDE DEF w, c
  <1>8. /\ r \in AttemptType /\ r.stage \in {"free", "write"}
        /\ r.stage = "write" => /\ r.of = c /\ r.inst \in Instances /\ r.writes = saved
                                /\ loop[c].current = a /\ Brings[c] \subseteq saved
    BY <1>1, <1>2, <1>6, <1>7, RestTypes DEF FreeAttempt
  <1> HIDE DEF r
  <1> QED BY <1>1, <1>2, <1>4, <1>5, <1>8, MovePreserves

LEMMA MasterTimeoutPreserves ==
  ASSUME IInv, NEW c \in Calls, MasterTimeout(c)
  PROVE  IInv'
  <1> USE DEF IInv
  <1> DEFINE gone == [IdleCall EXCEPT !.stage = "returned"]
  <1>1. gone \in CallType /\ gone.stage = "returned" /\ ~gone.got
    BY RestTypes DEF IdleCall, CallType, CallStages
  <1>2. /\ call' = [call EXCEPT ![c] = gone]
        /\ promise' = IF call[c].stage = "owner" THEN None ELSE promise
        /\ UNCHANGED <<up, session, sandbox, instance, saved, health, ticks, loop, attempt, stray>>
    BY DEF MasterTimeout
  <1> HIDE DEF gone
  <1>3. /\ call' \in [Calls -> CallType] /\ call'[c] = gone
        /\ \A k \in Calls : k # c => call'[k] = call[k]
    BY <1>1, <1>2 DEF TypeOK
  <1>4. TypeOK'
    BY <1>2, <1>3 DEF TypeOK
  <1>5. CallsRoles' /\ OwnerFilesWritten'
    BY <1>1, <1>2, <1>3 DEF CallsRoles, OwnerFilesWritten
  <1>6. PromiseIsOwned'
    BY <1>1, <1>2, <1>3, ConstantsAssumption DEF PromiseIsOwned, Running
  <1>7. LoopsPoint' /\ AttemptsBelong' /\ FilesFollow' /\ Watched'
    BY <1>2 DEF LoopsPoint, AttemptsBelong, Zombie, FilesFollow, Watched
  <1> QED BY <1>4, <1>5, <1>6, <1>7

(* A step that touches neither calls, loops, attempts nor the shared promise. *)
LEMMA AsidePreserves ==
  ASSUME IInv, up' \in BOOLEAN,
         ticks' \in SUBSET [inst : Instances, reaches : BOOLEAN],
         UNCHANGED <<session, sandbox, instance, saved, promise, health, call, loop,
                     attempt, stray>>
  PROVE  IInv'
  BY DEF IInv, TypeOK, LoopsPoint, AttemptsBelong, Zombie, CallsRoles, FilesFollow,
         PromiseIsOwned, Running, OwnerFilesWritten, Watched

LEMMA HealthTickPreserves ==
  ASSUME IInv, HealthTick
  PROVE  IInv'
  <1> DEFINE here == health \in sandbox
  <1>1. here \in BOOLEAN /\ health \in Instances
    BY DEF HealthTick, IInv, TypeOK
  <1>2. /\ ticks' = ticks \cup {[inst |-> health, reaches |-> here]}
        /\ UNCHANGED <<up, session, sandbox, instance, saved, promise, health, call, loop,
                       attempt, stray>>
    BY DEF HealthTick
  <1> HIDE DEF here
  <1>3. ticks' \in SUBSET [inst : Instances, reaches : BOOLEAN]
    BY <1>1, <1>2 DEF IInv, TypeOK
  <1>4. up' \in BOOLEAN
    BY <1>2 DEF IInv, TypeOK
  <1> QED BY <1>2, <1>3, <1>4, AsidePreserves

LEMMA HealthAnswerPreserves ==
  ASSUME IInv, NEW t \in ticks, HealthAnswer(t)
  PROVE  IInv'
  <1>1. ticks' \in SUBSET ticks /\ UNCHANGED <<up, saved, stray>>
    BY DEF HealthAnswer, Answered
  <1>2. CASE UNCHANGED <<session, sandbox, instance, promise, health, call, loop, attempt>>
    <2>1. ticks' \in SUBSET [inst : Instances, reaches : BOOLEAN] /\ up' \in BOOLEAN
      BY <1>1 DEF IInv, TypeOK
    <2> QED BY <1>1, <1>2, <2>1, AsidePreserves
  <1>3. CASE /\ promise = None /\ health' = None
             /\ \E c \in Calls \ (WithFiles \cup Forced) :
                  call[c].stage = "idle" /\ OwnDeployment(c)
    <2>1. PICK c \in Calls \ (WithFiles \cup Forced) :
            call[c].stage = "idle" /\ OwnDeployment(c)
      BY <1>3
    <2>2. Brings[c] \subseteq saved' /\ saved \subseteq saved' /\ saved' \in SUBSET Files
      BY <1>1, <2>1 DEF IInv, TypeOK, WithFiles
    <2> QED BY <1>1, <1>3, <2>1, <2>2, OwnPreserves
  <1> QED BY <1>2, <1>3 DEF HealthAnswer

LEMMA RestartPreserves ==
  ASSUME IInv, Restart
  PROVE  IInv'
  <1> USE DEF IInv
  <1> DEFINE gone == [IdleCall EXCEPT !.stage = "returned"]
  <1>1. gone \in CallType /\ gone.stage = "returned" /\ ~gone.got
    BY RestTypes DEF IdleCall, CallType, CallStages
  <1>2. call' = [c \in Calls |-> IF Waiting(c) THEN gone ELSE call[c]]
    BY DEF Restart
  <1> HIDE DEF gone
  <1>3. /\ call' \in [Calls -> CallType]
        /\ \A c \in Calls : call'[c] = IF Waiting(c) THEN gone ELSE call[c]
    BY <1>1, <1>2 DEF TypeOK
  <1>4. /\ promise' = None /\ health' = None /\ ticks' = {} /\ stray' = FALSE
        /\ loop' = [c \in Calls |-> OffLoop]
        /\ attempt' = [a \in Attempts |-> FreeAttempt]
        /\ UNCHANGED <<up, session, sandbox, instance, saved>>
    BY DEF Restart
  <1>5. TypeOK'
    BY <1>3, <1>4, RestTypes DEF TypeOK
  <1>6. LoopsPoint' /\ AttemptsBelong' /\ FilesFollow' /\ Watched' /\ OwnerFilesWritten'
    BY <1>4, ConstantsAssumption
       DEF LoopsPoint, AttemptsBelong, FilesFollow, Watched, OwnerFilesWritten,
           OffLoop, FreeAttempt
  <1>7. CallsRoles'
    BY <1>1, <1>3, <1>4 DEF CallsRoles, OffLoop
  <1>8. PromiseIsOwned'
    BY <1>1, <1>3, <1>4, ConstantsAssumption DEF PromiseIsOwned, Waiting
  <1> QED BY <1>5, <1>6, <1>7, <1>8

LEMMA NextPreserves == IInv /\ [Next]_vars => IInv'
  <1> SUFFICES ASSUME IInv, [Next]_vars PROVE IInv'
    OBVIOUS
  <1>1. ASSUME NEW c \in Calls, DeployToSandbox(c) \/ MasterTimeout(c) \/ LoopStep(c)
        PROVE  IInv'
    BY <1>1, DeployPreserves, MasterTimeoutPreserves, AttemptTimeoutPreserves,
       SetupDonePreserves, SetupFailsPreserves, RetryPreserves DEF LoopStep
  <1>2. ASSUME NEW a \in Attempts, AttemptStep(a)
        PROVE  IInv'
    BY <1>2, StatusHealthyPreserves, StatusUnhealthyPreserves, CreatedPreserves,
       WrittenPreserves, FailurePreserves DEF AttemptStep
  <1>3. ASSUME NEW t \in ticks, HealthAnswer(t)
        PROVE  IInv'
    BY <1>3, HealthAnswerPreserves
  <1>4. CASE ServiceRecovers \/ UNCHANGED vars
    <2>1. /\ up' \in BOOLEAN /\ ticks' \in SUBSET [inst : Instances, reaches : BOOLEAN]
          /\ UNCHANGED <<session, sandbox, instance, saved, promise, health, call, loop,
                         attempt, stray>>
      BY <1>4 DEF ServiceRecovers, vars, shared, IInv, TypeOK
    <2> QED BY <2>1, AsidePreserves
  <1> QED
    BY <1>1, <1>2, <1>3, <1>4, HealthTickPreserves, RestartPreserves DEF Next

-----------------------------------------------------------------------------
(* Every reachable state satisfies the inductive invariant. *)
THEOREM Inductive == Spec => []IInv
  BY InitIInv, NextPreserves, PTL DEF Spec

(* The types: in particular the failure counter, which ensures a new session  *)
(* every ResetEvery failures, never reaches ResetEvery (lines 655-667).       *)
THEOREM TypeCorrect == Spec => []TypeOK
  <1>1. IInv => TypeOK
    BY DEF IInv
  <1> QED BY <1>1, Inductive, PTL

(* deployToSandbox: however many callers, timeouts, attempts and restarts     *)
(* there are, the shared promise is the running loop of the one caller that   *)
(* started it and still waits for it.                                         *)
THEOREM PromiseOwned == Spec => []PromiseIsOwned
  <1>1. IInv => PromiseIsOwned
    BY DEF IInv
  <1> QED BY <1>1, Inductive, PTL

(* startHealthCheckInterval: once a deployment has succeeded an instance is   *)
(* watched or a loop is at work, until the object is evicted.  Of an evicted  *)
(* one whose state still names an instance this says nothing: no loop is      *)
(* resolved, and indeed nothing watches until it deploys again.               *)
THEOREM AlwaysMonitored == Spec => []Monitored
  <1>1. IInv => Monitored
    BY DEF IInv, Watched, Monitored, Running
  <1> QED BY <1>1, Inductive, PTL

(* getFilesToDeploy and writeFiles: an owner that is given a preview finds    *)
(* its theme files in it, whichever attempt of its loop made it, and of its   *)
(* other files all that the service did not report as failed.                 *)
THEOREM OwnersGetTheirFiles == Spec => []OwnerFilesWritten
  <1>1. IInv => OwnerFilesWritten
    BY DEF IInv
  <1> QED BY <1>1, Inductive, PTL

-----------------------------------------------------------------------------
(* The abstract specification.                                               *)

(* Files come from calls that were made, and a caller that waits has joined a *)
(* loop.                                                                      *)
Offered == UNION {Brings[c] : c \in {k \in Calls : call[k].stage # "idle"}}

Brought ==
  /\ saved \subseteq Offered
  /\ \A a \in Attempts : attempt[a].writes \subseteq saved
  /\ \A c \in Calls : loop[c].result.wrote \subseteq saved
  /\ \A c \in Calls : Waiting(c) => call[c].joined \in Calls

(* A step that makes no call and begins no write. *)
LEMMA NothingBrought ==
  ASSUME IInv, Brought, saved' = saved,
         \A a \in Attempts : attempt'[a].writes \subseteq saved,
         \A c \in Calls : loop'[c].result.wrote \subseteq saved,
         \A c \in Calls : \/ call'[c] = call[c]
                          \/ call[c].stage # "idle" /\ call'[c].stage = "returned"
  PROVE  Brought'
  <1>1. Offered' = Offered
    <2>1. \A c \in Calls : call'[c].stage = "idle" <=> call[c].stage = "idle"
      OBVIOUS
    <2> QED BY <2>1 DEF Offered
  <1> QED BY <1>1 DEF Brought, Waiting

LEMMA BeginBrings ==
  ASSUME TypeOK, NEW c \in Calls, NEW f \in 0..(ResetEvery - 1), BeginAttempt(c, f)
  PROVE  /\ \A a \in Attempts : attempt'[a] = attempt[a] \/ attempt'[a].writes = {}
         /\ \A k \in Calls : k # c => loop'[k] = loop[k]
         /\ loop'[c].stage = "deploying" /\ loop'[c].result = Nothing
  <1> DEFINE r == IF instance' = None
                    THEN [FreeAttempt EXCEPT !.stage = "create", !.of = c, !.client = session']
                    ELSE [FreeAttempt EXCEPT !.stage = "status", !.of = c, !.inst = instance',
                                             !.reaches = instance' \in sandbox']
             l(a) == [OffLoop EXCEPT !.stage = "deploying", !.failures = f, !.current = a]
  <1>1. PICK a \in FreeSlots : /\ attempt' = [attempt EXCEPT ![a] = r]
                               /\ loop' = [loop EXCEPT ![c] = l(a)]
    BY Zenon DEF BeginAttempt
  <1>2. r.writes = {}
    BY DEF FreeAttempt
  <1>3. l(a).stage = "deploying" /\ l(a).result = Nothing
    BY DEF OffLoop
  <1> HIDE DEF r, l
  <1> QED BY <1>1, <1>2, <1>3 DEF TypeOK

LEMMA CatchBrings ==
  ASSUME TypeOK, NEW c \in Calls, NEW e \in BOOLEAN, Catch(c, e)
  PROVE  /\ \A k \in Calls : k # c => loop'[k] = loop[k]
         /\ loop'[c].stage = "backoff" /\ loop'[c].result = Nothing
  <1> DEFINE n == (loop[c].failures + 1) % ResetEvery
             l == [OffLoop EXCEPT !.stage = "backoff", !.failures = n]
  <1>1. loop' = [loop EXCEPT ![c] = l]
    BY DEF Catch
  <1> HIDE DEF n
  <1>2. l.stage = "backoff" /\ l.result = Nothing
    BY DEF OffLoop
  <1> HIDE DEF l
  <1> QED BY <1>1, <1>2 DEF TypeOK

LEMMA ResolveBrings ==
  ASSUME TypeOK, NEW c \in Calls, NEW result, Resolve(c, result)
  PROVE  /\ \A k \in Calls : k # c => loop'[k] = loop[k]
         /\ loop'[c].stage = "resolved" /\ loop'[c].result = result
         /\ \A k \in Calls : IF Waiting(k) /\ call[k].joined = c
                               THEN call'[k].stage = "returned" /\ call'[k].got = TRUE
                               ELSE call'[k] = call[k]
         /\ promise' = IF call[c].stage = "owner" THEN None ELSE promise
  <1> DEFINE l == [OffLoop EXCEPT !.stage = "resolved", !.result = result]
  <1>1. loop' = [loop EXCEPT ![c] = l]
    BY DEF Resolve
  <1>2. l.stage = "resolved" /\ l.result = result
    BY DEF OffLoop
  <1> HIDE DEF l
  <1> QED BY <1>1, <1>2 DEF TypeOK, Resolve

-----------------------------------------------------------------------------
(* Each kind of step, told by what it does to callers and loops.             *)

(* What a deployment has come to. *)
Preview(c) == IF loop[c].stage = "resolved" THEN loop[c].result.wrote ELSE {}

LEMMA BeginMaps ==
  ASSUME NEW c \in Calls, call[c].stage = "idle", promise = None, promise' = c,
         \A k \in Calls : k # c => call'[k] = call[k] /\ loop'[k] = loop[k],
         call'[c].stage = "owner", call'[c].joined = c, call'[c].got = FALSE,
         call[c].got = FALSE, loop[c].stage = "off", loop'[c].stage = "deploying"
  PROVE  Callers!Begin(c)
  BY DEF Callers!Begin, Waiting, Running

LEMMA JoinMaps ==
  ASSUME NEW c \in Calls, call[c].stage = "idle", promise # None, promise' = promise,
         \A k \in Calls : k # c => call'[k] = call[k],
         call'[c].stage = "waiter", call'[c].joined = promise, call'[c].got = FALSE,
         call[c].got = FALSE, loop' = loop
  PROVE  Callers!Join(c)
  BY DEF Callers!Join, Waiting, Running

LEMMA DeliverMaps ==
  ASSUME NEW d \in Calls, NEW wrote, Running(d), wrote \subseteq Offered,
         Brings[d] \cap Theme \subseteq wrote,
         \A k \in Calls : k # d => loop'[k] = loop[k],
         loop'[d].stage = "resolved", loop'[d].result.wrote = wrote,
         \A k \in Calls : IF Waiting(k) /\ call[k].joined = d
                          THEN call'[k].stage = "returned" /\ call'[k].got = TRUE
                          ELSE call'[k] = call[k],
         promise' = IF promise = d THEN None ELSE promise
  PROVE  Callers!Deliver(d)
  <1> DEFINE waits == [c \in Calls |-> IF Waiting(c) THEN call[c].joined ELSE None]
             got == {c \in Calls : call[c].got}
             running == {c \in Calls : Running(c)}
             preview == [c \in Calls |-> Preview(c)]
  <1>1. d # None
    BY ConstantsAssumption
  <1>2. \A k \in Calls : Waiting(k) /\ call[k].joined = d <=> waits[k] = d
    BY <1>1
  <1>3. running' = running \ {d}
    BY DEF Running
  <1>4. preview' = [preview EXCEPT ![d] = wrote]
    BY DEF Preview
  <1>5. got' = got \cup {c \in Calls : waits[c] = d}
    BY <1>2
  <1>6. waits' = [c \in Calls |-> IF waits[c] = d THEN None ELSE waits[c]]
    <2>1. \A k \in Calls : waits'[k] = IF waits[k] = d THEN None ELSE waits[k]
      BY <1>2 DEF Waiting
    <2> QED BY <2>1
  <1>7. {c \in Calls : call'[c].stage # "idle"} = {c \in Calls : call[c].stage # "idle"}
    BY DEF Waiting
  <1>8. Running(d) /\ d \in running
    OBVIOUS
  <1> QED BY <1>3, <1>4, <1>5, <1>6, <1>7, <1>8 DEF Callers!Deliver, Preview, Offered

LEMMA GiveUpMaps ==
  ASSUME NEW c \in Calls, Waiting(c), call[c].joined # None,
         \A k \in Calls : k # c => call'[k] = call[k],
         call'[c].stage = "returned", call'[c].got = FALSE, call[c].got = FALSE, loop' = loop,
         promise' = IF promise = c THEN None ELSE promise
  PROVE  Callers!GiveUp(c)
  BY DEF Callers!GiveUp, Waiting, Running

LEMMA LoseMaps ==
  ASSUME promise' = None, \A c \in Calls : loop'[c].stage = "off",
         \A c \in Calls : IF Waiting(c) THEN /\ call'[c].stage = "returned"
                                              /\ call'[c].got = FALSE /\ call[c].got = FALSE
                                         ELSE call'[c] = call[c]
  PROVE  Callers!Lose
  BY DEF Callers!Lose, Waiting, Running

LEMMA StutterMaps ==
  ASSUME promise' = promise, call' = call,
         \A c \in Calls : /\ Running(c)' <=> Running(c)
                          /\ Preview(c)' = Preview(c)
  PROVE  UNCHANGED Callers!vars
  BY DEF Callers!vars, Waiting, Running, Preview

-----------------------------------------------------------------------------
(* Every action brings no file of its own accord, and is one of those steps. *)

LEMMA OwnMaps ==
  ASSUME IInv, Brought, NEW c \in Calls, OwnDeployment(c), call[c].stage = "idle",
         promise = None, saved' \in {saved, saved \cup Brings[c]}
  PROVE  Brought' /\ Callers!Begin(c)
  <1>1. BeginAttempt(c, 0) /\ 0 \in 0..(ResetEvery - 1) /\ TypeOK
    BY ConstantsAssumption DEF OwnDeployment, IInv
  <1>2. /\ \A a \in Attempts : attempt'[a] = attempt[a] \/ attempt'[a].writes = {}
        /\ \A k \in Calls : k # c => loop'[k] = loop[k]
        /\ loop'[c].stage = "deploying" /\ loop'[c].result = Nothing
    BY <1>1, BeginBrings
  <1> DEFINE o == [IdleCall EXCEPT !.stage = "owner", !.joined = c]
  <1>3. o.stage = "owner" /\ o.joined = c /\ o.got = FALSE
    BY DEF IdleCall
  <1>4. call' = [call EXCEPT ![c] = o] /\ promise' = c
    BY DEF OwnDeployment
  <1> HIDE DEF o
  <1>5. call'[c] = o /\ \A k \in Calls : k # c => call'[k] = call[k]
    BY <1>1, <1>4 DEF TypeOK
  <1>6. Brought'
    <2>1. /\ Offered \cup Brings[c] \subseteq Offered'
          /\ saved' \subseteq saved \cup Brings[c]
      BY <1>3, <1>5 DEF Offered
    <2>2. saved \subseteq saved'
      OBVIOUS
    <2> QED BY <1>2, <1>3, <1>5, <2>1, <2>2 DEF Brought, Waiting, Nothing
  <1>7. loop[c].stage = "off" /\ call[c].got = FALSE
    BY DEF IInv, CallsRoles, TypeOK, CallType
  <1>8. Callers!Begin(c)
    BY <1>2, <1>3, <1>4, <1>5, <1>7, BeginMaps
  <1> QED BY <1>6, <1>8

LEMMA DeployMaps ==
  ASSUME IInv, Brought, NEW c \in Calls, DeployToSandbox(c)
  PROVE  Brought' /\ (Callers!Begin(c) \/ Callers!Join(c))
  <1>1. /\ call[c].stage = "idle" /\ saved' = saved \cup Brings[c]
        /\ IF promise # None THEN JoinDeployment(c) ELSE OwnDeployment(c)
    BY DEF DeployToSandbox
  <1>2. CASE promise = None
    BY <1>1, <1>2, OwnMaps
  <1>3. CASE promise # None
    <2> DEFINE w == [IdleCall EXCEPT !.stage = "waiter", !.joined = promise]
    <2>1. w.stage = "waiter" /\ w.joined = promise /\ w.got = FALSE
      BY DEF IdleCall
    <2>2. call' = [call EXCEPT ![c] = w] /\ UNCHANGED <<promise, loop, attempt>>
      BY <1>1, <1>3 DEF JoinDeployment
    <2> HIDE DEF w
    <2>3. call'[c] = w /\ \A k \in Calls : k # c => call'[k] = call[k]
      BY <2>2 DEF IInv, TypeOK
    <2>4. promise \in Calls /\ call[c].got = FALSE
      BY <1>1, <1>3 DEF IInv, TypeOK, CallsRoles, CallType
    <2>5. Brought'
      <3>1. Offered \cup Brings[c] \subseteq Offered'
        BY <2>1, <2>3 DEF Offered
      <3> QED BY <1>1, <2>1, <2>2, <2>3, <2>4, <3>1 DEF Brought, Waiting
    <2>6. Callers!Join(c)
      BY <1>1, <1>3, <2>1, <2>2, <2>3, <2>4, JoinMaps
    <2> QED BY <2>5, <2>6
  <1> QED BY <1>2, <1>3

(* A loop that resolves. *)
LEMMA ResolveMaps ==
  ASSUME IInv, Brought, NEW c \in Calls, NEW result \in ResultType, Resolve(c, result),
         Running(c), result.wrote \subseteq saved, Carries(c, result), saved' = saved,
         \A a \in Attempts : attempt'[a].writes \subseteq saved
  PROVE  Brought' /\ Callers!Deliver(c)
  <1>1. TypeOK
    BY DEF IInv
  <1>2. /\ \A k \in Calls : k # c => loop'[k] = loop[k]
        /\ loop'[c].stage = "resolved" /\ loop'[c].result = result
        /\ \A k \in Calls : IF Waiting(k) /\ call[k].joined = c
                              THEN call'[k].stage = "returned" /\ call'[k].got = TRUE
                              ELSE call'[k] = call[k]
        /\ promise' = IF call[c].stage = "owner" THEN None ELSE promise
    BY <1>1, ResolveBrings
  <1>3. promise' = IF promise = c THEN None ELSE promise
    BY <1>2 DEF IInv, PromiseIsOwned
  <1>4. Brought'
    <2>1. \A k \in Calls : \/ call'[k] = call[k]
                           \/ call[k].stage # "idle" /\ call'[k].stage = "returned"
      BY <1>2 DEF Waiting
    <2>2. \A k \in Calls : loop'[k].result.wrote \subseteq saved
      BY <1>2 DEF Brought
    <2> QED BY <2>1, <2>2, NothingBrought
  <1>5. result.wrote \subseteq Offered /\ Brings[c] \cap Theme \subseteq result.wrote
    BY DEF Brought, Carries
  <1>6. Callers!Deliver(c)
    BY <1>2, <1>3, <1>5, DeliverMaps
  <1> QED BY <1>4, <1>6

(* A loop that goes on, and whatever its attempts do meanwhile. *)
LEMMA GoesOnMaps ==
  ASSUME IInv, Brought, NEW c \in Calls, Running(c), Running(c)',
         \A k \in Calls : k # c => loop'[k] = loop[k],
         loop'[c].result.wrote \subseteq saved, saved' = saved,
         \A a \in Attempts : attempt'[a].writes \subseteq saved,
         call' = call, promise' = promise
  PROVE  Brought' /\ UNCHANGED Callers!vars
  <1>1. \A k \in Calls : loop'[k].result.wrote \subseteq saved
    BY DEF Brought
  <1>2. Brought'
    BY <1>1, NothingBrought
  <1>3. \A k \in Calls : (Running(k)' <=> Running(k)) /\ Preview(k)' = Preview(k)
    BY DEF Running, Preview
  <1> QED BY <1>2, <1>3, StutterMaps

(* Nothing but attempts. *)
LEMMA AttemptsMap ==
  ASSUME IInv, Brought, loop' = loop, call' = call, promise' = promise, saved' = saved,
         \A a \in Attempts : attempt'[a].writes \subseteq saved
  PROVE  Brought' /\ UNCHANGED Callers!vars
  <1>1. Brought'
    BY NothingBrought DEF Brought
  <1>2. \A k \in Calls : (Running(k)' <=> Running(k)) /\ Preview(k)' = Preview(k)
    BY DEF Running, Preview
  <1> QED BY <1>1, <1>2, StutterMaps

LEMMA LoopMaps ==
  ASSUME IInv, Brought, NEW c \in Calls, LoopStep(c)
  PROVE  Brought' /\ (Callers!Deliver(c) \/ UNCHANGED Callers!vars)
  <1>1. TypeOK /\ \A a \in Attempts : attempt[a].writes \subseteq saved
    BY DEF IInv, Brought
  <1>2. ASSUME NEW e \in BOOLEAN, Catch(c, e), Running(c), UNCHANGED <<saved, promise, call>>,
               \A a \in Attempts : attempt'[a] = attempt[a] \/ attempt'[a] = FreeAttempt
        PROVE  Brought' /\ UNCHANGED Callers!vars
    <2>1. /\ \A k \in Calls : k # c => loop'[k] = loop[k]
          /\ loop'[c].stage = "backoff" /\ loop'[c].result = Nothing
      BY <1>1, <1>2, CatchBrings
    <2>2. \A a \in Attempts : attempt'[a].writes \subseteq saved
      BY <1>1, <1>2 DEF FreeAttempt
    <2> QED BY <1>2, <2>1, <2>2, GoesOnMaps DEF Running, Nothing
  <1>3. CASE AttemptTimeout(c)
    <2>1. /\ loop[c].stage = "deploying" /\ Catch(c, FALSE)
          /\ UNCHANGED <<saved, promise, call>>
          /\ \A a \in Attempts : attempt'[a] = attempt[a] \/ attempt'[a] = FreeAttempt
      BY <1>3 DEF AttemptTimeout, shared
    <2> QED BY <1>2, <2>1 DEF Running
  <1>4. CASE SetupFails(c)
    <2>1. PICK e \in BOOLEAN : Catch(c, e)
      BY <1>4 DEF SetupFails
    <2>2. loop[c].stage = "setup" /\ UNCHANGED <<saved, promise, call, attempt>>
      BY <1>4 DEF SetupFails, shared
    <2> QED BY <1>2, <2>1, <2>2 DEF Running
  <1>5. CASE SetupDone(c)
    <2>1. loop[c].stage = "setup" /\ Resolve(c, loop[c].result) /\ UNCHANGED <<saved, attempt>>
      BY <1>5 DEF SetupDone
    <2>2. /\ loop[c].result \in ResultType /\ loop[c].result.wrote \subseteq saved
          /\ Carries(c, loop[c].result)
      BY <1>1, <2>1 DEF TypeOK, LoopType, Brought, IInv, FilesFollow
    <2> QED BY <1>1, <2>1, <2>2, ResolveMaps DEF Running
  <1>6. CASE Retry(c)
    <2>1. /\ loop[c].stage = "backoff" /\ BeginAttempt(c, loop[c].failures)
          /\ UNCHANGED <<saved, promise, call>> /\ loop[c].failures \in 0..(ResetEvery - 1)
      BY <1>1, <1>6 DEF Retry, shared, TypeOK, LoopType
    <2>2. /\ \A a \in Attempts : attempt'[a] = attempt[a] \/ attempt'[a].writes = {}
          /\ \A k \in Calls : k # c => loop'[k] = loop[k]
          /\ loop'[c].stage = "deploying" /\ loop'[c].result = Nothing
      BY <1>1, <2>1, BeginBrings
    <2>3. \A a \in Attempts : attempt'[a].writes \subseteq saved
      BY <1>1, <2>2
    <2> QED BY <2>1, <2>2, <2>3, GoesOnMaps DEF Running, Nothing
  <1> QED BY <1>3, <1>4, <1>5, <1>6 DEF LoopStep

(* An answer of the sandbox service that only moves one attempt on. *)
LEMMA MoveMaps ==
  ASSUME IInv, Brought, NEW a \in Attempts,
         StatusHealthy(a) \/ StatusUnhealthy(a) \/ Created(a)
  PROVE  Brought' /\ UNCHANGED Callers!vars
  <1>1. UNCHANGED <<saved, loop, call, promise>>
    BY DEF StatusHealthy, StatusUnhealthy, Created, shared
  <1>2. attempt \in [Attempts -> AttemptType]
        /\ \A b \in Attempts : attempt[b].writes \subseteq saved
    BY DEF IInv, TypeOK, Brought
  <1>3. ASSUME NEW r, attempt' = [attempt EXCEPT ![a] = r], r.writes \subseteq saved
        PROVE  \A b \in Attempts : attempt'[b].writes \subseteq saved
    BY <1>2, <1>3
  <1>4. FreeAttempt.writes \subseteq saved
    BY DEF FreeAttempt
  <1>5. CASE StatusHealthy(a)
    <2> DEFINE here == attempt[a].inst \in sandbox
               files == IF attempt[a].of \in WithFiles THEN Brings[attempt[a].of]
                                                     ELSE saved
               w == [attempt[a] EXCEPT !.reaches = here, !.writes = files, !.stage = "write"]
               r == IF Zombie(a) THEN FreeAttempt ELSE w
    <2>1. attempt' = [attempt EXCEPT ![a] = r]
      BY <1>5 DEF StatusHealthy, BeginWrite
    <2>2. ~Zombie(a) => Brings[attempt[a].of] \subseteq saved
      BY <1>5, ConstantsAssumption
         DEF StatusHealthy, IInv, AttemptsBelong, FilesFollow, Zombie, LoopsPoint
    <2> HIDE DEF here
    <2>3. ~Zombie(a) => files \subseteq saved
      BY <2>2
    <2> HIDE DEF files
    <2>4. w.writes = files
      BY <1>2 DEF AttemptType
    <2> HIDE DEF w
    <2>5. r.writes \subseteq saved
      BY <1>4, <2>3, <2>4
    <2> HIDE DEF r
    <2> QED BY <1>1, <1>3, <2>1, <2>5, AttemptsMap
  <1>6. CASE StatusUnhealthy(a)
    <2> DEFINE r == [FreeAttempt EXCEPT !.stage = "create", !.of = attempt[a].of,
                                        !.client = session]
    <2>1. attempt' = [attempt EXCEPT ![a] = r]
      BY <1>6 DEF StatusUnhealthy
    <2>2. r.writes \subseteq saved
      BY DEF FreeAttempt
    <2> HIDE DEF r
    <2> QED BY <1>1, <1>3, <2>1, <2>2, AttemptsMap
  <1>7. CASE Created(a)
    <2> DEFINE here == instance' \in sandbox'
               w == [attempt[a] EXCEPT !.client = None, !.inst = instance', !.reaches = here,
                                       !.redeployed = TRUE, !.writes = saved,
                                       !.stage = "write"]
               r == IF Zombie(a) THEN FreeAttempt ELSE w
    <2>1. attempt' = [attempt EXCEPT ![a] = r]
      BY <1>7 DEF Created, BeginWrite
    <2> HIDE DEF here
    <2>2. w.writes = saved
      BY <1>2 DEF AttemptType
    <2> HIDE DEF w
    <2>3. r.writes \subseteq saved
      BY <1>4, <2>2
    <2> HIDE DEF r
    <2> QED BY <1>1, <1>3, <2>1, <2>3, AttemptsMap
  <1> QED BY <1>5, <1>6, <1>7

LEMMA WrittenMaps ==
  ASSUME IInv, Brought, NEW a \in Attempts, Written(a)
  PROVE  Brought' /\ (\/ \E c \in Calls : Callers!Deliver(c)
                     \/ UNCHANGED Callers!vars)
  <1>0. PICK c \in Calls : c = attempt[a].of
    BY DEF Written, IInv, AttemptsBelong
  <1>1. /\ attempt[a].stage = "write" /\ attempt' = [attempt EXCEPT ![a] = FreeAttempt]
        /\ saved' = saved
    BY DEF Written
  <1>2. loop[c].current = a /\ loop[c].stage = "deploying"
    BY <1>0, <1>1, ConstantsAssumption DEF IInv, AttemptsBelong, Zombie, LoopsPoint
  <1>7. PICK result \in Results(attempt[a].writes) : AttemptSucceeds(a, result)
    BY DEF Written
  <1>3. result \in ResultType /\ result.wrote \subseteq saved /\ Carries(c, result)
    <2>1. /\ attempt[a].writes \in SUBSET Files /\ attempt[a].writes \subseteq saved
          /\ Brings[c] \subseteq attempt[a].writes
      BY <1>0, <1>1 DEF IInv, TypeOK, AttemptType, FilesFollow, Brought
    <2> QED BY <2>1, <1>7, ResultsCarry
  <1>4. \A b \in Attempts : attempt'[b].writes \subseteq saved
    BY <1>1 DEF IInv, TypeOK, Brought, FreeAttempt
  <1>5. CASE Resolve(c, result)
    <2>1. Brought' /\ Callers!Deliver(c)
      BY <1>1, <1>2, <1>3, <1>4, <1>5, ResolveMaps DEF Running
    <2> QED BY <2>1
  <1> DEFINE l == [loop[c] EXCEPT !.stage = "setup", !.current = None,
                                  !.result = result]
  <1>6. CASE loop' = [loop EXCEPT ![c] = l] /\ UNCHANGED <<call, promise>>
    <2>1. l.stage = "setup" /\ l.result = result
      BY <1>2 DEF IInv, TypeOK, LoopType
    <2> HIDE DEF l
    <2>2. loop'[c] = l /\ \A k \in Calls : k # c => loop'[k] = loop[k]
      BY <1>2, <1>6 DEF IInv, TypeOK
    <2>3. Brought' /\ UNCHANGED Callers!vars
      BY <1>1, <1>2, <1>3, <1>4, <1>6, <2>1, <2>2, GoesOnMaps DEF Running, Nothing
    <2> QED BY <2>3
  <1> QED BY <1>0, <1>7, <1>5, <1>6 DEF AttemptSucceeds

LEMMA ServiceFailsMaps ==
  ASSUME IInv, Brought, NEW a \in Attempts, ServiceFails(a)
  PROVE  Brought' /\ UNCHANGED Callers!vars
  <1> DEFINE c == attempt[a].of
  <1>1. PICK e \in BOOLEAN : AttemptFails(a, e)
    BY DEF ServiceFails
  <1>2. attempt' = [attempt EXCEPT ![a] = FreeAttempt] /\ UNCHANGED <<saved, promise, call>>
    BY <1>1 DEF AttemptFails, shared
  <1>3. \A b \in Attempts : attempt'[b].writes \subseteq saved
    BY <1>2 DEF IInv, TypeOK, Brought, FreeAttempt
  <1>4. CASE Zombie(a)
    BY <1>1, <1>2, <1>3, <1>4, AttemptsMap DEF AttemptFails
  <1>5. CASE ~Zombie(a)
    <2>1. c \in Calls /\ loop[c].stage = "deploying"
      BY <1>5, ConstantsAssumption
         DEF ServiceFails, IInv, AttemptsBelong, Zombie, LoopsPoint
    <2>2. Catch(c, e) /\ TypeOK
      BY <1>1, <1>5 DEF AttemptFails, IInv
    <2> HIDE DEF c
    <2>3. /\ \A k \in Calls : k # c => loop'[k] = loop[k]
          /\ loop'[c].stage = "backoff" /\ loop'[c].result = Nothing
      BY <2>1, <2>2, CatchBrings
    <2> QED BY <1>2, <1>3, <2>1, <2>3, GoesOnMaps DEF Running, Nothing
  <1> QED BY <1>4, <1>5

LEMMA MasterTimeoutMaps ==
  ASSUME IInv, Brought, NEW c \in Calls, MasterTimeout(c)
  PROVE  Brought' /\ Callers!GiveUp(c)
  <1> DEFINE gone == [IdleCall EXCEPT !.stage = "returned"]
  <1>1. gone.stage = "returned" /\ gone.got = FALSE
    BY DEF IdleCall
  <1>2. /\ Waiting(c) /\ call' = [call EXCEPT ![c] = gone]
        /\ promise' = IF call[c].stage = "owner" THEN None ELSE promise
        /\ UNCHANGED <<saved, loop, attempt>>
    BY DEF MasterTimeout
  <1> HIDE DEF gone
  <1>3. call'[c] = gone /\ \A k \in Calls : k # c => call'[k] = call[k]
    BY <1>2 DEF IInv, TypeOK
  <1>4. promise' = IF promise = c THEN None ELSE promise
    BY <1>2 DEF IInv, PromiseIsOwned
  <1>5. call[c].joined # None /\ call[c].got = FALSE
    BY <1>2, ConstantsAssumption DEF Brought, IInv, CallsRoles, TypeOK, CallType, Waiting
  <1>6. Brought'
    BY <1>1, <1>2, <1>3, NothingBrought DEF Brought, Waiting
  <1> QED BY <1>1, <1>2, <1>3, <1>4, <1>5, <1>6, GiveUpMaps

LEMMA RestartMaps ==
  ASSUME IInv, Brought, Restart
  PROVE  Brought' /\ Callers!Lose
  <1> DEFINE gone == [IdleCall EXCEPT !.stage = "returned"]
  <1>1. gone.stage = "returned" /\ gone.got = FALSE
    BY DEF IdleCall
  <1>2. /\ promise' = None /\ saved' = saved
        /\ call' = [c \in Calls |-> IF Waiting(c) THEN gone ELSE call[c]]
        /\ loop' = [c \in Calls |-> OffLoop]
        /\ attempt' = [a \in Attempts |-> FreeAttempt]
    BY DEF Restart
  <1> HIDE DEF gone
  <1>3. \A c \in Calls : call'[c] = IF Waiting(c) THEN gone ELSE call[c]
    BY <1>2
  <1>4. \A c \in Calls : Waiting(c) => call[c].got = FALSE /\ call[c].stage # "idle"
    BY DEF IInv, TypeOK, CallType, CallsRoles, Waiting
  <1>5. /\ \A c \in Calls : loop'[c].stage = "off" /\ loop'[c].result = Nothing
        /\ \A a \in Attempts : attempt'[a].writes = {}
    BY <1>2 DEF OffLoop, FreeAttempt
  <1>6. Brought'
    BY <1>1, <1>2, <1>3, <1>4, <1>5, NothingBrought DEF Nothing
  <1>7. Callers!Lose
    BY <1>1, <1>2, <1>3, <1>4, <1>5, LoseMaps
  <1> QED BY <1>6, <1>7

LEMMA HealthAnswerMaps ==
  ASSUME IInv, Brought, NEW t \in ticks, HealthAnswer(t)
  PROVE  Brought' /\ (\/ \E c \in Calls : Callers!Begin(c)
                     \/ UNCHANGED Callers!vars)
  <1>1. saved' = saved
    BY DEF HealthAnswer
  <1>2. CASE UNCHANGED <<session, sandbox, instance, promise, health, call, loop, attempt>>
    BY <1>1, <1>2, AttemptsMap DEF Brought
  <1>3. CASE /\ promise = None /\ health' = None
             /\ \E c \in Calls \ (WithFiles \cup Forced) :
                  call[c].stage = "idle" /\ OwnDeployment(c)
    <2>1. PICK c \in Calls : call[c].stage = "idle" /\ OwnDeployment(c)
      BY <1>3
    <2> QED BY <1>1, <1>3, <2>1, OwnMaps
  <1> QED BY <1>2, <1>3 DEF HealthAnswer

LEMMA StepMaps ==
  ASSUME IInv, Brought, [Next]_vars
  PROVE  Brought' /\ [Callers!Next]_(Callers!vars)
  <1>1. ASSUME NEW c \in Calls, DeployToSandbox(c)
        PROVE  Brought' /\ [Callers!Next]_(Callers!vars)
    BY <1>1, DeployMaps DEF Callers!Next
  <1>2. ASSUME NEW c \in Calls, MasterTimeout(c)
        PROVE  Brought' /\ [Callers!Next]_(Callers!vars)
    BY <1>2, MasterTimeoutMaps DEF Callers!Next
  <1>3. ASSUME NEW c \in Calls, LoopStep(c)
        PROVE  Brought' /\ [Callers!Next]_(Callers!vars)
    BY <1>3, LoopMaps DEF Callers!Next
  <1>4. ASSUME NEW a \in Attempts, AttemptStep(a)
        PROVE  Brought' /\ [Callers!Next]_(Callers!vars)
    <2>1. CASE Written(a)
      BY <2>1, WrittenMaps DEF Callers!Next
    <2> QED BY <1>4, <2>1, MoveMaps, ServiceFailsMaps DEF AttemptStep
  <1>5. ASSUME NEW t \in ticks, HealthAnswer(t)
        PROVE  Brought' /\ [Callers!Next]_(Callers!vars)
    BY <1>5, HealthAnswerMaps DEF Callers!Next
  <1>6. CASE HealthTick \/ ServiceRecovers \/ UNCHANGED vars
    <2>1. UNCHANGED <<saved, promise, call, loop, attempt>>
      BY <1>6 DEF HealthTick, ServiceRecovers, vars, shared
    <2> QED BY <2>1, AttemptsMap DEF Brought
  <1>7. CASE Restart
    BY <1>7, RestartMaps DEF Callers!Next
  <1> QED BY <1>1, <1>2, <1>3, <1>4, <1>5, <1>6, <1>7 DEF Next

(* deployToSandbox implements SharedDeployment: whatever loops, attempts,     *)
(* health checks and restarts do, a caller returns from the one deployment it *)
(* joined, together with all who joined it.                                   *)
THEOREM ImplementsSharedDeployment == Spec => SharesDeployments
  <1>1. Init => Brought /\ Callers!Init
    BY DEF Init, Brought, Callers!Init, Waiting, Running, IdleCall, OffLoop, Nothing,
           FreeAttempt
  <1>2. IInv /\ Brought /\ [Next]_vars => Brought' /\ [Callers!Next]_(Callers!vars)
    BY StepMaps
  <1> QED
    BY <1>1, <1>2, Inductive, PTL DEF Spec, SharesDeployments, Callers!Spec
=============================================================================
