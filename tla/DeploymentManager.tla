------------------------- MODULE DeploymentManager -------------------------
(***************************************************************************)
(* The sandbox deployments of one agent                                    *)
(* (worker/agents/services/implementations/DeploymentManager.ts).          *)
(*                                                                         *)
(* deployToSandbox keeps one shared promise: the first caller, the owner,  *)
(* starts a retry loop and every later caller waits on that loop.  Neither *)
(* the master timeout of a caller nor the timeout of one attempt cancels   *)
(* what it stops waiting for: a loop whose owner has left goes on          *)
(* retrying and an attempt its loop has given up goes on calling the       *)
(* sandbox service, and both still write the agent's state when they get   *)
(* an answer.                                                              *)
(*                                                                         *)
(* One action is the code between two awaits: the isolate runs it, and the *)
(* promise continuations it triggers, before the next event.               *)
(***************************************************************************)
EXTENDS Naturals, FiniteSets

CONSTANTS Calls,       \* the calls of deployToSandbox; a loop is named by its owner
          Files,       \* the paths that calls bring; contents are not told apart
          Theme,       \* those under storefront-app/theme/, which must be written
          Brings,      \* per call the files it asks to deploy, those apart that
                       \* getFilesToDeploy filters out (the backend is read-only)
          Forced,      \* the calls that ask for a redeploy
          Attempts,    \* slots for the deploy() calls that have not settled
          Sessions,    \* session ids; one that nothing mentions any more is fresh
          Instances,   \* run ids the sandbox service hands out, likewise
          ResetEvery,  \* consecutive failures after which a loop takes a new session (3)
          MaxTicks,    \* bound on the health check requests under way at once
          None

ASSUME ConstantsAssumption ==
  /\ Brings \in [Calls -> SUBSET Files] /\ Theme \subseteq Files
  /\ Forced \subseteq Calls
  /\ Sessions # {}
  /\ MaxTicks \in Nat /\ ResetEvery \in Nat \ {0}
  /\ None \notin Calls \cup Attempts \cup Sessions \cup Instances

VARIABLES
  up,         \* the sandbox service is past its outage: it answers, and in time
  session,    \* state.sessionId
  sandbox,    \* the instances that the sandbox of this session holds
  instance,   \* state.sandboxInstanceId
  saved,      \* the files that calls have put in the generated files map
  promise,    \* currentDeploymentPromise: the owner of the shared loop
  health,     \* healthCheckInterval: the instance its closure watches
  ticks,      \* status requests of health checks that have not been answered
  call,       \* per call of deployToSandbox: where its caller is
  loop,       \* per owner: executeDeploymentWithRetry
  attempt,    \* per slot: a deploy() call
  stray       \* history: an attempt outside the shared deployment has come to something

shared == <<promise, health, ticks>>
vars   == <<up, session, sandbox, instance, saved, shared, call, loop, attempt, stray>>

WithFiles     == {c \in Calls : Brings[c] # {}}

CallStages    == {"idle", "owner", "waiter", "returned"}
LoopStages    == {"off", "deploying", "setup", "backoff", "resolved"}
AttemptStages == {"free", "status", "create", "write"}

IdleCall    == [stage |-> "idle", joined |-> None, got |-> FALSE]
Nothing     == [wrote |-> {}, failed |-> {}]
OffLoop     == [stage |-> "off", failures |-> 0, current |-> None, result |-> Nothing]
FreeAttempt == [stage |-> "free", of |-> None, client |-> None, inst |-> None,
                reaches |-> FALSE, redeployed |-> FALSE, writes |-> {}]

CallType    == [stage : CallStages, joined : Calls \cup {None}, got : BOOLEAN]
ResultType  == [wrote : SUBSET Files, failed : SUBSET Files]
LoopType    == [stage : LoopStages, failures : 0..(ResetEvery - 1),
                current : Attempts \cup {None}, result : ResultType]
AttemptType == [stage : AttemptStages, of : Calls \cup {None},
                client : Sessions \cup {None}, inst : Instances \cup {None},
                reaches : BOOLEAN, redeployed : BOOLEAN, writes : SUBSET Files]

TypeOK ==
  /\ up \in BOOLEAN /\ stray \in BOOLEAN
  /\ session \in Sessions
  /\ sandbox \in SUBSET Instances
  /\ instance \in Instances \cup {None}
  /\ saved \in SUBSET Files
  /\ promise \in Calls \cup {None}
  /\ health \in Instances \cup {None}
  /\ ticks \in SUBSET [inst : Instances, reaches : BOOLEAN]
  /\ call \in [Calls -> CallType]
  /\ loop \in [Calls -> LoopType]
  /\ attempt \in [Attempts -> AttemptType]

Running(c) == loop[c].stage \in {"deploying", "setup", "backoff"}
Waiting(c) == call[c].stage \in {"owner", "waiter"}
Busy       == {a \in Attempts : attempt[a].stage # "free"}
Zombie(a)  == loop[attempt[a].of].current # a
Outside(a) == Zombie(a) \/ promise # attempt[a].of

-----------------------------------------------------------------------------
(* Fresh identifiers: generateId and the service never repeat one, so any   *)
(* value that nothing refers to stands for a new one.                       *)

LiveInstances ==
  ({instance, health} \cup {t.inst : t \in ticks} \cup {attempt[a].inst : a \in Busy})
    \ {None}

FreshInstances == Instances \ LiveInstances
FreshSessions  == Sessions \ ({session} \cup {attempt[a].client : a \in Busy})
FreeSlots      == Attempts \ Busy

(* resetSessionId: a new session, whose sandbox holds no instance of ours.  *)
ResetSession ==
  /\ session' \in FreshSessions
  /\ sandbox' = {}
  /\ instance' = None

-----------------------------------------------------------------------------
Init ==
  /\ up \in BOOLEAN /\ stray = FALSE
  /\ session \in Sessions /\ sandbox = {}
  /\ instance = None
  /\ saved = {}
  /\ promise = None /\ health = None /\ ticks = {}
  /\ call = [c \in Calls |-> IdleCall]
  /\ loop = [c \in Calls |-> OffLoop]
  /\ attempt = [a \in Attempts |-> FreeAttempt]

(* One pass of the while loop up to its first await: deploy() runs as far as *)
(* the status request of the known instance or, without one, the request to  *)
(* create an instance in the sandbox of the current session.                 *)
BeginAttempt(c, failures) ==
  /\ IF c \in Forced THEN ResetSession ELSE UNCHANGED <<session, sandbox, instance>>
  /\ \E a \in FreeSlots :
       /\ attempt' = [attempt EXCEPT ![a] =
            IF instance' = None
              THEN [FreeAttempt EXCEPT !.stage = "create", !.of = c, !.client = session']
              ELSE [FreeAttempt EXCEPT !.stage = "status", !.of = c, !.inst = instance',
                                       !.reaches = instance' \in sandbox']]
       /\ loop' = [loop EXCEPT ![c] = [OffLoop EXCEPT !.stage    = "deploying",
                                                      !.failures = failures,
                                                      !.current  = a]]

(* deployToSandbox when no deployment is shared: the caller becomes the owner. *)
OwnDeployment(c) ==
  /\ BeginAttempt(c, 0)
  /\ call' = [call EXCEPT ![c] = [IdleCall EXCEPT !.stage = "owner", !.joined = c]]
  /\ promise' = c

(* deployToSandbox when one is: the caller only waits, its files are not used. *)
JoinDeployment(c) ==
  /\ call' = [call EXCEPT ![c] = [IdleCall EXCEPT !.stage = "waiter", !.joined = promise]]
  /\ UNCHANGED <<session, sandbox, instance, promise, loop, attempt>>

(* Mutant of DeployToSandbox: the files are not saved before they are deployed. *)
DeployUnsaved(c) ==
  /\ call[c].stage = "idle"
  /\ IF promise # None THEN JoinDeployment(c) ELSE OwnDeployment(c)
  /\ UNCHANGED <<up, saved, health, ticks, stray>>

(* Callers save their files in the generated files map before they deploy them. *)
DeployToSandbox(c) ==
  /\ call[c].stage = "idle"
  /\ saved' = saved \cup Brings[c]
  /\ IF promise # None THEN JoinDeployment(c) ELSE OwnDeployment(c)
  /\ UNCHANGED <<up, health, ticks, stray>>

-----------------------------------------------------------------------------
(* Mutant of Catch: the failures are counted without ever starting over. *)
CatchCountsOn(c, sessionError) ==
  /\ instance' = None
  /\ UNCHANGED <<session, sandbox>>
  /\ loop' = [loop EXCEPT ![c] = [OffLoop EXCEPT !.stage    = "backoff",
                                                 !.failures = loop[c].failures + 1]]

(* The catch block of the retry loop: a session-level error and every        *)
(* ResetEvery-th failure move to a new session, and every failure forgets    *)
(* the instance, whoever created it.                                         *)
Catch(c, sessionError) ==
  LET failures == (loop[c].failures + 1) % ResetEvery
  IN /\ IF sessionError \/ failures = 0
          THEN ResetSession
          ELSE instance' = None /\ UNCHANGED <<session, sandbox>>
     /\ loop' = [loop EXCEPT ![c] = [OffLoop EXCEPT !.stage    = "backoff",
                                                    !.failures = failures]]

(* Mutant of Resolve: whoever waits returns, whichever loop it has joined.   *)
ResolveAll(c, result) ==
  /\ loop' = [loop EXCEPT ![c] = [OffLoop EXCEPT !.stage = "resolved", !.result = result]]
  /\ call' = [k \in Calls |->
               IF Waiting(k) THEN [stage |-> "returned", joined |-> None, got |-> TRUE]
                             ELSE call[k]]
  /\ promise' = None

(* The loop's promise resolves: the owner, if it still waits, clears the     *)
(* shared promise, and all who wait on this loop return with the preview.    *)
Resolve(c, result) ==
  /\ loop' = [loop EXCEPT ![c] = [OffLoop EXCEPT !.stage = "resolved", !.result = result]]
  /\ call' = [k \in Calls |->
               IF Waiting(k) /\ call[k].joined = c
                 THEN [stage |-> "returned", joined |-> None, got |-> TRUE]
                 ELSE call[k]]
  /\ promise' = IF call[c].stage = "owner" THEN None ELSE promise

(* Mutants of AttemptSucceeds: the health check is restarted only for a new  *)
(* instance; or only when none runs.                                         *)
SucceedsIfNew(a, result) ==
  /\ health' = IF attempt[a].redeployed THEN attempt[a].inst ELSE health
  /\ Resolve(attempt[a].of, result)

SucceedsIfUnwatched(a, result) ==
  /\ health' = IF health = None THEN attempt[a].inst ELSE health
  /\ Resolve(attempt[a].of, result)

(* After a successful attempt: the health check is (re)started for a new     *)
(* instance, or when none runs, and the recorded commands, if there are any, *)
(* are replayed before the loop returns.                                     *)
AttemptSucceeds(a, result) ==
  LET c == attempt[a].of
      restart == attempt[a].redeployed \/ health = None
  IN /\ health' = IF restart THEN attempt[a].inst ELSE health
     /\ \/ Resolve(c, result)
        \/ /\ restart
           /\ loop' = [loop EXCEPT ![c] = [@ EXCEPT !.stage   = "setup",
                                                    !.current = None,
                                                    !.result  = result]]
           /\ UNCHANGED <<call, promise>>

(* deploy() throws.  Only the attempt its loop still waits for is noticed. *)
AttemptFails(a, sessionError) ==
  /\ attempt' = [attempt EXCEPT ![a] = FreeAttempt]
  /\ IF Zombie(a) THEN UNCHANGED <<session, sandbox, instance, loop>>
                  ELSE Catch(attempt[a].of, sessionError)
  /\ UNCHANGED <<up, saved, shared, call, stray>>

-----------------------------------------------------------------------------
(* The steps of deploy(), at the answers of the sandbox service.             *)

(* writeFiles is requested.  What an abandoned attempt writes changes nothing *)
(* the agent knows of, so its slot is taken to be free.                       *)
BeginWrite(a, with) ==
  attempt' = [attempt EXCEPT ![a] = IF Zombie(a) THEN FreeAttempt
                                                 ELSE [with EXCEPT !.stage = "write"]]

(* ensureInstance reuses a healthy instance, which gets the owner's files, or *)
(* all files if the owner brought none; getClient() is asked again.           *)
StatusHealthy(a) ==
  /\ attempt[a].stage = "status"
  /\ attempt[a].reaches
  /\ BeginWrite(a, [attempt[a] EXCEPT
       !.reaches = attempt[a].inst \in sandbox,
       !.writes  = IF attempt[a].of \in WithFiles THEN Brings[attempt[a].of] ELSE saved])
  /\ UNCHANGED <<up, session, sandbox, instance, saved, shared, call, loop, stray>>

(* Otherwise it goes on to create one, in the session of that moment. *)
StatusUnhealthy(a) ==
  /\ attempt[a].stage = "status"
  /\ up => ~attempt[a].reaches
  /\ attempt' = [attempt EXCEPT ![a] = [FreeAttempt EXCEPT !.stage = "create", !.of = attempt[a].of,
                                                           !.client = session]]
  /\ UNCHANGED <<up, session, sandbox, instance, saved, shared, call, loop, stray>>

(* The new instance is recorded, also by an attempt nobody waits for, and all *)
(* files are written to it through the client of the session of that moment.  *)
Created(a) ==
  /\ attempt[a].stage = "create"
  /\ instance' \in FreshInstances
  /\ sandbox' = IF attempt[a].client = session THEN (sandbox \cap LiveInstances) \cup {instance'}
                                               ELSE sandbox
  /\ BeginWrite(a, [attempt[a] EXCEPT
       !.client = None, !.inst = instance', !.reaches = instance' \in sandbox',
       !.redeployed = TRUE, !.writes = saved])
  /\ stray' = (stray \/ Outside(a))
  /\ UNCHANGED <<up, session, saved, shared, call, loop>>

(* What a successful response says of the files: a theme file that failed is *)
(* an error, any other is only warned of, even if none was written.          *)
Results(files) ==
  {[wrote |-> files \ failed, failed |-> failed] : failed \in SUBSET (files \ Theme)}

Written(a) ==
  /\ attempt[a].stage = "write"
  /\ attempt[a].reaches
  /\ attempt' = [attempt EXCEPT ![a] = FreeAttempt]
  /\ \E result \in Results(attempt[a].writes) : AttemptSucceeds(a, result)
  /\ stray' = (stray \/ Outside(a))
  /\ UNCHANGED <<up, session, sandbox, instance, saved, ticks>>

(* createInstance or writeFiles failed, also for a theme file only, or there  *)
(* was nothing to write: always when the client's sandbox does not hold the   *)
(* instance, and during an outage at any time.                                *)
ServiceFails(a) ==
  /\ attempt[a].stage \in {"create", "write"}
  /\ up => attempt[a].stage = "write" /\ ~attempt[a].reaches
  /\ \E sessionError \in BOOLEAN :
       /\ up => ~sessionError
       /\ AttemptFails(a, sessionError)

(* The per-attempt timeout: the loop goes on, deploy() does too. *)
AttemptTimeout(c) ==
  /\ ~up
  /\ loop[c].stage = "deploying"
  /\ attempt' = [a \in Attempts |-> IF a = loop[c].current /\ attempt[a].stage = "write"
                                       THEN FreeAttempt ELSE attempt[a]]
  /\ Catch(c, FALSE)
  /\ UNCHANGED <<up, saved, shared, call, stray>>

SetupDone(c) ==
  /\ loop[c].stage = "setup"
  /\ Resolve(c, loop[c].result)
  /\ UNCHANGED <<up, session, sandbox, instance, saved, health, ticks, attempt, stray>>

(* executeSetupCommands threw or ran into its own timeout: a failed attempt. *)
SetupFails(c) ==
  /\ ~up
  /\ loop[c].stage = "setup"
  /\ \E sessionError \in BOOLEAN : Catch(c, sessionError)
  /\ UNCHANGED <<up, saved, shared, call, attempt, stray>>

(* Mutant of Retry: a loop whose owner has left stays in its backoff. *)
RetryWhileAwaited(c) ==
  /\ loop[c].stage = "backoff"
  /\ Waiting(c)
  /\ BeginAttempt(c, loop[c].failures)
  /\ UNCHANGED <<up, saved, shared, call, stray>>

(* The backoff timer fires: "retry indefinitely". *)
Retry(c) ==
  /\ loop[c].stage = "backoff"
  /\ BeginAttempt(c, loop[c].failures)
  /\ UNCHANGED <<up, saved, shared, call, stray>>

(* Mutants of MasterTimeout: every caller clears the shared promise, as if the *)
(* finally block covered the waiters; or only the waiters have a timeout.      *)
TimeoutClearsPromise(c) ==
  /\ Waiting(c)
  /\ call' = [call EXCEPT ![c] = [IdleCall EXCEPT !.stage = "returned"]]
  /\ promise' = None
  /\ UNCHANGED <<up, session, sandbox, instance, saved, health, ticks, loop, attempt, stray>>

TimeoutOfWaiters(c) ==
  /\ call[c].stage = "waiter"
  /\ call' = [call EXCEPT ![c] = [IdleCall EXCEPT !.stage = "returned"]]
  /\ UNCHANGED <<up, session, sandbox, instance, saved, shared, loop, attempt, stray>>

(* A caller stops waiting; the owner also clears the shared promise.  The    *)
(* loop is not told.                                                         *)
MasterTimeout(c) ==
  /\ Waiting(c)
  /\ call' = [call EXCEPT ![c] = [IdleCall EXCEPT !.stage = "returned"]]
  /\ promise' = IF call[c].stage = "owner" THEN None ELSE promise
  /\ UNCHANGED <<up, session, sandbox, instance, saved, health, ticks, loop, attempt, stray>>

-----------------------------------------------------------------------------
(* Health checks.                                                            *)

HealthTick ==
  /\ health # None
  /\ Cardinality(ticks) < MaxTicks
  /\ ticks' = ticks \cup {[inst |-> health, reaches |-> health \in sandbox]}
  /\ UNCHANGED <<up, session, sandbox, instance, saved, promise, health, call, loop,
                 attempt, stray>>

(* A request in ticks may stand for several alike, so answering one may leave it. *)
Answered(t) == ticks' \in {ticks, ticks \ {t}}

(* A bad answer, unless it comes during generation (state.shouldBeGenerating, *)
(* which the agent owns) or a deployment, stops the interval that runs now,   *)
(* whichever instance it watches, and redeploys everything.                   *)
HealthAnswer(t) ==
  /\ Answered(t)
  /\ \E healthy, generating \in BOOLEAN :
       /\ healthy => t.reaches
       /\ up /\ t.reaches => healthy
       /\ IF healthy \/ generating \/ promise # None
            THEN UNCHANGED <<session, sandbox, instance, promise, health, call, loop, attempt>>
            ELSE /\ health' = None
                 /\ \E c \in Calls \ (WithFiles \cup Forced) :
                      call[c].stage = "idle" /\ OwnDeployment(c)
  /\ UNCHANGED <<up, saved, stray>>

-----------------------------------------------------------------------------
(* The surroundings.                                                         *)

(* An outage of the sandbox service ends. *)
ServiceRecovers ==
  /\ up' = TRUE
  /\ UNCHANGED <<session, sandbox, instance, saved, shared, call, loop, attempt, stray>>

(* The Durable Object is evicted and starts again: only its state survives,  *)
(* the constructor of the manager keeps a session id that is there.          *)
Restart ==
  /\ promise' = None /\ health' = None /\ ticks' = {} /\ stray' = FALSE
  /\ call' = [c \in Calls |-> IF Waiting(c) THEN [IdleCall EXCEPT !.stage = "returned"]
                                            ELSE call[c]]
  /\ loop' = [c \in Calls |-> OffLoop]
  /\ attempt' = [a \in Attempts |-> FreeAttempt]
  /\ UNCHANGED <<up, session, sandbox, instance, saved>>

AttemptStep(a) == \/ StatusHealthy(a) \/ StatusUnhealthy(a) \/ Created(a)
                  \/ Written(a) \/ ServiceFails(a)

LoopStep(c)    == AttemptTimeout(c) \/ SetupDone(c) \/ SetupFails(c) \/ Retry(c)

Next ==
  \/ \E c \in Calls : DeployToSandbox(c) \/ MasterTimeout(c) \/ LoopStep(c)
  \/ \E a \in Attempts : AttemptStep(a)
  \/ HealthTick
  \/ \E t \in ticks : HealthAnswer(t)
  \/ ServiceRecovers \/ Restart

(* Timers fire, and a service that is up answers.  Callers, health checks    *)
(* and failures come as they please.                                         *)
Fairness ==
  /\ \A c \in Calls : WF_vars(MasterTimeout(c))
  /\ \A c \in Calls : WF_vars(LoopStep(c))
  /\ \A a \in Attempts : WF_vars(AttemptStep(a))

Spec     == Init /\ [][Next]_vars
FairSpec == Spec /\ Fairness
-----------------------------------------------------------------------------
(* Properties.                                                               *)

(* deployToSandbox, line 346: the shared promise is the loop of the one       *)
(* caller that started it and still waits, and that loop has not finished;    *)
(* so there is never a second owner, whatever timers and restarts do.         *)
PromiseIsOwned ==
  /\ \A c \in Calls : call[c].stage = "owner" <=> promise = c
  /\ promise # None => Running(promise)

(* startHealthCheckInterval: from the first deployment that succeeds after    *)
(* the object has started on, and as long as it is not evicted, an interval   *)
(* watches an instance or a loop is at work that will start one.  A health    *)
(* check that stops the interval, a loop that outlives its owner and a setup  *)
(* command that fails after the interval was started all fit in here.  An     *)
(* eviction turns every loop off: what watches the instance the state still   *)
(* names is then nothing until the next deployment, and this says nothing.    *)
Monitored ==
  (\E c \in Calls : loop[c].stage = "resolved")
    => health # None \/ \E c \in Calls : Running(c)

(* Once a deployment has succeeded in this life of the object and no loop is  *)
(* at work, the interval watches the instance the agent deploys to, unless an *)
(* attempt that was given up, or one of a loop whose owner has left, recorded *)
(* an instance behind the back of the shared deployment.                      *)
WatchesCurrent ==
  /\ \E c \in Calls : loop[c].stage = "resolved"
  /\ \A c \in Calls : ~Running(c)
  /\ ~stray
  => health = instance

(* getFilesToDeploy: an owner that gets a preview back had its own files      *)
(* written by the attempt that produced it, on a reused instance or on a new  *)
(* one, and however many attempts and loops there were before: its theme      *)
(* files without exception, the others unless the service reported them as    *)
(* failed in the response to that write.                                      *)
Carries(c, result) ==
  /\ Brings[c] \subseteq result.wrote \cup result.failed
  /\ Brings[c] \cap Theme \subseteq result.wrote

OwnerFilesWritten ==
  \A c \in Calls :
    call[c].got /\ loop[c].stage # "off" => Carries(c, loop[c].result)

(* deployToSandbox implements SharedDeployment: with loops left behind by     *)
(* their owners, attempts that overlap and redeployments of health checks,    *)
(* every caller still returns from the one deployment it joined, together     *)
(* with all who joined it, and from no other.                                 *)
Callers == INSTANCE SharedDeployment WITH
  made    <- {c \in Calls : call[c].stage # "idle"},
  waits   <- [c \in Calls |-> IF Waiting(c) THEN call[c].joined ELSE None],
  current <- promise,
  running <- {c \in Calls : Running(c)},
  preview <- [c \in Calls |-> IF loop[c].stage = "resolved" THEN loop[c].result.wrote ELSE {}],
  got     <- {c \in Calls : call[c].got}

SharesDeployments == Callers!Spec

(* Lines 323 and 613: a loop retries "until success or master timeout".       *)
RetryEndsAtMasterTimeout ==
  [][\A c \in Calls :
       loop[c].stage = "backoff" /\ loop'[c].stage = "deploying" => Waiting(c)]_vars

(* Every loop, also one whose owner has left, comes to an end once the        *)
(* sandbox service is back for good.                                          *)
LoopsRecover ==
  <>up => \A c \in Calls : []<>~Running(c)

(* A caller is never left waiting: it returns or is lost in a restart.        *)
CallsReturn == \A c \in Calls : Waiting(c) ~> ~Waiting(c)

=============================================================================
