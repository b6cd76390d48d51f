-------------------------- MODULE PhasicGeneration --------------------------
(***************************************************************************)
(* Code generation of one phasic agent: generateAllFiles and buildWrapper  *)
(* (worker/agents/core/behaviors/base.ts), the state machine of phases     *)
(* (behaviors/phasic.ts), and the requests that steer it (core/websocket.ts *)
(* and handleUserInput in core/codingAgent.ts).                            *)
(*                                                                         *)
(* One action is the code between two awaits.  A build waits in one stage, *)
(* named for what it waits for.  What setState writes survives a restart,  *)
(* the promise of a build and all that its calls hold does not.            *)
(***************************************************************************)
EXTENDS Integers, FiniteSets

CONSTANTS Requests,     \* what queue_request may be called with, each once
          Turns,        \* conversation turns: calls of handleUserInput
          Concepts,     \* names the model gives to phases, repeated as it likes
          MaxPhases,    \* MAX_PHASES (10): where phasesCounter starts
          Recharge,     \* what queueUserRequest recharges phasesCounter to (3)
          MaxPlans,     \* bound on the phases generated; PhasesBounded shows its slack
          Disturbances, \* which of "llm", "template", "preview", "stop", "restart" happen
          WebClient     \* a web chat is connected: it answers state updates

ASSUME GenerationAssumption ==
  /\ MaxPhases \in Nat \ {0} /\ Recharge \in Nat \ {0, 1}
  /\ MaxPlans \in Nat
  /\ Concepts # {}
  /\ IsFiniteSet(Requests)
  /\ WebClient \in BOOLEAN

VARIABLES
  ready,               \* initialize has stored the blueprint
  mvpGenerated, reviewingInitiated,
  phasesCounter,
  generated,           \* the length of generatedPhases
  open,                \* its incomplete phases, by position
  pendingUserInputs,
  shouldBeGenerating,
  template,            \* templateDetailsCache is filled
  setup,               \* initializeAsync is under way
  build,               \* generationPromise and the state machine behind it
  turn,                \* per conversation turn: where handleUserInput is
  echo,                \* a web chat's generate_all is on its way here
  asked, implemented,  \* history: the requests queued, and those in phases completed
  stopped              \* history: the user has asked to stop, and for nothing since

progress == <<mvpGenerated, reviewingInitiated, phasesCounter, generated, open,
              pendingUserInputs, implemented>>
intent   == <<shouldBeGenerating, echo, stopped>>
around   == <<ready, template, setup, turn, asked>>
vars     == <<progress, intent, around, build>>

Resting     == {"idle", "wedged"}
Inferring   == {"drafting", "writing"}
BuildStages == Resting \cup Inferring \cup
  {"template", "planning", "preparing", "deploying", "finalizing", "reviewing", "completing"}

(* phase: the position of phaseConcept; context: the suggestions of userContext; *)
(* final: within executeFinalizing; clears: the starter clears the flag at the   *)
(* end; aborted: the signal of the inference under way; cut: history, a failure,  *)
(* a stop or a restart has cut the build short.                                  *)
IdleBuild == [stage |-> "idle", phase |-> 0, context |-> {}, final |-> FALSE,
              clears |-> FALSE, aborted |-> FALSE, cut |-> FALSE]

Phase == [name : Concepts, last : BOOLEAN, from : SUBSET Requests]

TurnStages == {"idle", "thinking", "debugging", "wrapping", "done"}

TypeOK ==
  /\ {ready, mvpGenerated, reviewingInitiated, shouldBeGenerating, template, setup, echo,
      stopped} \subseteq BOOLEAN
  /\ phasesCounter \in (-1)..(IF MaxPhases > Recharge THEN MaxPhases ELSE Recharge)
  /\ generated \in Nat
  /\ DOMAIN open \subseteq 1..generated /\ \A i \in DOMAIN open : open[i] \in Phase
  /\ pendingUserInputs \subseteq asked /\ implemented \subseteq asked /\ asked \subseteq Requests
  /\ turn \in [Turns -> TurnStages]
  /\ build \in [stage : BuildStages, phase : 0..generated, context : SUBSET Requests,
                final : BOOLEAN, clears : BOOLEAN, aborted : BOOLEAN, cut : BOOLEAN]

isCodeGenerating == build.stage # "idle"
Talking(t)       == turn[t] \in {"thinking", "debugging", "wrapping"}

-----------------------------------------------------------------------------
Init ==
  /\ ready = FALSE /\ mvpGenerated = FALSE /\ reviewingInitiated = FALSE
  /\ phasesCounter = MaxPhases
  /\ generated = 0 /\ open = << >>
  /\ pendingUserInputs = {} /\ shouldBeGenerating = FALSE
  /\ template = FALSE /\ setup = FALSE
  /\ build = IdleBuild
  /\ turn = [t \in Turns |-> "idle"]
  /\ echo = FALSE
  /\ asked = {} /\ implemented = {} /\ stopped = FALSE

(* setState sends the new state to the clients; a web chat that sees the flag *)
(* raised answers with generate_all.                                          *)
SetShouldBeGenerating(flag) ==
  /\ shouldBeGenerating' = flag
  /\ echo' = (echo \/ (flag /\ WebClient))

(* The build goes on to its next await, outside the inference it waited for. *)
At(stage) == [build EXCEPT !.stage = stage, !.context = {}, !.aborted = FALSE]

(* The state machine is IDLE; buildWrapper's finally block waits for updateApp. *)
Ended == [At("completing") EXCEPT !.phase = 0, !.final = FALSE]

-----------------------------------------------------------------------------
(* Starting a build.                                                         *)

(* createNewIncompletePhase *)
AddPhase(p) ==
  /\ generated' = generated + 1
  /\ open' = [i \in DOMAIN open \cup {generated + 1} |-> IF i = generated + 1 THEN p ELSE open[i]]

(* Mutant of LaunchStateMachine: an interrupted phase is left and the next one planned. *)
LaunchAfterLast(b) ==
  \/ /\ generated > 0
     /\ build' = [b EXCEPT !.stage = "planning"]
     /\ UNCHANGED <<generated, open>>
  \/ /\ generated = 0 /\ ready
     /\ \E n \in Concepts, last \in BOOLEAN : AddPhase([name |-> n, last |-> last, from |-> {}])
     /\ build' = [b EXCEPT !.stage = "preparing", !.phase = 1]
  \/ /\ generated = 0 /\ ~ready
     /\ build' = [b EXCEPT !.stage = "completing"]
     /\ UNCHANGED <<generated, open>>

(* launchStateMachine, up to its first await: resume the last incomplete phase, *)
(* plan the next one, or begin with the initial phase of the blueprint (throws   *)
(* without one).                                                                 *)
LaunchStateMachine(b) ==
  \/ \E i \in DOMAIN open :
       /\ \A j \in DOMAIN open : j <= i
       /\ build' = [b EXCEPT !.stage = "preparing", !.phase = i]
       /\ UNCHANGED <<generated, open>>
  \/ /\ DOMAIN open = {} /\ generated > 0
     /\ build' = [b EXCEPT !.stage = "planning"]
     /\ UNCHANGED <<generated, open>>
  \/ /\ generated = 0 /\ ready
     /\ \E n \in Concepts, last \in BOOLEAN : AddPhase([name |-> n, last |-> last, from |-> {}])
     /\ build' = [b EXCEPT !.stage = "preparing", !.phase = 1]
  \/ /\ generated = 0 /\ ~ready
     /\ build' = [b EXCEPT !.stage = "completing"]
     /\ UNCHANGED <<generated, open>>

(* generateAllFiles, with no build under way and the flag raised.  A starter that *)
(* clears it does so once the promise has settled, at once if nothing is to do.   *)
GenerateAllFiles(clears) ==
  LET b == [IdleBuild EXCEPT !.clears = clears]
      done == mvpGenerated /\ pendingUserInputs = {}
  IN /\ \/ done /\ UNCHANGED <<build, generated, open>>
        \/ ~done /\ template /\ LaunchStateMachine(b)
        \/ /\ ~done /\ ~template
           /\ build' = [b EXCEPT !.stage = "template"]
           /\ UNCHANGED <<generated, open>>
     /\ shouldBeGenerating' = ~(done /\ clears)
     /\ echo' = (echo \/ WebClient)

OnlyRaiseFlag ==
  /\ SetShouldBeGenerating(TRUE)
  /\ UNCHANGED <<build, generated, open>>

unstarted == <<mvpGenerated, reviewingInitiated, phasesCounter, pendingUserInputs, implemented,
               ready, asked>>

(* GENERATE_ALL, refused before there is a blueprint. *)
GenerateAll ==
  /\ ready
  /\ IF isCodeGenerating THEN OnlyRaiseFlag ELSE GenerateAllFiles(TRUE)
  /\ UNCHANGED <<unstarted, template, setup, turn>>

UserGenerates == GenerateAll /\ stopped' = FALSE

ClientEchoes ==
  /\ echo
  /\ GenerateAll
  /\ UNCHANGED stopped

(* RESUME_GENERATION: nothing clears the flag when this build is over. *)
UserResumes ==
  /\ IF isCodeGenerating THEN OnlyRaiseFlag ELSE GenerateAllFiles(FALSE)
  /\ stopped' = FALSE
  /\ UNCHANGED <<unstarted, template, setup, turn>>

(* STOP_GENERATION aborts the inference under way, if any. *)
UserStops ==
  /\ "stop" \in Disturbances
  /\ build' = [build EXCEPT !.aborted = build.stage \in Inferring]
  /\ SetShouldBeGenerating(FALSE)
  /\ stopped' = TRUE
  /\ UNCHANGED <<progress, around>>

(* Messages that were on their way are lost; a web chat that comes back finds *)
(* the flag in the state it is sent.                                          *)
ClientReconnects ==
  /\ WebClient
  /\ echo' = shouldBeGenerating
  /\ UNCHANGED <<progress, around, build, shouldBeGenerating, stopped>>

-----------------------------------------------------------------------------
(* The life of the agent.                                                    *)

(* initialize, once; initializeAsync goes on in the background. *)
Initialize ==
  /\ ~ready
  /\ ready' = TRUE /\ setup' = TRUE /\ template' = TRUE
  /\ generated' = 0 /\ open' = << >>
  /\ UNCHANGED <<mvpGenerated, reviewingInitiated, phasesCounter, pendingUserInputs,
                 implemented, intent, turn, asked, build>>

SetupDone ==
  /\ setup /\ setup' = FALSE
  /\ IF shouldBeGenerating /\ ~isCodeGenerating
       THEN GenerateAllFiles(FALSE)
       ELSE UNCHANGED <<build, generated, open, shouldBeGenerating, echo>>
  /\ UNCHANGED <<unstarted, template, turn, stopped>>

(* No preview, or no README from the model: initializeAsync starts nothing. *)
SetupFails ==
  /\ {"llm", "preview"} \cap Disturbances # {}
  /\ setup /\ setup' = FALSE
  /\ UNCHANGED <<progress, intent, ready, template, turn, asked, build>>

(* The Durable Object is evicted.  onStart loads the template of an initialized *)
(* agent unless it is only read from; it does not resume generation.            *)
Restart ==
  /\ "restart" \in Disturbances
  /\ build' = [IdleBuild EXCEPT !.cut = TRUE] /\ setup' = FALSE
  /\ turn' = [t \in Turns |-> IF Talking(t) THEN "done" ELSE turn[t]]
  /\ template' \in {FALSE, ready}
  /\ UNCHANGED <<progress, intent, ready, asked>>

-----------------------------------------------------------------------------
(* Conversation turns.                                                       *)

SetTurn(t, stage) == turn' = [turn EXCEPT ![t] = stage]

(* handleUserInput, up to the inference; without the template it ends at once. *)
BeginTurn(t) ==
  /\ turn[t] = "idle"
  /\ \/ SetTurn(t, "thinking") /\ template' = TRUE
     \/ /\ ~template /\ "template" \in Disturbances
        /\ SetTurn(t, "done") /\ UNCHANGED template
  /\ stopped' = FALSE
  /\ UNCHANGED <<progress, shouldBeGenerating, echo, build, ready, setup, asked>>

(* Mutant of QueueUserRequest: the counter is not recharged. *)
QueueOnly(t, r) ==
  /\ turn[t] \in {"thinking", "wrapping"}
  /\ r \notin asked /\ asked' = asked \cup {r}
  /\ pendingUserInputs' = pendingUserInputs \cup {r}
  /\ UNCHANGED <<mvpGenerated, reviewingInitiated, phasesCounter, generated, open, implemented,
                 intent, build, ready, template, setup, turn>>

(* Mutant of QueueUserRequest: a recharge on top of what is left. *)
RechargeAdds(t, r) ==
  /\ turn[t] \in {"thinking", "wrapping"}
  /\ r \notin asked /\ asked' = asked \cup {r}
  /\ pendingUserInputs' = pendingUserInputs \cup {r}
  /\ phasesCounter' = IF phasesCounter <= Recharge THEN phasesCounter + Recharge ELSE phasesCounter
  /\ UNCHANGED <<mvpGenerated, reviewingInitiated, generated, open, implemented,
                 intent, build, ready, template, setup, turn>>

(* The tool queue_request. *)
QueueUserRequest(t, r) ==
  /\ turn[t] \in {"thinking", "wrapping"}
  /\ r \notin asked /\ asked' = asked \cup {r}
  /\ pendingUserInputs' = pendingUserInputs \cup {r}
  /\ phasesCounter' = IF phasesCounter <= Recharge THEN Recharge ELSE phasesCounter
  /\ UNCHANGED <<mvpGenerated, reviewingInitiated, generated, open, implemented,
                 intent, build, ready, template, setup, turn>>

(* The tool deep_debug, once a turn: refused while code is generated or debugged. *)
StartDeepDebug(t) ==
  /\ turn[t] = "thinking"
  /\ ~isCodeGenerating
  /\ \A k \in Turns : turn[k] # "debugging"
  /\ SetTurn(t, "debugging")
  /\ UNCHANGED <<progress, intent, build, ready, template, setup, asked>>

EndDeepDebug(t) ==
  /\ turn[t] = "debugging"
  /\ SetTurn(t, "wrapping")
  /\ UNCHANGED <<progress, intent, build, ready, template, setup, asked>>

(* The conversation model has answered, or was cut short: start if idle. *)
EndTurn(t) ==
  /\ turn[t] \in {"thinking", "wrapping"}
  /\ SetTurn(t, "done")
  /\ IF isCodeGenerating
       THEN UNCHANGED <<build, generated, open, shouldBeGenerating, echo>>
       ELSE GenerateAllFiles(TRUE)
  /\ UNCHANGED <<unstarted, template, setup, stopped>>

(* A rate limit or a security error ends it without a start. *)
TurnFails(t) ==
  /\ "llm" \in Disturbances
  /\ turn[t] \in {"thinking", "wrapping"}
  /\ SetTurn(t, "done")
  /\ UNCHANGED <<progress, intent, build, ready, template, setup, asked>>

-----------------------------------------------------------------------------
(* The state machine.                                                        *)

(* executeReviewCycle, once in the life of the project. *)
EnterReviewing ==
  /\ build' = IF reviewingInitiated THEN Ended ELSE [At("reviewing") EXCEPT !.final = FALSE]
  /\ reviewingInitiated' = TRUE

(* executeFinalizing, likewise. *)
EnterFinalizing ==
  IF mvpGenerated
    THEN EnterReviewing /\ UNCHANGED mvpGenerated
    ELSE /\ mvpGenerated' = TRUE
         /\ build' = [At("finalizing") EXCEPT !.phase = 0]
         /\ UNCHANGED reviewingInitiated

(* An inference fails: the final phase is given up for the review, unless the *)
(* rate limit was exceeded; any other ends the state machine.                 *)
Fail ==
  \/ build.final /\ EnterReviewing
  \/ build' = [Ended EXCEPT !.cut = TRUE] /\ UNCHANGED reviewingInitiated

LoadTemplate ==
  /\ build.stage = "template"
  /\ \/ template' = TRUE /\ LaunchStateMachine(build)
     \/ /\ "template" \in Disturbances
        /\ build' = [build EXCEPT !.stage = "wedged"]
        /\ UNCHANGED <<generated, open, template>>
  /\ UNCHANGED <<unstarted, intent, setup, turn>>

(* Mutant of FetchPendingUserRequests: the requests are taken before the issues *)
(* have been fetched, and are not handed on.                                    *)
FetchAndForget ==
  /\ build.stage = "planning"
  /\ build' = At("drafting")
  /\ pendingUserInputs' = {}
  /\ UNCHANGED <<mvpGenerated, reviewingInitiated, phasesCounter, generated, open, implemented,
                 intent, around>>

(* executePhaseGeneration, after fetchAllIssues. *)
FetchPendingUserRequests ==
  /\ build.stage = "planning"
  /\ build' = [At("drafting") EXCEPT !.context = pendingUserInputs]
  /\ pendingUserInputs' = {}
  /\ UNCHANGED <<mvpGenerated, reviewingInitiated, phasesCounter, generated, open, implemented,
                 intent, around>>

(* generateNextPhase has an answer: a phase, or no files to generate. *)
GenerateNextPhase ==
  /\ build.stage = "drafting" /\ ~build.aborted
  /\ \/ /\ generated < MaxPlans
        /\ \E n \in Concepts, last \in BOOLEAN :
             AddPhase([name |-> n, last |-> last, from |-> build.context])
        /\ build' = [At("preparing") EXCEPT !.phase = generated + 1]
        /\ UNCHANGED <<mvpGenerated, reviewingInitiated>>
     \/ /\ IF build.final THEN EnterReviewing /\ UNCHANGED mvpGenerated ELSE EnterFinalizing
        /\ UNCHANGED <<generated, open>>
  /\ UNCHANGED <<phasesCounter, pendingUserInputs, implemented, intent, around>>

(* executePhaseImplementation, after fetchAllIssues. *)
BeginImplementation ==
  /\ build.stage = "preparing"
  /\ build' = At("writing")
  /\ UNCHANGED <<progress, intent, around>>

(* The files of the phase are there; they are saved, commands run, deployed, fixed. *)
SaveAndDeploy ==
  /\ build.stage = "writing" /\ ~build.aborted
  /\ build' = At("deploying")
  /\ UNCHANGED <<progress, intent, around>>

(* Mutant of MarkPhaseComplete: the queue of requests is not looked at. *)
CompleteRegardless ==
  LET phase == open[build.phase]
      named == {i \in DOMAIN open : open[i].name = phase.name}
      enough == phase.last \/ phasesCounter' <= 0
  IN /\ build.stage = "deploying"
     /\ open' = [i \in DOMAIN open \ named |-> open[i]]
     /\ implemented' = implemented \cup UNION {open[i].from : i \in named}
     /\ phasesCounter' = phasesCounter - 1
     /\ \/ build.final /\ EnterReviewing /\ UNCHANGED mvpGenerated
        \/ ~build.final /\ enough /\ EnterFinalizing
        \/ /\ ~build.final /\ ~enough
           /\ build' = [At("planning") EXCEPT !.phase = 0]
           /\ UNCHANGED <<mvpGenerated, reviewingInitiated>>
     /\ UNCHANGED <<generated, pendingUserInputs, intent, around>>

(* Mutant of MarkPhaseComplete: the counter is only looked at. *)
CompleteUncounted ==
  LET phase == open[build.phase]
      named == {i \in DOMAIN open : open[i].name = phase.name}
      enough == (phase.last \/ phasesCounter <= 1) /\ pendingUserInputs = {}
  IN /\ build.stage = "deploying"
     /\ open' = [i \in DOMAIN open \ named |-> open[i]]
     /\ implemented' = implemented \cup UNION {open[i].from : i \in named}
     /\ \/ build.final /\ EnterReviewing /\ UNCHANGED mvpGenerated
        \/ ~build.final /\ enough /\ EnterFinalizing
        \/ /\ ~build.final /\ ~enough
           /\ build' = [At("planning") EXCEPT !.phase = 0]
           /\ UNCHANGED <<mvpGenerated, reviewingInitiated>>
     /\ UNCHANGED <<phasesCounter, generated, pendingUserInputs, intent, around>>

(* markPhaseComplete, by name, and what executePhaseImplementation does next. *)
MarkPhaseComplete ==
  LET phase == open[build.phase]
      named == {i \in DOMAIN open : open[i].name = phase.name}
      enough == (phase.last \/ phasesCounter' <= 0) /\ pendingUserInputs = {}
  IN /\ build.stage = "deploying"
     /\ open' = [i \in DOMAIN open \ named |-> open[i]]
     /\ implemented' = implemented \cup UNION {open[i].from : i \in named}
     /\ phasesCounter' = phasesCounter - 1
     /\ \/ build.final /\ EnterReviewing /\ UNCHANGED mvpGenerated
        \/ ~build.final /\ enough /\ EnterFinalizing
        \/ /\ ~build.final /\ ~enough
           /\ build' = [At("planning") EXCEPT !.phase = 0]
           /\ UNCHANGED <<mvpGenerated, reviewingInitiated>>
     /\ UNCHANGED <<generated, pendingUserInputs, intent, around>>

(* executeFinalizing, after fetchAllIssues: a final phase, if there is anything *)
(* to do.                                                                       *)
Finalize ==
  /\ build.stage = "finalizing"
  /\ \/ pendingUserInputs = {} /\ EnterReviewing
     \/ /\ build' = [At("planning") EXCEPT !.final = TRUE]
        /\ UNCHANGED reviewingInitiated
  /\ UNCHANGED <<mvpGenerated, phasesCounter, generated, open, pendingUserInputs, implemented,
                 intent, around>>

Review ==
  /\ build.stage = "reviewing"
  /\ build' = Ended
  /\ UNCHANGED <<progress, intent, around>>

(* Mutant of InferenceFails: the phase that failed is planned anew. *)
PlanAgain ==
  /\ build.stage \in Inferring
  /\ build.aborted \/ "llm" \in Disturbances
  /\ build' = [At("planning") EXCEPT !.phase = 0]
  /\ UNCHANGED <<progress, intent, around>>

InferenceFails ==
  /\ build.stage \in Inferring
  /\ build.aborted \/ "llm" \in Disturbances
  /\ Fail
  /\ UNCHANGED <<mvpGenerated, phasesCounter, generated, open, pendingUserInputs, implemented,
                 intent, around>>

(* deployToSandbox throws when the project has nothing to preview: the phase is *)
(* not marked complete although its files are saved.                            *)
NotPreviewable ==
  /\ build.stage = "deploying"
  /\ "preview" \in Disturbances
  /\ IF build.final
       THEN EnterReviewing
       ELSE build' = [Ended EXCEPT !.cut = TRUE] /\ UNCHANGED reviewingInitiated
  /\ UNCHANGED <<mvpGenerated, phasesCounter, generated, open, pendingUserInputs, implemented,
                 intent, around>>

(* buildWrapper: generationPromise = null, and the starter's finally. *)
GenerationComplete ==
  /\ build.stage = "completing"
  /\ build' = IdleBuild
  /\ IF build.clears THEN SetShouldBeGenerating(FALSE) ELSE UNCHANGED <<shouldBeGenerating, echo>>
  /\ UNCHANGED <<progress, around, stopped>>

BuildStep ==
  \/ LoadTemplate \/ FetchPendingUserRequests \/ GenerateNextPhase \/ BeginImplementation
  \/ SaveAndDeploy \/ MarkPhaseComplete \/ Finalize \/ Review \/ InferenceFails
  \/ NotPreviewable \/ GenerationComplete

TurnStep(t) ==
  \/ BeginTurn(t) \/ (\E r \in Requests : QueueUserRequest(t, r))
  \/ StartDeepDebug(t) \/ EndDeepDebug(t) \/ EndTurn(t) \/ TurnFails(t)

Next ==
  \/ UserGenerates \/ ClientEchoes \/ UserResumes \/ UserStops \/ ClientReconnects
  \/ Initialize \/ SetupDone \/ SetupFails \/ Restart
  \/ \E t \in Turns : TurnStep(t)
  \/ BuildStep

(* What a build waits for answers; users and clients come as they please. *)
Spec     == Init /\ [][Next]_vars
FairSpec == Spec /\ WF_vars(BuildStep)

-----------------------------------------------------------------------------
(* Properties.                                                               *)

(* createNewIncompletePhase, markPhaseComplete, launchStateMachine: only the  *)
(* last phase generated is ever incomplete, it is the one that is implemented, *)
(* and none is planned before it is complete.  So resuming the last incomplete *)
(* phase leaves none behind, and marking by name marks no other.               *)
OneOpenPhase ==
  /\ DOMAIN open \subseteq {generated}
  /\ build.stage \in {"preparing", "writing", "deploying"} => build.phase \in DOMAIN open
  /\ build.stage \in {"planning", "drafting"} => DOMAIN open = {}

(* rechargePhasesCounter: as long as requests wait, or the first version is not *)
(* there, the counter allows another phase.                                     *)
PendingHasBudget ==
  pendingUserInputs # {} \/ ~mvpGenerated => phasesCounter > 0

(* However often builds are stopped, fail and are started again, the project    *)
(* gets no more phases than the counter and its recharges pay for.              *)
PhasesBounded ==
  generated <= MaxPhases + 2 + (Recharge + 1) * Cardinality(asked)

(* A request that is queued, or in a phase, is not lost by anything that happens; *)
(* only one handed to the model that plans may be (fetchPendingUserRequests       *)
(* empties the queue before).                                                     *)
Kept(r) == r \in pendingUserInputs \cup build.context \cup implemented
                   \cup UNION {open[i].from : i \in DOMAIN open}

RequestsSurvive ==
  [][\A r \in asked : Kept(r) /\ r \notin build.context => Kept(r)']_vars

(* The builds of an agent, resumed, stopped, failing and evicted as they are,      *)
(* implement PhasePlan: requests are planned together, one phase is open at a      *)
(* time and is completed before the next is planned, and none begins that was not  *)
(* paid for.  The final phase may come until executeFinalizing has planned it.     *)
PhaseOpen == DOMAIN open # {}
PhaseFrom == UNION {open[i].from : i \in DOMAIN open}
FinalLeft == \/ ~mvpGenerated
             \/ build.stage = "finalizing"
             \/ build.final /\ build.stage \in {"planning", "drafting"}

Plan == INSTANCE PhasePlan WITH
  waiting <- pendingUserInputs, planned <- build.context, open <- PhaseOpen,
  within <- PhaseFrom, done <- implemented, phases <- generated, left <- phasesCounter,
  final <- FinalLeft

PlansPhases == Plan!Spec

(* fetchPendingUserRequests, createNewIncompletePhase and markPhaseComplete hand each *)
(* request on: no two phases are planned for it, however builds resume and restart.   *)
PlannedOnce == Plan!OnePlace

(* A bound on the steps of a build that nobody gives more to do: five for each     *)
(* phase, and the final phase, the review and the end.                             *)
PhaseSteps == CASE build.stage = "planning"  -> 5
                [] build.stage = "drafting"  -> 4
                [] build.stage = "preparing" -> 3
                [] build.stage = "writing"   -> 2
                [] build.stage = "deploying" -> 1

StepsLeft == CASE build.stage \in Resting    -> 0
               [] build.stage = "completing" -> 1
               [] build.stage = "reviewing"  -> 2
               [] build.stage = "finalizing" -> 8
               [] build.stage = "template"   -> 5 * phasesCounter + 9
               [] OTHER -> PhaseSteps + (IF build.final THEN 2 ELSE 5 * phasesCounter + 3)

(* The loop of launchStateMachine runs down: whatever a build waits for answers,   *)
(* fails or is aborted, each of its steps leaves fewer; users and clients add none *)
(* to a build under way, but by a request that recharges phasesCounter.            *)
BuildsRunDown ==
  [][build.stage \notin Resting =>
       /\ StepsLeft \in Nat
       /\ BuildStep => StepsLeft' < StepsLeft
       /\ phasesCounter' <= phasesCounter => StepsLeft' <= StepsLeft]_vars

(* Every build ends, unless the template cannot be loaded. *)
BuildsEnd == isCodeGenerating ~> (~isCodeGenerating \/ build.stage = "wedged")

(* "The queued requests would be fetched whenever the next phase planning      *)
(* happens" (UserConversationProcessor.ts:214): a request queued before the    *)
(* final phase is planned in this build, if nothing fails or stops it.         *)
RequestsReachPlanning ==
  \A r \in Requests :
    /\ r \in pendingUserInputs
    /\ build.stage \in {"planning", "preparing", "writing", "deploying", "finalizing"}
    /\ ~build.final
    ~> r \notin pendingUserInputs \/ build.cut

(* UserConversationProcessor.ts:216, "If the state machine had ended, we restart *)
(* it ... with your queued requests".                                            *)
RequestsRestarted ==
  /\ ~isCodeGenerating /\ ~shouldBeGenerating /\ ~setup
  /\ generated > 0
  /\ \A t \in Turns : ~Talking(t)
  => pendingUserInputs = {}

(* docs/llm.md:1215, "ANY | IDLE | User stops generation": after a stop no      *)
(* inference of the build begins.                                              *)
StopHolds ==
  [][stopped /\ build'.stage \in Inferring => build.stage \in Inferring]_vars

(* docs/llm.md:1765, set "to false" when "Generation fails permanently".       *)
FlagFallsOnFailure == build.stage = "wedged" => ~shouldBeGenerating

=============================================================================
