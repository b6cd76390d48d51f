----------------------- MODULE PhasicGenerationProofs -----------------------
(***************************************************************************)
(* Proofs about PhasicGeneration, for any requests, turns and phase names, *)
(* any MaxPhases and Recharge and any disturbances: the types, the one     *)
(* open phase, the budget of waiting requests, the bound on phases, and    *)
(* the requests that are not lost.                                         *)
(***************************************************************************)
EXTENDS PhasicGeneration, FiniteSetTheorems, TLAPS

-----------------------------------------------------------------------------
(* The inductive invariant.                                                  *)

Phasing == {"planning", "drafting", "preparing", "writing", "deploying"}

(* Before there is a blueprint no phase is built. *)
NotReady ==
  ~ready => generated = 0 /\ build.stage \in Resting \cup {"template", "completing"}

(* A build starts because there is something to do, the final phase comes after *)
(* mvpGenerated was set, and nothing is open when it is considered.             *)
Course ==
  /\ build.stage = "template" => ~mvpGenerated \/ pendingUserInputs # {}
  /\ build.final => mvpGenerated /\ build.stage \in Phasing
  /\ build.stage = "finalizing" => mvpGenerated /\ DOMAIN open = {}

(* The counter allows what is under way, and one phase more if requests came  *)
(* too late for that: a phase that is open or being planned leaves them one.   *)
Budget ==
  /\ PendingHasBudget
  /\ /\ pendingUserInputs # {}
     /\ DOMAIN open # {} \/ generated = 0 \/ build.stage = "drafting"
     => phasesCounter > 1
  /\ build.stage \in Phasing /\ ~build.final => phasesCounter > 0
  /\ build.stage \in Phasing \cup {"finalizing"} => phasesCounter >= 0

Origins ==
  /\ build.context \subseteq asked
  /\ \A i \in DOMAIN open : open[i].from \subseteq asked

(* Phases completed, and those the counter still allows, were paid for, by *)
(* MAX_PHASES at first and by a recharge from -1 to Recharge per request.   *)
Bought == (Recharge + 1) * Cardinality(asked)

Paid ==
  /\ DOMAIN open = {} => generated + phasesCounter <= MaxPhases + Bought
  /\ DOMAIN open # {} => generated - 1 + phasesCounter <= MaxPhases + Bought

IInv == /\ TypeOK
        /\ OneOpenPhase
        /\ NotReady
        /\ Course
        /\ Budget
        /\ Origins
        /\ Paid

-----------------------------------------------------------------------------
(* Parts of TypeOK that no other part of the invariant depends on. *)
FlagTypes ==
  /\ {shouldBeGenerating, template, setup, echo, stopped} \subseteq BOOLEAN
  /\ turn \in [Turns -> TurnStages]

BuildType == [stage : BuildStages, phase : 0..generated, context : SUBSET Requests,
              final : BOOLEAN, clears : BOOLEAN, aborted : BOOLEAN, cut : BOOLEAN]

CounterTop == IF MaxPhases > Recharge THEN MaxPhases ELSE Recharge

LEMMA PhaseIn ==
  ASSUME NEW n \in Concepts, NEW last \in BOOLEAN, NEW rs \in SUBSET Requests
  PROVE  [name |-> n, last |-> last, from |-> rs] \in Phase
  BY DEF Phase

LEMMA Times ==
  ASSUME NEW k \in Nat, NEW n \in Nat
  PROVE  k * n \in Nat /\ k * (n + 1) = k * n + k
  OBVIOUS

LEMMA BoughtType == TypeOK => IsFiniteSet(asked) /\ Cardinality(asked) \in Nat /\ Bought \in Nat
  <1> SUFFICES ASSUME TypeOK
               PROVE  IsFiniteSet(asked) /\ Cardinality(asked) \in Nat /\ Bought \in Nat
    OBVIOUS
  <1>1. IsFiniteSet(asked)
    BY FS_Subset, GenerationAssumption DEF TypeOK
  <1>2. Cardinality(asked) \in Nat
    BY <1>1, FS_CardinalityType
  <1>3. Recharge + 1 \in Nat
    BY GenerationAssumption
  <1> QED BY <1>1, <1>2, <1>3, Times DEF Bought

LEMMA InitIInv == Init => IInv
  <1> SUFFICES ASSUME Init PROVE IInv
    OBVIOUS
  <1> USE GenerationAssumption DEF Init, IdleBuild
  <1>1. TypeOK
    <2>1. DOMAIN open = {}
      OBVIOUS
    <2>2. build \in [stage : BuildStages, phase : 0..generated, context : SUBSET Requests,
                     final : BOOLEAN, clears : BOOLEAN, aborted : BOOLEAN, cut : BOOLEAN]
      BY DEF BuildStages, Resting
    <2>3. phasesCounter \in (-1)..(IF MaxPhases > Recharge THEN MaxPhases ELSE Recharge)
      OBVIOUS
    <2>4. turn \in [Turns -> TurnStages]
      BY DEF TurnStages
    <2> QED BY <2>1, <2>2, <2>3, <2>4 DEF TypeOK
  <1>2. OneOpenPhase /\ NotReady /\ Course /\ Origins
    BY DEF OneOpenPhase, NotReady, Course, Origins, Resting, Phasing
  <1>3. Budget
    BY DEF Budget, PendingHasBudget, Phasing
  <1>4. Paid
    BY <1>1, BoughtType DEF Paid
  <1> QED BY <1>1, <1>2, <1>3, <1>4 DEF IInv

-----------------------------------------------------------------------------
(* What leaves the phases, the requests and the build alone. *)
LEMMA AsidePreserves ==
  ASSUME IInv, FlagTypes', UNCHANGED <<progress, ready, asked>>,
         \/ UNCHANGED build
         \/ \E a \in BOOLEAN : build' = [build EXCEPT !.aborted = a]
  PROVE  IInv'
  <1> DEFINE same == UNCHANGED <<mvpGenerated, reviewingInitiated, phasesCounter, generated, open,
                                 pendingUserInputs, implemented, ready, asked>>
  <1>1. same
    BY DEF progress
  <1>2. /\ build' \in BuildType
        /\ build'.stage = build.stage /\ build'.phase = build.phase
        /\ build'.context = build.context /\ build'.final = build.final
    BY DEF IInv, TypeOK, BuildType
  <1>3. TypeOK'
    BY <1>1, <1>2 DEF IInv, TypeOK, BuildType, FlagTypes
  <1>4. OneOpenPhase' /\ NotReady' /\ Course' /\ Origins'
    BY <1>1, <1>2 DEF IInv, OneOpenPhase, NotReady, Course, Origins
  <1>5. Budget' /\ Paid'
    BY <1>1, <1>2 DEF IInv, Budget, PendingHasBudget, Paid, Bought
  <1> QED BY <1>3, <1>4, <1>5 DEF IInv

(* createNewIncompletePhase, when nothing is open and the counter allows it. *)
LEMMA AddFacts ==
  ASSUME TypeOK, DOMAIN open = {}, NEW q \in Phase, AddPhase(q)
  PROVE  /\ generated' = generated + 1 /\ generated' \in Nat
         /\ DOMAIN open' = {generated'} /\ open'[generated'] = q
  BY DEF TypeOK, AddPhase

LEMMA LaunchPreserves ==
  ASSUME IInv, build.stage \in {"idle", "template"},
         NEW b \in BuildType, b.final = FALSE, b.context \subseteq asked,
         ~mvpGenerated \/ pendingUserInputs # {},
         LaunchStateMachine(b), FlagTypes',
         UNCHANGED <<mvpGenerated, reviewingInitiated, phasesCounter, pendingUserInputs,
                     implemented, ready, asked>>
  PROVE  IInv'
  <1> USE DEF BuildType
  <1>0. /\ TypeOK /\ OneOpenPhase /\ NotReady /\ Course /\ Budget /\ Origins /\ Paid
        /\ generated \in Nat /\ phasesCounter \in Int /\ phasesCounter > 0
    BY DEF IInv, TypeOK, Budget, PendingHasBudget
  <1>1. ASSUME NEW i \in DOMAIN open, build' = [b EXCEPT !.stage = "preparing", !.phase = i],
               UNCHANGED <<generated, open>>
        PROVE  IInv'
    <2>0. ready /\ i \in 0..generated
      BY <1>0, <1>1 DEF TypeOK, NotReady
    <2>1. /\ build' \in BuildType' /\ build'.stage = "preparing" /\ build'.phase = i
          /\ build'.final = FALSE /\ build'.context = b.context
      BY <2>0, <1>1 DEF BuildStages
    <2>2. TypeOK'
      BY <1>0, <1>1, <2>1 DEF TypeOK, FlagTypes
    <2>3. OneOpenPhase' /\ NotReady' /\ Course' /\ Origins'
      BY <1>0, <1>1, <2>0, <2>1 DEF OneOpenPhase, NotReady, Course, Origins
    <2>4. Budget' /\ Paid'
      BY <1>0, <1>1, <2>1 DEF Budget, PendingHasBudget, Paid, Bought
    <2> QED BY <2>2, <2>3, <2>4 DEF IInv
  <1>2. ASSUME DOMAIN open = {}, generated > 0, build' = [b EXCEPT !.stage = "planning"],
               UNCHANGED <<generated, open>>
        PROVE  IInv'
    <2>1. /\ build' \in BuildType' /\ build'.stage = "planning"
          /\ build'.final = FALSE /\ build'.context = b.context
      BY <1>2 DEF BuildStages
    <2>2. TypeOK'
      BY <1>0, <1>2, <2>1 DEF TypeOK, FlagTypes
    <2>3. OneOpenPhase' /\ NotReady' /\ Course' /\ Origins'
      BY <1>0, <1>2, <2>1 DEF OneOpenPhase, NotReady, Course, Origins
    <2>4. Budget' /\ Paid'
      BY <1>0, <1>2, <2>1 DEF Budget, PendingHasBudget, Paid, Bought
    <2> QED BY <2>2, <2>3, <2>4 DEF IInv
  <1>3. ASSUME NEW q \in Phase, q.from = {}, generated = 0, ready, AddPhase(q),
               build' = [b EXCEPT !.stage = "preparing", !.phase = 1]
        PROVE  IInv'
    <2>0. DOMAIN open = {}
      <3>1. DOMAIN open \subseteq 1..0
        BY <1>0, <1>3 DEF TypeOK
      <3>2. \A i : i \notin 1..0
        OBVIOUS
      <3> QED BY ONLY <3>1, <3>2
    <2>1. /\ generated' = 1 /\ DOMAIN open' = {1} /\ open'[1] = q
      <3>1. /\ generated' = generated + 1 /\ DOMAIN open' = {generated'}
            /\ open'[generated'] = q
        BY <1>0, <1>3, <2>0, AddFacts
      <3> QED BY <3>1, <1>3
    <2>2. /\ build' \in BuildType' /\ build'.stage = "preparing" /\ build'.phase = 1
          /\ build'.final = FALSE /\ build'.context = b.context
      <3>1. 1 \in 0..generated' /\ "preparing" \in BuildStages
        BY <2>1 DEF BuildStages
      <3> QED BY <1>3, <3>1
    <2>3. TypeOK'
      BY <1>0, <2>0, <2>1, <2>2 DEF TypeOK, FlagTypes
    <2>4. OneOpenPhase' /\ NotReady' /\ Course' /\ Origins'
      BY <1>0, <1>3, <2>1, <2>2 DEF OneOpenPhase, NotReady, Course, Origins
    <2>5. Budget' /\ Paid'
      BY <1>0, <1>3, <2>0, <2>1, <2>2, BoughtType DEF Budget, PendingHasBudget, Paid, Bought
    <2> QED BY <2>3, <2>4, <2>5 DEF IInv
  <1>4. ASSUME generated = 0, ~ready, build' = [b EXCEPT !.stage = "completing"],
               UNCHANGED <<generated, open>>
        PROVE  IInv'
    <2>1. /\ build' \in BuildType' /\ build'.stage = "completing"
          /\ build'.final = FALSE /\ build'.context = b.context
      BY <1>4 DEF BuildStages
    <2>2. TypeOK'
      BY <1>0, <1>4, <2>1 DEF TypeOK, FlagTypes
    <2>3. OneOpenPhase' /\ NotReady' /\ Course' /\ Origins'
      BY <1>0, <1>4, <2>1 DEF OneOpenPhase, NotReady, Course, Origins
    <2>4. Budget' /\ Paid'
      BY <1>0, <1>4, <2>1 DEF Budget, PendingHasBudget, Paid, Bought, Phasing
    <2> QED BY <2>2, <2>3, <2>4 DEF IInv
  <1>5. ASSUME NEW n \in Concepts, NEW last \in BOOLEAN, generated = 0, ready,
               AddPhase([name |-> n, last |-> last, from |-> {}]),
               build' = [b EXCEPT !.stage = "preparing", !.phase = 1]
        PROVE  IInv'
    <2>1. [name |-> n, last |-> last, from |-> {}] \in Phase
      BY PhaseIn, Zenon
    <2>2. [name |-> n, last |-> last, from |-> {}].from = {}
      OBVIOUS
    <2> QED BY <1>3, <1>5, <2>1, <2>2, Zenon
  <1> QED
    BY <1>1, <1>2, <1>4, <1>5, Zenon DEF LaunchStateMachine

LEMMA GenerateAllFilesPreserves ==
  ASSUME IInv, build.stage = "idle", NEW c \in BOOLEAN, GenerateAllFiles(c),
         UNCHANGED unstarted, template' = template, turn' \in [Turns -> TurnStages],
         setup' \in BOOLEAN, stopped' \in BOOLEAN
  PROVE  IInv'
  <1> DEFINE b == [IdleBuild EXCEPT !.clears = c]
             done == mvpGenerated /\ pendingUserInputs = {}
  <1>0. TypeOK /\ UNCHANGED <<mvpGenerated, reviewingInitiated, phasesCounter,
                               pendingUserInputs, implemented, ready, asked>>
    BY DEF IInv, unstarted
  <1>1. FlagTypes'
    BY <1>0, GenerationAssumption DEF GenerateAllFiles, TypeOK, FlagTypes
  <1>2. b \in BuildType /\ b.final = FALSE /\ b.context = {}
    <2>1. IdleBuild \in BuildType
      <3>1. "idle" \in BuildStages /\ 0 \in 0..generated
        BY <1>0 DEF TypeOK, BuildStages, Resting
      <3> QED BY <3>1 DEF IdleBuild, BuildType
    <2>2. b \in BuildType /\ b.final = IdleBuild.final /\ b.context = IdleBuild.context
      BY <2>1 DEF BuildType
    <2> QED BY <2>2 DEF IdleBuild
  <1>3. CASE done
    <2>1. UNCHANGED <<build, generated, open>>
      BY <1>3 DEF GenerateAllFiles
    <2> QED BY <1>0, <1>1, <2>1, AsidePreserves DEF progress
  <1>4. CASE ~done /\ template
    <2>1. LaunchStateMachine(b)
      BY <1>4 DEF GenerateAllFiles
    <2> QED BY <1>0, <1>1, <1>2, <1>4, <2>1, LaunchPreserves
  <1>5. CASE ~done /\ ~template
    <2>1. build' = [b EXCEPT !.stage = "template"] /\ UNCHANGED <<generated, open>>
      BY <1>5 DEF GenerateAllFiles
    <2>2. /\ build' \in BuildType' /\ build'.stage = "template" /\ build'.final = FALSE
          /\ build'.context = {}
      BY <1>2, <2>1 DEF BuildType, BuildStages
    <2>3. TypeOK'
      BY <1>0, <1>1, <2>1, <2>2 DEF TypeOK, FlagTypes, BuildType
    <2>4. OneOpenPhase' /\ NotReady' /\ Course' /\ Origins'
      BY <1>0, <1>5, <2>1, <2>2 DEF IInv, OneOpenPhase, NotReady, Course, Origins
    <2>5. Budget' /\ Paid'
      BY <1>0, <2>1, <2>2 DEF IInv, Budget, PendingHasBudget, Paid, Bought, Phasing
    <2> QED BY <2>3, <2>4, <2>5 DEF IInv
  <1> QED BY <1>3, <1>4, <1>5

-----------------------------------------------------------------------------
(* The actions around a build.                                               *)

LEMMA StartersPreserve ==
  ASSUME IInv,
         \/ UserGenerates \/ ClientEchoes \/ UserResumes \/ SetupDone
         \/ \E t \in Turns : EndTurn(t)
  PROVE  IInv'
  <1>1. TypeOK
    BY DEF IInv
  <1>2. ASSUME isCodeGenerating, OnlyRaiseFlag, UNCHANGED <<unstarted, template, setup, turn>>,
               stopped' \in BOOLEAN
        PROVE  IInv'
    <2>1. UNCHANGED <<progress, ready, asked, build>>
      BY <1>2 DEF OnlyRaiseFlag, unstarted, progress
    <2>2. FlagTypes'
      BY <1>1, <1>2, GenerationAssumption
         DEF TypeOK, FlagTypes, OnlyRaiseFlag, SetShouldBeGenerating
    <2> QED BY <2>1, <2>2, AsidePreserves
  <1>3. ASSUME ~isCodeGenerating, NEW c \in BOOLEAN, GenerateAllFiles(c),
               UNCHANGED <<unstarted, template, setup, turn>>, stopped' \in BOOLEAN
        PROVE  IInv'
    <2>1. setup' \in BOOLEAN /\ turn' \in [Turns -> TurnStages]
      BY <1>1, <1>3 DEF TypeOK
    <2> QED BY <1>3, <2>1, GenerateAllFilesPreserves DEF isCodeGenerating
  <1>4. CASE UserGenerates \/ ClientEchoes
    <2>1. GenerateAll /\ stopped' \in BOOLEAN
      BY <1>1, <1>4 DEF UserGenerates, ClientEchoes, TypeOK
    <2> QED BY <1>2, <1>3, <2>1 DEF GenerateAll
  <1>5. CASE UserResumes
    BY <1>2, <1>3, <1>5 DEF UserResumes
  <1>6. CASE SetupDone
    <2>0. UNCHANGED <<unstarted, template, turn, stopped>> /\ setup' = FALSE
      BY <1>6 DEF SetupDone
    <2>1. CASE shouldBeGenerating /\ ~isCodeGenerating
      <3>1. GenerateAllFiles(FALSE) /\ build.stage = "idle" /\ stopped' \in BOOLEAN
            /\ turn' \in [Turns -> TurnStages]
        BY <1>1, <1>6, <2>0, <2>1 DEF SetupDone, isCodeGenerating, TypeOK
      <3> QED BY <2>0, <3>1, GenerateAllFilesPreserves
    <2>2. CASE ~(shouldBeGenerating /\ ~isCodeGenerating)
      <3>1. UNCHANGED <<build, generated, open, shouldBeGenerating, echo>>
        BY <1>6, <2>2 DEF SetupDone
      <3>2. UNCHANGED <<progress, ready, asked>> /\ FlagTypes'
        BY <1>1, <2>0, <3>1 DEF unstarted, progress, TypeOK, FlagTypes
      <3> QED BY <3>1, <3>2, AsidePreserves
    <2> QED BY <2>1, <2>2
  <1>7. ASSUME NEW t \in Turns, EndTurn(t)
        PROVE  IInv'
    <2>0. UNCHANGED <<unstarted, template, setup, stopped>> /\ turn' \in [Turns -> TurnStages]
      BY <1>1, <1>7 DEF EndTurn, SetTurn, TypeOK, TurnStages
    <2>1. CASE isCodeGenerating
      <3>1. UNCHANGED <<build, generated, open, shouldBeGenerating, echo>>
        BY <1>7, <2>1 DEF EndTurn
      <3>2. UNCHANGED <<progress, ready, asked>> /\ FlagTypes'
        BY <1>1, <2>0, <3>1 DEF unstarted, progress, TypeOK, FlagTypes
      <3> QED BY <3>1, <3>2, AsidePreserves
    <2>2. CASE ~isCodeGenerating
      <3>1. GenerateAllFiles(TRUE) /\ build.stage = "idle" /\ stopped' \in BOOLEAN
            /\ setup' \in BOOLEAN
        BY <1>1, <1>7, <2>0, <2>2 DEF EndTurn, isCodeGenerating, TypeOK
      <3> QED BY <2>0, <3>1, GenerateAllFilesPreserves
    <2> QED BY <2>1, <2>2
  <1> QED BY <1>4, <1>5, <1>6, <1>7

LEMMA AroundPreserves ==
  ASSUME IInv,
         \/ UserStops \/ ClientReconnects \/ SetupFails
         \/ \E t \in Turns : BeginTurn(t) \/ StartDeepDebug(t) \/ EndDeepDebug(t) \/ TurnFails(t)
  PROVE  IInv'
  <1>1. TypeOK
    BY DEF IInv
  <1>2. UNCHANGED <<progress, ready, asked>>
    BY DEF UserStops, ClientReconnects, SetupFails, BeginTurn, StartDeepDebug, EndDeepDebug,
           TurnFails, around
  <1>3. \/ UNCHANGED build
        \/ \E a \in BOOLEAN : build' = [build EXCEPT !.aborted = a]
    <2>1. CASE UserStops
      <3> DEFINE a == build.stage \in Inferring
      <3>1. a \in BOOLEAN
        OBVIOUS
      <3>2. build' = [build EXCEPT !.aborted = a]
        BY <2>1 DEF UserStops
      <3> HIDE DEF a
      <3> QED BY <3>1, <3>2
    <2>2. CASE ~UserStops
      BY <2>2 DEF ClientReconnects, SetupFails, BeginTurn, StartDeepDebug, EndDeepDebug, TurnFails
    <2> QED BY <2>1, <2>2
  <1>4. {shouldBeGenerating', template', setup', echo', stopped'} \subseteq BOOLEAN
    <2>1. CASE UserStops
      BY <1>1, <2>1, GenerationAssumption DEF UserStops, SetShouldBeGenerating, around, TypeOK
    <2>2. CASE ClientReconnects \/ SetupFails
      BY <1>1, <2>2 DEF ClientReconnects, SetupFails, intent, around, TypeOK
    <2>3. ASSUME NEW t \in Turns, BeginTurn(t)
          PROVE  {shouldBeGenerating', template', setup', echo', stopped'} \subseteq BOOLEAN
      BY <1>1, <2>3 DEF BeginTurn, TypeOK
    <2>4. ASSUME NEW t \in Turns, StartDeepDebug(t) \/ EndDeepDebug(t) \/ TurnFails(t)
          PROVE  {shouldBeGenerating', template', setup', echo', stopped'} \subseteq BOOLEAN
      BY <1>1, <2>4 DEF StartDeepDebug, EndDeepDebug, TurnFails, intent, TypeOK
    <2> QED BY <2>1, <2>2, <2>3, <2>4
  <1>5. turn' \in [Turns -> TurnStages]
    BY <1>1
       DEF UserStops, ClientReconnects, SetupFails, BeginTurn, StartDeepDebug, EndDeepDebug,
           TurnFails, SetTurn, around, TypeOK, TurnStages
  <1> QED BY <1>2, <1>3, <1>4, <1>5, AsidePreserves DEF FlagTypes

(* What a restart leaves: no build, the phases and the requests as they were. *)
LEMMA RestartPreserves ==
  ASSUME IInv, Restart
  PROVE  IInv'
  <1>1. /\ TypeOK /\ OneOpenPhase /\ NotReady /\ Course /\ Budget /\ Origins /\ Paid
        /\ UNCHANGED <<mvpGenerated, reviewingInitiated, phasesCounter, generated, open,
                       pendingUserInputs, implemented, ready, asked>>
    BY DEF IInv, Restart, progress
  <1>2. FlagTypes'
    <2>1. turn' \in [Turns -> TurnStages]
      BY <1>1 DEF Restart, TypeOK, TurnStages
    <2> QED BY <1>1, <2>1 DEF Restart, intent, TypeOK, FlagTypes
  <1>3. /\ build' \in BuildType' /\ build'.stage = "idle" /\ build'.final = FALSE
        /\ build'.context = {}
    <2>1. 0 \in 0..generated' /\ "idle" \in BuildStages
      BY <1>1 DEF TypeOK, BuildStages, Resting
    <2> QED BY <2>1 DEF Restart, IdleBuild, BuildType
  <1>4. TypeOK'
    BY <1>1, <1>2, <1>3 DEF TypeOK, FlagTypes, BuildType
  <1>5. OneOpenPhase' /\ NotReady' /\ Course' /\ Origins'
    BY <1>1, <1>3 DEF OneOpenPhase, NotReady, Course, Origins, Resting
  <1>6. Budget' /\ Paid'
    BY <1>1, <1>3 DEF Budget, PendingHasBudget, Paid, Bought, Phasing
  <1> QED BY <1>4, <1>5, <1>6 DEF IInv

LEMMA InitializePreserves ==
  ASSUME IInv, Initialize
  PROVE  IInv'
  <1>1. /\ TypeOK /\ OneOpenPhase /\ NotReady /\ Course /\ Budget /\ Origins /\ Paid
        /\ UNCHANGED <<mvpGenerated, reviewingInitiated, phasesCounter, pendingUserInputs,
                       implemented, intent, turn, asked, build>>
        /\ ready' = TRUE /\ setup' = TRUE /\ template' = TRUE
        /\ generated = 0 /\ generated' = 0 /\ open' = << >>
    BY DEF IInv, Initialize, NotReady
  <1>2. DOMAIN open = {} /\ DOMAIN open' = {}
    <2>1. DOMAIN open \subseteq 1..0
      BY <1>1 DEF TypeOK
    <2>2. \A i : i \notin 1..0
      OBVIOUS
    <2>3. DOMAIN open = {}
      BY ONLY <2>1, <2>2
    <2> QED BY <1>1, <2>3
  <1>3. TypeOK'
    BY <1>1, <1>2 DEF TypeOK, intent
  <1>4. OneOpenPhase' /\ NotReady' /\ Course' /\ Origins'
    BY <1>1, <1>2 DEF OneOpenPhase, NotReady, Course, Origins, Resting, Initialize
  <1>5. Budget' /\ Paid'
    BY <1>1, <1>2 DEF Budget, PendingHasBudget, Paid, Bought, Phasing
  <1> QED BY <1>3, <1>4, <1>5 DEF IInv

(* queueUserRequest: a recharge raises the counter from -1 at least to Recharge. *)
LEMMA QueuePreserves ==
  ASSUME IInv, NEW t \in Turns, NEW r \in Requests, QueueUserRequest(t, r)
  PROVE  IInv'
  <1>1. /\ TypeOK /\ OneOpenPhase /\ NotReady /\ Course /\ Budget /\ Origins /\ Paid
        /\ UNCHANGED <<mvpGenerated, reviewingInitiated, generated, open, implemented,
                       shouldBeGenerating, echo, stopped, build, ready, template, setup, turn>>
        /\ r \notin asked /\ asked' = asked \cup {r}
        /\ pendingUserInputs' = pendingUserInputs \cup {r}
    BY DEF IInv, QueueUserRequest, intent
  <1>2. /\ phasesCounter' \in (-1)..(IF MaxPhases > Recharge THEN MaxPhases ELSE Recharge)
        /\ phasesCounter' > 1 /\ phasesCounter' >= phasesCounter
        /\ phasesCounter' <= phasesCounter + Recharge + 1
    BY <1>1, GenerationAssumption DEF QueueUserRequest, TypeOK
  <1>3. Bought' = Bought + Recharge + 1 /\ Bought \in Nat
    <2>1. IsFiniteSet(asked) /\ Cardinality(asked) \in Nat /\ Bought \in Nat
      BY <1>1, BoughtType
    <2>2. Cardinality(asked') = Cardinality(asked) + 1
      BY <1>1, <2>1, FS_AddElement
    <2>3. Recharge + 1 \in Nat
      BY GenerationAssumption
    <2>4. (Recharge + 1) * (Cardinality(asked) + 1) = (Recharge + 1) * Cardinality(asked) + (Recharge + 1)
      BY <2>1, <2>3, Times
    <2> QED BY <2>1, <2>2, <2>3, <2>4, GenerationAssumption DEF Bought
  <1>4. TypeOK'
    BY <1>1, <1>2 DEF TypeOK
  <1>5. OneOpenPhase' /\ NotReady' /\ Course' /\ Origins'
    BY <1>1 DEF OneOpenPhase, NotReady, Course, Origins
  <1>6. Budget'
    <2>1. phasesCounter' > 1 /\ phasesCounter' > 0 /\ phasesCounter' >= 0
      BY <1>2, GenerationAssumption
    <2> QED BY <2>1 DEF Budget, PendingHasBudget
  <1>7. Paid'
    <2>1. /\ generated \in Int /\ phasesCounter \in Int /\ phasesCounter' \in Int
          /\ Recharge \in Int /\ MaxPhases \in Int /\ Bought \in Int
          /\ generated' \in Int /\ Bought' \in Int
      BY <1>1, <1>2, <1>3, GenerationAssumption DEF TypeOK
    <2>2. /\ phasesCounter' <= phasesCounter + Recharge + 1
          /\ Bought' = Bought + Recharge + 1
      BY <1>1, <1>2, <1>3
    <2>3. (DOMAIN open' = {}) = (DOMAIN open = {}) /\ generated' = generated
      BY <1>1
    <2>4. ASSUME NEW g \in Int, g + phasesCounter <= MaxPhases + Bought
          PROVE  g + phasesCounter' <= MaxPhases + Bought'
      <3>1. PICK c \in Int, d \in Int, m \in Int, k \in Int, b \in Int, e \in Int :
                 /\ c = phasesCounter /\ d = phasesCounter' /\ m = MaxPhases /\ k = Recharge
                 /\ b = Bought /\ e = Bought'
        BY <2>1, Zenon
      <3>2. g + c <= m + b /\ d <= c + k + 1 /\ e = b + k + 1
        BY <2>2, <2>4, <3>1, Zenon
      <3>3. g + d <= m + e
        BY ONLY <3>2, g \in Int, c \in Int, d \in Int, m \in Int, k \in Int, b \in Int, e \in Int, SMT
      <3> QED BY <3>1, <3>3, Zenon
    <2>5. CASE DOMAIN open = {}
      <3>1. generated + phasesCounter' <= MaxPhases + Bought'
        BY <1>1, <2>1, <2>4, <2>5 DEF Paid
      <3> QED BY <2>3, <2>5, <3>1 DEF Paid
    <2>6. CASE DOMAIN open # {}
      <3>1. generated - 1 \in Int
        BY <2>1
      <3>2. generated - 1 + phasesCounter' <= MaxPhases + Bought'
        BY <1>1, <2>4, <2>6, <3>1 DEF Paid
      <3> QED BY <2>3, <2>6, <3>2 DEF Paid
    <2> QED BY <2>5, <2>6
  <1> QED BY <1>4, <1>5, <1>6, <1>7 DEF IInv

-----------------------------------------------------------------------------
(* The actions of a build.                                                   *)

LEMMA AtFacts ==
  ASSUME TypeOK, NEW st \in BuildStages
  PROVE  /\ At(st) \in BuildType /\ At(st).stage = st /\ At(st).phase = build.phase
         /\ At(st).context = {} /\ At(st).final = build.final
  BY DEF TypeOK, At, BuildType

LEMMA EndedFacts ==
  ASSUME TypeOK
  PROVE  /\ Ended \in BuildType /\ Ended.stage = "completing"
         /\ Ended.context = {} /\ Ended.final = FALSE
  <1>1. /\ At("completing") \in BuildType /\ At("completing").context = {}
        /\ At("completing").stage = "completing"
    BY AtFacts DEF BuildStages
  <1>2. 0 \in 0..generated
    BY DEF TypeOK
  <1> QED BY <1>1, <1>2 DEF Ended, BuildType

(* A build that has left its phases behind: any of the last stages. *)
LEMMA LastStagesPreserve ==
  ASSUME IInv, FlagTypes', ready, mvpGenerated' \in BOOLEAN, reviewingInitiated' \in BOOLEAN,
         mvpGenerated => mvpGenerated',
         UNCHANGED <<phasesCounter, generated, open, pendingUserInputs, implemented, ready, asked>>,
         build' \in BuildType', build'.final = FALSE, build'.context = {},
         \/ build'.stage \in {"reviewing", "completing", "idle"}
         \/ /\ build'.stage = "finalizing" /\ mvpGenerated' /\ DOMAIN open = {}
            /\ phasesCounter >= 0
  PROVE  IInv'
  <1>1. TypeOK /\ OneOpenPhase /\ NotReady /\ Course /\ Budget /\ Origins /\ Paid
    BY DEF IInv
  <1>2. TypeOK'
    BY <1>1 DEF TypeOK, FlagTypes, BuildType
  <1>3. OneOpenPhase' /\ NotReady' /\ Course' /\ Origins'
    BY <1>1 DEF OneOpenPhase, NotReady, Course, Origins
  <1>4. Budget' /\ Paid'
    BY <1>1 DEF Budget, PendingHasBudget, Paid, Bought, Phasing
  <1> QED BY <1>2, <1>3, <1>4 DEF IInv

(* The flags in a step of the build that leaves them alone. *)
LEMMA SameFlags ==
  ASSUME TypeOK, UNCHANGED <<intent, around>>
  PROVE  FlagTypes' /\ UNCHANGED <<ready, asked>>
  BY DEF TypeOK, FlagTypes, intent, around

LEMMA ReviewingFacts ==
  ASSUME TypeOK, EnterReviewing
  PROVE  /\ build' \in BuildType /\ build'.final = FALSE /\ build'.context = {}
         /\ build'.stage \in {"reviewing", "completing"}
         /\ reviewingInitiated' \in BOOLEAN
  <1>1. /\ [At("reviewing") EXCEPT !.final = FALSE] \in BuildType
        /\ [At("reviewing") EXCEPT !.final = FALSE].stage = "reviewing"
        /\ [At("reviewing") EXCEPT !.final = FALSE].context = {}
        /\ [At("reviewing") EXCEPT !.final = FALSE].final = FALSE
    <2>1. At("reviewing") \in BuildType /\ At("reviewing").context = {}
          /\ At("reviewing").stage = "reviewing"
      BY AtFacts DEF BuildStages
    <2> QED BY <2>1 DEF BuildType
  <1> QED BY <1>1, EndedFacts DEF EnterReviewing

LEMMA FinalizingFacts ==
  ASSUME TypeOK, EnterFinalizing
  PROVE  /\ build' \in BuildType /\ build'.final \in {FALSE, build.final} /\ build'.context = {}
         /\ build'.stage \in {"finalizing", "reviewing", "completing"}
         /\ build'.stage # "finalizing" => build'.final = FALSE
         /\ mvpGenerated' = TRUE /\ reviewingInitiated' \in BOOLEAN
  <1>1. CASE mvpGenerated
    BY <1>1, ReviewingFacts DEF EnterFinalizing, TypeOK
  <1>2. CASE ~mvpGenerated
    <2>1. At("finalizing") \in BuildType /\ At("finalizing").context = {}
          /\ At("finalizing").stage = "finalizing" /\ At("finalizing").final = build.final
      BY AtFacts DEF BuildStages
    <2>2. 0 \in 0..generated
      BY DEF TypeOK
    <2>3. /\ build' = [At("finalizing") EXCEPT !.phase = 0] /\ mvpGenerated' = TRUE
          /\ reviewingInitiated' = reviewingInitiated
      BY <1>2 DEF EnterFinalizing
    <2>4. /\ build' \in BuildType /\ build'.final = build.final /\ build'.context = {}
          /\ build'.stage = "finalizing"
      BY <2>1, <2>2, <2>3 DEF BuildType
    <2> QED BY <2>3, <2>4 DEF TypeOK
  <1> QED BY <1>1, <1>2

LEMMA LoadTemplatePreserves ==
  ASSUME IInv, LoadTemplate
  PROVE  IInv'
  <1>1. /\ TypeOK /\ OneOpenPhase /\ NotReady /\ Course /\ Budget /\ Origins /\ Paid
        /\ build.stage = "template" /\ build.final = FALSE /\ build \in BuildType
        /\ ~mvpGenerated \/ pendingUserInputs # {}
    BY DEF IInv, LoadTemplate, Course, Phasing, TypeOK, BuildType
  <1>2. UNCHANGED <<mvpGenerated, reviewingInitiated, phasesCounter, pendingUserInputs,
                    implemented, ready, asked, shouldBeGenerating, echo, stopped, setup, turn>>
    BY DEF LoadTemplate, unstarted, intent
  <1>3. FlagTypes'
    <2>1. template' \in BOOLEAN
      BY <1>1 DEF LoadTemplate, TypeOK
    <2> QED BY <1>1, <1>2, <2>1 DEF TypeOK, FlagTypes
  <1>4. CASE LaunchStateMachine(build)
    BY <1>1, <1>2, <1>3, <1>4, LaunchPreserves DEF Origins
  <1>5. CASE ~LaunchStateMachine(build)
    <2>1. build' = [build EXCEPT !.stage = "wedged"] /\ UNCHANGED <<generated, open>>
      BY <1>5 DEF LoadTemplate
    <2>2. /\ build' \in BuildType' /\ build'.stage = "wedged" /\ build'.final = FALSE
          /\ build'.context = build.context
      BY <1>1, <2>1 DEF BuildType, BuildStages, Resting
    <2>3. TypeOK'
      BY <1>1, <1>2, <1>3, <2>1, <2>2 DEF TypeOK, FlagTypes, BuildType
    <2>4. OneOpenPhase' /\ NotReady' /\ Course' /\ Origins'
      BY <1>1, <1>2, <2>1, <2>2 DEF OneOpenPhase, NotReady, Course, Origins, Resting
    <2>5. Budget' /\ Paid'
      BY <1>1, <1>2, <2>1, <2>2 DEF Budget, PendingHasBudget, Paid, Bought, Phasing
    <2> QED BY <2>3, <2>4, <2>5 DEF IInv
  <1> QED BY <1>4, <1>5

LEMMA FetchPreserves ==
  ASSUME IInv, FetchPendingUserRequests
  PROVE  IInv'
  <1>1. /\ TypeOK /\ OneOpenPhase /\ NotReady /\ Course /\ Budget /\ Origins /\ Paid
        /\ build.stage = "planning" /\ pendingUserInputs' = {}
        /\ UNCHANGED <<mvpGenerated, reviewingInitiated, phasesCounter, generated, open, implemented>>
        /\ UNCHANGED <<intent, around>>
    BY DEF IInv, FetchPendingUserRequests
  <1>2. FlagTypes' /\ UNCHANGED <<ready, asked>>
    BY <1>1, SameFlags
  <1>3. /\ build' \in BuildType' /\ build'.stage = "drafting" /\ build'.final = build.final
        /\ build'.context = pendingUserInputs
    <2>1. At("drafting") \in BuildType /\ At("drafting").stage = "drafting"
          /\ At("drafting").final = build.final
      BY <1>1, AtFacts DEF BuildStages, Inferring
    <2>2. pendingUserInputs \in SUBSET Requests
      BY <1>1 DEF TypeOK
    <2> QED BY <1>1, <2>1, <2>2 DEF FetchPendingUserRequests, BuildType
  <1>4. TypeOK'
    BY <1>1, <1>2, <1>3 DEF TypeOK, FlagTypes, BuildType
  <1>5. OneOpenPhase' /\ NotReady' /\ Course' /\ Origins'
    BY <1>1, <1>2, <1>3 DEF OneOpenPhase, NotReady, Course, Origins, Phasing, TypeOK, Resting
  <1>6. Budget' /\ Paid'
    BY <1>1, <1>2, <1>3 DEF Budget, PendingHasBudget, Paid, Bought, Phasing
  <1> QED BY <1>4, <1>5, <1>6 DEF IInv

LEMMA GenerateNextPhasePreserves ==
  ASSUME IInv, GenerateNextPhase
  PROVE  IInv'
  <1>1. /\ TypeOK /\ OneOpenPhase /\ NotReady /\ Course /\ Budget /\ Origins /\ Paid
        /\ build.stage = "drafting" /\ DOMAIN open = {} /\ ready
        /\ UNCHANGED <<phasesCounter, pendingUserInputs, implemented>>
        /\ UNCHANGED <<intent, around>>
    BY DEF IInv, GenerateNextPhase, OneOpenPhase, NotReady, Resting
  <1>2. FlagTypes' /\ UNCHANGED <<ready, asked>>
    BY <1>1, SameFlags
  <1>3. ASSUME NEW q \in Phase, q.from = build.context, AddPhase(q),
               build' = [At("preparing") EXCEPT !.phase = generated + 1],
               UNCHANGED <<mvpGenerated, reviewingInitiated>>
        PROVE  IInv'
    <2>1. /\ generated' = generated + 1 /\ generated' \in Nat
          /\ DOMAIN open' = {generated'} /\ open'[generated'] = q
      BY <1>1, <1>3, AddFacts
    <2>2. /\ build' \in BuildType' /\ build'.stage = "preparing" /\ build'.phase = generated'
          /\ build'.final = build.final /\ build'.context = {}
      <3>1. /\ At("preparing") \in BuildType /\ At("preparing").stage = "preparing"
            /\ At("preparing").final = build.final /\ At("preparing").context = {}
        BY <1>1, AtFacts DEF BuildStages
      <3> QED BY <1>3, <2>1, <3>1 DEF BuildType
    <2>3. TypeOK'
      BY <1>1, <1>2, <1>3, <2>1, <2>2 DEF TypeOK, FlagTypes, BuildType
    <2>4. OneOpenPhase' /\ NotReady' /\ Course' /\ Origins'
      BY <1>1, <1>2, <1>3, <2>1, <2>2 DEF OneOpenPhase, NotReady, Course, Origins, Phasing
    <2>5. Budget'
      BY <1>1, <1>2, <1>3, <2>1, <2>2 DEF Budget, PendingHasBudget, Phasing, TypeOK
    <2>6. Paid'
      BY <1>1, <1>2, <1>3, <2>1, <2>2, BoughtType, GenerationAssumption DEF Paid, Bought, TypeOK
    <2> QED BY <2>3, <2>4, <2>5, <2>6 DEF IInv
  <1>4. ASSUME build.final, EnterReviewing, UNCHANGED <<mvpGenerated, generated, open>>
        PROVE  IInv'
    <2>1. mvpGenerated' \in BOOLEAN /\ build' \in BuildType'
      BY <1>1, <1>4, ReviewingFacts DEF TypeOK, BuildType
    <2> QED BY <1>1, <1>2, <1>4, <2>1, ReviewingFacts, LastStagesPreserve
  <1>5. ASSUME ~build.final, EnterFinalizing, UNCHANGED <<generated, open>>
        PROVE  IInv'
    <2>1. build' \in BuildType' /\ build'.final = FALSE /\ phasesCounter >= 0
      BY <1>1, <1>5, FinalizingFacts DEF TypeOK, BuildType, Budget, Phasing
    <2> QED BY <1>1, <1>2, <1>5, <2>1, FinalizingFacts, LastStagesPreserve
  <1>6. ASSUME NEW n \in Concepts, NEW last \in BOOLEAN,
               AddPhase([name |-> n, last |-> last, from |-> build.context]),
               build' = [At("preparing") EXCEPT !.phase = generated + 1],
               UNCHANGED <<mvpGenerated, reviewingInitiated>>
        PROVE  IInv'
    <2>1. build.context \in SUBSET Requests
      BY <1>1 DEF TypeOK
    <2>2. [name |-> n, last |-> last, from |-> build.context] \in Phase
      BY <2>1, PhaseIn, Zenon
    <2>3. [name |-> n, last |-> last, from |-> build.context].from = build.context
      OBVIOUS
    <2> QED BY <1>3, <1>6, <2>2, <2>3, Zenon
  <1> QED BY <1>4, <1>5, <1>6, Zenon DEF GenerateNextPhase

LEMMA ImplementationPreserves ==
  ASSUME IInv, BeginImplementation \/ SaveAndDeploy
  PROVE  IInv'
  <1>1. /\ TypeOK /\ OneOpenPhase /\ NotReady /\ Course /\ Budget /\ Origins /\ Paid
        /\ build.stage \in {"preparing", "writing"}
        /\ UNCHANGED <<mvpGenerated, reviewingInitiated, phasesCounter, generated, open,
                       pendingUserInputs, implemented>>
        /\ UNCHANGED <<intent, around>>
    BY DEF IInv, BeginImplementation, SaveAndDeploy, progress
  <1>2. FlagTypes' /\ UNCHANGED <<ready, asked>>
    BY <1>1, SameFlags
  <1>3. /\ build' \in BuildType' /\ build'.stage \in {"writing", "deploying"}
        /\ build'.phase = build.phase /\ build'.final = build.final /\ build'.context = {}
    <2>1. \E st \in {"writing", "deploying"} : st \in BuildStages /\ build' = At(st)
      BY DEF BeginImplementation, SaveAndDeploy, BuildStages, Inferring
    <2> QED BY <1>1, <2>1, AtFacts DEF BuildType
  <1>4. TypeOK'
    BY <1>1, <1>2, <1>3 DEF TypeOK, FlagTypes, BuildType
  <1>5. OneOpenPhase' /\ NotReady' /\ Course' /\ Origins'
    BY <1>1, <1>2, <1>3 DEF OneOpenPhase, NotReady, Course, Origins, Phasing, Resting
  <1>6. Budget' /\ Paid'
    BY <1>1, <1>2, <1>3 DEF Budget, PendingHasBudget, Paid, Bought, Phasing
  <1> QED BY <1>4, <1>5, <1>6 DEF IInv

(* The phase completed is the only one open, so marking it by name leaves none; *)
(* the budget it leaves is one phase if requests wait or another one is planned. *)
LEMMA MarkPhaseCompletePreserves ==
  ASSUME IInv, MarkPhaseComplete
  PROVE  IInv'
  <1> DEFINE named == {i \in DOMAIN open : open[i].name = open[build.phase].name}
             enough == (open[build.phase].last \/ phasesCounter' <= 0) /\ pendingUserInputs = {}
  <1>1. /\ TypeOK /\ OneOpenPhase /\ NotReady /\ Course /\ Budget /\ Origins /\ Paid
        /\ build.stage = "deploying" /\ build.phase \in DOMAIN open /\ ready
        /\ UNCHANGED <<generated, pendingUserInputs>>
        /\ UNCHANGED <<intent, around>>
        /\ phasesCounter \in Int /\ generated \in Nat /\ generated' \in Nat
        /\ phasesCounter' = phasesCounter - 1 /\ phasesCounter' \in Int
    BY DEF IInv, MarkPhaseComplete, OneOpenPhase, NotReady, Resting, TypeOK
  <1>2. DOMAIN open = {build.phase} /\ build.phase = generated /\ generated # 0
    BY <1>1 DEF OneOpenPhase, TypeOK
  <1>3. DOMAIN open' = {} /\ implemented' \subseteq asked
    <2>1. named = DOMAIN open
      BY <1>2
    <2>2. /\ open' = [i \in DOMAIN open \ named |-> open[i]]
          /\ implemented' = implemented \cup UNION {open[i].from : i \in named}
      BY DEF MarkPhaseComplete
    <2>3. UNION {open[i].from : i \in named} \subseteq asked
      BY <1>1, Zenon DEF Origins
    <2> QED BY <1>1, <2>1, <2>2, <2>3 DEF TypeOK
  <1>4. FlagTypes' /\ UNCHANGED <<ready, asked>>
    BY <1>1, SameFlags
  <1>5. /\ pendingUserInputs # {} => phasesCounter' > 0
        /\ ~build.final => phasesCounter' >= 0
        /\ phasesCounter' >= -1
        /\ phasesCounter' \in (-1)..CounterTop
    BY <1>1, <1>2, GenerationAssumption DEF Budget, Phasing, TypeOK, CounterTop
  <1>6. ASSUME build' \in BuildType', build'.context = {}, build'.final = FALSE,
               mvpGenerated' \in BOOLEAN, reviewingInitiated' \in BOOLEAN,
               \/ build'.stage \in {"reviewing", "completing"} /\ mvpGenerated'
               \/ build'.stage = "finalizing" /\ mvpGenerated' /\ phasesCounter' >= 0
               \/ build'.stage = "planning" /\ phasesCounter' > 0
        PROVE  IInv'
    <2>1. TypeOK'
      BY <1>1, <1>3, <1>4, <1>5, <1>6 DEF TypeOK, FlagTypes, BuildType, CounterTop
    <2>2. OneOpenPhase' /\ NotReady' /\ Course' /\ Origins'
      BY <1>1, <1>3, <1>4, <1>6 DEF OneOpenPhase, NotReady, Course, Origins, Phasing
    <2>3. Budget'
      BY <1>1, <1>2, <1>3, <1>5, <1>6 DEF Budget, PendingHasBudget, Phasing
    <2>4. Paid'
      BY <1>1, <1>2, <1>3, <1>4, BoughtType, GenerationAssumption DEF Paid, Bought
    <2> QED BY <2>1, <2>2, <2>3, <2>4 DEF IInv
  <1>7. CASE build.final /\ EnterReviewing /\ UNCHANGED mvpGenerated
    <2>1. mvpGenerated' \in BOOLEAN /\ mvpGenerated' /\ build' \in BuildType'
      BY <1>1, <1>7, ReviewingFacts DEF Course, TypeOK, BuildType
    <2> QED BY <1>1, <1>6, <1>7, <2>1, ReviewingFacts
  <1>8. CASE ~build.final /\ EnterFinalizing
    <2>1. mvpGenerated' \in BOOLEAN /\ build' \in BuildType' /\ build'.final = FALSE
      BY <1>1, <1>8, FinalizingFacts DEF TypeOK, BuildType
    <2> QED BY <1>1, <1>5, <1>6, <1>8, <2>1, FinalizingFacts
  <1>9. CASE /\ ~build.final /\ ~enough
             /\ build' = [At("planning") EXCEPT !.phase = 0]
             /\ UNCHANGED <<mvpGenerated, reviewingInitiated>>
    <2>1. /\ build' \in BuildType' /\ build'.stage = "planning" /\ build'.context = {}
          /\ build'.final = FALSE
      <3>1. /\ At("planning") \in BuildType /\ At("planning").stage = "planning"
            /\ At("planning").context = {} /\ At("planning").final = build.final
        BY <1>1, AtFacts DEF BuildStages
      <3>2. 0 \in 0..generated /\ build.final = FALSE
        BY <1>1, <1>9 DEF TypeOK
      <3> QED BY <1>1, <1>9, <3>1, <3>2 DEF BuildType
    <2>2. phasesCounter' > 0
      BY <1>1, <1>5, <1>9
    <2> QED BY <1>1, <1>6, <1>9, <2>1, <2>2 DEF TypeOK
  <1> QED BY <1>7, <1>8, <1>9, Zenon DEF MarkPhaseComplete

LEMMA FinalizePreserves ==
  ASSUME IInv, Finalize
  PROVE  IInv'
  <1>1. /\ TypeOK /\ OneOpenPhase /\ NotReady /\ Course /\ Budget /\ Origins /\ Paid
        /\ build.stage = "finalizing" /\ ready /\ mvpGenerated /\ DOMAIN open = {}
        /\ UNCHANGED <<mvpGenerated, phasesCounter, generated, open, pendingUserInputs,
                       implemented>>
        /\ UNCHANGED <<intent, around>>
    BY DEF IInv, Finalize, NotReady, Resting, Course
  <1>2. FlagTypes' /\ UNCHANGED <<ready, asked>>
    BY <1>1, SameFlags
  <1>3. CASE EnterReviewing
    <2>1. mvpGenerated' \in BOOLEAN /\ build' \in BuildType'
      BY <1>1, <1>3, ReviewingFacts DEF TypeOK, BuildType
    <2> QED BY <1>1, <1>2, <1>3, <2>1, ReviewingFacts, LastStagesPreserve
  <1>4. CASE build' = [At("planning") EXCEPT !.final = TRUE] /\ UNCHANGED reviewingInitiated
    <2>1. /\ build' \in BuildType' /\ build'.stage = "planning" /\ build'.context = {}
          /\ build'.final = TRUE
      <3>1. /\ At("planning") \in BuildType /\ At("planning").stage = "planning"
            /\ At("planning").context = {}
        BY <1>1, AtFacts DEF BuildStages
      <3> QED BY <1>1, <1>4, <3>1 DEF BuildType
    <2>2. TypeOK'
      BY <1>1, <1>2, <1>4, <2>1 DEF TypeOK, FlagTypes, BuildType
    <2>3. OneOpenPhase' /\ NotReady' /\ Course' /\ Origins'
      BY <1>1, <1>2, <2>1 DEF OneOpenPhase, NotReady, Course, Origins, Phasing
    <2>4. Budget' /\ Paid'
      BY <1>1, <1>2, <2>1 DEF Budget, PendingHasBudget, Paid, Bought, Phasing
    <2> QED BY <2>2, <2>3, <2>4 DEF IInv
  <1> QED BY <1>3, <1>4 DEF Finalize

(* The steps that end a build, or send it to the review. *)
LEMMA EndingsPreserve ==
  ASSUME IInv, Review \/ InferenceFails \/ NotPreviewable
  PROVE  IInv'
  <1>1. /\ TypeOK /\ NotReady /\ build.stage \in {"reviewing", "deploying"} \cup Inferring
        /\ ready /\ mvpGenerated' \in BOOLEAN /\ (mvpGenerated => mvpGenerated')
        /\ UNCHANGED <<phasesCounter, generated, open, pendingUserInputs, implemented>>
        /\ UNCHANGED <<intent, around>>
    BY DEF IInv, TypeOK, NotReady, Resting, Inferring, Review, InferenceFails, NotPreviewable,
           progress
  <1>2. FlagTypes' /\ UNCHANGED <<ready, asked>>
    BY <1>1, SameFlags
  <1>3. CASE EnterReviewing
    <2>1. build' \in BuildType'
      BY <1>1, <1>3, ReviewingFacts DEF BuildType
    <2> QED BY <1>1, <1>2, <1>3, <2>1, ReviewingFacts, LastStagesPreserve
  <1>4. ASSUME build' = Ended \/ build' = [Ended EXCEPT !.cut = TRUE],
               reviewingInitiated' = reviewingInitiated
        PROVE  IInv'
    <2>1. /\ build' \in BuildType' /\ build'.stage = "completing" /\ build'.final = FALSE
          /\ build'.context = {} /\ reviewingInitiated' \in BOOLEAN
      BY <1>1, <1>4, EndedFacts DEF TypeOK, BuildType
    <2> QED BY <1>1, <1>2, <2>1, LastStagesPreserve
  <1> QED BY <1>3, <1>4 DEF Review, InferenceFails, NotPreviewable, Fail, progress

LEMMA CompletePreserves ==
  ASSUME IInv, GenerationComplete
  PROVE  IInv'
  <1>1. /\ TypeOK /\ OneOpenPhase /\ NotReady /\ Course /\ Budget /\ Origins /\ Paid
        /\ UNCHANGED <<mvpGenerated, reviewingInitiated, phasesCounter, generated, open,
                       pendingUserInputs, implemented, ready, asked, template, setup, turn, stopped>>
        /\ build' = IdleBuild
    BY DEF IInv, GenerationComplete, progress, around
  <1>2. FlagTypes'
    BY <1>1, GenerationAssumption
       DEF GenerationComplete, SetShouldBeGenerating, TypeOK, FlagTypes
  <1>3. /\ build' \in BuildType' /\ build'.stage = "idle" /\ build'.final = FALSE
        /\ build'.context = {}
    <2>1. 0 \in 0..generated' /\ "idle" \in BuildStages
      BY <1>1 DEF TypeOK, BuildStages, Resting
    <2> QED BY <1>1, <2>1 DEF IdleBuild, BuildType
  <1>4. TypeOK'
    BY <1>1, <1>2, <1>3 DEF TypeOK, FlagTypes, BuildType
  <1>5. OneOpenPhase' /\ NotReady' /\ Course' /\ Origins'
    BY <1>1, <1>3 DEF OneOpenPhase, NotReady, Course, Origins, Resting
  <1>6. Budget' /\ Paid'
    BY <1>1, <1>3 DEF Budget, PendingHasBudget, Paid, Bought, Phasing
  <1> QED BY <1>4, <1>5, <1>6 DEF IInv

-----------------------------------------------------------------------------
(* The invariant, and what follows from it.                                  *)

LEMMA NextPreserves == IInv /\ [Next]_vars => IInv'
  <1> SUFFICES ASSUME IInv, [Next]_vars PROVE IInv'
    OBVIOUS
  <1>1. CASE UserGenerates \/ ClientEchoes \/ UserResumes \/ SetupDone
    BY <1>1, StartersPreserve
  <1>2. CASE UserStops \/ ClientReconnects \/ SetupFails
    BY <1>2, AroundPreserves
  <1>3. CASE Initialize \/ Restart
    BY <1>3, InitializePreserves, RestartPreserves
  <1>4. ASSUME NEW t \in Turns, TurnStep(t)
        PROVE  IInv'
    <2>1. CASE BeginTurn(t) \/ StartDeepDebug(t) \/ EndDeepDebug(t) \/ TurnFails(t)
      BY <2>1, AroundPreserves
    <2>2. CASE \E r \in Requests : QueueUserRequest(t, r)
      BY <2>2, QueuePreserves
    <2>3. CASE EndTurn(t)
      BY <2>3, StartersPreserve
    <2> QED BY <1>4, <2>1, <2>2, <2>3 DEF TurnStep
  <1>5. CASE BuildStep
    BY <1>5, LoadTemplatePreserves, FetchPreserves, GenerateNextPhasePreserves,
       ImplementationPreserves, MarkPhaseCompletePreserves, FinalizePreserves,
       EndingsPreserve, CompletePreserves
       DEF BuildStep
  <1>6. CASE UNCHANGED vars
    <2>1. UNCHANGED <<progress, ready, asked>> /\ UNCHANGED build
      BY <1>6 DEF vars, around
    <2>2. FlagTypes'
      BY <1>6 DEF vars, intent, around, IInv, TypeOK, FlagTypes
    <2> QED BY <2>1, <2>2, AsidePreserves
  <1> QED BY <1>1, <1>2, <1>3, <1>4, <1>5, <1>6 DEF Next

(* The parts of the invariant hold together, whatever is sent, stopped, fails *)
(* or restarts (the whole of base.ts generateAllFiles and phasic.ts).         *)
THEOREM Inductive == Spec => []IInv
  <1>1. Init => IInv
    BY InitIInv
  <1>2. IInv /\ [Next]_vars => IInv'
    BY NextPreserves
  <1> QED BY <1>1, <1>2, PTL DEF Spec

(* Every variable keeps its type: in particular phasesCounter stays between -1 *)
(* and the larger of MAX_PHASES and the recharge.                              *)
THEOREM TypeCorrect == Spec => []TypeOK
  <1>1. IInv => TypeOK
    BY DEF IInv
  <1> QED BY <1>1, Inductive, PTL

(* launchStateMachine, createNewIncompletePhase, markPhaseComplete: no phase but *)
(* the last generated is ever incomplete, and it is the one being implemented.   *)
THEOREM NoPhaseLeftBehind == Spec => []OneOpenPhase
  <1>1. IInv => OneOpenPhase
    BY DEF IInv
  <1> QED BY <1>1, Inductive, PTL

(* queueUserRequest's recharge is enough: a request that waits always finds the *)
(* counter above zero, so that the phase that plans it is not the last allowed. *)
THEOREM RequestsArePaidFor == Spec => []PendingHasBudget
  <1>1. IInv => PendingHasBudget
    BY DEF IInv, Budget
  <1> QED BY <1>1, Inductive, PTL

(* MAX_PHASES and the recharges bound the phases of a project, however often its *)
(* builds are stopped, fail, are restarted or started again.                     *)
THEOREM NoRunawayBuild == Spec => []PhasesBounded
  <1>1. IInv => PhasesBounded
    <2> SUFFICES ASSUME IInv PROVE PhasesBounded
      OBVIOUS
    <2>1. /\ generated \in Int /\ phasesCounter \in Int /\ phasesCounter >= -1
          /\ MaxPhases \in Int /\ Paid
      BY GenerationAssumption DEF IInv, TypeOK
    <2>2. Bought \in Int
      BY BoughtType DEF IInv
    <2>3. \/ generated + phasesCounter <= MaxPhases + Bought
          \/ generated - 1 + phasesCounter <= MaxPhases + Bought
      BY <2>1 DEF Paid
    <2>4. generated <= MaxPhases + 2 + Bought
      BY ONLY <2>1, <2>2, <2>3
    <2> QED BY <2>4 DEF PhasesBounded, Bought
  <1> QED BY <1>1, Inductive, PTL

-----------------------------------------------------------------------------
(* Requests that are not lost.                                               *)

(* What a step must do to keep every request that no model holds: leave it in  *)
(* the queue or hand it on, and leave an open phase or implement what it is for. *)
LEMMA KeepsRequests ==
  ASSUME pendingUserInputs \subseteq pendingUserInputs' \cup build'.context,
         implemented \subseteq implemented',
         \A i \in DOMAIN open :
            \/ i \in DOMAIN open' /\ open'[i] = open[i]
            \/ open[i].from \subseteq implemented',
         NEW r, Kept(r), r \notin build.context
  PROVE  Kept(r)'
  <1>1. CASE r \in pendingUserInputs \cup implemented
    BY <1>1 DEF Kept
  <1>2. CASE r \in UNION {open[i].from : i \in DOMAIN open}
    <2>1. PICK i \in DOMAIN open : r \in open[i].from
      BY <1>2
    <2>2. CASE i \in DOMAIN open' /\ open'[i] = open[i]
      BY <2>1, <2>2 DEF Kept
    <2>3. CASE open[i].from \subseteq implemented'
      BY <2>1, <2>3 DEF Kept
    <2> QED BY <2>1, <2>2, <2>3
  <1> QED BY <1>1, <1>2 DEF Kept

LEMMA AddKeeps ==
  ASSUME TypeOK, NEW p, AddPhase(p)
  PROVE  \A i \in DOMAIN open : i \in DOMAIN open' /\ open'[i] = open[i]
  <1>1. generated + 1 \notin DOMAIN open
    BY DEF TypeOK
  <1> QED BY <1>1 DEF AddPhase

LEMMA StarterKeeps ==
  ASSUME TypeOK, NEW c, GenerateAllFiles(c)
  PROVE  \A i \in DOMAIN open : i \in DOMAIN open' /\ open'[i] = open[i]
  BY AddKeeps DEF GenerateAllFiles, LaunchStateMachine

LEMMA StepKeepsRequests ==
  ASSUME IInv, [Next]_vars, NEW r \in asked, Kept(r), r \notin build.context
  PROVE  Kept(r)'
  <1>1. TypeOK /\ OneOpenPhase /\ NotReady /\ Origins
    BY DEF IInv
  <1>2. ASSUME UNCHANGED <<pendingUserInputs, implemented>>,
               \A i \in DOMAIN open : i \in DOMAIN open' /\ open'[i] = open[i]
        PROVE  Kept(r)'
    BY <1>2, KeepsRequests
  <1>3. CASE UserGenerates \/ ClientEchoes \/ UserResumes \/ SetupDone
             \/ \E t \in Turns : EndTurn(t)
    <2>1. UNCHANGED unstarted
      BY <1>3 DEF UserGenerates, ClientEchoes, GenerateAll, UserResumes, SetupDone, EndTurn
    <2>2. \/ UNCHANGED open
          \/ \E c \in BOOLEAN : GenerateAllFiles(c)
      BY <1>3 DEF UserGenerates, ClientEchoes, GenerateAll, UserResumes, SetupDone, EndTurn,
                  OnlyRaiseFlag
    <2>3. \A i \in DOMAIN open : i \in DOMAIN open' /\ open'[i] = open[i]
      BY <1>1, <2>2, StarterKeeps
    <2> QED BY <1>2, <2>1, <2>3 DEF unstarted
  <1>4. CASE LoadTemplate
    <2>1. \A i \in DOMAIN open : i \in DOMAIN open' /\ open'[i] = open[i]
      BY <1>1, <1>4, AddKeeps DEF LoadTemplate, LaunchStateMachine
    <2> QED BY <1>2, <1>4, <2>1 DEF LoadTemplate, unstarted
  <1>5. CASE GenerateNextPhase
    <2>1. \A i \in DOMAIN open : i \in DOMAIN open' /\ open'[i] = open[i]
      BY <1>1, <1>5, AddKeeps DEF GenerateNextPhase
    <2> QED BY <1>2, <1>5, <2>1 DEF GenerateNextPhase
  <1>6. CASE Initialize
    <2>1. DOMAIN open = {}
      <3>1. DOMAIN open \subseteq 1..0
        BY <1>1, <1>6 DEF TypeOK, NotReady, Initialize
      <3>2. \A i : i \notin 1..0
        OBVIOUS
      <3> QED BY ONLY <3>1, <3>2
    <2> QED BY <1>2, <1>6, <2>1 DEF Initialize
  <1>7. CASE FetchPendingUserRequests
    <2>1. /\ build'.context = pendingUserInputs /\ UNCHANGED <<open, implemented>>
      BY <1>1, <1>7, AtFacts DEF FetchPendingUserRequests, BuildType, BuildStages, Inferring
    <2> QED BY <2>1, KeepsRequests
  <1>8. CASE MarkPhaseComplete
    <2> DEFINE named == {i \in DOMAIN open : open[i].name = open[build.phase].name}
    <2>1. /\ open' = [i \in DOMAIN open \ named |-> open[i]]
          /\ implemented' = implemented \cup UNION {open[i].from : i \in named}
          /\ UNCHANGED pendingUserInputs
      BY <1>8 DEF MarkPhaseComplete
    <2>2. ASSUME NEW i \in DOMAIN open
          PROVE  \/ i \in DOMAIN open' /\ open'[i] = open[i]
                 \/ open[i].from \subseteq implemented'
      <3>1. CASE i \in named
        BY <2>1, <3>1, Zenon
      <3>2. CASE i \notin named
        BY <2>1, <3>2
      <3> QED BY <3>1, <3>2
    <2>3. implemented \subseteq implemented'
      BY <2>1
    <2> QED BY <2>1, <2>2, <2>3, KeepsRequests
  <1>9. CASE \E t \in Turns, q \in Requests : QueueUserRequest(t, q)
    <2>1. pendingUserInputs \subseteq pendingUserInputs' /\ UNCHANGED <<open, implemented>>
      BY <1>9 DEF QueueUserRequest
    <2> QED BY <2>1, KeepsRequests
  <1>10. ASSUME UNCHANGED <<pendingUserInputs, implemented, open>>
         PROVE  Kept(r)'
    BY <1>2, <1>10
  <1>11. CASE \/ UserStops \/ ClientReconnects \/ SetupFails \/ Restart \/ UNCHANGED vars
              \/ \E t \in Turns : \/ BeginTurn(t) \/ StartDeepDebug(t) \/ EndDeepDebug(t)
                                  \/ TurnFails(t)
    BY <1>10, <1>11 DEF UserStops, ClientReconnects, SetupFails, Restart, BeginTurn,
                        StartDeepDebug, EndDeepDebug, TurnFails, progress, vars
  <1>12. CASE \/ BeginImplementation \/ SaveAndDeploy \/ Finalize \/ Review \/ InferenceFails
              \/ NotPreviewable \/ GenerationComplete
    BY <1>10, <1>12 DEF BeginImplementation, SaveAndDeploy, Finalize, Review, InferenceFails,
                        NotPreviewable, GenerationComplete, progress
  <1> QED
    BY <1>3, <1>4, <1>5, <1>6, <1>7, <1>8, <1>9, <1>11, <1>12, Zenon DEF Next, TurnStep, BuildStep

(* Stops, failures, restarts and new builds lose no request that waits in the   *)
(* queue, belongs to an open phase or is implemented; only one that is with the *)
(* model that plans the next phase can be lost (executePhaseGeneration).         *)
THEOREM NoRequestForgotten == Spec => RequestsSurvive
  <1>1. IInv /\ [Next]_vars
        => [\A r \in asked : Kept(r) /\ r \notin build.context => Kept(r)']_vars
    BY StepKeepsRequests
  <1> QED BY <1>1, Inductive, PTL DEF Spec, RequestsSurvive

-----------------------------------------------------------------------------
(* The agent implements PhasePlan.                                           *)

(* A planner holds requests only while it drafts: no other stage hands any on. *)
Handed == build.context # {} => build.stage = "drafting"

requests == <<asked, pendingUserInputs, implemented, generated, phasesCounter, open>>

LEMMA FinalType == FinalLeft \in BOOLEAN /\ FinalLeft' \in BOOLEAN
  BY DEF FinalLeft

(* What leaves the build at its stage, or the planner without requests. *)
LEMMA StayMaps ==
  ASSUME Handed, UNCHANGED <<requests, mvpGenerated>>,
         build'.stage = build.stage, build'.context = build.context, build'.final = build.final
  PROVE  Handed' /\ [Plan!Next]_(Plan!vars)
  <1>1. UNCHANGED <<asked, pendingUserInputs, implemented, generated, phasesCounter, open,
                    mvpGenerated>>
    BY DEF requests
  <1>2. FinalLeft' = FinalLeft
    BY <1>1 DEF FinalLeft
  <1>3. UNCHANGED Plan!vars
    BY <1>1, <1>2 DEF Plan!vars, PhaseOpen, PhaseFrom
  <1> QED BY <1>3 DEF Handed

LEMMA DropMaps ==
  ASSUME UNCHANGED requests, build'.context = {}, FinalLeft' => FinalLeft
  PROVE  Handed' /\ Plan!Next
  <1>1. UNCHANGED <<asked, pendingUserInputs, implemented, generated, phasesCounter, PhaseOpen,
                    PhaseFrom>>
    BY DEF requests, PhaseOpen, PhaseFrom
  <1>2. Plan!GivesUpFinal
    BY FinalType DEF Plan!GivesUpFinal
  <1>3. Plan!Drop
    BY <1>1, <1>2 DEF Plan!Drop
  <1> QED BY <1>3 DEF Handed, Plan!Next

LEMMA BeginMaps ==
  ASSUME TypeOK, DOMAIN open = {}, NEW q \in Phase, q.from = build.context, AddPhase(q),
         phasesCounter > 0 \/ (phasesCounter = 0 /\ FinalLeft),
         UNCHANGED <<asked, pendingUserInputs, implemented, phasesCounter>>,
         build'.context = {}, FinalLeft' => FinalLeft
  PROVE  Handed' /\ Plan!Next
  <1>1. /\ generated' = generated + 1
        /\ DOMAIN open' = {generated'} /\ open'[generated'] = q
    BY AddFacts
  <1>2. ~PhaseOpen /\ PhaseOpen' = TRUE /\ PhaseFrom' = build.context
    BY <1>1 DEF PhaseOpen, PhaseFrom
  <1>3. Plan!GivesUpFinal
    BY FinalType DEF Plan!GivesUpFinal
  <1>4. Plan!Begin
    BY <1>1, <1>2, <1>3 DEF Plan!Begin
  <1> QED BY <1>4 DEF Handed, Plan!Next

(* launchStateMachine begins a phase only when it is the first. *)
LEMMA LaunchMaps ==
  ASSUME IInv, build.stage \in {"idle", "template"}, build.context = {},
         NEW b \in BuildType, b.final = FALSE, b.context = {},
         ~mvpGenerated \/ pendingUserInputs # {},
         LaunchStateMachine(b),
         UNCHANGED <<mvpGenerated, phasesCounter, pendingUserInputs, implemented, asked>>
  PROVE  Handed' /\ Plan!Next
  <1>0. TypeOK /\ phasesCounter \in Int /\ phasesCounter > 0
    BY DEF IInv, TypeOK, Budget, PendingHasBudget
  <1>1. /\ build'.context = {} /\ build'.final = FALSE
        /\ build'.stage \in {"preparing", "planning", "completing"}
    <2>1. \/ \E i : build' = [b EXCEPT !.stage = "preparing", !.phase = i]
          \/ build' = [b EXCEPT !.stage = "planning"]
          \/ build' = [b EXCEPT !.stage = "completing"]
      BY Zenon DEF LaunchStateMachine
    <2>2. ASSUME NEW i, build' = [b EXCEPT !.stage = "preparing", !.phase = i]
          PROVE  build'.context = {} /\ build'.final = FALSE /\ build'.stage = "preparing"
      BY <2>2 DEF BuildType
    <2>3. ASSUME NEW st \in {"planning", "completing"}, build' = [b EXCEPT !.stage = st]
          PROVE  build'.context = {} /\ build'.final = FALSE /\ build'.stage = st
      BY <2>3 DEF BuildType
    <2> QED BY <2>1, <2>2, <2>3, Zenon
  <1>2. FinalLeft' => FinalLeft
    BY <1>1 DEF FinalLeft
  <1>3. CASE UNCHANGED <<generated, open>>
    BY <1>1, <1>2, <1>3, DropMaps DEF requests
  <1>4. ASSUME NEW n \in Concepts, NEW last \in BOOLEAN, generated = 0,
               AddPhase([name |-> n, last |-> last, from |-> {}])
        PROVE  Handed' /\ Plan!Next
    <2>1. DOMAIN open = {}
      <3>1. DOMAIN open \subseteq 1..0
        BY <1>0, <1>4 DEF TypeOK
      <3>2. \A i : i \notin 1..0
        OBVIOUS
      <3> QED BY ONLY <3>1, <3>2
    <2>2. PICK q \in Phase : q = [name |-> n, last |-> last, from |-> {}]
      BY PhaseIn, Zenon
    <2>3. q.from = build.context /\ AddPhase(q)
      BY <1>4, <2>2
    <2> QED BY <1>0, <1>1, <1>2, <2>1, <2>3, BeginMaps
  <1> QED BY <1>3, <1>4, Zenon DEF LaunchStateMachine

LEMMA StarterMaps ==
  ASSUME IInv, Handed, build.stage = "idle", NEW c \in BOOLEAN, GenerateAllFiles(c),
         UNCHANGED unstarted
  PROVE  Handed' /\ [Plan!Next]_(Plan!vars)
  <1> DEFINE b == [IdleBuild EXCEPT !.clears = c]
             done == mvpGenerated /\ pendingUserInputs = {}
  <1>0. /\ TypeOK /\ build.context = {}
        /\ UNCHANGED <<mvpGenerated, phasesCounter, pendingUserInputs, implemented, asked>>
    BY DEF IInv, Handed, unstarted
  <1>1. b \in BuildType /\ b.final = FALSE /\ b.context = {}
    <2>1. "idle" \in BuildStages /\ 0 \in 0..generated
      BY <1>0 DEF TypeOK, BuildStages, Resting
    <2>2. IdleBuild \in BuildType /\ IdleBuild.final = FALSE /\ IdleBuild.context = {}
      BY <2>1 DEF IdleBuild, BuildType
    <2> QED BY <2>2 DEF BuildType
  <1>2. CASE done
    <2>1. UNCHANGED <<build, generated, open>>
      BY <1>2 DEF GenerateAllFiles
    <2> QED BY <1>0, <2>1, StayMaps DEF requests
  <1>3. CASE ~done /\ template
    <2>1. LaunchStateMachine(b)
      BY <1>3 DEF GenerateAllFiles
    <2> QED BY <1>0, <1>1, <1>3, <2>1, LaunchMaps
  <1>4. CASE ~done /\ ~template
    <2>1. build' = [b EXCEPT !.stage = "template"] /\ UNCHANGED <<generated, open>>
      BY <1>4 DEF GenerateAllFiles
    <2>2. build'.context = {} /\ build'.stage = "template"
      BY <1>1, <2>1 DEF BuildType
    <2>3. FinalLeft' => FinalLeft
      BY <1>0, <2>2 DEF FinalLeft
    <2> QED BY <1>0, <2>1, <2>2, <2>3, DropMaps DEF requests
  <1> QED BY <1>2, <1>3, <1>4

LEMMA StartersMap ==
  ASSUME IInv, Handed,
         \/ UserGenerates \/ ClientEchoes \/ UserResumes \/ SetupDone
         \/ \E t \in Turns : EndTurn(t)
  PROVE  Handed' /\ [Plan!Next]_(Plan!vars)
  <1>1. UNCHANGED unstarted
    BY DEF UserGenerates, ClientEchoes, GenerateAll, UserResumes, SetupDone, EndTurn
  <1>2. \/ UNCHANGED <<build, generated, open>>
        \/ build.stage = "idle" /\ \E c \in BOOLEAN : GenerateAllFiles(c)
    BY DEF UserGenerates, ClientEchoes, GenerateAll, UserResumes, SetupDone, EndTurn,
           OnlyRaiseFlag, isCodeGenerating
  <1>3. CASE UNCHANGED <<build, generated, open>>
    BY <1>1, <1>3, StayMaps DEF unstarted, requests
  <1> QED BY <1>1, <1>2, <1>3, StarterMaps

LEMMA AroundMaps ==
  ASSUME IInv, Handed,
         \/ UserStops \/ ClientReconnects \/ SetupFails \/ Initialize \/ UNCHANGED vars
         \/ \E t \in Turns : BeginTurn(t) \/ StartDeepDebug(t) \/ EndDeepDebug(t) \/ TurnFails(t)
  PROVE  Handed' /\ [Plan!Next]_(Plan!vars)
  <1>1. TypeOK /\ NotReady
    BY DEF IInv
  <1>2. /\ build'.stage = build.stage /\ build'.context = build.context
        /\ build'.final = build.final
    <2>1. CASE UserStops
      BY <1>1, <2>1 DEF UserStops, TypeOK
    <2>2. CASE ~UserStops
      <3>1. UNCHANGED build
        BY <2>2 DEF ClientReconnects, SetupFails, Initialize, BeginTurn, StartDeepDebug,
                    EndDeepDebug, TurnFails, vars
      <3> QED BY <3>1
    <2> QED BY <2>1, <2>2
  <1>3. CASE ~Initialize
    <2>1. UNCHANGED <<progress, asked>>
      BY <1>3 DEF UserStops, ClientReconnects, SetupFails, BeginTurn, StartDeepDebug,
                  EndDeepDebug, TurnFails, around, vars
    <2> QED BY <1>2, <2>1, StayMaps DEF requests, progress
  <1>4. CASE Initialize
    <2>1. /\ UNCHANGED <<asked, pendingUserInputs, implemented, phasesCounter, mvpGenerated>>
          /\ generated' = generated /\ DOMAIN open = {} /\ DOMAIN open' = {}
      <3>1. /\ UNCHANGED <<asked, pendingUserInputs, implemented, phasesCounter, mvpGenerated>>
            /\ generated = 0 /\ generated' = 0 /\ open' = << >>
        BY <1>1, <1>4 DEF Initialize, NotReady
      <3>2. DOMAIN open \subseteq 1..0
        BY <1>1, <3>1 DEF TypeOK
      <3>3. \A i : i \notin 1..0
        OBVIOUS
      <3>4. DOMAIN open = {}
        BY ONLY <3>2, <3>3
      <3> QED BY <3>1, <3>4
    <2>2. PhaseOpen' = PhaseOpen /\ PhaseFrom' = PhaseFrom
      BY <2>1 DEF PhaseOpen, PhaseFrom
    <2>3. FinalLeft' = FinalLeft
      BY <1>2, <2>1 DEF FinalLeft
    <2>4. UNCHANGED Plan!vars
      BY <1>2, <2>1, <2>2, <2>3 DEF Plan!vars
    <2> QED BY <1>2, <2>4 DEF Handed
  <1> QED BY <1>3, <1>4

(* queue_request asks, fetchPendingUserRequests takes. *)
LEMMA RequestsMap ==
  ASSUME IInv, Handed,
         \/ \E t \in Turns, r \in Requests : QueueUserRequest(t, r)
         \/ FetchPendingUserRequests
  PROVE  Handed' /\ Plan!Next
  <1>1. TypeOK /\ OneOpenPhase
    BY DEF IInv
  <1>2. ASSUME NEW t \in Turns, NEW r \in Requests, QueueUserRequest(t, r)
        PROVE  Handed' /\ Plan!Next
    <2>1. /\ UNCHANGED <<mvpGenerated, generated, open, implemented, build>>
          /\ r \notin asked /\ asked' = asked \cup {r}
          /\ pendingUserInputs' = pendingUserInputs \cup {r}
          /\ phasesCounter' = IF phasesCounter < Recharge THEN Recharge ELSE phasesCounter
      BY <1>1, <1>2, GenerationAssumption DEF QueueUserRequest, TypeOK
    <2>2. UNCHANGED <<PhaseOpen, PhaseFrom, FinalLeft>>
      BY <2>1 DEF PhaseOpen, PhaseFrom, FinalLeft
    <2>3. Plan!Ask(r)
      BY <2>1, <2>2 DEF Plan!Ask
    <2> QED BY <2>1, <2>3 DEF Handed, Plan!Next
  <1>3. CASE FetchPendingUserRequests
    <2>1. /\ build.stage = "planning" /\ pendingUserInputs' = {}
          /\ UNCHANGED <<mvpGenerated, phasesCounter, generated, open, implemented, asked>>
      BY <1>3 DEF FetchPendingUserRequests, around
    <2>2. /\ build'.stage = "drafting" /\ build'.final = build.final
          /\ build'.context = pendingUserInputs
      BY <1>1, <1>3, AtFacts DEF FetchPendingUserRequests, BuildType, BuildStages, Inferring
    <2>3. UNCHANGED <<PhaseOpen, PhaseFrom, FinalLeft>> /\ ~PhaseOpen
      BY <1>1, <2>1, <2>2 DEF PhaseOpen, PhaseFrom, FinalLeft, OneOpenPhase
    <2>4. build.context = {}
      BY <2>1 DEF Handed
    <2>5. Plan!Take
      BY <2>1, <2>2, <2>3, <2>4 DEF Plan!Take
    <2> QED BY <2>2, <2>5 DEF Handed, Plan!Next
  <1> QED BY <1>2, <1>3

LEMMA FinalizingMaps ==
  ASSUME TypeOK, EnterFinalizing, build.stage \in Phasing, build.final => mvpGenerated
  PROVE  FinalLeft' => FinalLeft
  <1>1. CASE mvpGenerated
    BY <1>1, ReviewingFacts DEF EnterFinalizing, FinalLeft
  <1>2. CASE ~mvpGenerated
    BY <1>2 DEF FinalLeft
  <1> QED BY <1>1, <1>2

(* A phase is planned and begun, or the planner finds nothing to do. *)
LEMMA GenerateNextPhaseMaps ==
  ASSUME IInv, GenerateNextPhase
  PROVE  Handed' /\ Plan!Next
  <1>1. /\ TypeOK /\ OneOpenPhase /\ Course /\ Budget /\ build.stage = "drafting"
        /\ DOMAIN open = {} /\ phasesCounter \in Int /\ build.final \in BOOLEAN
        /\ UNCHANGED <<phasesCounter, pendingUserInputs, implemented, asked>>
    BY DEF IInv, GenerateNextPhase, OneOpenPhase, around, TypeOK
  <1>2. phasesCounter > 0 \/ (phasesCounter = 0 /\ FinalLeft)
    BY <1>1 DEF Budget, Phasing, FinalLeft
  <1>3. ASSUME NEW n \in Concepts, NEW last \in BOOLEAN,
               AddPhase([name |-> n, last |-> last, from |-> build.context]),
               build' = [At("preparing") EXCEPT !.phase = generated + 1],
               UNCHANGED mvpGenerated
        PROVE  Handed' /\ Plan!Next
    <2>1. PICK q \in Phase : q = [name |-> n, last |-> last, from |-> build.context]
      <3>1. build.context \in SUBSET Requests
        BY <1>1 DEF TypeOK
      <3> QED BY <3>1, PhaseIn, Zenon
    <2>2. q.from = build.context /\ AddPhase(q)
      BY <1>3, <2>1
    <2>3. build'.context = {} /\ build'.stage = "preparing"
      <3>1. /\ At("preparing") \in BuildType /\ At("preparing").stage = "preparing"
            /\ At("preparing").context = {}
        BY <1>1, AtFacts DEF BuildStages
      <3> QED BY <1>3, <3>1 DEF BuildType
    <2>4. FinalLeft' => FinalLeft
      BY <1>3, <2>3 DEF FinalLeft
    <2> QED BY <1>1, <1>2, <2>2, <2>3, <2>4, BeginMaps
  <1>4. ASSUME build.final, EnterReviewing, UNCHANGED <<mvpGenerated, generated, open>>
        PROVE  Handed' /\ Plan!Next
    <2>1. build'.context = {} /\ (FinalLeft' => FinalLeft)
      BY <1>1, <1>4, ReviewingFacts DEF FinalLeft
    <2> QED BY <1>1, <1>4, <2>1, DropMaps DEF requests
  <1>5. ASSUME EnterFinalizing, UNCHANGED <<generated, open>>
        PROVE  Handed' /\ Plan!Next
    <2>1. build'.context = {}
      BY <1>1, <1>5, FinalizingFacts
    <2>2. FinalLeft' => FinalLeft
      BY <1>1, <1>5, FinalizingMaps DEF Course, Phasing
    <2> QED BY <1>1, <1>5, <2>1, <2>2, DropMaps DEF requests
  <1> QED BY <1>3, <1>4, <1>5, Zenon DEF GenerateNextPhase

LEMMA MarkPhaseCompleteMaps ==
  ASSUME IInv, Handed, MarkPhaseComplete
  PROVE  Handed' /\ Plan!Next
  <1> DEFINE named == {i \in DOMAIN open : open[i].name = open[build.phase].name}
             enough == (open[build.phase].last \/ phasesCounter' <= 0) /\ pendingUserInputs = {}
  <1>1. /\ TypeOK /\ OneOpenPhase /\ Course
        /\ build.stage = "deploying" /\ build.phase \in DOMAIN open
        /\ UNCHANGED <<generated, pendingUserInputs, asked>>
        /\ phasesCounter' = phasesCounter - 1 /\ build.context = {}
    BY DEF IInv, MarkPhaseComplete, OneOpenPhase, Handed, around
  <1>2. named = DOMAIN open
    BY <1>1 DEF OneOpenPhase
  <1>3. /\ DOMAIN open' = {} /\ implemented' = implemented \cup PhaseFrom
    <2>1. /\ open' = [i \in DOMAIN open \ named |-> open[i]]
          /\ implemented' = implemented \cup UNION {open[i].from : i \in named}
      BY DEF MarkPhaseComplete
    <2> QED BY <1>2, <2>1 DEF PhaseFrom
  <1>4. PhaseOpen /\ PhaseOpen' = FALSE /\ PhaseFrom' = {}
    BY <1>1, <1>3 DEF PhaseOpen, PhaseFrom
  <1>5. build'.context = {} /\ (FinalLeft' => FinalLeft)
    <2>1. CASE build.final /\ EnterReviewing /\ UNCHANGED mvpGenerated
      BY <1>1, <2>1, ReviewingFacts DEF FinalLeft
    <2>2. CASE ~build.final /\ EnterFinalizing
      BY <1>1, <2>2, FinalizingFacts, FinalizingMaps DEF Course, Phasing
    <2>3. CASE /\ ~build.final
               /\ build' = [At("planning") EXCEPT !.phase = 0]
               /\ UNCHANGED <<mvpGenerated, reviewingInitiated>>
      <3>1. /\ At("planning") \in BuildType /\ At("planning").stage = "planning"
            /\ At("planning").context = {} /\ At("planning").final = build.final
        BY <1>1, AtFacts DEF BuildStages
      <3>2. build'.context = {} /\ build'.stage = "planning" /\ build'.final = build.final
        BY <2>3, <3>1 DEF BuildType
      <3> QED BY <2>3, <3>2 DEF FinalLeft
    <2> QED BY <2>1, <2>2, <2>3, Zenon DEF MarkPhaseComplete
  <1>6. Plan!GivesUpFinal
    BY <1>5, FinalType DEF Plan!GivesUpFinal
  <1>7. Plan!Complete
    BY <1>1, <1>3, <1>4, <1>5, <1>6 DEF Plan!Complete
  <1> QED BY <1>5, <1>7 DEF Handed, Plan!Next

(* The other steps plan and complete nothing; what fails or is over gives up the *)
(* requests that a planner has, never those of an open phase.                    *)
LEMMA OtherStepsMap ==
  ASSUME IInv, Handed,
         \/ BeginImplementation \/ SaveAndDeploy \/ Finalize \/ Review \/ InferenceFails
         \/ NotPreviewable \/ GenerationComplete \/ Restart
  PROVE  Handed' /\ Plan!Next
  <1>1. TypeOK /\ Course
    BY DEF IInv
  <1>2. UNCHANGED <<asked, pendingUserInputs, implemented, generated, phasesCounter, open,
                    mvpGenerated>>
    BY DEF BeginImplementation, SaveAndDeploy, Finalize, Review, InferenceFails, NotPreviewable,
           GenerationComplete, Restart, progress, around
  <1>3. ASSUME build'.context = {}, FinalLeft' => FinalLeft
        PROVE  Handed' /\ Plan!Next
    BY <1>2, <1>3, DropMaps DEF requests
  <1>4. ASSUME build'.context = {},
               build'.stage \notin {"planning", "drafting", "finalizing"}
        PROVE  Handed' /\ Plan!Next
    <2>1. FinalLeft' => FinalLeft
      BY <1>2, <1>4 DEF FinalLeft
    <2> QED BY <1>3, <1>4, <2>1
  <1>5. ASSUME EnterReviewing
        PROVE  Handed' /\ Plan!Next
    BY <1>1, <1>4, <1>5, ReviewingFacts
  <1>6. ASSUME build' = Ended \/ build' = [Ended EXCEPT !.cut = TRUE]
        PROVE  Handed' /\ Plan!Next
    <2>1. build'.context = {} /\ build'.stage = "completing"
      BY <1>1, <1>6, EndedFacts DEF BuildType
    <2> QED BY <1>4, <2>1
  <1>7. CASE BeginImplementation \/ SaveAndDeploy
    <2>1. \E st \in {"writing", "deploying"} : st \in BuildStages /\ build' = At(st)
      BY <1>7 DEF BeginImplementation, SaveAndDeploy, BuildStages, Inferring
    <2>2. build'.context = {} /\ build'.stage \in {"writing", "deploying"}
      BY <1>1, <2>1, AtFacts
    <2> QED BY <1>4, <2>2
  <1>8. CASE build.stage = "finalizing" /\ build' = [At("planning") EXCEPT !.final = TRUE]
    <2>1. At("planning") \in BuildType /\ At("planning").context = {}
      BY <1>1, AtFacts DEF BuildStages
    <2>2. build'.context = {} /\ FinalLeft
      BY <1>8, <2>1 DEF BuildType, FinalLeft
    <2> QED BY <1>3, <2>2
  <1>9. CASE GenerationComplete \/ Restart
    <2>1. build'.context = {} /\ build'.stage = "idle"
      <3>1. build' = IdleBuild \/ build' = [IdleBuild EXCEPT !.cut = TRUE]
        BY <1>9 DEF GenerationComplete, Restart
      <3> QED BY <3>1 DEF IdleBuild
    <2> QED BY <1>4, <2>1
  <1> QED BY <1>5, <1>6, <1>7, <1>8, <1>9
          DEF Finalize, Review, InferenceFails, Fail, NotPreviewable

LEMMA LoadTemplateMaps ==
  ASSUME IInv, Handed, LoadTemplate
  PROVE  Handed' /\ [Plan!Next]_(Plan!vars)
  <1>1. /\ TypeOK /\ build.stage = "template" /\ build.final = FALSE /\ build \in BuildType
        /\ ~mvpGenerated \/ pendingUserInputs # {}
        /\ build.context = {}
        /\ UNCHANGED <<mvpGenerated, phasesCounter, pendingUserInputs, implemented, asked>>
    BY DEF IInv, LoadTemplate, Course, Phasing, TypeOK, BuildType, Handed, unstarted
  <1>2. CASE LaunchStateMachine(build)
    <2>1. PICK b \in BuildType : b = build
      BY <1>1
    <2>2. b.final = FALSE /\ b.context = {} /\ LaunchStateMachine(b)
      BY <1>1, <1>2, <2>1
    <2> QED BY <1>1, <2>2, LaunchMaps
  <1>3. CASE ~LaunchStateMachine(build)
    <2>1. build' = [build EXCEPT !.stage = "wedged"] /\ UNCHANGED <<generated, open>>
      BY <1>3 DEF LoadTemplate
    <2>2. build'.stage = "wedged" /\ build'.context = {}
      BY <1>1, <2>1 DEF BuildType
    <2>3. FinalLeft' => FinalLeft
      BY <1>1, <2>2 DEF FinalLeft
    <2> QED BY <1>1, <2>1, <2>2, <2>3, DropMaps DEF requests
  <1> QED BY <1>2, <1>3

LEMMA StepMaps ==
  ASSUME IInv, Handed, [Next]_vars
  PROVE  Handed' /\ [Plan!Next]_(Plan!vars)
  <1>1. CASE UserGenerates \/ ClientEchoes \/ UserResumes \/ SetupDone
    BY <1>1, StartersMap
  <1>2. CASE UserStops \/ ClientReconnects \/ SetupFails \/ Initialize \/ UNCHANGED vars
    BY <1>2, AroundMaps
  <1>3. ASSUME NEW t \in Turns, TurnStep(t)
        PROVE  Handed' /\ [Plan!Next]_(Plan!vars)
    <2>1. CASE BeginTurn(t) \/ StartDeepDebug(t) \/ EndDeepDebug(t) \/ TurnFails(t)
      BY <2>1, AroundMaps
    <2>2. CASE \E r \in Requests : QueueUserRequest(t, r)
      BY <2>2, RequestsMap
    <2>3. CASE EndTurn(t)
      BY <2>3, StartersMap
    <2> QED BY <1>3, <2>1, <2>2, <2>3 DEF TurnStep
  <1>4. CASE Restart \/ BuildStep
    BY <1>4, LoadTemplateMaps, RequestsMap, GenerateNextPhaseMaps, MarkPhaseCompleteMaps,
       OtherStepsMap
       DEF BuildStep
  <1> QED BY <1>1, <1>2, <1>3, <1>4 DEF Next

(* generateAllFiles, the phase machine and its queue of requests implement       *)
(* PhasePlan: whatever is stopped, fails, restarts or starts anew, requests are  *)
(* planned together, one phase at a time is open and paid for, and only the      *)
(* planning model can lose a request.                                            *)
THEOREM ImplementsPhasePlan == Spec => PlansPhases
  <1>1. Init => Handed /\ Plan!Init
    <2> SUFFICES ASSUME Init PROVE Handed /\ Plan!Init
      OBVIOUS
    <2>1. DOMAIN open = {} /\ FinalLeft = TRUE /\ build.context = {}
      BY DEF Init, FinalLeft, IdleBuild
    <2>2. PhaseOpen = FALSE /\ PhaseFrom = {}
      BY <2>1 DEF PhaseOpen, PhaseFrom
    <2> QED BY <2>1, <2>2 DEF Init, Handed, Plan!Init
  <1>2. IInv /\ Handed /\ [Next]_vars => Handed' /\ [Plan!Next]_(Plan!vars)
    BY StepMaps
  <1> QED BY <1>1, <1>2, Inductive, PTL DEF Spec, PlansPhases, Plan!Spec

(* No request is planned or implemented twice: what PhasePlan says of its steps, the *)
(* agent does.                                                                        *)
THEOREM NothingPlannedTwice == Spec => []PlannedOnce
  <1>1. Plan!Init => Plan!OnePlace
    BY DEF Plan!Init, Plan!OnePlace
  <1>2. Plan!OnePlace /\ [Plan!Next]_(Plan!vars) => Plan!OnePlace'
    <2> SUFFICES ASSUME Plan!OnePlace, [Plan!Next]_(Plan!vars)
                 PROVE  Plan!OnePlace'
      OBVIOUS
    <2>1. ASSUME NEW r \in Requests, Plan!Ask(r)
          PROVE  Plan!OnePlace'
      BY <2>1 DEF Plan!OnePlace, Plan!Ask
    <2>2. CASE Plan!Take
      BY <2>2 DEF Plan!OnePlace, Plan!Take
    <2>3. CASE Plan!Begin
      BY <2>3 DEF Plan!OnePlace, Plan!Begin
    <2>4. CASE Plan!Drop
      BY <2>4 DEF Plan!OnePlace, Plan!Drop
    <2>5. CASE Plan!Complete
      BY <2>5 DEF Plan!OnePlace, Plan!Complete
    <2>6. CASE UNCHANGED Plan!vars
      BY <2>6 DEF Plan!OnePlace, Plan!vars
    <2> QED BY <2>1, <2>2, <2>3, <2>4, <2>5, <2>6 DEF Plan!Next
  <1>3. Plan!Spec => []Plan!OnePlace
    BY <1>1, <1>2, PTL DEF Plan!Spec
  <1> QED BY <1>3, ImplementsPhasePlan, PTL DEF PlansPhases, PlannedOnce

-----------------------------------------------------------------------------
(* A build runs down.                                                        *)

(* The value of StepsLeft at each stage. *)
StepsAt ==
  LET rest == IF build.final THEN 2 ELSE 5 * phasesCounter + 3
  IN /\ build.stage \in Resting     => StepsLeft = 0
     /\ build.stage = "completing"  => StepsLeft = 1
     /\ build.stage = "reviewing"   => StepsLeft = 2
     /\ build.stage = "finalizing"  => StepsLeft = 8
     /\ build.stage = "template"    => StepsLeft = 5 * phasesCounter + 9
     /\ build.stage = "planning"    => StepsLeft = 5 + rest
     /\ build.stage = "drafting"    => StepsLeft = 4 + rest
     /\ build.stage = "preparing"   => StepsLeft = 3 + rest
     /\ build.stage = "writing"     => StepsLeft = 2 + rest
     /\ build.stage = "deploying"   => StepsLeft = 1 + rest

LEMMA StepsAtHolds == StepsAt /\ StepsAt'
  BY DEF StepsAt, StepsLeft, PhaseSteps, Resting

(* Before the last stages the counter has paid for the phase under way. *)
LEMMA StepsFacts ==
  ASSUME IInv
  PROVE  /\ phasesCounter \in Int /\ build.stage \in BuildStages /\ build.final \in BOOLEAN
         /\ build.stage \in Phasing /\ ~build.final => phasesCounter > 0
         /\ build.stage = "template" => phasesCounter > 0 /\ ~build.final
         /\ StepsLeft \in Nat
         /\ build.stage \in Phasing => StepsLeft >= 3
         /\ build.stage \notin Resting \cup {"completing", "reviewing"} => StepsLeft > 2
  <1>1. /\ phasesCounter \in Int /\ build.stage \in BuildStages /\ build.final \in BOOLEAN
        /\ build.stage \in Phasing /\ ~build.final => phasesCounter > 0
        /\ build.stage = "template" => phasesCounter > 0 /\ ~build.final
    BY DEF IInv, TypeOK, Budget, PendingHasBudget, Course, Phasing
  <1>2. PICK k \in Int, st \in BuildStages, f \in BOOLEAN, n \in {StepsLeft} :
          k = phasesCounter /\ st = build.stage /\ f = build.final
    BY <1>1, Zenon
  <1>3. /\ st \in Resting => n = 0
        /\ st = "completing" => n = 1
        /\ st = "reviewing" => n = 2
        /\ st = "finalizing" => n = 8
        /\ st = "template" => n = 5 * k + 9 /\ k > 0
        /\ st \in Phasing => n \in {m + (IF f THEN 2 ELSE 5 * k + 3) : m \in 1..5}
        /\ st \in Phasing /\ ~f => k > 0
    BY <1>1, <1>2, StepsAtHolds DEF StepsAt, Phasing
  <1>4. /\ n \in Nat
        /\ st \in Phasing => n >= 3
        /\ st \notin Resting \cup {"completing", "reviewing"} => n > 2
    BY <1>3 DEF BuildStages, Resting, Inferring, Phasing
  <1> QED BY <1>1, <1>2, <1>4

(* The last stages are short. *)
LEMMA LastStepsFall ==
  ASSUME IInv, build.stage \notin Resting \cup {"completing", "reviewing"},
         build'.stage \in {"reviewing", "completing", "wedged"}
  PROVE  StepsLeft' < StepsLeft
  <1>1. StepsLeft \in Nat /\ StepsLeft > 2
    BY StepsFacts
  <1>2. StepsLeft' \in {0, 1, 2}
    BY StepsAtHolds DEF StepsAt, Resting
  <1> QED BY <1>1, <1>2

LEMMA LoadTemplateFalls ==
  ASSUME IInv, LoadTemplate
  PROVE  StepsLeft' < StepsLeft
  <1>1. /\ TypeOK /\ build.stage = "template" /\ build.final = FALSE /\ build \in BuildType
        /\ phasesCounter' = phasesCounter /\ phasesCounter \in Int /\ phasesCounter > 0
    BY StepsFacts DEF IInv, LoadTemplate, TypeOK, BuildType, unstarted
  <1>2. StepsLeft = 5 * phasesCounter + 9
    BY <1>1, StepsAtHolds DEF StepsAt
  <1>3. ASSUME NEW i, build' = [build EXCEPT !.stage = "preparing", !.phase = i]
        PROVE  StepsLeft' < StepsLeft
    <2>1. build'.stage = "preparing" /\ build'.final = FALSE
      BY <1>1, <1>3 DEF BuildType
    <2>2. StepsLeft' = 3 + (5 * phasesCounter + 3)
      BY <1>1, <2>1, StepsAtHolds DEF StepsAt
    <2> QED BY <1>1, <1>2, <2>2
  <1>4. ASSUME build' = [build EXCEPT !.stage = "planning"]
        PROVE  StepsLeft' < StepsLeft
    <2>1. build'.stage = "planning" /\ build'.final = FALSE
      BY <1>1, <1>4 DEF BuildType
    <2>2. StepsLeft' = 5 + (5 * phasesCounter + 3)
      BY <1>1, <2>1, StepsAtHolds DEF StepsAt
    <2> QED BY <1>1, <1>2, <2>2
  <1>5. ASSUME NEW st \in {"completing", "wedged"}, build' = [build EXCEPT !.stage = st]
        PROVE  StepsLeft' < StepsLeft
    <2>1. build'.stage \in {"completing", "wedged"}
      BY <1>1, <1>5 DEF BuildType
    <2> QED BY <1>1, <2>1, LastStepsFall DEF Resting
  <1> QED BY <1>3, <1>4, <1>5, Zenon DEF LoadTemplate, LaunchStateMachine

(* The steps within a phase go to the next stage of it. *)
LEMMA WithinPhaseFalls ==
  ASSUME IInv, build'.final = build.final, phasesCounter' = phasesCounter,
         <<build.stage, build'.stage>> \in
           {<<"planning", "drafting">>, <<"drafting", "preparing">>, <<"preparing", "writing">>,
            <<"writing", "deploying">>}
  PROVE  StepsLeft' < StepsLeft
  <1> DEFINE rest == IF build.final THEN 2 ELSE 5 * phasesCounter + 3
  <1>1. rest \in Int /\ rest' = rest
    BY StepsFacts
  <1>2. \E m \in 2..5 : StepsLeft = m + rest /\ StepsLeft' = (m - 1) + rest
    <2>1. /\ build.stage = "planning" /\ build'.stage = "drafting"
             => StepsLeft = 5 + rest /\ StepsLeft' = 4 + rest
          /\ build.stage = "drafting" /\ build'.stage = "preparing"
             => StepsLeft = 4 + rest /\ StepsLeft' = 3 + rest
          /\ build.stage = "preparing" /\ build'.stage = "writing"
             => StepsLeft = 3 + rest /\ StepsLeft' = 2 + rest
          /\ build.stage = "writing" /\ build'.stage = "deploying"
             => StepsLeft = 2 + rest /\ StepsLeft' = 1 + rest
      BY StepsAtHolds DEF StepsAt
    <2> HIDE DEF rest
    <2> QED BY <1>1, <2>1
  <1> HIDE DEF rest
  <1> QED BY <1>1, <1>2

(* Going to the final phase costs less than the phase that the counter had left. *)
LEMMA FinalizingFalls ==
  ASSUME IInv, build.stage \in {"drafting", "deploying"}, ~build.final, EnterFinalizing
  PROVE  StepsLeft' < StepsLeft
  <1>1. TypeOK /\ phasesCounter \in Int /\ phasesCounter > 0
    BY StepsFacts DEF IInv, Phasing
  <1>2. build'.stage \in {"finalizing", "reviewing", "completing"}
    BY <1>1, FinalizingFacts
  <1>3. CASE build'.stage = "finalizing"
    <2>1. StepsLeft' = 8 /\ \E m \in {1, 4} : StepsLeft = m + (5 * phasesCounter + 3)
      BY <1>1, <1>3, StepsAtHolds DEF StepsAt
    <2> QED BY <1>1, <2>1
  <1>4. CASE build'.stage # "finalizing"
    BY <1>2, <1>4, LastStepsFall DEF Resting
  <1> QED BY <1>3, <1>4

LEMMA MarkPhaseCompleteFalls ==
  ASSUME IInv, MarkPhaseComplete
  PROVE  StepsLeft' < StepsLeft
  <1>1. /\ TypeOK /\ build.stage = "deploying" /\ phasesCounter' = phasesCounter - 1
        /\ phasesCounter \in Int
    BY StepsFacts DEF IInv, MarkPhaseComplete
  <1>2. CASE EnterReviewing
    BY <1>1, <1>2, ReviewingFacts, LastStepsFall DEF Resting
  <1>3. CASE ~build.final /\ EnterFinalizing
    BY <1>1, <1>3, FinalizingFalls
  <1>4. CASE ~build.final /\ build' = [At("planning") EXCEPT !.phase = 0]
    <2>1. /\ At("planning") \in BuildType /\ At("planning").stage = "planning"
          /\ At("planning").final = build.final
      BY <1>1, AtFacts DEF BuildStages
    <2>2. build'.stage = "planning" /\ build'.final = build.final
      BY <1>4, <2>1 DEF BuildType
    <2>3. /\ StepsLeft = 1 + (5 * phasesCounter + 3)
          /\ StepsLeft' = 5 + (5 * (phasesCounter - 1) + 3)
      BY <1>1, <1>4, <2>2, StepsAtHolds DEF StepsAt
    <2> QED BY <1>1, <2>3
  <1> QED BY <1>2, <1>3, <1>4, Zenon DEF MarkPhaseComplete

LEMMA BuildStepFalls ==
  ASSUME IInv, BuildStep
  PROVE  StepsLeft' < StepsLeft
  <1>1. TypeOK
    BY DEF IInv
  <1>2. ASSUME EnterReviewing, build.stage \notin Resting \cup {"completing", "reviewing"}
        PROVE  StepsLeft' < StepsLeft
    BY <1>1, <1>2, ReviewingFacts, LastStepsFall
  <1>3. CASE FetchPendingUserRequests
    <2>1. build.stage = "planning" /\ build'.stage = "drafting" /\ build'.final = build.final
          /\ phasesCounter' = phasesCounter
      BY <1>1, <1>3, AtFacts DEF FetchPendingUserRequests, BuildType, BuildStages, Inferring
    <2> QED BY <2>1, WithinPhaseFalls
  <1>4. CASE GenerateNextPhase
    <2>1. build.stage = "drafting" /\ phasesCounter' = phasesCounter
      BY <1>4 DEF GenerateNextPhase
    <2>2. CASE build' = [At("preparing") EXCEPT !.phase = generated + 1]
      <3>1. /\ At("preparing") \in BuildType /\ At("preparing").stage = "preparing"
            /\ At("preparing").final = build.final
        BY <1>1, AtFacts DEF BuildStages
      <3>2. build'.stage = "preparing" /\ build'.final = build.final
        BY <2>2, <3>1 DEF BuildType
      <3> QED BY <2>1, <3>2, WithinPhaseFalls
    <2>3. CASE EnterReviewing
      BY <1>2, <2>1, <2>3 DEF Resting
    <2>4. CASE ~build.final /\ EnterFinalizing
      BY <2>1, <2>4, FinalizingFalls
    <2> QED BY <1>4, <2>2, <2>3, <2>4, Zenon DEF GenerateNextPhase
  <1>5. CASE BeginImplementation \/ SaveAndDeploy
    <2>1. /\ <<build.stage, build'.stage>> \in
               {<<"preparing", "writing">>, <<"writing", "deploying">>}
          /\ build'.final = build.final /\ phasesCounter' = phasesCounter
      BY <1>1, <1>5, AtFacts
         DEF BeginImplementation, SaveAndDeploy, BuildStages, Inferring, progress
    <2> QED BY <2>1, WithinPhaseFalls
  <1>6. CASE Finalize
    <2>1. build.stage = "finalizing" /\ StepsLeft = 8
      BY <1>6, StepsAtHolds DEF Finalize, StepsAt
    <2>2. CASE EnterReviewing
      BY <1>2, <2>1, <2>2 DEF Resting
    <2>3. CASE build' = [At("planning") EXCEPT !.final = TRUE]
      <3>1. At("planning") \in BuildType /\ At("planning").stage = "planning"
        BY <1>1, AtFacts DEF BuildStages
      <3>2. build'.stage = "planning" /\ build'.final = TRUE
        BY <2>3, <3>1 DEF BuildType
      <3>3. StepsLeft' = 7
        BY <3>2, StepsAtHolds DEF StepsAt
      <3> QED BY <2>1, <3>3
    <2> QED BY <1>6, <2>2, <2>3 DEF Finalize
  <1>7. CASE Review
    <2>1. build.stage = "reviewing" /\ build'.stage = "completing"
      BY <1>1, <1>7, EndedFacts DEF Review
    <2>2. StepsLeft = 2 /\ StepsLeft' = 1
      BY <2>1, StepsAtHolds DEF StepsAt
    <2> QED BY <2>2
  <1>8. CASE GenerationComplete
    <2>1. build.stage = "completing" /\ build'.stage = "idle"
      BY <1>8 DEF GenerationComplete, IdleBuild
    <2>2. StepsLeft = 1 /\ StepsLeft' = 0
      BY <2>1, StepsAtHolds DEF StepsAt, Resting
    <2> QED BY <2>2
  <1>9. CASE InferenceFails \/ NotPreviewable
    <2>1. build.stage \notin Resting \cup {"completing", "reviewing"}
      BY <1>9 DEF InferenceFails, NotPreviewable, Inferring, Resting
    <2>2. CASE EnterReviewing
      BY <1>2, <2>1, <2>2
    <2>3. CASE build' = [Ended EXCEPT !.cut = TRUE]
      <3>1. build'.stage = "completing"
        BY <1>1, <2>3, EndedFacts DEF BuildType
      <3> QED BY <2>1, <3>1, LastStepsFall
    <2> QED BY <1>9, <2>2, <2>3 DEF InferenceFails, NotPreviewable, Fail
  <1> QED BY <1>3, <1>4, <1>5, <1>6, <1>7, <1>8, <1>9, LoadTemplateFalls, MarkPhaseCompleteFalls
          DEF BuildStep

LEMMA Fives ==
  ASSUME NEW k \in Int
  PROVE  /\ 5 * k + 3 \in Int /\ (k > 0 => 5 * k + 3 \in Nat)
         /\ \A j \in Int : j <= k => 5 * j + 3 <= 5 * k + 3
  OBVIOUS

(* What is not a step of the build leaves it where it is, or ends it. *)
LEMMA OthersAddNoSteps ==
  ASSUME IInv, IInv', build.stage \notin Resting, [Next]_vars, ~BuildStep,
         phasesCounter' <= phasesCounter
  PROVE  StepsLeft' <= StepsLeft
  <1>1. TypeOK /\ TypeOK' /\ isCodeGenerating
    BY DEF IInv, Resting, isCodeGenerating
  <1>2. StepsLeft \in Nat /\ phasesCounter \in Int /\ phasesCounter' \in Int
        /\ build.stage \in BuildStages /\ build.final \in BOOLEAN
    BY <1>1, StepsFacts DEF TypeOK
  <1>3. ASSUME build'.stage = build.stage, build'.final = build.final
        PROVE  StepsLeft' <= StepsLeft
    <2> DEFINE rest == IF build.final THEN 2 ELSE 5 * phasesCounter + 3
               next == IF build.final THEN 2 ELSE 5 * phasesCounter' + 3
    <2>1. rest \in Int /\ next \in Int /\ next <= rest
      <3>1. CASE build.final
        BY <3>1
      <3>2. CASE ~build.final
        <4>1. rest = 5 * phasesCounter + 3 /\ next = 5 * phasesCounter' + 3
          BY <3>2
        <4>2. /\ 5 * phasesCounter + 3 \in Int /\ 5 * phasesCounter' + 3 \in Int
              /\ 5 * phasesCounter' + 3 <= 5 * phasesCounter + 3
          BY <1>2, Fives, Zenon
        <4> HIDE DEF rest, next
        <4> QED BY <4>1, <4>2, Zenon
      <3> QED BY <3>1, <3>2
    <2>2. CASE build.stage \in {"completing", "reviewing", "finalizing", "template"}
      <3>1. \/ StepsLeft = 1 /\ StepsLeft' = 1
            \/ StepsLeft = 2 /\ StepsLeft' = 2
            \/ StepsLeft = 8 /\ StepsLeft' = 8
            \/ StepsLeft = 5 * phasesCounter + 9 /\ StepsLeft' = 5 * phasesCounter' + 9
        BY <1>3, <2>2, StepsAtHolds DEF StepsAt
      <3> QED BY <1>2, <3>1
    <2>3. CASE build.stage \in Phasing
      <3>1. \E m \in 1..5 : StepsLeft = m + rest /\ StepsLeft' = m + next
        BY <1>3, <2>3, StepsAtHolds DEF StepsAt, Phasing
      <3> HIDE DEF rest, next
      <3> QED BY <2>1, <3>1
    <2>4. build.stage \in Phasing \cup {"completing", "reviewing", "finalizing", "template"}
      BY <1>2 DEF BuildStages, Resting, Inferring, Phasing
    <2> QED BY <2>2, <2>3, <2>4
  <1>4. CASE Restart
    <2>1. build'.stage = "idle"
      BY <1>4 DEF Restart, IdleBuild
    <2>2. StepsLeft' = 0
      BY <2>1, StepsAtHolds DEF StepsAt, Resting
    <2> QED BY <1>2, <2>2
  <1>5. CASE ~Restart
    <2>1. CASE UserStops
      <3>1. build'.stage = build.stage /\ build'.final = build.final
        BY <1>1, <2>1 DEF UserStops, TypeOK
      <3> QED BY <1>3, <3>1
    <2>2. CASE ~UserStops
      <3>1. UNCHANGED build
        BY <1>1, <1>5, <2>2
           DEF Next, UserGenerates, ClientEchoes, GenerateAll, UserResumes, OnlyRaiseFlag,
               ClientReconnects, Initialize, SetupDone, SetupFails, TurnStep, BeginTurn,
               QueueUserRequest, StartDeepDebug, EndDeepDebug, EndTurn, TurnFails, vars
      <3> QED BY <1>3, <3>1
    <2> QED BY <2>1, <2>2
  <1> QED BY <1>4, <1>5

LEMMA StepsAreNat ==
  ASSUME IInv' PROVE StepsLeft' \in Nat
  <1>1. /\ phasesCounter' \in Int /\ build'.stage \in BuildStages /\ build'.final \in BOOLEAN
        /\ build'.stage \in Phasing /\ ~build'.final => phasesCounter' > 0
        /\ build'.stage = "template" => phasesCounter' > 0
    BY DEF IInv, TypeOK, Budget, PendingHasBudget, Course, Phasing
  <1> DEFINE rest == IF build'.final THEN 2 ELSE 5 * phasesCounter' + 3
  <1>2. CASE build'.stage \in Phasing
    <2>1. \E m \in 1..5 : StepsLeft' = m + rest
      BY <1>2, StepsAtHolds DEF StepsAt, Phasing
    <2>2. rest \in Nat
      <3>1. CASE build'.final
        BY <3>1
      <3>2. CASE ~build'.final
        <4>1. rest = 5 * phasesCounter' + 3
          BY <3>2
        <4>2. 5 * phasesCounter' + 3 \in Nat
          BY <1>1, <1>2, <3>2, Fives, Zenon
        <4> HIDE DEF rest
        <4> QED BY <4>1, <4>2, Zenon
      <3> QED BY <3>1, <3>2
    <2> HIDE DEF rest
    <2> QED BY <2>1, <2>2
  <1>3. CASE build'.stage \notin Phasing
    BY <1>1, <1>3, StepsAtHolds DEF StepsAt, BuildStages, Resting, Inferring, Phasing
  <1> QED BY <1>2, <1>3

(* Half of why every build ends: whatever its inferences, its previews and its   *)
(* users do, each step of a build has fewer left to take, and nothing that       *)
(* happens beside it adds any but a request that recharges the counter.          *)
THEOREM BuildsDoRunDown == Spec => BuildsRunDown
  <1>1. IInv /\ IInv' /\ [Next]_vars
        => [build.stage \notin Resting =>
              /\ StepsLeft \in Nat
              /\ BuildStep => StepsLeft' < StepsLeft
              /\ phasesCounter' <= phasesCounter => StepsLeft' <= StepsLeft]_vars
    <2> SUFFICES ASSUME IInv, IInv', [Next]_vars, build.stage \notin Resting
                 PROVE  /\ StepsLeft \in Nat
                        /\ BuildStep => StepsLeft' < StepsLeft
                        /\ phasesCounter' <= phasesCounter => StepsLeft' <= StepsLeft
      OBVIOUS
    <2>1. StepsLeft \in Nat
      BY StepsFacts
    <2>2. StepsLeft' \in Nat
      BY StepsAreNat
    <2>3. BuildStep => StepsLeft' < StepsLeft
      BY BuildStepFalls
    <2>4. BuildStep => StepsLeft' <= StepsLeft
      BY <2>1, <2>2, <2>3
    <2>5. ~BuildStep /\ phasesCounter' <= phasesCounter => StepsLeft' <= StepsLeft
      BY OthersAddNoSteps
    <2> QED BY <2>1, <2>3, <2>4, <2>5
  <1> QED BY <1>1, Inductive, PTL DEF Spec, BuildsRunDown

=============================================================================
