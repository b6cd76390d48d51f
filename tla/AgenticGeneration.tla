------------------------- MODULE AgenticGeneration -------------------------
(***************************************************************************)
(* Code generation of one agentic agent, with the conversation it keeps:   *)
(* behaviors/agentic.ts, what it inherits from behaviors/base.ts, the tool *)
(* calling loop of inferutils/core.ts and infer.ts with the loop of its    *)
(* native Claude client, the conversation store of core/codingAgent.ts and *)
(* its compaction (utils/conversationCompactifier.ts).                     *)
(*                                                                         *)
(* One action is the code between two awaits.  generationPromise is set to *)
(* null after every iteration of a build, so that several builds may run:  *)
(* a build is a member of Builds.  shouldBeGenerating is written as in     *)
(* PhasicGeneration, nothing here reads it, and it is left out.            *)
(***************************************************************************)
EXTENDS Integers, FiniteSets

CONSTANTS Builds,       \* bound: how many builds may run at once
          Tools,        \* the tool calls one answer of the model may make
          Requests,     \* what users write, each once
          Builder,      \* the caller of a compaction that is not a tool call
          MaxDepth,     \* getMaxToolCallingDepth (100)
          Retries,      \* retryLimit of executeInference (5)
          Native,       \* the attempts whose model has inferWithAnthropicNative
          Keep,         \* PRESERVE_RECENT_MESSAGES (10)
          Interval,     \* COMPACTIFY_CHECK_INTERVAL (9)
          MaxMessages,  \* bound: with this many logged, those of models and tools are left out
          FailsAt,      \* bound: how many are logged when a write of the conversation may fail
          ClearsAt,     \* bound: how many are logged when the user may clear
          Disturbances  \* which of "llm", "template", "stop", "clear", "store", "compaction",
                        \* "restart" happen

ASSUME AgenticAssumption ==
  /\ MaxDepth \in Nat \ {0} /\ Retries \in Nat \ {0}
  /\ Keep \in Nat \ {0} /\ Interval \in Nat \ {0}
  /\ MaxMessages \in Nat
  /\ Builder \notin Tools
  /\ IsFiniteSet(Requests)

VARIABLES
  mvpGenerated, pendingUserInputs,
  template,          \* templateDetailsCache is filled
  generating,        \* generationPromise is not null
  build,             \* per build: where its loop is
  cancellable,       \* the builds that hold currentAbortController
  toolCallCounter,   \* modulo Interval
  chat,              \* the two tables of the conversation
  held,              \* per build and caller: what a compaction under way will write
  asked,             \* history: the requests made
  abandoned,         \* history: those that wait since the last build failed or was lost
  log,               \* history: every message added
  exposed            \* history: those added during a compaction, or cleared by the user

turns == <<mvpGenerated, pendingUserInputs, template, generating, cancellable, asked, abandoned>>
talk  == <<toolCallCounter, chat, held, log, exposed>>
vars  == <<turns, talk, build>>

Callers == Tools \cup {Builder}

(* Messages are appended only, and have fresh ids: a history is a set, ordered by at. *)
Message == [at : Nat \ {0}, role : {"user", "model"}, asks : SUBSET Requests]

(* full is the one table; the other, runningHistory, is a summary of the messages in *)
(* summary, if any, then those of recent.  History: forgotten are the messages that  *)
(* an emergency left out of it, unstored those in which a failed write made the two  *)
(* tables differ from what was to be written.                                        *)
Chat == [full : SUBSET Message, summary : SUBSET Message, recent : SUBSET Message,
         forgotten : SUBSET Message, unstored : SUBSET Message]
EmptyChat == [full |-> {}, summary |-> {}, recent |-> {}, forgotten |-> {}, unstored |-> {}]

Stages == {"idle", "wedged", "template", "inferring", "calling", "answered",
           "compacting", "completing"}

(* depth: of the chain of tool calls; attempt: of executeInference; rounds: those the *)
(* native client has left at that depth, 0 when the OpenAI client is used; calls: the *)
(* tool calls that have not returned; aborted: the signal of its inference.           *)
IdleBuild == [stage |-> "idle", depth |-> 0, attempt |-> 0, rounds |-> 0, calls |-> {},
              aborted |-> FALSE]

(* The build will look at the queue again. *)
Looking(b) == build[b].stage \in {"template", "inferring", "calling", "answered", "compacting"}

isCodeGenerating == generating

Init ==
  /\ mvpGenerated = FALSE /\ pendingUserInputs = {} /\ template = FALSE
  /\ generating = FALSE /\ cancellable = {}
  /\ build = [b \in Builds |-> IdleBuild]
  /\ toolCallCounter = 0
  /\ chat = EmptyChat /\ held = << >>
  /\ asked = {} /\ abandoned = {} /\ log = {} /\ exposed = {}

-----------------------------------------------------------------------------
(* The conversation.                                                         *)

NewMessage(role, asks) == [at |-> Cardinality(log) + 1, role |-> role, asks |-> asks]

(* What addConversationMessage writes, with no await since it was read. *)
AddConversationMessage(c, m) == [c EXCEPT !.full = @ \cup {m}, !.recent = @ \cup {m}]

(* setConversationState of w over the tables c: runningHistory is inserted first, then *)
(* the full history; what throws is caught and logged.                                 *)
SetConversationState(c, w) ==
  LET unstored == c.unstored \cup w.unstored
      missed   == unstored \cup (w.full \ c.full)
      fails    == "store" \in Disturbances /\ Cardinality(log) \in FailsAt
  IN {[w EXCEPT !.unstored = unstored]}
     \cup {x \in {[c EXCEPT !.unstored = missed],
                  [w EXCEPT !.full = c.full, !.unstored = missed \cup (c.full \ w.full)]} : fails}

(* The history variables, when m is added: a compaction is under way if it was and is. *)
Logged(m) ==
  /\ log' = log \cup {m}
  /\ exposed' = IF DOMAIN held \cap DOMAIN held' = {} THEN exposed ELSE exposed \cup {m}

From(c, m)   == {x \in c.recent : x.at >= m.at}
Before(c, m) == {x \in c.recent : x.at < m.at}

(* findTurnBoundary: the last user message that leaves Keep messages. *)
TurnBoundary(c) ==
  LET far == {m \in c.recent : m.role = "user" /\ Cardinality(From(c, m)) >= Keep}
  IN {m \in far : \A x \in far : x.at <= m.at}

(* compactifyContext and what compactifyIfNeeded makes of it.  It is written back *)
(* when it has fewer messages.                                                    *)
Compacted(c) ==
  {[c EXCEPT !.summary = @ \cup Before(c, m), !.recent = From(c, m)] :
     m \in {x \in TurnBoundary(c) :
              IF c.summary = {} THEN Cardinality(Before(c, x)) > 1 ELSE Before(c, x) # {}}}

(* compactifyContext when something throws: of more than 3 * Keep messages the last *)
(* 2 * Keep are kept, with no summary.  Fewer are left as they are.                 *)
Emergency(c) ==
  {[c EXCEPT !.summary = {}, !.recent = kept,
             !.forgotten = @ \cup c.summary \cup (c.recent \ kept)] :
     kept \in {k \in SUBSET c.recent :
                 /\ "compaction" \in Disturbances
                 /\ Cardinality(c.recent) + (IF c.summary = {} THEN 0 ELSE 1) > 3 * Keep
                 /\ Cardinality(k) = 2 * Keep
                 /\ \A x \in c.recent \ k, y \in k : x.at < y.at}}

(* compactifyIfNeeded reads c and awaits a summary.  The turns and the tokens that *)
(* call for one are left open.                                                     *)
Hold(b, caller, c) ==
  \E written \in Compacted(c) \cup Emergency(c) :
    held' = [k \in DOMAIN held \cup {<<b, caller>>} |->
               IF k = <<b, caller>> THEN written ELSE held[k]]

Release(b, caller) == held' = [k \in DOMAIN held \ {<<b, caller>>} |-> held[k]]

(* Mutant of Written: only the compacted history is taken from what was read. *)
WrittenOverFresh(b, caller) ==
  [held[<<b, caller>>] EXCEPT !.full = chat.full]

(* Mutant of Written: both tables get the compacted history. *)
WrittenTwice(b, caller) ==
  [held[<<b, caller>>] EXCEPT !.full = held[<<b, caller>>].recent]

(* What compactifyIfNeeded writes: what was read before the await, compacted. *)
Written(b, caller) == held[<<b, caller>>]

(* CLEAR_CONVERSATION: the full history is deleted first, and the second delete may *)
(* throw.  When the first one does, nothing changes.                                *)
ClearConversation ==
  /\ "clear" \in Disturbances /\ Cardinality(log) \in ClearsAt
  /\ chat # EmptyChat
  /\ \/ chat' = EmptyChat
     \/ /\ "store" \in Disturbances
        /\ chat' = [chat EXCEPT !.full = {}, !.unstored = @ \cup chat.summary \cup chat.recent]
  /\ exposed' = exposed \cup log
  /\ UNCHANGED <<turns, build, toolCallCounter, held, log>>

-----------------------------------------------------------------------------
(* The loop of a build.                                                      *)

(* maxIterations of inferWithAnthropicNative *)
Rounds(attempt, depth) == IF attempt \in Native THEN MaxDepth - depth ELSE 0

Inference(attempt) ==
  [stage |-> "inferring", depth |-> 0, attempt |-> attempt, rounds |-> Rounds(attempt, 0),
   calls |-> {}, aborted |-> FALSE]

(* Mutant of BeginIteration: the requests go to the model, not into the history. *)
BeginUnrecorded(b, waiting, c, joined) ==
  /\ toolCallCounter' = 0
  /\ pendingUserInputs' = {} /\ abandoned' = {}
  /\ chat' = c
  /\ UNCHANGED <<log, exposed>>
  /\ cancellable' = joined \cup {b}
  /\ build' = [build EXCEPT ![b] = Inference(0)]

(* executeGeneration up to the first model request: the requests that wait become *)
(* one message.  c is the conversation as it is then, joined the builds that hold  *)
(* the controller.                                                                *)
BeginIteration(b, waiting, c, joined) ==
  /\ toolCallCounter' = 0
  /\ pendingUserInputs' = {} /\ abandoned' = {}
  /\ LET m == NewMessage("user", waiting)
     IN IF waiting = {}
          THEN chat' = c /\ UNCHANGED <<log, exposed>>
          ELSE chat' \in SetConversationState(c, AddConversationMessage(c, m)) /\ Logged(m)
  /\ cancellable' = joined \cup {b}
  /\ build' = [build EXCEPT ![b] = Inference(0)]

(* buildWrapper's finally block, up to updateApp. *)
Completing(b) ==
  /\ build' = [build EXCEPT ![b] = [IdleBuild EXCEPT !.stage = "completing"]]
  /\ cancellable' = {}

(* Mutant of EndIteration: the queue is not looked at once the project is there. *)
EndRegardless(b, c) ==
  /\ generating' = FALSE
  /\ \/ ~mvpGenerated /\ BeginIteration(b, pendingUserInputs, c, {})
     \/ /\ mvpGenerated
        /\ Completing(b) /\ chat' = c
        /\ UNCHANGED <<pendingUserInputs, abandoned, toolCallCounter, log, exposed>>
  /\ UNCHANGED <<mvpGenerated, template, asked>>

(* Mutant of EndIteration: generationPromise is left alone. *)
EndQuietly(b, c) ==
  /\ UNCHANGED generating
  /\ \/ (~mvpGenerated \/ pendingUserInputs # {}) /\ BeginIteration(b, pendingUserInputs, c, {})
     \/ /\ mvpGenerated /\ pendingUserInputs = {}
        /\ Completing(b) /\ chat' = c
        /\ UNCHANGED <<pendingUserInputs, abandoned, toolCallCounter, log, exposed>>
  /\ UNCHANGED <<mvpGenerated, template, asked>>

(* The finally block of executeGeneration, and the condition of the loop in build. *)
EndIteration(b, c) ==
  /\ generating' = FALSE
  /\ \/ (~mvpGenerated \/ pendingUserInputs # {}) /\ BeginIteration(b, pendingUserInputs, c, {})
     \/ /\ mvpGenerated /\ pendingUserInputs = {}
        /\ Completing(b) /\ chat' = c
        /\ UNCHANGED <<pendingUserInputs, abandoned, toolCallCounter, log, exposed>>
  /\ UNCHANGED <<mvpGenerated, template, asked>>

(* generateAllFiles, with waiting in the queue. *)
Start(b, waiting) ==
  /\ build[b].stage = "idle"
  /\ ~isCodeGenerating /\ generating' = TRUE
  /\ UNCHANGED <<mvpGenerated, template, held>>
  /\ \/ /\ ~template
        /\ build' = [build EXCEPT ![b] = [IdleBuild EXCEPT !.stage = "template"]]
        /\ pendingUserInputs' = waiting
        /\ UNCHANGED <<abandoned, toolCallCounter, chat, log, exposed, cancellable>>
     \/ /\ template
        /\ BeginIteration(b, waiting, chat, cancellable)

(* GENERATE_ALL, RESUME_GENERATION, or the end of initializeAsync. *)
UserStarts(b) ==
  /\ ~mvpGenerated \/ pendingUserInputs # {}
  /\ Start(b, pendingUserInputs)
  /\ UNCHANGED asked

(* handleUserInput, after the images were uploaded: queueUserRequest, *)
(* and a start unless there is a promise.                             *)
UserInput(r) ==
  /\ r \notin asked
  /\ asked' = asked \cup {r}
  /\ \/ /\ isCodeGenerating
        /\ pendingUserInputs' = pendingUserInputs \cup {r}
        /\ UNCHANGED <<mvpGenerated, template, generating, cancellable, abandoned, talk, build>>
     \/ \E b \in Builds : Start(b, pendingUserInputs \cup {r})

(* STOP_GENERATION: cancelCurrentInference, felt by the next request to the model. *)
UserStops ==
  /\ "stop" \in Disturbances
  /\ cancellable # {}
  /\ build' = [b \in Builds |->
                 [build[b] EXCEPT !.aborted = @ \/ (b \in cancellable
                                                 /\ build[b].stage \in {"inferring", "calling"})]]
  /\ cancellable' = {}
  /\ UNCHANGED <<mvpGenerated, pendingUserInputs, template, generating, asked, abandoned, talk>>

(* The Durable Object is evicted: promises and calls are gone, state and tables stay. *)
Restart ==
  /\ "restart" \in Disturbances
  /\ template' = FALSE /\ generating' = FALSE /\ cancellable' = {}
  /\ build' = [b \in Builds |-> IdleBuild]
  /\ toolCallCounter' = 0 /\ held' = << >>
  /\ abandoned' = abandoned \cup pendingUserInputs
  /\ UNCHANGED <<mvpGenerated, pendingUserInputs, asked, chat, log, exposed>>

(* ensureTemplateDetails, outside the try block of buildWrapper: when it fails, *)
(* the promise stays.                                                           *)
LoadTemplate(b) ==
  /\ build[b].stage = "template"
  /\ UNCHANGED <<mvpGenerated, generating, asked, held>>
  /\ \/ /\ template' = TRUE
        /\ BeginIteration(b, pendingUserInputs, chat, cancellable)
     \/ /\ "template" \in Disturbances
        /\ build' = [build EXCEPT ![b].stage = "wedged"]
        /\ UNCHANGED <<template, pendingUserInputs, abandoned, cancellable, toolCallCounter, chat,
                       log, exposed>>

(* updateApp has returned. *)
GenerationComplete(b) ==
  /\ build[b].stage = "completing"
  /\ generating' = FALSE
  /\ build' = [build EXCEPT ![b] = IdleBuild]
  /\ UNCHANGED <<mvpGenerated, pendingUserInputs, template, cancellable, asked, abandoned, talk>>

-----------------------------------------------------------------------------
(* The chain of answers and tool calls of one inference.                     *)

(* handleMessageCompletion, for the message of an answer or of a tool: it is added *)
(* and, when the counter says so, a compaction may be awaited before it returns.   *)
(* The first disjunct is the bound MaxMessages.                                    *)
MessageCompletion(b, caller, after, compacting) ==
  LET m == NewMessage("model", {})
  IN \/ /\ Cardinality(log) >= MaxMessages
        /\ build' = [build EXCEPT ![b] = after] /\ UNCHANGED talk
     \/ /\ Cardinality(log) < MaxMessages
        /\ \E c \in SetConversationState(chat, AddConversationMessage(chat, m)) :
             /\ chat' = c
             /\ \/ /\ toolCallCounter' = (toolCallCounter + 1) % Interval
                   /\ UNCHANGED held /\ build' = [build EXCEPT ![b] = after]
                \/ /\ toolCallCounter + 1 = Interval /\ toolCallCounter' = 0
                   /\ Hold(b, caller, c)
                   /\ build' = [build EXCEPT ![b] = compacting]
        /\ Logged(m)

(* What follows an answer with the tool calls ts. *)
Answer(b, ts) ==
  IF ts = {} THEN [IdleBuild EXCEPT !.stage = "answered"]
             ELSE [build[b] EXCEPT !.stage = "calling", !.calls = ts]

(* infer has an answer of the OpenAI client, with tool calls or not. *)
ModelAnswers(b) ==
  /\ build[b].stage = "inferring" /\ build[b].rounds = 0 /\ ~build[b].aborted
  /\ \E ts \in SUBSET Tools : MessageCompletion(b, Builder, Answer(b, ts), Answer(b, ts))
  /\ UNCHANGED turns

(* inferWithAnthropicNative has one: it has no abort signal and no onAssistantMessage. *)
ClaudeAnswers(b) ==
  /\ build[b].stage = "inferring" /\ build[b].rounds > 0
  /\ \E ts \in SUBSET Tools : build' = [build EXCEPT ![b] = Answer(b, ts)]
  /\ UNCHANGED <<turns, talk>>

(* The native client throws, and infer goes on to the OpenAI client, at the same depth *)
(* and without the native tool calls.                                                  *)
ClaudeFails(b) ==
  /\ "llm" \in Disturbances
  /\ build[b].stage = "inferring" /\ build[b].rounds > 0
  /\ build' = [build EXCEPT ![b].rounds = 0]
  /\ UNCHANGED <<turns, talk>>

(* The next round of the native loop.  After the last one it throws an AbortError, *)
(* which infer takes for any other failure.                                        *)
NextRound(b) ==
  /\ build[b].stage = "calling" /\ build[b].calls = {} /\ build[b].rounds > 0
  /\ build' = [build EXCEPT ![b].stage = "inferring", ![b].rounds = @ - 1]
  /\ UNCHANGED <<turns, talk>>

Returned(b, t) == [build[b] EXCEPT !.calls = @ \ {t}]

Running(b, t) ==
  /\ build[b].stage = "calling" /\ t \in build[b].calls
  /\ {<<b, t>>, <<b, Builder>>} \cap DOMAIN held = {}

(* executeToolWithDefinition, for a tool of withRenderer.  onToolComplete throws an *)
(* AbortError when inputs wait, and executeToolCalls takes it for a result.         *)
ToolCompletes(b, t) ==
  /\ Running(b, t)
  /\ MessageCompletion(b, t, Returned(b, t), build[b])
  /\ UNCHANGED turns

(* A tool that throws, and mark_generation_complete, have no onComplete. *)
ToolFails(b, t) ==
  /\ Running(b, t)
  /\ build' = [build EXCEPT ![b] = Returned(b, t)]
  /\ mvpGenerated' \in {mvpGenerated, TRUE}
  /\ UNCHANGED <<pendingUserInputs, template, generating, cancellable, asked, abandoned, talk>>

(* A compaction in the middle of the chain has its summary. *)
CompactionDone(b, caller) ==
  /\ <<b, caller>> \in DOMAIN held /\ build[b].stage # "compacting"
  /\ chat' \in SetConversationState(chat, Written(b, caller))
  /\ Release(b, caller)
  /\ build' = [build EXCEPT ![b] = Returned(b, caller)]
  /\ UNCHANGED <<turns, toolCallCounter, log, exposed>>

(* Mutant of NextInference: the depth is not looked at. *)
InferDeeper(b) ==
  /\ build[b].stage = "calling" /\ build[b].calls = {} /\ <<b, Builder>> \notin DOMAIN held
  /\ build[b].rounds = 0
  /\ build' = [build EXCEPT ![b].stage = "inferring", ![b].depth = @ + 1]
  /\ UNCHANGED <<turns, talk>>

(* All calls of the OpenAI client's answer have returned: the next inference, or the *)
(* end of the chain.                                                                  *)
NextInference(b) ==
  /\ build[b].stage = "calling" /\ build[b].calls = {} /\ <<b, Builder>> \notin DOMAIN held
  /\ build[b].rounds = 0
  /\ IF build[b].depth + 1 < MaxDepth
       THEN build' = [build EXCEPT ![b].stage = "inferring", ![b].depth = @ + 1,
                                   ![b].rounds = Rounds(build[b].attempt, build[b].depth + 1)]
       ELSE build' = [build EXCEPT ![b] = [IdleBuild EXCEPT !.stage = "answered"]]
  /\ UNCHANGED <<turns, talk>>

(* The last answer is there: another compactifyIfNeeded ends the iteration. *)
EndChain(b) ==
  /\ build[b].stage = "answered" /\ <<b, Builder>> \notin DOMAIN held
  /\ \/ UNCHANGED held /\ EndIteration(b, chat)
     \/ /\ Hold(b, Builder, chat)
        /\ build' = [build EXCEPT ![b] = [IdleBuild EXCEPT !.stage = "compacting"]]
        /\ UNCHANGED <<turns, toolCallCounter, chat, log, exposed>>

FinalCompactionDone(b) ==
  /\ build[b].stage = "compacting"
  /\ Release(b, Builder)
  /\ \E c \in SetConversationState(chat, Written(b, Builder)) : EndIteration(b, c)

(* executeInference starts over, without the context of the tool calls made. *)
InferenceRetried(b) ==
  /\ "llm" \in Disturbances
  /\ build[b].stage = "inferring" /\ build[b].rounds = 0 /\ ~build[b].aborted
  /\ build[b].attempt + 1 < Retries
  /\ build' = [build EXCEPT ![b] = Inference(build[b].attempt + 1)]
  /\ UNCHANGED <<turns, talk>>

(* runToolInference sees the text repeat itself and aborts its controller: the *)
(* retry that is meant to follow finds it aborted.                             *)
TextRepeats(b) ==
  /\ "llm" \in Disturbances
  /\ build[b].stage = "inferring"
  /\ build' = [build EXCEPT ![b].aborted = TRUE]
  /\ UNCHANGED <<turns, talk>>

(* A rate limit, the last attempt, or a cancelled inference: build throws. *)
InferenceFails(b) ==
  /\ build[b].stage = "inferring" /\ build[b].rounds = 0
  /\ build[b].aborted \/ "llm" \in Disturbances
  /\ Completing(b)
  /\ generating' = FALSE
  /\ abandoned' = IF \E o \in Builds \ {b} : Looking(o) THEN abandoned
                                                      ELSE abandoned \cup pendingUserInputs
  /\ UNCHANGED <<mvpGenerated, pendingUserInputs, template, asked, talk>>

-----------------------------------------------------------------------------
BuildStep(b) ==
  \/ LoadTemplate(b) \/ ModelAnswers(b) \/ NextInference(b) \/ EndChain(b)
  \/ ClaudeAnswers(b) \/ ClaudeFails(b) \/ NextRound(b)
  \/ FinalCompactionDone(b) \/ InferenceRetried(b) \/ TextRepeats(b) \/ InferenceFails(b)
  \/ GenerationComplete(b)
  \/ \E t \in Tools : ToolCompletes(b, t) \/ ToolFails(b, t)
  \/ \E caller \in Callers : CompactionDone(b, caller)

Next ==
  \/ \E b \in Builds : UserStarts(b) \/ BuildStep(b)
  \/ \E r \in Requests : UserInput(r)
  \/ UserStops \/ ClearConversation \/ Restart

(* Models, tools and the database answer in the end; users come as they please. *)
Spec     == Init /\ [][Next]_vars
FairSpec == Spec /\ \A b \in Builds : WF_vars(BuildStep(b))

-----------------------------------------------------------------------------
(* Properties.                                                               *)

TypeOK ==
  /\ {mvpGenerated, template, generating} \subseteq BOOLEAN
  /\ pendingUserInputs \subseteq asked /\ asked \subseteq Requests /\ abandoned \subseteq pendingUserInputs
  /\ cancellable \subseteq Builds
  /\ build \in [Builds -> [stage : Stages, depth : 0..(MaxDepth - 1), attempt : 0..(Retries - 1),
                           rounds : 0..MaxDepth, calls : SUBSET Tools, aborted : BOOLEAN]]
  /\ toolCallCounter \in 0..(Interval - 1)
  /\ chat \in Chat
  /\ DOMAIN held \subseteq Builds \X Callers /\ \A k \in DOMAIN held : held[k] \in Chat
  /\ log \subseteq Message /\ exposed \subseteq Message

(* What a conversation in the store, or on its way there, must be: every message *)
(* the user is shown is known to the model, word for word or by the summary of   *)
(* older ones, unless an emergency left it out or a write of it failed; the last *)
(* Keep messages are never summarised; and the running history is there when the *)
(* full one is, so that getConversationState need not stand in for it.           *)
Coherent(c) ==
  /\ c.full \subseteq c.summary \cup c.recent \cup c.forgotten \cup c.unstored
  /\ c.summary \cup c.recent \subseteq c.full \cup c.unstored
  /\ \A x \in c.summary, y \in c.recent : x.at < y.at
  /\ c.summary # {} => Cardinality(c.recent) >= Keep
  /\ c.full # {} => c.recent # {}

(* conversationCompactifier.ts "Always keep last 10 messages uncompacted", and the *)
(* two tables of setConversationState: whatever writes they see, in any order, and *)
(* whichever of the two inserts fails.                                             *)
ModelRemembers == Coherent(chat) /\ \A k \in DOMAIN held : Coherent(held[k])

(* addConversationMessage against the stale write of compactifyIfNeeded and the    *)
(* parallel tool calls: only a message added while a compaction was under way may  *)
(* be lost, or one whose insert failed, and no other, but by the user's clear.     *)
MessagesKept == log \subseteq chat.full \cup exposed \cup chat.unstored

(* fetchPendingUserRequests: a request that is no longer queued was made part of   *)
(* one message added to the conversation, and one that is queued of none, however  *)
(* many builds took their part, failed or were lost.  What the store then has of   *)
(* the message, MessagesKept tells.                                                *)
RequestsRemembered ==
  \A r \in asked : IF r \in pendingUserInputs
                    THEN \A m \in log : r \notin m.asks
                    ELSE \E m \in log : \A x \in log : r \in x.asks <=> x = m

(* queueUserRequest, generateAllFiles and the finally block of executeGeneration:  *)
(* an input never waits with nothing running that will look at it, unless the last *)
(* build failed, was lost, or hangs on its template.                               *)
NoInputStranded ==
  \/ pendingUserInputs \subseteq abandoned
  \/ \E b \in Builds : Looking(b) \/ build[b].stage = "wedged"

(* build(): an input given while a build runs is taken up by it. *)
InputsTaken ==
  \A r \in Requests :
    r \in pendingUserInputs
      ~> r \notin pendingUserInputs \/ r \in abandoned
         \/ \E b \in Builds : build[b].stage = "wedged"

(* The chain of inferences and tool calls that answers one message. *)
Chain == {"inferring", "calling", "answered", "compacting"}

(* What it waits for where it is: results of tools, tool calls and compactions, *)
(* and the inference not to be cut.                                             *)
Awaited(b) ==
  {<<t, "result">> : t \in {x \in build[b].calls : <<b, x>> \notin DOMAIN held}}
  \cup {<<t, "return">> : t \in build[b].calls}
  \cup {<<c, "return">> : c \in {x \in {Builder} : <<b, x>> \in DOMAIN held}}
  \cup {<<c, "abort">> : c \in {x \in {Builder} : ~build[b].aborted}}

SamePlace(b) == /\ build'[b].stage = build[b].stage
                /\ build'[b].attempt = build[b].attempt
                /\ build'[b].depth = build[b].depth
                /\ build'[b].rounds = build[b].rounds

(* It has gone on: to its last answer, another attempt, a deeper inference, a round  *)
(* of the native client less, or the tool calls of the inference it is at.           *)
Passed(b) ==
  \/ build[b].stage # "compacting" /\ build'[b].stage = "compacting"
  \/ build[b].stage \in {"inferring", "calling"} /\ build'[b].stage = "answered"
  \/ /\ {build[b].stage, build'[b].stage} \subseteq {"inferring", "calling"}
     /\ \/ build'[b].attempt > build[b].attempt
        \/ /\ build'[b].attempt = build[b].attempt
           /\ \/ build'[b].depth > build[b].depth
              \/ /\ build'[b].depth = build[b].depth
                 /\ \/ build'[b].rounds < build[b].rounds
                    \/ /\ build'[b].rounds = build[b].rounds
                       /\ build[b].stage = "inferring" /\ build'[b].stage = "calling"

(* The build is over, or has begun its next iteration. *)
Over(b) ==
  \/ build'[b].stage \notin Chain
  \/ build[b].stage \in {"answered", "compacting"} /\ build'[b] = Inference(0)

(* executeInference, infer and executeToolCalls run down: each step of a chain ends  *)
(* it, passes on or leaves less to wait for; other builds, users, parallel calls and *)
(* compactions never take it back or give it more to wait for.                       *)
ChainsRunDown ==
  [][\A b \in Builds : build[b].stage \in Chain =>
       \/ Over(b) \/ Passed(b)
       \/ /\ SamePlace(b)
          /\ Awaited(b)' \subseteq Awaited(b)
          /\ BuildStep(b) => Awaited(b)' # Awaited(b)]_vars

=============================================================================
