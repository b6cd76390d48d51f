# A TLA+ model of StorelyAgent

StorelyAgent (a fork of the Cloudflare Vibe SDK) is a web application that builds web
applications: a user describes one in a chat, language models plan and write it phase by phase,
and a preview of it runs in a container.  Each project is one *agent*, a Cloudflare Durable Object
with state of its own.  The agent is where the repository's own logic is, and it is a concurrent
program although JavaScript runs one thing at a time: every `await` lets web socket messages,
timers, conversation turns, tools and the build in the background run in between.  Much of what is
started is never cancelled, and an object can be evicted at any moment.

This directory holds TLA+ modules translated from that code, TLC configurations that check them,
and proofs that the TLA+ proof system checks.  `PROJECT.json` maps every definition to the lines it
was translated from.

    tlc -workers 2 -config DeploymentSafety.cfg MCDeploymentManager.tla
    tlapm DeploymentManagerProofs.tla

Paths below are relative to the root of the repository; *core* is `worker/agents/core`.

## 1. Inventory

### Components

| Component | State | Operations | What makes it correct |
|---|---|---|---|
| **Sandbox deployment**: `worker/agents/services/implementations/DeploymentManager.ts` | session id and instance id (persistent), shared deployment promise, health check interval (memory) | `deployToSandbox` with an endless retry loop, per-attempt and master timeouts, health checks, setup commands | one deployment at a time; a preview deployed since the object started is watched; the preview has the files that were asked for, or the service said which it has not; nobody waits for ever |
| **Phasic generation**: `core/behaviors/phasic.ts`, `base.ts` | phases, phase counter, request queue, flags (persistent), promise of the build (memory) | start (3 ways), resume, stop, queue a request, the states planning, implementing, finalizing, reviewing | a phase interrupted is resumed; requests get planned; a build ends; a stop stops |
| **Agentic generation**: `core/behaviors/agentic.ts` | queue of inputs, conversation, promise of the build | a loop of one language model with tools that interrupts itself for new inputs | one loop at a time; no input is dropped; compaction keeps messages |
| **Agent object**: `core/codingAgent.ts` | the state record, two conversation tables in SQLite, vault connection, web socket tickets | start, restart, turns, conversation reads and writes, vault callbacks | history is not lost between tables; tickets are used once |
| **Behaviour shared by both**: `core/behaviors/base.ts` | template, static analysis and preview caches, abort controller, deep debug promise, project updates | command execution, `package.json` sync, deep debug, files, screenshots | caches are not stale; deep debug and build exclude each other |
| **Generated files**: `FileManager.ts`, `worker/agents/git` | files map (persistent), git repository in SQLite | record, save, delete, sync from HEAD | map and repository agree; nothing recorded is dropped |
| **Secrets vault**: `worker/services/secrets` | encrypted secrets, one session per user (memory) | set up, unlock, lock, request, reset | an unlocked vault stays so until it is locked; a request for a secret ends |
| **Tool execution**: `worker/agents/inferutils/toolExecution.ts` | none | the order of parallel tool calls from the resources they use | conflicting tools never overlap; but no file imports it |
| **Inference**: `inferutils/core.ts`, `infer.ts` | none that lasts | streaming calls with two clients, retries, tool recursion | a chain of tool calls ends (part of AgenticGeneration); the rest is I/O |
| **Operations and formats**: `worker/agents/operations`, `output-formats` | none that lasts | prompts, streaming parsers, diffs | text algorithms with unit tests of their own |
| **Sandbox service**: `worker/services/sandbox` | instances in containers | create, write, status, commands | the far side of the deployment; external to the model |
| **Container monitor**: `container/` | one child process, its timers and counters; errors and logs in SQLite | start, stop, restart after an exit, health checks that kill, shutdown | one child at a time; restarts are counted; a shutdown leaves none behind |
| **Client SDK**: `sdk/src` | connection with its socket, timer and queue; workspace and state as last heard | connect, reconnect, send, close, apply messages, wait for a state | one way to reconnect; the greeting first; commands in order; what is shown is so |
| **Web chat**: `src/routes/chat` | presentation | answers state updates with `generate_all` | does not restart what the user stopped |
| **Rate limits**: `worker/services/rate-limit` | buckets | check and count | the limit holds |
| **API, database, Cloudflare deployment, payments, domains** | rows | short requests | no protocol of their own |

`core/simpleGeneratorAgent.ts` is an earlier agent that nothing imports.

### Interactions

    user, web chat --messages--> agent object --> behaviour (phasic | agentic)
                                     |                 |   \
                              conversation turn        |    +--> language models (await, abortable)
                               tools: queue_request,   |
                               deep_debug, deploy      v
                                              file manager <-- git (synchronises the map after a reset)
                                                   |   \------> git (stage, commit)
                                                   |
                                              deployment manager --> sandbox service (await, times out)
                                                   ^                        |
                                              health check timer      container: process monitor --> dev server

    program using the SDK --> BuildSession --> connection --> socket, ticket (await) --> agent object
                                  ^ listeners      | open, close, messages; also of connections closed before
                                  +----------------+

Behaviour and deployment share the agent's state record (`state.shouldBeGenerating` is read by the
health check, the files map by the deployment) and call each other through callbacks.  Neither
holds a lock; what excludes what is decided by looking at a promise field before an await.

### What is hard here

* *Abandoned work goes on.* `withTimeout` stops waiting but cancels nothing: a deployment that was
  given up still records its instance when the sandbox service answers, and a retry loop whose
  caller has left keeps retrying beside the next caller's.
* *Fields looked at before an await and used after it*: the generation promise, the interval that a
  health check found, the request queue, conversation and compaction.
* *Restarts.* An evicted object keeps `state` and loses promises, timers, queues in memory and
  everything a model was thinking about.
* *Failures in the middle*: the setup commands fail after the health check was started; the
  inference fails after the request queue was emptied; loading the template fails outside the `try`.
* *Read, await, write back*: a compaction of the conversation, a synchronisation of the files map, a
  save of all files each write what they read before an await over what came meanwhile.
* *One index for everyone.*  The tools of one turn run in parallel; each save stages file by file, and
  whoever commits first takes what all have staged.
* *Two names of one file.*  The files map is keyed by the path a file was given with, git by the path without a
  leading '/'.
* *Errors that are only logged.*  The two tables of a conversation are written by two inserts, either of which may
  fail without its caller knowing; the sandbox service may report files it has not written in an answer that counts
  as a success.
* *Two promises under one name.*  `generationPromise` is cleared after every iteration of the agentic
  loop, so a second build starts beside the first.
* *Every log line is an await.*  In the container monitor the exit of the child, the restart timer, a
  health check and the shutdown come between any two lines.
* *Counters at their edge*: `phasesCounter` is decremented below zero by the final phase, and
  compared with `<= 0` in the middle of a build.
* *Closed but not gone.*  A connection of the SDK that was closed still gets its ticket and the events of
  its sockets, and its listeners act on the session as it is then.
* *Stops and starts that cross*: a stop between two inferences, an automatic `generate_all` of the
  chat that was on its way.

`PROJECT.json` lists the main hazards at their lines, with the properties that cover them, or why no
property does yet; more of those that no property covers are told in sections 6 and 7.

## 2. Plan

Built in this order; what is done is marked.

1. **DeploymentManager** and the abstract **SharedDeployment** it implements (done: model, three passing
   runs, one divergence, the refinement, proofs).
2. **PhasicGeneration** and the abstract **PhasePlan** it implements (done: model, a passing run with
   liveness and the refinement, three divergences, proofs of both).
3. **AgenticGeneration** with the conversation store of the agent object (done: model, a passing run
   with liveness, proofs).
4. **ProcessMonitor** and the abstract **Supervisor** it implements (done: model, a passing run with
   liveness and the refinement, proofs of both).
5. **GeneratedFiles**: the files map against git (done: model, a passing run, proofs).
6. **BuildSession** and the abstract **CommandQueue** it implements: the session of the client SDK with
   reconnects, commands and workspace (done: model, a passing run with the refinement, proofs of both).
7. Open: the messages of the conversation in the turns of a phasic agent.
8. **VaultSession**, once something calls `getDecryptedSecret`: sessions, sockets that come and go,
   waiting requests.

The modules are separate specifications because the components share little: phases and agentic loop
are alternatives, the monitor runs in another process, and of the files the builds see only names.
What crosses a border is a choice in the module on either side of it: a health check sees the agent
generating or not (DeploymentManager), a build's deployment returns or fails (PhasicGeneration), a tool
call may record and save files at any time (GeneratedFiles), the agent saves and announces files at any
time (BuildSession).

## 3. Modules

| Module | What it is |
|---|---|
| `DeploymentManager` | the deployments of one agent |
| `SharedDeployment` | what `deployToSandbox` promises its callers: abstract, five actions |
| `MCDeploymentManager` | symmetry and constraints for its runs |
| `DeploymentManagerProofs` | inductive invariant, theorems, the refinement |
| `DeploymentWatchProofs` | where instance ids come from; the theorem about the health check |
| `PhasicGeneration` | builds, conversation turns and messages of one phasic agent |
| `PhasePlan` | what becomes of the requests and the phases they pay for: abstract, five actions |
| `MCPhasicGeneration` | the assumption that the plan bound is never felt |
| `PhasicGenerationProofs` | inductive invariant, theorems, the refinement, why builds run down |
| `AgenticGeneration` | builds of one agentic agent, their chains of tool calls, the conversation and its compaction |
| `MCAgenticGeneration`, `AgenticGenerationProofs` | a small instance; inductive invariant and theorems |
| `ProcessMonitor` | the monitor of a dev server in its container, with the command that owns it |
| `Supervisor` | what any such monitor promises: abstract, four actions |
| `MCProcessMonitor`, `ProcessMonitorProofs` | a small instance; inductive invariant, theorems, the refinement |
| `GeneratedFiles` | the files map and the git repository of an agent under concurrent calls |
| `MCGeneratedFiles`, `GeneratedFilesProofs` | symmetry of a small instance; inductive invariant and theorems |
| `BuildSession` | the SDK's session with an agent: its connections, also those closed, their sockets, its workspace |
| `CommandQueue` | what becomes of the commands given to a session: abstract, six actions |
| `MCBuildSession`, `BuildSessionProofs` | symmetry of a small instance; inductive invariant and theorems |
| `BuildSessionLineProofs` | theorems about the order of messages, up and down; the refinement |

In all models one action is the code between two awaits, together with the promise continuations
that it triggers.  Where a definition has a plausible wrong form that a property should catch, that
form stands before it as an operator marked "Mutant of"; `Next` does not use it.

### DeploymentManager

State and code: `session` is `state.sessionId` and `instance` is `state.sandboxInstanceId`;
`promise` is `currentDeploymentPromise`, named by the call that owns it; `health` is the instance
that the closure of `healthCheckInterval` watches; `ticks` its requests in flight.  `call[c]` says
where the caller `c` of `deployToSandbox` is, `loop[c]` is the `executeDeploymentWithRetry` that
`c` started, and `attempt[a]` a `deploy()` that has not settled, be it one the loop still waits for
or an abandoned one (`Zombie`).  `sandbox` is the set of instances which the sandbox of the current
session holds; the service is external, and `up` says that it is past its outage.  `Brings[c]` are the
files the caller `c` asks to deploy, `Theme` those under `storefront-app/theme/`; `loop[c].result` has what the write of a
resolved loop `wrote` and what the service reported as `failed`.

| Action | Code |
|---|---|
| `DeployToSandbox` | `deployToSandbox` up to its first await: join the shared promise or become its owner and begin an attempt |
| `StatusHealthy`, `StatusUnhealthy`, `Created`, `Written`, `ServiceFails` | `deploy` and `ensureInstance` at each answer of the sandbox service; a theme file reported as failed fails the attempt (`ServiceFails`), any others are warned of and the attempt succeeds (`Results`) |
| `AttemptTimeout`, `Retry`, `SetupDone`, `SetupFails` | the retry loop: timeout, backoff, setup commands, with the `catch` block (`Catch`) that forgets the instance and every third time the session |
| `MasterTimeout` | the caller's own timeout, with the owner's `finally` |
| `HealthTick`, `HealthAnswer` | the interval and the answer to one of its requests, with the redeployment it may start |
| `Restart`, `ServiceRecovers` | eviction; the end of an outage |

Abstractions.  Timers have no duration: one may fire whenever it is set and the service is not
known to be up; once it is, answers come before the timeouts of attempts, and a write that reaches its instance writes
its theme files.  A file is its path: what it contains is not told apart, and the backend files which `getFilesToDeploy`
filters out are in nobody's `Brings`.  The proxy token of
`createNewInstance` and the log clearing are folded into the request they belong to, and an empty
list of files into a failed write.  An abandoned attempt that begins to write gives back its slot,
because nothing it does from there on touches the agent.  A health check sees the agent generating
or not as it comes, as `state.shouldBeGenerating` belongs to PhasicGeneration.  Every call is made
once; its slot in `Calls` stands for one invocation.  A session or instance that nothing mentions
any more is used again as a fresh one.  `deployToCloudflare`, static analysis and runtime errors
neither read nor write these variables except through calls of `deployToSandbox`, and are left out.

`SharedDeployment` knows nothing of attempts, sessions, instances or health checks.  A deployment has the
name of the call that began it, and the mapping reads `made` from the calls that are not idle, `waits`
from the promise a caller joined, `current` from the shared promise, `running` from the loops that are
at work, `preview` from `loop[c].result.wrote` of a resolved loop, and `got` from the callers that returned with a
preview.  A caller's master timeout is `GiveUp`, after which the deployment it began runs on unshared; a
restart is `Lose`; everything a loop does between its beginning and its end is a stutter.  It does not
promise a caller that joins that its own files are in the preview: the code does not either.

### PhasicGeneration

`build` is the generation promise and everything behind it: its `stage` is what it waits for
(`template`: `ensureTemplateDetails`; `planning` and `preparing`: the `fetchAllIssues` before
planning or implementing; `drafting` and `writing`: the inference; `deploying`: saving, commands,
deployment and fixes; `finalizing`, `reviewing`: the issues fetched there; `completing`: `updateApp`
in `buildWrapper`; `wedged`: the promise was rejected before the `try` and stays set).  `generated`
is the length of `generatedPhases` and `open` its incomplete entries by position.  The other state
variables have the names of the code.  `turn[t]` is one call of `handleUserInput`, `echo` a
`generate_all` which a chat sent by itself.  `asked`, `implemented`, `stopped` and the field `cut`
of a build are history and no guard reads them, but for `asked`, which makes each request a fresh one.

| Action | Code |
|---|---|
| `UserGenerates`, `ClientEchoes`, `UserResumes`, `UserStops`, `ClientReconnects` | the messages of `core/websocket.ts`, and what the chat sends by itself |
| `GenerateAllFiles`, `LaunchStateMachine` | the common start: resume the last incomplete phase, plan, or begin with the blueprint's phase |
| `Initialize`, `SetupDone`, `SetupFails`, `Restart` | the life of the object |
| `BeginTurn`, `QueueUserRequest`, `StartDeepDebug`, `EndDeepDebug`, `EndTurn`, `TurnFails` | a conversation turn and the tools that steer the build |
| `LoadTemplate` ... `GenerationComplete` | the state machine, one action per await |

Abstractions, and why the code allows them.

* A phase is its name, whether the model marked it last, and the requests it was planned for: no
  guard reads more.  `currentPhase` never steers anything, because `phaseConcept` is set wherever it
  would be used instead; details of completed phases are never read again.
* Of what a build awaits, `fetchAllIssues`, commits, commands and `updateApp` catch their own errors,
  as does a deployment, except that `deployToSandbox` throws for a project that is not previewable
  (`NotPreviewable`).  What remains to fail is inference and the loading of the template.
* A stop is the `aborted` flag of the inference under way: the build's inference always holds the
  controller that the stop aborts.  An aborted conversation turn ends like an answered one, and then
  starts a build.
* The chat answers every state update with a raised flag by `generate_all`; the model keeps at most
  one of these on its way, since a second finds what the first left.
* Stopping, failing, losing the template or the preview and restarting can be switched off (`Disturbances`), which
  the three divergence runs do to give short traces.
* The model answers at most `MaxPlans` times with a phase; `MCPhasicGeneration` assumes more than
  `PhasesBounded` allows, so that TLC would see the bound crossed.  The proofs need no such bound.

`PhasePlan` knows nothing of builds, turns, inferences, stops or restarts.  The mapping reads `waiting` from
`pendingUserInputs`, `planned` from the requests a build took to its planner (`context`), `open` and `within` from
the incomplete phase, `left` from `phasesCounter`, and `final` from whether the final phase can still come.
`FetchPendingUserRequests` is `Take`, an answer with a phase and the blueprint's phase are `Begin`,
`MarkPhaseComplete` is `Complete`, `QueueUserRequest` is `Ask`; a failure, a stop, an answer without
files and a restart in the middle of planning are `Drop`; all else stutters.  `PhasePlan` promises that requests
planned together are implemented together, that no phase begins over an open one, and that only
one phase is not paid for; it does not promise that what a planner took comes back, as the code does not.

### AgenticGeneration

`build[b]` is one run of the loop in `build()`; there may be several since `generating`, the flag that
`generationPromise` is set, is cleared by whichever iteration ends first.  Its `stage` is what it waits
for: the template, the model (`inferring`), its tool calls (`calling`), the compactions the tool calls
have begun (`answered` until they end), the last compaction, `updateApp` (`completing`).  `depth` is that of the
recursion of `infer`, `attempt` that of `executeInference`, which begins a chain afresh, and `rounds` what the loop of the
native Claude client has left at that depth, 0 once the OpenAI client is used.  `chat` has the
two tables: `full`, and the running history as the messages `summary` stands for and those in `recent`; its fields `forgotten`
(messages which an emergency left out) and `unstored` (messages of a write of which an insert failed) are history.
`held` is what each compaction under way will write.  `cancellable` is the set of builds that hold
`currentAbortController`.  `log`, `exposed`, `asked` and `abandoned` are history.

| Action | Code |
|---|---|
| `UserStarts`, `UserInput`, `UserStops`, `ClearConversation`, `Restart` | `GENERATE_ALL`, a message of the user (queued, and a build started if none is known), stop, `clearConversation`, whose second delete may fail, eviction |
| `LoadTemplate`, `BeginIteration` (within), `EndIteration`, `GenerationComplete` | `buildWrapper` and the loop of `build`: the queue becomes one message, an inference begins; at its end the loop looks at the queue |
| `ModelAnswers`, `ToolCompletes`, `ToolFails`, `NextInference`, `EndChain` | an answer with tool calls or without; calls run in parallel; the next inference one deeper |
| `ClaudeAnswers`, `NextRound`, `ClaudeFails` | `inferWithAnthropicNative`: its answers, its own loop over tool calls, and its failures, of which its limit is one: `infer` goes on with the OpenAI client at the same depth |
| `CompactionDone`, `FinalCompactionDone` | the write-back of `compactifyIfNeeded`, of a compacted history (`Compacted`) or of one cut to its last 20 messages (`Emergency`) |
| `InferenceRetried`, `TextRepeats`, `InferenceFails` | the retries of `executeInference` and its ends |

A message is its position, its role and the requests it tells of; the ids by which the tables are
deduplicated are fresh.  `SetConversationState` is the write of both tables: the running history is inserted first, the
full one second, and as either insert may throw, which is only logged, it has three outcomes.  Reads of the tables are assumed to succeed.
A summary that cannot be made is replaced by a fixed text inside the compaction and counts as one.  `Coherent` ends
with the reason why `getConversationState` never has to fill in for a missing running history: one that is there
is never empty while the full history is not.  What tools do, slides, images and `shouldBeGenerating` (written as in
PhasicGeneration and not read here) are left out.

### ProcessMonitor and Supervisor

`state`, `restartCount`, `healthTimer`, `bound`, `failures` and `restarting` are fields of the code;
`proc[i]` is what became of the i-th child (`alive`, sent SIGTERM or SIGKILL, `gone`); `timer` and `callback` are the
restart timer and its callback waiting for the log, `start` and `stop` where `start()` and `stop()`
wait, `check[c]` where a health check does, `runner` is the command line process around it.  `runs` and
`asked` are history.

| Action | Code |
|---|---|
| `Launch`, `StartLogged`, `ResetLogged`, `Launched` | the command and `start()` at each of its awaits; a spawn may throw or give no pid |
| `Exit`, `ChildError`, `FatalError` | the child's events, and `handleFatalError` |
| `TimerFires`, `RestartLogged` | the restart timer and what follows its log line |
| `BeginCheck` ... `HealthKillEnds` | a health check: the probe, its counter, the decision to kill, the kill |
| `Shutdown`, `StopLogged`, `CancelLogged`, `StopKillEnds`, `StopSaid`, `Exited`, `Died` | signals, `stop()` and the `cleanup()` after it, the end of the command |

`Supervisor` has `alive`, `started`, `earned` and `gone`.  The refinement maps them to `Live # {}`,
`runs`, `stable` and `~Up`: one child at a time, a bounded series, a new one only after a run that
earned it, none once gone.  Output, log lines, the error store and durations are left out.

### GeneratedFiles

`filesMap` is `generatedFilesMap`, by the path a file was given with (`Paths`); `tree`, `index` and `head` are the working
tree, the index and the files of what HEAD names, by that path without its leading '/' (`normalizePath`), so that
two entries of the map may be one file (`Spellings`).  Contents are the number of the
`recordFileChanges` that brought them; `commits` are all there ever were, and a HEAD that names none of them has no files.  `call[c]` is an asynchronous call between two awaits with what
it captured when it was made.  isomorphic-git is external: `add`, `commit` and the forced `checkout`
change index, tree and HEAD in one step each.  `beaten` and `adrift` are history: the files others wrote
after a call did, and those on which map and HEAD need not agree.

| Action | Code |
|---|---|
| `RecordOnly`, `Delete` | `recordFileChanges` while files are generated, `deleteFiles` |
| `Save`, `SaveAll`, `CommitIndex` | `saveGeneratedFiles` with files, without files and in `gitInit`, `commit([])` of the git tool |
| `Write`, `Add`, `Stage`, `Commit`, `NothingToCommit` | `stage` and `commit`, a step per await |
| `Reset`, `ResetNowhere`, `Checkout`, `ReadHead`, `SetMap` | `reset` and the synchronisation its callback starts; `resolveRef` lets any forty hexadecimal digits pass, so HEAD may be set to what is no commit before the checkout throws |
| `Fail` | any error in a call, or eviction, which ends every call |

The code that reads without effect (`log`, `show`, export for a clone) is left out; that a read of HEAD
takes several steps is covered by `unread` as far as it fails, and otherwise by HEAD naming an immutable
commit.

### BuildSession

`conn[c]` is what `createAgentConnection` keeps for the connection `c`: `fetches` its `getUrl()` under way,
`timers` its reconnect timer, `attempts`, `ws`, `isOpen`, `pending` with the names of the code; `sock[s]` is a web socket,
with the messages `in` it that are on their way to the client.  `connection`, `shown` (the connection as
the state store shows it) and `workspace` are the session's; `saved` is the files of the agent's state, and `announced`
says that a file was broadcast since the state last was.  `handed`, `dropped`, `given`, `first` and `meddled` are
history: what was sent and dropped, and what a closed connection has changed; so is `eager`, the commands which a listener
gave while an open event was being handled.

| Action | Code |
|---|---|
| `Connect`, `Command`, `Close` | `connect`, the commands and `close` of the session, with those of the connection |
| `TicketArrives`, `TicketFails`, `TimerFires` | `connectNow` after its await, its `catch`, and the timer that calls it |
| `SocketOpens`, `SocketCloses`, `Deliver` | `onOpen`, `onError` and `onClose`, `onMessage`, each with the session's listeners |
| `AgentSaves`, `AgentAnnounces` | external to the SDK: `setState`, which broadcasts the state, and `file_generated` |

A listener of the program runs inside the callback it hears of and may give commands there.  In an open event they overtake:
the connection is open already, so they are sent at once, those of a listener of every event or of the state before the
greeting, those of a listener of `ws:open` after it, and all of them before the queue is flushed (`OpensOwn`, `Greeting`).
In any other callback a command goes out or waits as one given right after it.  A message to the agent is its number, or 0 for `session_init` with `get_conversation_state`; the session is given credentials
or asks for the conversation, as it does by default.  The back-off has no duration, a socket may break
at any time with or without an error event, and a broken socket loses what is on its way.  What was handed to a socket counts as sent; whether the agent reads it is not modelled.
Left out are a listener that throws, connects or closes, a runtime without `WebSocket`, where no connection ever comes up (`ws.ts:204`),
waits for a message, which change nothing, the phase timeline and the rest of the state store,
and what a program does with a connection it kept after `close()`.

`CommandQueue` knows nothing of tickets, timers, retries or sockets but that one is open.  The mapping (`Seen`) reads it off the
session's connection, or nothing when there is none: `Connect` is `Begin`, `Close` is `End`, `Command` is `Give`, the
own socket opening is `Open`, with the commands given inside the event, and ending `Break`; the open event of a connection closed before
is `Greet`, as its listener greets on the session's connection; all else stutters.  It promises that nothing is sent,
held back, dropped or put out of order but as a queue of `MaxPending` does; not that what was sent arrives.

## 4. Runs

Twelve runs; the passing ones take every action of every module.

| Run | Bounds | Shows |
|---|---|---|
| `deployment_safety` (`DeploymentSafety.cfg`) | two calls, one of which brings a theme file and a page; two attempts, three sessions, three instances, one health request; session reset at every second failure; during an outage; names symmetric | `PromiseIsOwned`, `Monitored`, `WatchesCurrent`, `OwnerFilesWritten`, `SharesDeployments` |
| `deployment_outage` (`DeploymentOutage.cfg`) | two calls, one of which brings a theme file and a page; one attempt at a time; session reset at every second failure; an outage of any length | `LoopsRecover`, `CallsReturn` |
| `deployment_recovery` (`DeploymentRecovery.cfg`) | two calls, one that brings a theme file and one that forces a redeploy; two attempts; session reset at every third failure; a short outage | `LoopsRecover` when attempts overlap |
| `deployment_retries_past_master_timeout` | one call | *violated*: `RetryEndsAtMasterTimeout` |
| `generation` (`Generation.cfg`) | two turns, one request, two phase names, two phases, recharge to two, a chat that echoes, everything may fail | `OneOpenPhase`, `PendingHasBudget`, `PhasesBounded`, `PlansPhases`, `BuildsEnd`, `RequestsReachPlanning` |
| `agentic_generation` (`AgenticGeneration.cfg`) | two builds, one tool, one request, depth two, one retry, one message kept, a compaction possible at every call, four messages; everything may fail, an insert while three or four messages are logged; a clear at four; the first retry is on a Claude model | `ModelRemembers`, `MessagesKept`, `RequestsRemembered`, `NoInputStranded`, `InputsTaken` |
| `process_monitor` (`ProcessMonitor.cfg`) | two restarts, one long run, a threshold of two, two health checks | `OneChild`, `StoppedMeansDead`, `RestartsBounded`, `OnlyRestartsSurvive`, `ShutdownEnds`, `CrashRestarted`, `Supervises` |
| `generated_files` (`GeneratedFiles.cfg`) | three calls made once each, two records; two files, or one given with and without a leading '/'; calls and files symmetric | `CommitsKept`, `StagedKept`, `Agree` |
| `sdk_session` (`BuildSession.cfg`) | two connections, two sockets, two files, two retries, two messages in the queue, three commands per connection, given at any time and inside open events, two messages on the way; names symmetric | `OneWayOn`, `CredentialsFirst`, `QueuesCommands`, `ShowsConnection`, `CatchesUp` |
| `generation_requests_restarted`, `generation_stop_holds`, `generation_flag_on_failure` | smallest that show it | *violated*: see section 6 |

**Why the bounds are enough.** Two callers suffice for each interference found: an owner and a
waiter, an abandoned loop and a new owner, a health check's deployment and a caller's.  Two attempt
slots allow an attempt that is current and one abandoned, of the same loop or of different ones.
Three sessions and instances leave a fresh one when the state and the attempts refer to two.  A
reset at every second or third failure happens within a few attempts.  Safety of deployments is checked while
the service is down: a service that is down may give every answer one that is up gives, timeouts and
failures besides.  The two recovery runs share the work.  `deployment_outage` has no constraint: the
outage lasts any number of failures, or for ever, but an abandoned attempt has to settle before the
next one begins, of whichever loop.  `deployment_recovery` lets attempts overlap and a loop force a
redeploy; its constraint `ShortOutage` keeps to one failure before the service is up (any number
after it), and only one of the two loops has it.  A liveness property under a constraint says
nothing of the behaviours that are cut off, which is why `CallsReturn` is checked in
`deployment_outage` only.  One caller brings two files, one that has to be written and one that need not be; the other
brings none and gets all there are.

For generation, `MaxPhases = 2` and `Recharge = 2` reach every comparison of the counter (above the
recharge is not possible, at it, at one, at zero, at -1), two names let the model repeat one and
change it, and one request meets every stage of a build.  The theorems lift these bounds: they hold
for every number of callers, requests, turns, phases and recharges.

Two builds are one and the one that a forgotten promise lets in; one compaction is then held by
either, so each can write over what the other adds.  Four messages are the fewest with which a compaction
happens in the middle of a chain: two before a user's message and one after it.  Depth two, one retry, a
kept message and the interval of one put the recursion, the attempts, the boundary search and the counter
at every comparison they make.  The defaults of `config.ts` name no Claude model, but users choose their models: in the run the
fallback model, which `executeInference` takes after the first failure, is a Claude, so that both clients are met.  With one message
kept, four messages are the fewest that an emergency shortens; inserts fail while three or four are logged, which covers
new messages as well as write-backs, and the clear comes when the conversation is full.
`Bounds` follows a second attempt only while two messages are logged at most, and a cut inference only until a write has
failed or the history was shortened or cleared.  `InputsTaken` is therefore checked for what the constraint keeps; the
theorems, which have no such bounds, cover the safety of the rest.  Several requests in the queue are left to the theorems.  Two restarts are a
first, a last and one refused; a long run resets the counter once; only so many children may be long so
that their number stays finite, and the theorem `TypeCorrect` shows for every value that this cuts nothing else off.
Two checks are what can overlap: one that probes and one that waits in a kill or for its log line.
Three calls are two saves and a reset, or two resets and a save, with two records for either an order
of two contents of one file or one of each file; a third file or record adds names to the same cases.  `OneSlashed` keeps a
file with two spellings and a second file apart: what one does to the other goes through the index, which two files show.
Two connections of the SDK are the session's own and one closed before it, which is what can meddle; a
connection has one socket at a time, closing or not.  Three commands are one more than the queue holds,
so that the limit is crossed, and two retries are a first and a last.  Two messages on the way are one that is lost or late behind
another; two files tell a state from the announcement of one file.

**Fairness.** `FairSpec` of deployments assumes that timers fire and that a step of a loop or of an
attempt which stays possible is taken; once the service is up, the steps that remain possible are its
answers, before that, failures and timeouts too.  Callers, health checks and outages owe nothing.
`CallsReturn` rests on the master timeout alone, which is what the code has.  `FairSpec` of generation
assumes weak fairness of the build's next step as a whole: whatever it waits for is answered, with a
result or a failure.  Deployments have their master timeout; inference, commands and
analyses have none in this repository, so this is an assumption about the services called: each
answers or fails in the end.  It does not assume
that an inference ever succeeds, that users are quiet or that restarts stop.  `FairSpec` of the agentic
loop is the same for each build: models, tools and the database answer or fail in the end.  `FairSpec`
of the monitor assumes that appends to the log return (they catch their errors), that timers fire and that SIGKILL
ends a process; it does not assume that a child ever exits by itself, obeys SIGTERM or is asked to.
GeneratedFiles has no liveness: a call that ends says nothing of another.  BuildSession has none either: the network
owes nothing, and what it owes if it did, that a connection goes on trying, is the invariant `OneWayOn`.

## 5. Proofs

TLAPS proves, for every value of the constants that satisfies the assumptions in the modules:

| Theorem | Statement |
|---|---|
| `DeploymentManagerProofs!TypeCorrect` | types, for any callers, attempts, sessions and instances |
| `DeploymentManagerProofs!PromiseOwned` | `PromiseIsOwned`: the shared promise belongs to exactly the caller that started it and still waits |
| `DeploymentManagerProofs!AlwaysMonitored` | `Monitored`: since the first success in this life of the object, a health check or a loop that will start one |
| `DeploymentManagerProofs!OwnersGetTheirFiles` | `OwnerFilesWritten`: theme files were written, others were or the service reported them |
| `DeploymentManagerProofs!ImplementsSharedDeployment` | `SharesDeployments`: DeploymentManager implements `SharedDeployment` |
| `DeploymentWatchProofs!WatchesTheCurrent` | `WatchesCurrent`: with no loop at work, the health check watches the instance the agent deploys to, unless abandoned work recorded one of its own |
| `PhasicGenerationProofs!TypeCorrect` | types, with `phasesCounter` at least -1 |
| `PhasicGenerationProofs!NoPhaseLeftBehind` | `OneOpenPhase` |
| `PhasicGenerationProofs!RequestsArePaidFor` | `PendingHasBudget` |
| `PhasicGenerationProofs!NoRunawayBuild` | `PhasesBounded`, by arithmetic over the number of requests |
| `PhasicGenerationProofs!NoRequestForgotten` | the action property `RequestsSurvive`, of which the run checks the stronger `PlansPhases` |
| `PhasicGenerationProofs!ImplementsPhasePlan` | `PlansPhases`: PhasicGeneration implements `PhasePlan` |
| `PhasicGenerationProofs!NothingPlannedTwice` | the invariant `PlannedOnce`: a request waits, is being planned, is in the open phase or in a completed one, and never in two of these |
| `PhasicGenerationProofs!BuildsDoRunDown` | the action property `BuildsRunDown`: each step of a build has fewer left, and only a recharge adds any |
| `AgenticGenerationProofs!Remembers`, `!NoOtherLoss`, `!NoRequestDropped`, `!InputsServed`, `!TypeCorrect` | `ModelRemembers`, `MessagesKept`, `RequestsRemembered`, `NoInputStranded`, types, for any builds, tools and requests |
| `AgenticGenerationProofs!ChainsDoRunDown` | the action property `ChainsRunDown`: each step of a chain of tool calls, of either client, ends it, passes on or leaves fewer to wait for |
| `ProcessMonitorProofs!NeverTwoChildren`, `!StoppedLeavesNone`, `!RestartsLimited`, `!ShutdownLeavesOnlyRestarts`, `!TypeCorrect` | the five invariants of the run, for any limits |
| `ProcessMonitorProofs!Refinement` | `Supervises`: the monitor implements `Supervisor` |
| `ProcessMonitorProofs!ShutdownDoesRunDown` | the action property `ShutdownRunsDown`: each await of a shutdown that ends leaves fewer, and nothing adds any |
| `GeneratedFilesProofs!CommitsAreKept`, `!StagedIsKept`, `!MapAgrees`, `!TypeCorrect` | the four invariants of the run, for any paths, normalisation, calls and records |
| `BuildSessionProofs!NoSecondReconnect`, `!GreetedFirst`, `!ShowsItsConnection`, `!TypeCorrect` | `OneWayOn`, `CredentialsFirst`, `ShowsConnection`, types, for any connections, sockets, files and limits |
| `BuildSessionLineProofs!FilesCatchUp` | `CatchesUp`, for any number of messages on the way |
| `BuildSessionLineProofs!ImplementsCommandQueue` | `QueuesCommands`: BuildSession implements `CommandQueue` |
| `BuildSessionLineProofs!CommandsKeepTheirOrder` | the invariant `CommandsInOrder`, for any number of commands: in order but for those that overtake inside an open event, none twice, none missing but those dropped |

*Deployment.* `PromiseIsOwned` and `OwnerFilesWritten` are not inductive.  `IInv` adds that a loop
points at an attempt exactly while it waits for one (`LoopsPoint`), that an attempt which writes is
one its loop waits for (`AttemptsBelong`), that only owners have loops (`CallsRoles`), that the files of
an owner are in the map before its loop starts and in every write for it (`FilesFollow`), and, for the
health check, that a loop running setup commands is watched as well (`Watched`): a `catch` block that
follows the setup commands puts the loop into its backoff, which is a loop at work.  `Monitored` is about one life of the
object: an eviction turns every loop off and with them what the property starts from, because the code then watches nothing
until the next deployment (section 6).  `FilesFollow` carries the files through the answers of the service, which may
leave out any but the theme files as long as it says so.
`WatchesCurrent` speaks of the end of a deployment, so `Current` follows the instance id through it: an
attempt its loop waits for works on the agent's instance (`OfInstance`), and the health check watches
another one only while an attempt that has just made an instance still writes to it (`Follows`).
`Current` claims this while only the shared loop is at work; a second loop, left behind by a master
timeout, stays at work until it records an instance, which is the exception of `WatchesCurrent`, or
until a restart, after which nothing is watched.
The refinement needs one invariant more, `Brought`: what a loop wrote or an attempt writes are files of
calls already made, since the files map they take them from has no others, and a caller that waits has
joined a deployment.  Every action is then a beginning, a joining, a delivery, a giving up, a
loss or a stutter, shown once for each way a loop can end or go on.

*Generation.* `OneOpenPhase` says nothing of a build that resumes; `Course` adds that a build only
starts when there is something to do and that nothing is open when the final phase is considered.
`PendingHasBudget` is not inductive because completing a phase takes one from the counter: `Budget` adds
that a request which waits while a phase is open, or while one is being planned, leaves the counter
above *one*; that is what `queueUserRequest`'s `<=` establishes, and why the recharge must be at least
two.  `PhasesBounded` follows from `Paid`, an account: phases completed plus what the counter still
allows never exceed MAX_PHASES plus what the requests recharged (from -1 to the recharge at most,
hence `Recharge + 1` for each).
The refinement needs `Handed`: requests are in a planner's hands only while a build is drafting a phase, so that
every other step leaves `planned` empty and every failure is a `Drop`.  `Begin` needs that the counter
is positive or the final phase is due, which `Course` and `Budget` give at each way to begin one; a phase that is marked complete is the only one open (`OneOpenPhase`),
so that its requests are exactly those `within`.

*Agentic loop.* `MessagesKept` speaks of the tables, which a compaction that is under way will replace:
`Conversations` says of everything *held* what the properties say of `chat`, so that a write-back changes
nothing.  A failed insert leaves either table as it was, so what the two may then disagree on is exactly the messages of that
write (`unstored`), and an emergency moves messages to `forgotten`; what `Coherent` claims is inductive because both only grow
until the user clears.  It needs messages numbered without gaps, because `Keep` counts messages and the boundary is
found by position, and a finite log.  `Served` adds to `NoInputStranded` that a raised promise has a
build behind it; without this a start that is refused would strand an input.  `Told` gives `RequestsRemembered`
the half it lacks: a message asks only what was asked, so that no message tells of a request before it is in the queue.  It speaks of the message that was added: what the store has of it
after a failed insert is what `MessagesKept` says.

*Monitor.* `OneChild` is not inductive, since a start does not look whether a child runs.  The
strengthening counts tokens (`OneToken`): a timer, its callback or a `start()` under way is one, there is at most one, an
exit makes it, a spawn spends it, and while there is one no child runs.  `Lineage` numbers the children,
`Budget` relates `runs` to `restartCount` before, while and after it is reset, `Dead` and `StopKnows`
say what `stop()` knows of the child when it returns.  The refinement is a step simulation from that
invariant: every action is a start, a start of a new series, an end, a departure or a stutter.

*Running down.* Liveness has two halves: what is waited for comes, which is fairness, and there are only
so many things to wait for.  The second is a property of steps, and is proved.  `StepsLeft` of a build counts the stages of the
phase it is in and five stages for every phase the counter still allows, with the final phase, review and
completion after them; `Course` and `Budget` are needed for the counter to be positive where a build
plans or implements.  In a chain of tool calls `Known` says that a compaction under way belongs to a call that has not
returned or to an answer whose last compaction is still awaited, so that no await is added where none was seen; attempts,
depth, the native client's rounds at each depth and the calls of an answer are bounded, a native loop that fails passes on to the other client with no rounds left, and an answer that is retried begins the next attempt.  `AwaitsLeft` counts the awaits of both calls of `stop()` in a shutdown.

*Files.* `Agree` speaks of saves that have ended.  `OnItsWay` says of every file not adrift where its
contents are until then: in the map and carried by a save that must still write, add or commit them,
or arrived.  `Arrived` is the same for index and HEAD per call, `ResetsKnow` that during a reset
everything is adrift and the reset is told of every write, `ResetReads` what a reset has read.
None of them needs to know how paths are normalised but that doing it twice changes nothing; a file which the map has under
two paths with different contents is adrift until a save with a message finds it with one.

*Session.* `OneWayOn` speaks of connections that were not closed, and their sockets; `Wiring` says of every connection,
socket by socket, whose it is, that a connection has at most one that is not closing, and that only an open one has
messages, so that an event finds the connection it is of.  The greeting comes first because a connection is `isOpen` only
with a socket that was greeted (`Greeted`), or one on which a listener spoke inside the open event.  `OnItsWay` adds to `ShowsConnection` that the session's connection is
not open before its socket is.  For `CatchesUp`, `LastWord` looks at the messages on the way rather than at their end: unless the agent has announced a
file since, the last of them is its state, and with none the workspace has it.  `CommandsInOrder` is
proved over what was sent followed by what waits as one line, which appending, dropping the oldest
that waits, moving what waits to what was sent, and putting the eager ones between the two keep in order (`InLine`).  The refinement needs of it that on an open
connection nothing waits (`InOrder`), or a command could go out before an older one, and that a connection not used yet has nothing to its
name; from `Wiring` that an open connection has its socket, or an open session would queue.

The assumptions are those of the modules (`ConstantsAssumption`, `GenerationAssumption`, `AgenticAssumption`, `MonitorAssumption`, `PathsAssumption`, `MaxRecordsAssumption`, `SessionAssumption`), which TLC
also evaluates: a recharge of at least two and a positive number of phases (the code has 3 and 10), a
finite set of requests, some phase name, a session, positive limits (the SDK's queue has 1000).

Only model-checked: all liveness (`LoopsRecover`, `CallsReturn`, `BuildsEnd`, `RequestsReachPlanning`, `InputsTaken`,
`ShutdownEnds`, `CrashRestarted`).  That a step which stays possible is taken needs fairness and ENABLED, which
are out of the prover's reach; for builds, chains of tool calls and shutdowns, the theorems above are the other half.
`RequestsSurvive`, `PlannedOnce`, `CommandsInOrder` and the three properties that say what runs down are in no run:
each is proved, and TLC was asked once, on the instances of the runs, before its proof was begun.

## 6. Where code and documents disagree

The first four are runs that TLC finds violated, and findings in `PROJECT.json`.

* **Retries do not end at the master timeout.** The comments at `DeploymentManager.ts:323` and `:613`
  say they do; the loop is not told that its owner has left.  Trace: an attempt fails, the owner's
  timeout fires during the backoff, the next attempt begins.
* **A request queued during the review is not restarted.**  `UserConversationProcessor.ts:214-216`
  promises the model that it will be.  Trace: the build enters the review, a turn queues a request and
  ends while the build runs, the build ends, clears the flag, and nothing runs.
* **A stop between two inferences does not stop** (`docs/llm.md:1215`): it aborts a controller nobody holds.
* **A build that cannot load its template is never over** (`docs/llm.md:1762-1765`): the promise stays
  set, so every later start is refused until the object is evicted, and the flag stays raised.

Seen in the models and not made into runs:

* *Waiters' files.* A caller that joins a deployment gets its preview, while the attempt under way may
  have read the files map before the caller saved into it.  `OwnerFilesWritten` is therefore
  about owners.
* *An evicted object is not watched.*  The constructor starts no health check for the instance its state names; it is
  watched again after the next deployment.  `Monitored` says nothing of it.
* *Files that were not written.*  An answer of the sandbox service that counts as a success may report files as failed; a theme
  file among them fails the attempt, any other is only logged, and the preview is returned
  (`DeploymentManager.ts:710-744`).  `OwnerFilesWritten` states this exception.
* *Two callers that force a redeploy*, both abandoned, can reset the session under each other at
  every attempt, so that neither write ever reaches its instance although the service works.
  `deployment_recovery` has one such caller for this reason.
* *Requests lost in planning.* `fetchPendingUserRequests` empties the queue before the inference; a
  failure, stop, restart or an answer without files loses them.  `RequestsSurvive` states exactly this
  exception.
* *A `generate_all` that crosses a stop.*  The chat sends it when it sees the flag raised; if the user
  stops at that moment, the message raises the flag again and starts a new build.
* *A flag left raised.*  A build started by RESUME_GENERATION or at the end of the set-up is not
  followed by the clearing of `shouldBeGenerating`, so the next chat that connects starts another.
* *Deep debug and build.*  `deep_debug` is refused while a build runs, but a build can start while it
  is debugging.
* *Agentic: messages lost.*  A compaction writes back what it read before it asked the model for a
  summary; what another build or a parallel tool call added meanwhile is gone.  Or an insert fails, which
  `setConversationState` only logs (`codingAgent.ts:529-531`): the message is in one table or in none, and its request
  with it, although it has left the queue.  `MessagesKept` states exactly these exceptions and the user's clear.
* *Agentic: messages forgotten.*  When a compaction throws, more than thirty messages are cut to the last twenty with no summary
  of the others (`conversationCompactifier.ts:305-315`); the user is still shown all.  A clear whose second delete fails leaves the
  model a conversation that the user no longer sees.
* *Agentic: the native Claude client.*  It takes no abort signal, so a stop is felt only after its loop has ended.  It
  throws an AbortError at its limit, which is caught like any failure (`core.ts:1170-1176`): the inference is made again with the
  OpenAI client, without the tool calls that were made.  `ChainsRunDown` shows that this ends.
* *Agentic: the reminder that is never sent.*  `else if (!pendingUserInputs)` (`agentic.ts:308`) tests an
  array, which is truthy when empty.
* *Agentic: an interruption that does not interrupt.*  The AbortError of `agentic.ts:341` is caught by
  `executeToolCalls` (`inferutils/core.ts:548`) and becomes a tool result; the chain goes on.  Likewise
  a completion signal does not end a chain.
* *Agentic: a retry that is cancelled.*  Repeating text aborts the operation's own signal "to trigger retry"
  (`operations/common.ts:217`), and the retry takes the aborted signal for the user's stop.
* *Agentic: a stop that misses.*  The end of one build's iteration clears the abort controller that
  another build holds.
* *Agentic: images* of queued inputs are in memory only and are never cleared when used.
* *Monitor: a stable run after the last restart.*  `shouldRestartAfterExit` compares the counter before
  `start()` would reset it (`process-monitor.ts:886`, against the comment at `:347`): after `maxRestarts` restarts even a
  child that ran for hours is not restarted.
* *Monitor: a child that outlives the shutdown.*  `stop()` during a restart finds no child; the
  restart then spawns one and the command exits.  The restart need not have begun when the shutdown was requested: the child may
  crash while `stop()` awaits its first log line.  `OnlyRestartsSurvive` says that any child left unharmed was spawned after the request.
* *Monitor: late health checks.*  One that decided to kill kills whatever child there is after its log
  line, and leaves `healthRestartInProgress` raised on it.  A child killed so that exits with 0 and was
  recently active counts as a clean exit and is not restarted.
* *Monitor: failed spawns.*  Without a pid the `error` event has no listener yet and ends the monitor; an
  exception leaves it stopped without another attempt.  An `error` event of a child that lives
  sets `crashed`, and no restart follows.
* *Files: exceptions of `Agree`.*  Each of them is real, in that TLC refutes `Agree` without it: files
  recorded and never saved, deleted (the next synchronisation brings them back), saved without a message,
  saved while an older save or a save of all files still carries other contents, whose save failed
  (which `saveGeneratedFiles` only logs), recorded or committed during a reset, not read from HEAD, or in the map under two
  paths.
* *Files: a leading '/'.*  Two spellings of a path are two entries of the map and one file of git (`git.ts:99-101`,
  `FileManager.ts:143`): the later save wins in git, the map keeps both, and a synchronisation leaves the one without the slash.
* *Files: a reset to nothing.*  A hash of forty digits is not looked up (`git.ts:281`): HEAD is set to it although no commit has it,
  the checkout throws, and HEAD has no files until the next commit.
* *Files: reset and HEAD.*  `reset` writes HEAD as an object id while `log` reads `main`; a checkout
  that fails leaves HEAD moved without a synchronisation; a HEAD that cannot be read empties the map.
* *Files: `hasChanges`* compares HEAD and working tree, not the index, so what is staged may be refused as
  "no changes", and an empty commit be made.
* *SDK: closed too early.*  `close()` while a ticket is fetched does not stop the socket that follows
  (`ws.ts:214`): nobody can close it, it shows the session connected and fills the workspace again.
  `sdk/README.md:159` says of `session.close()` "Close the session".
* *SDK: events of a closed connection.*  The close event comes after `close()` has returned; if the program has connected
  again, the session is shown disconnected while it is not (`session.ts:196`), and a late open sends the
  greeting on the new connection.  `ShowsConnection` and `CatchesUp` state this exception, which is real: TLC refutes both without it.
* *SDK: commands inside the open event.*  A listener of `ws:open`, as `sdk/README.md:203` shows one, that gives a command overtakes those
  in the queue (`ws.ts:82-83`); one of every event or of the state is even ahead of `session_init` with the credentials
  (`session.ts:193-206`).  `CredentialsFirst`, `CommandsInOrder` and `CommandQueue` state this exception.
* *SDK: what a reconnect shows.*  Seen beside the model: the agent sends `previewURL` with `agent_connected`
  (`codingAgent.ts:246`) and the SDK reads `previewUrl` (`state.ts:400`), so that a reconnect forgets
  the preview; a `generation_complete` lost with a socket leaves the generation shown as running, which
  `agent_connected` only ever raises (`state.ts:405-410`).
* A final phase left open after the first version is complete is resumed only when a request arrives,
  because `generateAllFiles` sees nothing to do.

## 7. Not modelled

*Tool execution* (`toolExecution.ts`) is imported by nothing.  The *secrets vault* is reached by the agent
through `getDecryptedSecret`, which nothing calls; read beside the models, its code has these hazards: any
socket's close clears the session another socket has opened (`UserSecretsStore.ts:111`); an unlock
that comes before the prompt is never announced, so `SecretsClient.get` waits out its two minutes; a
request made on a client that `handleVaultLocked` has dropped (`codingAgent.ts:298`) can only time out; a
session that expired is answered with null and no prompt; a reset that fails leaves the tab unlocked
without a key.  *Rate limits*: the durable object reads and writes a bucket without an await between;
the KV store loses counts by design of its
read-modify-write.  It hands the cost of a call to `incrementBucketWithRetry` in the place of `maxRetries`
(`KVRateLimitStore.ts:64`), so every call counts as one, and both stores compare before they add
(`DORateLimitStore.ts:74`), so that a call that costs more than one may go past the limit.
A *static analysis* under way when files are deployed stores its result after the cache was invalidated
(`base.ts:605`); no state machine here depends on what it says.  Of the *client SDK*, waits, the phase timeline and a runtime without `WebSocket` are left out.
The turns of a *phasic* agent carry no messages in PhasicGeneration: `handleUserInput` writes the
conversation back over what came meanwhile (`base.ts:1680`), like the compaction of the agentic loop.
The monitor's log file, with its lock and rotation, and the error store are left out.

Left out for
good: prompts, parsers and diffs (text algorithms whose small instances say nothing), the user
interface, uploads to Cloudflare, payments and domains (external state), single-row database
operations, and the superseded agent.  Of the components modelled, what is in files, issues, commits
and messages is left out; durations are too, so nothing here says that a timeout is long enough.
