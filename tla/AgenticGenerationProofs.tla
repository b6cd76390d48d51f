---------------------- MODULE AgenticGenerationProofs ----------------------
(***************************************************************************)
(* Proofs about AgenticGeneration, for any number of builds, tool calls    *)
(* and requests, any depth, attempts, interval and messages kept: the      *)
(* types, the conversation the model remembers, the messages and requests  *)
(* that are kept, and the inputs that are not stranded.                    *)
(***************************************************************************)
EXTENDS AgenticGeneration, FiniteSetTheorems, TLAPS

-----------------------------------------------------------------------------
(* The inductive invariant.                                                  *)

Turns ==
  /\ {mvpGenerated, template, generating} \subseteq BOOLEAN
  /\ pendingUserInputs \subseteq asked /\ asked \subseteq Requests
  /\ abandoned \subseteq pendingUserInputs
  /\ cancellable \subseteq Builds
  /\ toolCallCounter \in 0..(Interval - 1)

BuildRecord == [stage : Stages, depth : 0..(MaxDepth - 1), attempt : 0..(Retries - 1),
                rounds : 0..MaxDepth, calls : SUBSET Tools, aborted : BOOLEAN]

(* Messages are numbered as they come. *)
Numbered(l) == l \subseteq Message /\ IsFiniteSet(l) /\ \A m \in l : m.at <= Cardinality(l)

(* A conversation, in the store or about to be written there, with the log l and *)
(* the messages e that a stale write may lose.                                   *)
Good(c, l, e) == /\ c \in Chat /\ Coherent(c)
                 /\ c.full \cup c.unstored \subseteq l
                 /\ l \subseteq c.full \cup e \cup c.unstored

Conversations ==
  /\ Numbered(log) /\ exposed \subseteq Message
  /\ Good(chat, log, exposed)
  /\ DOMAIN held \subseteq Builds \X Callers
  /\ \A k \in DOMAIN held : Good(held[k], log, exposed) /\ held[k].recent # {}

(* The compaction that ends an iteration is there while the build waits for it. *)
FinalHeld == \A b \in Builds : build[b].stage = "compacting" => <<b, Builder>> \in DOMAIN held

(* generationPromise is null, or a build will look at the queue, or hangs. *)
Live     == \E b \in Builds : Looking(b) \/ build[b].stage = "wedged"
Served   == /\ generating => Live
            /\ pendingUserInputs \subseteq abandoned \/ Live

(* No message tells of a request before it is made, and none of one that waits. *)
Told == RequestsRemembered /\ \A m \in log : m.asks \subseteq asked

IInv == /\ Turns
        /\ build \in [Builds -> BuildRecord]
        /\ Conversations
        /\ FinalHeld
        /\ Told
        /\ Served

-----------------------------------------------------------------------------
(* The conversation.                                                         *)

LEMMA GoodFinite ==
  ASSUME NEW c, NEW l, NEW e, Good(c, l, e), Numbered(l)
  PROVE  /\ IsFiniteSet(c.recent) /\ Cardinality(c.recent) \in Nat
         /\ c.recent \subseteq l /\ c.summary \subseteq l
  <1>1. c.recent \subseteq l /\ c.summary \subseteq l /\ IsFiniteSet(l)
    BY DEF Good, Coherent, Numbered, Chat
  <1>2. IsFiniteSet(c.recent)
    BY <1>1, FS_Subset
  <1> QED BY <1>1, <1>2, FS_CardinalityType

LEMMA EmptyGood ==
  ASSUME NEW l, NEW e, l \subseteq e
  PROVE  Good(EmptyChat, l, e)
  BY DEF Good, EmptyChat, Chat, Coherent

(* A new message comes after all others. *)
LEMMA NewMessageLast ==
  ASSUME Numbered(log), NEW role \in {"user", "model"}, NEW asks \in SUBSET Requests
  PROVE  LET m == NewMessage(role, asks)
         IN /\ m \in Message /\ m.asks = asks
            /\ \A x \in log : x.at < m.at
            /\ Numbered(log \cup {m})
  <1> DEFINE m == NewMessage(role, asks)
  <1>1. IsFiniteSet(log) /\ Cardinality(log) \in Nat /\ log \subseteq Message
    BY FS_CardinalityType DEF Numbered
  <1>2. m \in Message /\ m.asks = asks /\ m.at = Cardinality(log) + 1
    BY <1>1 DEF NewMessage, Message
  <1>3. \A x \in log : x.at \in Nat
    BY <1>1 DEF Message
  <1>4. \A x \in log : x.at < m.at
    BY <1>1, <1>2, <1>3 DEF Numbered
  <1>5. m \notin log
    BY <1>1, <1>2, <1>4
  <1>6. IsFiniteSet(log \cup {m}) /\ Cardinality(log \cup {m}) = Cardinality(log) + 1
    BY <1>1, <1>5, FS_AddElement, Zenon
  <1>7. Numbered(log \cup {m})
    <2> HIDE DEF m
    <2>1. \A x \in log \cup {m} : x.at <= Cardinality(log) + 1
      BY <1>1, <1>2, <1>3, <1>4
    <2> QED BY <1>1, <1>2, <1>6, <2>1 DEF Numbered
  <1> QED BY <1>2, <1>4, <1>7

(* What is added to a conversation keeps it good; the message is in it. *)
LEMMA AddGood ==
  ASSUME NEW c, NEW l, NEW e, NEW m \in Message, NEW d,
         Good(c, l, e), Numbered(l), \A x \in l : x.at < m.at, e \subseteq d
  PROVE  /\ Good(AddConversationMessage(c, m), l \cup {m}, d)
         /\ AddConversationMessage(c, m).recent # {}
  <1> DEFINE a == AddConversationMessage(c, m)
  <1>1. /\ IsFiniteSet(c.recent) /\ Cardinality(c.recent) \in Nat
        /\ c.recent \subseteq l /\ c.summary \subseteq l
    BY GoodFinite
  <1>2. /\ a \in Chat /\ a.full = c.full \cup {m} /\ a.summary = c.summary
        /\ a.recent = c.recent \cup {m}
        /\ a.forgotten = c.forgotten /\ a.unstored = c.unstored
    BY DEF Good, Chat, AddConversationMessage
  <1>3. Cardinality(c.recent \cup {m}) \in Nat
        /\ Cardinality(c.recent \cup {m}) >= Cardinality(c.recent)
    <2>1. Cardinality(c.recent \cup {m}) =
            IF m \in c.recent THEN Cardinality(c.recent) ELSE Cardinality(c.recent) + 1
      BY <1>1, FS_AddElement, Zenon
    <2> QED BY <1>1, <2>1
  <1>4. /\ a.full \subseteq a.summary \cup a.recent \cup a.forgotten \cup a.unstored
        /\ a.summary \cup a.recent \subseteq a.full \cup a.unstored
        /\ a.recent # {}
    BY <1>2 DEF Good, Coherent
  <1>5. \A x \in a.summary, y \in a.recent : x.at < y.at
    BY <1>1, <1>2 DEF Good, Coherent
  <1>6. a.summary # {} => Cardinality(a.recent) >= Keep
    BY <1>1, <1>2, <1>3, AgenticAssumption DEF Good, Coherent
  <1>7. /\ a.full \cup a.unstored \subseteq l \cup {m}
        /\ l \cup {m} \subseteq a.full \cup d \cup a.unstored
    BY <1>2 DEF Good
  <1>8. Good(a, l \cup {m}, d) /\ a.recent # {}
    <2> HIDE DEF a
    <2> QED BY <1>2, <1>4, <1>5, <1>6, <1>7 DEF Good, Coherent
  <1> QED BY <1>8

(* One that is not told of a message stays good if the message may be lost. *)
LEMMA ExposedGood ==
  ASSUME NEW c, NEW l, NEW e, NEW m, NEW d, Good(c, l, e), e \subseteq d, m \in d
  PROVE  Good(c, l \cup {m}, d)
  BY DEF Good

LEMMA MoreExposedGood ==
  ASSUME NEW c, NEW l, NEW e, NEW d, Good(c, l, e), e \subseteq d
  PROVE  Good(c, l, d)
  BY DEF Good

(* A compaction has the same messages, and leaves Keep of them alone. *)
LEMMA CompactedGood ==
  ASSUME NEW c, NEW l, NEW e, Good(c, l, e), Numbered(l), NEW w \in Compacted(c)
  PROVE  Good(w, l, e) /\ w.recent # {}
  <1>1. PICK m \in TurnBoundary(c) :
          w = [c EXCEPT !.summary = @ \cup Before(c, m), !.recent = From(c, m)]
    BY Zenon DEF Compacted
  <1>2. /\ m \in c.recent /\ Cardinality(From(c, m)) >= Keep
        /\ c.recent \subseteq Message /\ c.summary \subseteq Message /\ c.full \subseteq Message
    BY <1>1 DEF TurnBoundary, Good, Chat
  <1>3. \A x \in c.recent \cup c.summary : x.at \in Nat
    BY <1>2 DEF Message
  <1>4. /\ From(c, m) \subseteq c.recent /\ Before(c, m) \subseteq c.recent
        /\ Before(c, m) \cup From(c, m) = c.recent
        /\ m \in From(c, m)
    BY <1>2, <1>3 DEF From, Before
  <1>5. w \in Chat /\ w.full = c.full /\ w.summary = c.summary \cup Before(c, m)
        /\ w.recent = From(c, m) /\ w.forgotten = c.forgotten /\ w.unstored = c.unstored
    BY <1>1, <1>2, <1>4 DEF Chat, Good
  <1>6. /\ w.full \subseteq w.summary \cup w.recent \cup w.forgotten \cup w.unstored
        /\ w.summary \cup w.recent \subseteq w.full \cup w.unstored
        /\ w.recent # {}
    BY <1>4, <1>5 DEF Good, Coherent
  <1>7. \A x \in w.summary, y \in w.recent : x.at < y.at
    <2> SUFFICES ASSUME NEW x \in w.summary, NEW y \in w.recent
                 PROVE  x.at < y.at
      OBVIOUS
    <2>1. y \in c.recent /\ y.at >= m.at
      BY <1>5 DEF From
    <2>2. CASE x \in c.summary
      BY <2>1, <2>2 DEF Good, Coherent
    <2>3. CASE x \in Before(c, m)
      BY <1>2, <1>3, <2>1, <2>3 DEF Before
    <2> QED BY <1>5, <2>2, <2>3
  <1> QED BY <1>2, <1>5, <1>6, <1>7 DEF Good, Coherent

(* One that an emergency cut short has forgotten the rest, and has no summary. *)
LEMMA EmergencyGood ==
  ASSUME NEW c, NEW l, NEW e, Good(c, l, e), Numbered(l), NEW w \in Emergency(c)
  PROVE  Good(w, l, e) /\ w.recent # {}
  <1>1. PICK kept \in SUBSET c.recent :
          /\ Cardinality(kept) = 2 * Keep
          /\ w = [c EXCEPT !.summary = {}, !.recent = kept,
                           !.forgotten = @ \cup c.summary \cup (c.recent \ kept)]
    BY Zenon DEF Emergency
  <1>2. kept # {}
    BY <1>1, FS_EmptySet, AgenticAssumption
  <1>3. /\ w \in Chat /\ w.full = c.full /\ w.summary = {} /\ w.recent = kept
        /\ w.forgotten = c.forgotten \cup c.summary \cup (c.recent \ kept)
        /\ w.unstored = c.unstored
    BY <1>1 DEF Chat, Good
  <1> QED BY <1>1, <1>2, <1>3 DEF Good, Coherent

LEMMA HoldGood ==
  ASSUME NEW b \in Builds, NEW caller \in Callers, NEW c, NEW l, NEW e,
         Hold(b, caller, c), Good(c, l, e), Numbered(l),
         DOMAIN held \subseteq Builds \X Callers,
         \A k \in DOMAIN held \ {<<b, caller>>} : Good(held[k], l, e) /\ held[k].recent # {}
  PROVE  /\ DOMAIN held' = DOMAIN held \cup {<<b, caller>>}
         /\ \A k \in DOMAIN held' : Good(held'[k], l, e) /\ held'[k].recent # {}
  <1>1. PICK w \in Compacted(c) \cup Emergency(c) :
          held' = [k \in DOMAIN held \cup {<<b, caller>>} |->
                     IF k = <<b, caller>> THEN w ELSE held[k]]
    BY DEF Hold
  <1>2. Good(w, l, e) /\ w.recent # {}
    BY CompactedGood, EmergencyGood
  <1> QED BY <1>1, <1>2

LEMMA ReleaseKeeps ==
  ASSUME NEW b, NEW caller, Release(b, caller)
  PROVE  /\ DOMAIN held' = DOMAIN held \ {<<b, caller>>}
         /\ \A k \in DOMAIN held' : held'[k] = held[k]
  BY DEF Release

(* setConversationState writes both tables, one or neither: a conversation that is *)
(* good and one that would be make one that is.                                    *)
LEMMA StoredGood ==
  ASSUME NEW c, NEW w, NEW l, NEW e, NEW s \in SetConversationState(c, w),
         c \in Chat, Coherent(c), c.full \cup c.unstored \subseteq l,
         Good(w, l, e), w.recent # {}
  PROVE  Good(s, l, e)
  <1> DEFINE unstored == c.unstored \cup w.unstored
             missed   == unstored \cup (w.full \ c.full)
  <1>1. \/ s = [w EXCEPT !.unstored = unstored]
        \/ s = [c EXCEPT !.unstored = missed]
        \/ s = [w EXCEPT !.full = c.full, !.unstored = missed \cup (c.full \ w.full)]
    BY Zenon DEF SetConversationState
  <1>2. c \in Chat /\ w \in Chat
    BY DEF Good
  <1>3. CASE s = [w EXCEPT !.unstored = unstored]
    <2>1. /\ s \in Chat /\ s.full = w.full /\ s.summary = w.summary /\ s.recent = w.recent
          /\ s.forgotten = w.forgotten /\ s.unstored = c.unstored \cup w.unstored
      BY <1>2, <1>3 DEF Chat
    <2> QED BY <2>1 DEF Good, Coherent
  <1>4. CASE s = [c EXCEPT !.unstored = missed]
    <2>1. /\ s \in Chat /\ s.full = c.full /\ s.summary = c.summary /\ s.recent = c.recent
          /\ s.forgotten = c.forgotten
          /\ s.unstored = c.unstored \cup w.unstored \cup (w.full \ c.full)
      BY <1>2, <1>4 DEF Chat
    <2> QED BY <2>1 DEF Good, Coherent
  <1>5. CASE s = [w EXCEPT !.full = c.full, !.unstored = missed \cup (c.full \ w.full)]
    <2>1. /\ s \in Chat /\ s.full = c.full /\ s.summary = w.summary /\ s.recent = w.recent
          /\ s.forgotten = w.forgotten
          /\ s.unstored = c.unstored \cup w.unstored \cup (w.full \ c.full)
                           \cup (c.full \ w.full)
      BY <1>2, <1>5 DEF Chat
    <2> QED BY <2>1 DEF Good, Coherent
  <1> QED BY <1>1, <1>3, <1>4, <1>5

(* What a new message does to the conversation it is added to, and to those held. *)
LEMMA AfterLogged ==
  ASSUME Conversations, NEW role \in {"user", "model"}, NEW asks \in SUBSET Requests,
         NEW c, Good(c, log, exposed), Logged(NewMessage(role, asks))
  PROVE  /\ Numbered(log') /\ exposed' \subseteq Message
         /\ log' = log \cup {NewMessage(role, asks)} /\ exposed \subseteq exposed'
         /\ NewMessage(role, asks).asks = asks /\ NewMessage(role, asks) \notin log
         /\ \A s \in SetConversationState(c, AddConversationMessage(c, NewMessage(role, asks))) :
               Good(s, log', exposed')
         /\ \A k \in DOMAIN held \cap DOMAIN held' :
               Good(held[k], log', exposed') /\ held[k].recent # {}
  <1> DEFINE m == NewMessage(role, asks)
  <1>1. /\ m \in Message /\ m.asks = asks
        /\ \A x \in log : x.at < m.at
        /\ Numbered(log \cup {m})
    BY NewMessageLast DEF Conversations
  <1> HIDE DEF m
  <1>6. m \notin log
    BY <1>1 DEF Message
  <1>2. log' = log \cup {m} /\ exposed' \in {exposed, exposed \cup {m}}
        /\ (DOMAIN held \cap DOMAIN held' # {} => m \in exposed')
    BY DEF Logged, m
  <1>3. exposed' \subseteq Message /\ exposed \subseteq exposed'
    BY <1>1, <1>2 DEF Conversations
  <1>4. ASSUME NEW s \in SetConversationState(c, AddConversationMessage(c, m))
        PROVE  Good(s, log', exposed')
    <2>1. /\ Good(AddConversationMessage(c, m), log', exposed')
          /\ AddConversationMessage(c, m).recent # {}
      BY <1>1, <1>2, <1>3, AddGood DEF Conversations
    <2>2. c \in Chat /\ Coherent(c) /\ c.full \cup c.unstored \subseteq log'
      BY <1>2 DEF Good
    <2> QED BY <1>4, <2>1, <2>2, StoredGood
  <1>5. \A k \in DOMAIN held \cap DOMAIN held' :
          Good(held[k], log', exposed') /\ held[k].recent # {}
    BY <1>2, <1>3, ExposedGood DEF Conversations
  <1> QED BY <1>1, <1>2, <1>3, <1>4, <1>5, <1>6 DEF m

(* The conversation in the store is written, with no message added. *)
LEMMA WrittenConversations ==
  ASSUME Conversations, Good(chat', log, exposed), UNCHANGED <<log, exposed>>,
         DOMAIN held' \subseteq DOMAIN held, \A k \in DOMAIN held' : held'[k] = held[k]
  PROVE  Conversations'
  BY DEF Conversations, Good, Numbered, Coherent, Chat, Message

-----------------------------------------------------------------------------
(* What the model is told.                                                   *)

(* What is added tells of no request. *)
Untold == log \subseteq log' /\ \A m \in log' \ log : m.asks = {}

LEMMA NothingTold ==
  ASSUME Told, UNCHANGED <<pendingUserInputs, asked>>, Untold
  PROVE  Told'
  <1>1. \A m \in log' : m.asks \subseteq asked'
    BY DEF Told, Untold
  <1>2. ASSUME NEW r \in asked
        PROVE  IF r \in pendingUserInputs
               THEN \A m \in log' : r \notin m.asks
               ELSE \E m \in log' : \A x \in log' : r \in x.asks <=> x = m
    <2>1. CASE r \in pendingUserInputs
      BY <2>1 DEF Told, RequestsRemembered, Untold
    <2>2. CASE r \notin pendingUserInputs
      <3>1. PICK m \in log : \A x \in log : r \in x.asks <=> x = m
        BY <2>2 DEF Told, RequestsRemembered
      <3>2. \A x \in log' : r \in x.asks <=> x = m
        BY <3>1 DEF Untold
      <3> QED BY <2>2, <3>1, <3>2 DEF Untold
    <2> QED BY <2>1, <2>2
  <1> QED BY <1>1, <1>2 DEF Told, RequestsRemembered

LEMMA MoreWait ==
  ASSUME Told, UNCHANGED log, asked \subseteq asked', asked' \subseteq asked \cup pendingUserInputs',
         pendingUserInputs \subseteq pendingUserInputs',
         pendingUserInputs' \cap asked \subseteq pendingUserInputs
  PROVE  Told'
  <1>1. \A m \in log' : m.asks \subseteq asked'
    BY DEF Told
  <1>2. ASSUME NEW r \in asked'
        PROVE  IF r \in pendingUserInputs'
               THEN \A m \in log' : r \notin m.asks
               ELSE \E m \in log' : \A x \in log' : r \in x.asks <=> x = m
    <2>1. CASE r \notin asked
      BY <2>1 DEF Told
    <2>2. CASE r \in asked
      BY <2>2 DEF Told, RequestsRemembered
    <2> QED BY <2>1, <2>2
  <1> QED BY <1>1, <1>2 DEF Told, RequestsRemembered

(* What waits becomes one new message. *)
LEMMA AllTold ==
  ASSUME Told, NEW m, m \notin log, log' = log \cup {m}, pendingUserInputs' = {},
         asked \subseteq asked', asked' \subseteq asked \cup m.asks, m.asks \subseteq asked',
         pendingUserInputs \subseteq m.asks, m.asks \cap asked \subseteq pendingUserInputs
  PROVE  Told'
  <1>1. \A x \in log' : x.asks \subseteq asked'
    BY DEF Told
  <1>2. ASSUME NEW r \in asked'
        PROVE  \E x \in log' : \A y \in log' : r \in y.asks <=> y = x
    <2>1. CASE r \in m.asks
      <3>1. \A y \in log : r \notin y.asks
        <4>1. CASE r \in asked
          BY <2>1, <4>1 DEF Told, RequestsRemembered
        <4>2. CASE r \notin asked
          BY <4>2 DEF Told
        <4> QED BY <4>1, <4>2
      <3>2. \A y \in log' : r \in y.asks <=> y = m
        BY <2>1, <3>1
      <3> QED BY <3>2
    <2>2. CASE r \notin m.asks
      <3>1. r \in asked /\ r \notin pendingUserInputs
        BY <2>2
      <3>2. PICK x \in log : \A y \in log : r \in y.asks <=> y = x
        BY <3>1 DEF Told, RequestsRemembered
      <3>3. \A y \in log' : r \in y.asks <=> y = x
        BY <2>2, <3>2
      <3> QED BY <3>2, <3>3
    <2> QED BY <2>1, <2>2
  <1> QED BY <1>1, <1>2 DEF Told, RequestsRemembered

-----------------------------------------------------------------------------
(* The iterations of a build.                                                *)

LEMMA FreshBuild ==
  /\ IdleBuild \in BuildRecord
  /\ \A st \in Stages : /\ [IdleBuild EXCEPT !.stage = st] \in BuildRecord
                         /\ [IdleBuild EXCEPT !.stage = st].stage = st
  <1>1. IdleBuild \in BuildRecord
    BY AgenticAssumption DEF IdleBuild, BuildRecord, Stages
  <1>2. ASSUME NEW st \in Stages, NEW r \in BuildRecord
        PROVE  [r EXCEPT !.stage = st] \in BuildRecord /\ [r EXCEPT !.stage = st].stage = st
    BY DEF BuildRecord
  <1> QED BY <1>1, <1>2

LEMMA FreshInference ==
  ASSUME NEW n \in 0..(Retries - 1)
  PROVE  Inference(n) \in BuildRecord /\ Inference(n).stage = "inferring"
  <1>1. Rounds(n, 0) \in 0..MaxDepth
    BY AgenticAssumption DEF Rounds
  <1> QED BY <1>1, AgenticAssumption DEF Inference, BuildRecord, Stages

(* An iteration begins with c as the conversation, and takes what waits. *)
LEMMA BeginPreserves ==
  ASSUME IInv, NEW b \in Builds, NEW waiting \in SUBSET Requests, NEW joined \in SUBSET Builds,
         NEW c, Good(c, log, exposed), BeginIteration(b, waiting, c, joined),
         DOMAIN held' \subseteq DOMAIN held, \A k \in DOMAIN held' : held'[k] = held[k],
         DOMAIN held \ {<<b, Builder>>} \subseteq DOMAIN held',
         asked' \subseteq asked \cup waiting, asked \subseteq asked', asked' \subseteq Requests,
         pendingUserInputs \subseteq waiting, waiting \cap asked \subseteq pendingUserInputs,
         waiting \subseteq asked',
         mvpGenerated' \in BOOLEAN, template' \in BOOLEAN, generating' \in BOOLEAN
  PROVE  IInv'
  <1>1. /\ build' = [build EXCEPT ![b] = Inference(0)] /\ Inference(0) \in BuildRecord
        /\ Inference(0).stage = "inferring"
    BY FreshInference, AgenticAssumption DEF BeginIteration
  <1>2. build' \in [Builds -> BuildRecord] /\ build'[b].stage = "inferring"
        /\ \A o \in Builds \ {b} : build'[o] = build[o]
    BY <1>1 DEF IInv
  <1>3. Turns'
    BY AgenticAssumption DEF IInv, Turns, BeginIteration
  <1>4. Served'
    BY <1>2 DEF Served, Live, Looking, BeginIteration
  <1>5. FinalHeld'
    <2>1. \A o \in Builds \ {b} : build[o].stage = "compacting" => <<o, Builder>> \in DOMAIN held'
      BY DEF IInv, FinalHeld
    <2> QED BY <1>2, <2>1 DEF FinalHeld
  <1>6. Conversations' /\ Told'
    <2>1. CASE waiting = {}
      <3>1. chat' = c /\ UNCHANGED <<log, exposed>> /\ asked' = asked /\ pendingUserInputs = {}
        BY <2>1 DEF BeginIteration
      <3>2. Conversations'
        BY <3>1, WrittenConversations DEF IInv
      <3>3. Told'
        BY <2>1, <3>1, NothingTold DEF IInv, BeginIteration, Untold
      <3> QED BY <3>2, <3>3
    <2>2. CASE waiting # {}
      <3> DEFINE m == NewMessage("user", waiting)
      <3>1. chat' \in SetConversationState(c, AddConversationMessage(c, m)) /\ Logged(m)
        BY <2>2 DEF BeginIteration
      <3>2. /\ Numbered(log') /\ exposed' \subseteq Message
            /\ log' = log \cup {m} /\ m.asks = waiting /\ m \notin log
            /\ Good(chat', log', exposed')
            /\ \A k \in DOMAIN held \cap DOMAIN held' :
                  Good(held[k], log', exposed') /\ held[k].recent # {}
        BY <3>1, AfterLogged DEF IInv
      <3> HIDE DEF m
      <3>3. Conversations'
        BY <3>2 DEF Conversations, IInv, Good, Numbered, Coherent, Chat, Message
      <3>4. Told'
        BY <3>2, AllTold DEF IInv, BeginIteration
      <3> QED BY <3>3, <3>4
    <2> QED BY <2>1, <2>2
  <1> QED BY <1>2, <1>3, <1>4, <1>5, <1>6 DEF IInv

(* The loop of a build that has its answer: it goes on, or the build completes. *)
LEMMA EndPreserves ==
  ASSUME IInv, NEW b \in Builds, NEW c, Good(c, log, exposed), EndIteration(b, c),
         DOMAIN held' \subseteq DOMAIN held, \A k \in DOMAIN held' : held'[k] = held[k],
         DOMAIN held \ {<<b, Builder>>} \subseteq DOMAIN held'
  PROVE  IInv'
  <1>1. generating' = FALSE /\ UNCHANGED <<mvpGenerated, template, asked>>
    BY DEF EndIteration
  <1>2. CASE BeginIteration(b, pendingUserInputs, c, {})
    BY <1>1, <1>2, BeginPreserves DEF IInv, Turns
  <1>3. CASE /\ pendingUserInputs = {} /\ Completing(b) /\ chat' = c
             /\ UNCHANGED <<pendingUserInputs, abandoned, toolCallCounter, log, exposed>>
    <2>1. build' \in [Builds -> BuildRecord] /\ build'[b].stage = "completing"
          /\ \A o \in Builds \ {b} : build'[o] = build[o]
      <3>1. "completing" \in Stages
        BY DEF Stages
      <3> QED BY <1>3, <3>1, FreshBuild DEF IInv, Completing
    <2>2. Conversations'
      BY <1>3, WrittenConversations DEF IInv
    <2>3. FinalHeld'
      <3>1. \A o \in Builds \ {b} : build[o].stage = "compacting" => <<o, Builder>> \in DOMAIN held'
        BY DEF IInv, FinalHeld
      <3> QED BY <2>1, <3>1 DEF FinalHeld
    <2>4. Told'
      BY <1>1, <1>3, NothingTold DEF IInv, Untold
    <2> QED BY <1>1, <1>3, <2>1, <2>2, <2>3, <2>4 DEF IInv, Turns, Served, Completing
  <1> QED BY <1>2, <1>3 DEF EndIteration

-----------------------------------------------------------------------------
(* Every action preserves the invariant.                                     *)

LEMMA InitIInv == Init => IInv
  <1> SUFFICES ASSUME Init PROVE IInv
    OBVIOUS
  <1>1. Numbered({}) /\ DOMAIN << >> = {}
    BY FS_EmptySet DEF Numbered
  <1>2. Conversations
    BY <1>1, EmptyGood DEF Init, Conversations
  <1>3. build \in [Builds -> BuildRecord]
    BY FreshBuild DEF Init
  <1>4. Turns
    <2>1. toolCallCounter \in 0..(Interval - 1)
      BY AgenticAssumption DEF Init
    <2>2. {mvpGenerated, template, generating} \subseteq BOOLEAN
      BY Zenon DEF Init
    <2> QED BY <2>1, <2>2 DEF Init, Turns
  <1>5. FinalHeld
    BY DEF Init, FinalHeld, IdleBuild
  <1>6. Told /\ Served
    BY DEF Init, Told, RequestsRemembered, Served
  <1> QED BY <1>2, <1>3, <1>4, <1>5, <1>6 DEF IInv

(* generateAllFiles *)
LEMMA StartPreserves ==
  ASSUME IInv, NEW b \in Builds, NEW waiting \in SUBSET Requests, Start(b, waiting),
         asked' \subseteq asked \cup waiting, asked \subseteq asked', asked' \subseteq Requests,
         pendingUserInputs \subseteq waiting, waiting \subseteq asked',
         waiting \cap asked \subseteq pendingUserInputs
  PROVE  IInv'
  <1>1. UNCHANGED <<mvpGenerated, template, held>> /\ generating' = TRUE
    BY DEF Start
  <1>2. CASE BeginIteration(b, waiting, chat, cancellable)
    BY <1>1, <1>2, BeginPreserves DEF IInv, Turns, Conversations
  <1>3. CASE /\ build' = [build EXCEPT ![b] = [IdleBuild EXCEPT !.stage = "template"]]
             /\ pendingUserInputs' = waiting
             /\ UNCHANGED <<abandoned, toolCallCounter, chat, log, exposed, cancellable>>
    <2>0. "template" \in Stages
      BY DEF Stages
    <2>1. build' \in [Builds -> BuildRecord] /\ build'[b].stage = "template"
          /\ \A o \in Builds \ {b} : build'[o] = build[o]
      BY <1>3, <2>0, FreshBuild DEF IInv
    <2>2. Conversations'
      BY <1>1, <1>3, WrittenConversations DEF IInv, Conversations
    <2>3. FinalHeld'
      BY <1>1, <2>1 DEF IInv, FinalHeld
    <2>4. Served'
      BY <2>1 DEF Served, Live, Looking
    <2>5. Turns'
      BY <1>1, <1>3 DEF IInv, Turns
    <2>6. Told'
      BY <1>3, MoreWait DEF IInv
    <2> QED BY <2>1, <2>2, <2>3, <2>4, <2>5, <2>6 DEF IInv
  <1> QED BY <1>2, <1>3 DEF Start

LEMMA UserStartsPreserves ==
  ASSUME IInv, NEW b \in Builds, UserStarts(b)
  PROVE  IInv'
  BY StartPreserves DEF UserStarts, IInv, Turns

LEMMA UserInputPreserves ==
  ASSUME IInv, NEW r \in Requests, UserInput(r)
  PROVE  IInv'
  <1>1. asked' = asked \cup {r} /\ r \notin asked
    BY DEF UserInput
  <1>2. CASE /\ isCodeGenerating
             /\ pendingUserInputs' = pendingUserInputs \cup {r}
             /\ UNCHANGED <<mvpGenerated, template, generating, cancellable, abandoned, talk, build>>
    <2>1. Conversations'
      BY <1>2, WrittenConversations DEF IInv, Conversations, talk
    <2>2. Served'
      BY <1>2 DEF IInv, Served, Live, Looking, isCodeGenerating
    <2>3. Told'
      BY <1>1, <1>2, MoreWait DEF IInv, talk
    <2> QED BY <1>1, <1>2, <2>1, <2>2, <2>3 DEF IInv, Turns, FinalHeld, talk
  <1>3. ASSUME NEW b \in Builds, Start(b, pendingUserInputs \cup {r})
        PROVE  IInv'
    BY <1>1, <1>3, StartPreserves DEF IInv, Turns
  <1> QED BY <1>2, <1>3 DEF UserInput

LEMMA UserStopsPreserves ==
  ASSUME IInv, UserStops
  PROVE  IInv'
  <1>1. /\ cancellable' = {}
        /\ UNCHANGED <<mvpGenerated, pendingUserInputs, template, generating, asked, abandoned, talk>>
    BY DEF UserStops
  <1>2. \A b \in Builds : build'[b] \in BuildRecord /\ build'[b].stage = build[b].stage
    <2> TAKE b \in Builds
    <2>1. PICK a \in BOOLEAN : build'[b] = [build[b] EXCEPT !.aborted = a]
      BY DEF UserStops, IInv, BuildRecord
    <2> QED BY <2>1 DEF IInv, BuildRecord
  <1>3. build' \in [Builds -> BuildRecord]
    BY <1>2 DEF UserStops
  <1>4. Conversations'
    BY <1>1, WrittenConversations DEF IInv, Conversations, talk
  <1>5. FinalHeld' /\ Served'
    BY <1>1, <1>2 DEF IInv, FinalHeld, Served, Live, Looking, talk
  <1>6. Told'
    BY <1>1, NothingTold DEF IInv, talk, Untold
  <1> QED BY <1>1, <1>3, <1>4, <1>5, <1>6 DEF IInv, Turns, talk

LEMMA ClearPreserves ==
  ASSUME IInv, ClearConversation
  PROVE  IInv'
  <1>1. /\ exposed' = exposed \cup log
        /\ UNCHANGED <<turns, build, toolCallCounter, held, log>>
    BY DEF ClearConversation
  <1>2. Numbered(log) /\ exposed' \subseteq Message
    BY <1>1 DEF IInv, Conversations, Numbered
  <1>3. Good(chat', log, exposed')
    <2>1. CASE chat' = EmptyChat
      BY <1>1, <2>1, EmptyGood
    <2>2. CASE chat' = [chat EXCEPT !.full = {}, !.unstored = @ \cup chat.summary \cup chat.recent]
      <3>1. Good(chat, log, exposed) /\ chat.summary \subseteq log /\ chat.recent \subseteq log
        BY GoodFinite DEF IInv, Conversations
      <3>2. /\ chat' \in Chat /\ chat'.full = {} /\ chat'.summary = chat.summary
            /\ chat'.recent = chat.recent /\ chat'.forgotten = chat.forgotten
            /\ chat'.unstored = chat.unstored \cup chat.summary \cup chat.recent
        BY <2>2, <3>1 DEF Good, Chat
      <3> QED BY <1>1, <3>1, <3>2 DEF Good, Coherent
    <2> QED BY <2>1, <2>2 DEF ClearConversation
  <1>4. \A k \in DOMAIN held : Good(held[k], log, exposed') /\ held[k].recent # {}
    BY <1>1, MoreExposedGood DEF IInv, Conversations
  <1>5. Conversations'
    BY <1>1, <1>2, <1>3, <1>4 DEF IInv, Conversations, Good, Numbered, Coherent, Chat, Message
  <1>6. Told'
    BY <1>1, NothingTold DEF IInv, turns, Untold
  <1> QED BY <1>1, <1>5, <1>6 DEF IInv, Turns, FinalHeld, Served, Live, Looking, turns

LEMMA RestartPreserves ==
  ASSUME IInv, Restart
  PROVE  IInv'
  <1>1. DOMAIN held' = {} /\ UNCHANGED <<mvpGenerated, pendingUserInputs, asked, chat, log, exposed>>
    BY DEF Restart
  <1>2. Conversations'
    BY <1>1, WrittenConversations DEF IInv, Conversations
  <1>3. build' \in [Builds -> BuildRecord] /\ FinalHeld'
    BY FreshBuild DEF Restart, FinalHeld, IdleBuild
  <1>4. Turns'
    <2>1. toolCallCounter' \in 0..(Interval - 1)
      BY AgenticAssumption DEF Restart
    <2>2. {mvpGenerated', template', generating'} \subseteq BOOLEAN
      BY <1>1, Zenon DEF Restart, IInv, Turns
    <2> QED BY <1>1, <2>1, <2>2 DEF IInv, Turns, Restart
  <1>5. Told'
    BY <1>1, NothingTold DEF IInv, Untold
  <1>6. Served'
    BY <1>1 DEF Served, Restart
  <1> QED BY <1>2, <1>3, <1>4, <1>5, <1>6 DEF IInv

-----------------------------------------------------------------------------
(* The steps of one build.                                                   *)

Attending == {"template", "inferring", "calling", "answered", "compacting", "wedged"}

(* A step that leaves the queue alone, and the build, if it looks at the queue, where *)
(* it will look again.                                                                 *)
LEMMA BuildMoves ==
  ASSUME IInv, NEW b \in Builds, NEW next \in BuildRecord, build' = [build EXCEPT ![b] = next],
         build[b].stage \in Attending => next.stage \in Attending,
         UNCHANGED <<pendingUserInputs, template, cancellable, asked, abandoned>>,
         mvpGenerated' \in BOOLEAN, generating' \in {generating, FALSE},
         toolCallCounter' \in 0..(Interval - 1), Conversations',
         Untold,
         DOMAIN held \ ({b} \X Callers) \subseteq DOMAIN held',
         next.stage = "compacting" => <<b, Builder>> \in DOMAIN held'
  PROVE  IInv'
  <1>1. build' \in [Builds -> BuildRecord] /\ build'[b] = next
        /\ \A o \in Builds \ {b} : build'[o] = build[o]
    BY DEF IInv
  <1>2. Live => Live'
    <2> SUFFICES ASSUME Live PROVE Live'
      OBVIOUS
    <2>1. PICK o \in Builds : build[o].stage \in Attending
      BY DEF Live, Looking, Attending
    <2>2. build'[o].stage \in Attending
      BY <1>1, <2>1
    <2> QED BY <2>2 DEF Live, Looking, Attending
  <1>3. Served'
    <2>1. generating' => generating
      BY Zenon
    <2>2. generating' => Live'
      BY <1>2, <2>1 DEF IInv, Served
    <2> QED BY <1>2, <2>2 DEF IInv, Served
  <1>4. FinalHeld'
    <2> SUFFICES ASSUME NEW o \in Builds, build'[o].stage = "compacting"
                 PROVE  <<o, Builder>> \in DOMAIN held'
      BY DEF FinalHeld
    <2>1. CASE o = b
      BY <1>1, <2>1
    <2>2. CASE o # b
      <3>1. <<o, Builder>> \in DOMAIN held
        BY <1>1, <2>2 DEF IInv, FinalHeld
      <3>2. <<o, Builder>> \notin {b} \X Callers
        BY <2>2
      <3> QED BY <3>1, <3>2
    <2> QED BY <2>1, <2>2
  <1>5. Turns'
    <2>1. {mvpGenerated', template', generating'} \subseteq BOOLEAN
      BY Zenon DEF IInv, Turns
    <2> QED BY <2>1 DEF IInv, Turns
  <1>6. Told'
    BY NothingTold DEF IInv
  <1> QED BY <1>1, <1>3, <1>4, <1>5, <1>6 DEF IInv

(* The same when the conversation is left alone too. *)
LEMMA BuildMovesSilently ==
  ASSUME IInv, NEW b \in Builds, NEW next \in BuildRecord, build' = [build EXCEPT ![b] = next],
         build[b].stage \in Attending => next.stage \in Attending,
         next.stage # "compacting",
         UNCHANGED <<pendingUserInputs, template, cancellable, asked, abandoned, talk>>,
         mvpGenerated' \in BOOLEAN, generating' \in {generating, FALSE}
  PROVE  IInv'
  <1>1. Conversations'
    BY WrittenConversations DEF IInv, Conversations, talk
  <1>2. toolCallCounter' \in 0..(Interval - 1)
        /\ Untold /\ DOMAIN held \ ({b} \X Callers) \subseteq DOMAIN held'
    BY DEF IInv, Turns, talk, Untold
  <1> QED BY <1>1, <1>2, BuildMoves

LEMMA LoadTemplatePreserves ==
  ASSUME IInv, NEW b \in Builds, LoadTemplate(b)
  PROVE  IInv'
  <1>1. UNCHANGED <<mvpGenerated, generating, asked, held>> /\ build[b].stage = "template"
    BY DEF LoadTemplate
  <1>2. CASE template' = TRUE /\ BeginIteration(b, pendingUserInputs, chat, cancellable)
    BY <1>1, <1>2, BeginPreserves DEF IInv, Turns, Conversations
  <1>3. CASE /\ build' = [build EXCEPT ![b].stage = "wedged"]
             /\ UNCHANGED <<template, pendingUserInputs, abandoned, cancellable,
                            toolCallCounter, chat, log, exposed>>
    <2> DEFINE next == [build[b] EXCEPT !.stage = "wedged"]
    <2>1. next \in BuildRecord /\ next.stage = "wedged" /\ build' = [build EXCEPT ![b] = next]
      BY <1>3 DEF IInv, BuildRecord, Stages
    <2>2. mvpGenerated' \in BOOLEAN /\ UNCHANGED talk
      BY <1>1, <1>3 DEF IInv, Turns, talk
    <2> HIDE DEF next
    <2> QED BY <1>1, <1>3, <2>1, <2>2, BuildMovesSilently DEF Attending
  <1> QED BY <1>2, <1>3 DEF LoadTemplate

LEMMA GenerationCompletePreserves ==
  ASSUME IInv, NEW b \in Builds, GenerationComplete(b)
  PROVE  IInv'
  <1>1. IdleBuild.stage = "idle" /\ mvpGenerated' \in BOOLEAN /\ build[b].stage \notin Attending
    BY DEF GenerationComplete, IdleBuild, Attending, IInv, Turns
  <1> QED BY <1>1, FreshBuild, BuildMovesSilently DEF GenerationComplete

(* A message of the model or of a tool. *)
LEMMA MessageCompletionPreserves ==
  ASSUME IInv, NEW b \in Builds, NEW caller \in Callers, NEW after \in BuildRecord,
         NEW compacting \in BuildRecord, MessageCompletion(b, caller, after, compacting),
         {after.stage, compacting.stage} \subseteq {"calling", "answered"},
         UNCHANGED turns
  PROVE  IInv'
  <1> DEFINE m == NewMessage("model", {})
  <1>0. /\ mvpGenerated' \in BOOLEAN /\ generating' = generating
        /\ UNCHANGED <<pendingUserInputs, template, cancellable, asked, abandoned>>
    BY DEF IInv, Turns, turns
  <1>1. CASE build' = [build EXCEPT ![b] = after] /\ UNCHANGED talk
    BY <1>0, <1>1, BuildMovesSilently DEF Attending
  <1>2. CASE \E c \in SetConversationState(chat, AddConversationMessage(chat, m)) :
               /\ chat' = c /\ Logged(m)
               /\ \E next \in {after, compacting} :
                    /\ build' = [build EXCEPT ![b] = next]
                    /\ UNCHANGED held \/ Hold(b, caller, c)
                    /\ toolCallCounter' \in 0..(Interval - 1)
    <2>1. PICK c \in SetConversationState(chat, AddConversationMessage(chat, m)) :
               /\ chat' = c /\ Logged(m)
               /\ \E next \in {after, compacting} :
                    /\ build' = [build EXCEPT ![b] = next]
                    /\ UNCHANGED held \/ Hold(b, caller, c)
                    /\ toolCallCounter' \in 0..(Interval - 1)
      BY <1>2
    <2>2. PICK next \in {after, compacting} :
            /\ build' = [build EXCEPT ![b] = next]
            /\ UNCHANGED held \/ Hold(b, caller, c)
            /\ toolCallCounter' \in 0..(Interval - 1)
      BY <2>1
    <2>3. /\ Numbered(log') /\ exposed' \subseteq Message
          /\ log' = log \cup {m} /\ m.asks = {} /\ Good(c, log', exposed')
          /\ \A k \in DOMAIN held \cap DOMAIN held' :
                Good(held[k], log', exposed') /\ held[k].recent # {}
      BY <2>1, AfterLogged DEF IInv, Conversations
    <2> HIDE DEF m
    <2>4. /\ DOMAIN held \subseteq DOMAIN held' /\ DOMAIN held' \subseteq Builds \X Callers
          /\ \A k \in DOMAIN held' : Good(held'[k], log', exposed') /\ held'[k].recent # {}
      <3>1. CASE UNCHANGED held
        BY <2>3, <3>1 DEF IInv, Conversations
      <3>2. CASE Hold(b, caller, c)
        <4>1. DOMAIN held \subseteq DOMAIN held' /\ DOMAIN held \subseteq Builds \X Callers
          BY <3>2 DEF Hold, IInv, Conversations
        <4>2. \A k \in DOMAIN held \ {<<b, caller>>} :
                Good(held[k], log', exposed') /\ held[k].recent # {}
          BY <2>3, <4>1
        <4>3. /\ DOMAIN held' = DOMAIN held \cup {<<b, caller>>}
              /\ \A k \in DOMAIN held' : Good(held'[k], log', exposed') /\ held'[k].recent # {}
          BY <2>3, <3>2, <4>1, <4>2, HoldGood
        <4> QED BY <4>1, <4>3
      <3> QED BY <2>2, <3>1, <3>2
    <2>5. Conversations'
      BY <2>1, <2>3, <2>4 DEF Conversations, Good, Numbered, Coherent, Chat, Message
    <2>6. next \in BuildRecord /\ next.stage \in {"calling", "answered"}
      BY <2>2
    <2>7. Untold
      BY <2>3 DEF Untold
    <2>8. /\ DOMAIN held \ ({b} \X Callers) \subseteq DOMAIN held'
          /\ next.stage # "compacting" /\ next.stage \in Attending
      BY <2>4, <2>6 DEF Attending
    <2> QED BY <1>0, <2>2, <2>5, <2>6, <2>7, <2>8, BuildMoves
  <1>3. (toolCallCounter + 1) % Interval \in 0..(Interval - 1) /\ 0 \in 0..(Interval - 1)
    BY AgenticAssumption DEF IInv, Turns
  <1> QED BY <1>1, <1>2, <1>3 DEF MessageCompletion

LEMMA AnswerRecord ==
  ASSUME IInv, NEW b \in Builds, NEW ts \in SUBSET Tools
  PROVE  Answer(b, ts) \in BuildRecord /\ Answer(b, ts).stage \in {"calling", "answered"}
  <1>1. CASE ts = {}
    <2>1. "answered" \in Stages
      BY DEF Stages
    <2> QED BY <1>1, <2>1, FreshBuild DEF Answer
  <1>2. CASE ts # {}
    <2>1. build[b] \in BuildRecord
      BY DEF IInv
    <2> QED BY <1>2, <2>1 DEF Answer, BuildRecord, Stages
  <1> QED BY <1>1, <1>2

LEMMA ModelAnswersPreserves ==
  ASSUME IInv, NEW b \in Builds, ModelAnswers(b)
  PROVE  IInv'
  <1>1. PICK ts \in SUBSET Tools : MessageCompletion(b, Builder, Answer(b, ts), Answer(b, ts))
    BY DEF ModelAnswers
  <1>2. UNCHANGED turns
    BY DEF ModelAnswers
  <1> QED BY <1>1, <1>2, AnswerRecord, MessageCompletionPreserves DEF Callers

(* The native client moves a build on and tells no one. *)
LEMMA ClaudePreserves ==
  ASSUME IInv, NEW b \in Builds, ClaudeAnswers(b) \/ ClaudeFails(b) \/ NextRound(b)
  PROVE  IInv'
  <1>1. UNCHANGED <<turns, talk>> /\ build[b] \in BuildRecord
    BY DEF ClaudeAnswers, ClaudeFails, NextRound, IInv
  <1>2. mvpGenerated' \in BOOLEAN
    BY <1>1 DEF IInv, Turns, turns
  <1>3. \E next \in BuildRecord : /\ build' = [build EXCEPT ![b] = next]
                                  /\ next.stage \in {"inferring", "calling", "answered"}
    <2>1. CASE ClaudeAnswers(b)
      BY <2>1, AnswerRecord DEF ClaudeAnswers
    <2>2. CASE ClaudeFails(b)
      <3> DEFINE next == [build[b] EXCEPT !.rounds = 0]
      <3>1. next \in BuildRecord /\ next.stage = "inferring"
        BY <1>1, <2>2, AgenticAssumption DEF ClaudeFails, BuildRecord
      <3>2. build' = [build EXCEPT ![b] = next]
        BY <2>2 DEF ClaudeFails, IInv
      <3> HIDE DEF next
      <3> QED BY <3>1, <3>2
    <2>3. CASE NextRound(b)
      <3> DEFINE next == [build[b] EXCEPT !.stage = "inferring", !.rounds = @ - 1]
      <3>1. build[b].rounds - 1 \in 0..MaxDepth /\ "inferring" \in Stages
        BY <1>1, <2>3, AgenticAssumption DEF NextRound, BuildRecord, Stages
      <3>2. next \in BuildRecord /\ next.stage = "inferring"
        BY <1>1, <3>1 DEF BuildRecord
      <3>3. build' = [build EXCEPT ![b] = next]
        BY <2>3 DEF NextRound, IInv
      <3> HIDE DEF next
      <3> QED BY <3>2, <3>3
    <2> QED BY <2>1, <2>2, <2>3
  <1> QED BY <1>1, <1>2, <1>3, BuildMovesSilently DEF Attending, turns

LEMMA ReturnedRecord ==
  ASSUME IInv, NEW b \in Builds, NEW t
  PROVE  Returned(b, t) \in BuildRecord /\ Returned(b, t).stage = build[b].stage
  BY DEF Returned, IInv, BuildRecord

LEMMA ToolCompletesPreserves ==
  ASSUME IInv, NEW b \in Builds, NEW t \in Tools, ToolCompletes(b, t)
  PROVE  IInv'
  <1>1. build[b].stage = "calling" /\ build[b] \in BuildRecord /\ t \in Callers
    BY DEF ToolCompletes, Running, IInv, Callers
  <1> QED BY <1>1, ReturnedRecord, MessageCompletionPreserves DEF ToolCompletes

LEMMA ToolFailsPreserves ==
  ASSUME IInv, NEW b \in Builds, NEW t \in Tools, ToolFails(b, t)
  PROVE  IInv'
  <1>1. build[b].stage = "calling" /\ mvpGenerated' \in BOOLEAN
    BY DEF ToolFails, Running, IInv, Turns
  <1> QED BY <1>1, ReturnedRecord, BuildMovesSilently DEF ToolFails, Attending

(* What a compaction held is good, and so is what it writes. *)
LEMMA ReleasePreserves ==
  ASSUME IInv, NEW b \in Builds, NEW caller \in Callers, <<b, caller>> \in DOMAIN held,
         Release(b, caller)
  PROVE  /\ \A c \in SetConversationState(chat, Written(b, caller)) : Good(c, log, exposed)
         /\ DOMAIN held' = DOMAIN held \ {<<b, caller>>}
         /\ \A k \in DOMAIN held' : held'[k] = held[k]
  <1>1. Good(Written(b, caller), log, exposed) /\ Written(b, caller).recent # {}
    BY DEF IInv, Conversations, Written
  <1>2. chat \in Chat /\ Coherent(chat) /\ chat.full \cup chat.unstored \subseteq log
    BY DEF IInv, Conversations, Good
  <1> QED BY <1>1, <1>2, StoredGood, ReleaseKeeps

LEMMA CompactionDonePreserves ==
  ASSUME IInv, NEW b \in Builds, NEW caller \in Callers, CompactionDone(b, caller)
  PROVE  IInv'
  <1>1. /\ <<b, caller>> \in DOMAIN held /\ build[b].stage # "compacting"
        /\ chat' \in SetConversationState(chat, Written(b, caller)) /\ Release(b, caller)
        /\ build' = [build EXCEPT ![b] = Returned(b, caller)]
        /\ UNCHANGED <<turns, toolCallCounter, log, exposed>>
    BY DEF CompactionDone
  <1>2. /\ Good(chat', log, exposed)
        /\ DOMAIN held' = DOMAIN held \ {<<b, caller>>}
        /\ \A k \in DOMAIN held' : held'[k] = held[k]
    BY <1>1, ReleasePreserves
  <1>3. Conversations'
    BY <1>1, <1>2, WrittenConversations DEF IInv
  <1>4. Returned(b, caller) \in BuildRecord /\ Returned(b, caller).stage = build[b].stage
    BY ReturnedRecord
  <1>5. mvpGenerated' \in BOOLEAN /\ toolCallCounter' \in 0..(Interval - 1)
    BY <1>1 DEF IInv, Turns, turns
  <1>6. Untold /\ DOMAIN held \ ({b} \X Callers) \subseteq DOMAIN held'
    BY <1>1, <1>2 DEF Untold
  <1> QED BY <1>1, <1>3, <1>4, <1>5, <1>6, BuildMoves DEF turns

LEMMA NextInferencePreserves ==
  ASSUME IInv, NEW b \in Builds, NextInference(b)
  PROVE  IInv'
  <1>1. build[b].stage = "calling" /\ UNCHANGED <<turns, talk>> /\ build[b] \in BuildRecord
    BY DEF NextInference, IInv
  <1>2. mvpGenerated' \in BOOLEAN
    BY <1>1 DEF IInv, Turns, turns
  <1>3. CASE /\ build[b].depth + 1 < MaxDepth
             /\ build' = [build EXCEPT ![b].stage = "inferring", ![b].depth = @ + 1,
                                      ![b].rounds = Rounds(build[b].attempt, build[b].depth + 1)]
    <2> DEFINE next == [build[b] EXCEPT !.stage = "inferring", !.depth = @ + 1,
                                        !.rounds = Rounds(build[b].attempt, build[b].depth + 1)]
    <2>1. build[b].depth + 1 \in 0..(MaxDepth - 1) /\ "inferring" \in Stages
          /\ Rounds(build[b].attempt, build[b].depth + 1) \in 0..MaxDepth
      BY <1>1, <1>3, AgenticAssumption DEF BuildRecord, Stages, Rounds
    <2>2. next \in BuildRecord /\ next.stage = "inferring"
      BY <1>1, <2>1 DEF BuildRecord
    <2>3. build' = [build EXCEPT ![b] = next]
      BY <1>3 DEF IInv
    <2> HIDE DEF next
    <2> QED BY <1>1, <1>2, <2>2, <2>3, BuildMovesSilently DEF Attending, turns
  <1>4. CASE build' = [build EXCEPT ![b] = [IdleBuild EXCEPT !.stage = "answered"]]
    <2>1. "answered" \in Stages
      BY DEF Stages
    <2> QED BY <1>1, <1>2, <1>4, <2>1, FreshBuild, BuildMovesSilently DEF Attending, turns
  <1> QED BY <1>3, <1>4 DEF NextInference

LEMMA EndChainPreserves ==
  ASSUME IInv, NEW b \in Builds, EndChain(b)
  PROVE  IInv'
  <1>1. build[b].stage = "answered"
    BY DEF EndChain
  <1>2. CASE UNCHANGED held /\ EndIteration(b, chat)
    BY <1>2, EndPreserves DEF IInv, Conversations
  <1>3. CASE /\ Hold(b, Builder, chat)
             /\ build' = [build EXCEPT ![b] = [IdleBuild EXCEPT !.stage = "compacting"]]
             /\ UNCHANGED <<turns, toolCallCounter, chat, log, exposed>>
    <2>1. /\ DOMAIN held' = DOMAIN held \cup {<<b, Builder>>}
          /\ \A k \in DOMAIN held' : Good(held'[k], log, exposed) /\ held'[k].recent # {}
      BY <1>3, HoldGood DEF IInv, Conversations, Callers
    <2>2. Conversations'
      BY <1>3, <2>1 DEF IInv, Conversations, Good, Numbered, Coherent, Chat, Message, Callers
    <2>3. mvpGenerated' \in BOOLEAN /\ toolCallCounter' \in 0..(Interval - 1)
      BY <1>3 DEF IInv, Turns, turns
    <2>4. "compacting" \in Stages /\ Untold
      BY <1>3 DEF Stages, Untold
    <2> QED BY <1>1, <1>3, <2>1, <2>2, <2>3, <2>4, FreshBuild, BuildMoves DEF Attending, turns
  <1> QED BY <1>2, <1>3 DEF EndChain

LEMMA FinalCompactionPreserves ==
  ASSUME IInv, NEW b \in Builds, FinalCompactionDone(b)
  PROVE  IInv'
  <1>1. <<b, Builder>> \in DOMAIN held /\ Builder \in Callers
    BY DEF FinalCompactionDone, IInv, FinalHeld, Callers
  <1>2. PICK c \in SetConversationState(chat, Written(b, Builder)) : EndIteration(b, c)
    BY DEF FinalCompactionDone
  <1>3. Release(b, Builder)
    BY DEF FinalCompactionDone
  <1> QED BY <1>1, <1>2, <1>3, ReleasePreserves, EndPreserves

LEMMA RetryPreserves ==
  ASSUME IInv, NEW b \in Builds, InferenceRetried(b) \/ TextRepeats(b)
  PROVE  IInv'
  <1>1. build[b].stage = "inferring" /\ UNCHANGED <<turns, talk>> /\ build[b] \in BuildRecord
    BY DEF InferenceRetried, TextRepeats, IInv
  <1>2. mvpGenerated' \in BOOLEAN
    BY <1>1 DEF IInv, Turns, turns
  <1>3. CASE InferenceRetried(b)
    <2>1. build[b].attempt + 1 \in 0..(Retries - 1)
      BY <1>1, <1>3, AgenticAssumption DEF InferenceRetried, BuildRecord
    <2> QED BY <1>1, <1>2, <1>3, <2>1, FreshInference, BuildMovesSilently
         DEF InferenceRetried, Attending, turns
  <1>4. CASE TextRepeats(b)
    <2> DEFINE next == [build[b] EXCEPT !.aborted = TRUE]
    <2>1. next \in BuildRecord /\ next.stage = "inferring"
      BY <1>1 DEF BuildRecord
    <2>2. build' = [build EXCEPT ![b] = next]
      BY <1>4 DEF TextRepeats, IInv
    <2> HIDE DEF next
    <2> QED BY <1>1, <1>2, <2>1, <2>2, BuildMovesSilently DEF Attending, turns
  <1> QED BY <1>3, <1>4

LEMMA InferenceFailsPreserves ==
  ASSUME IInv, NEW b \in Builds, InferenceFails(b)
  PROVE  IInv'
  <1>1. /\ cancellable' = {} /\ generating' = FALSE
        /\ UNCHANGED <<mvpGenerated, pendingUserInputs, template, asked, talk>>
    BY DEF InferenceFails, Completing
  <1>2. build' \in [Builds -> BuildRecord] /\ build'[b].stage = "completing"
        /\ \A o \in Builds \ {b} : build'[o] = build[o]
    <2>1. "completing" \in Stages
      BY DEF Stages
    <2> QED BY <2>1, FreshBuild DEF IInv, InferenceFails, Completing
  <1>3. Conversations'
    BY <1>1, WrittenConversations DEF IInv, Conversations, talk
  <1>4. FinalHeld'
    BY <1>1, <1>2 DEF IInv, FinalHeld, talk
  <1>5. abandoned' \subseteq pendingUserInputs' /\ (pendingUserInputs' \subseteq abandoned' \/ Live')
    <2>1. CASE \E o \in Builds \ {b} : Looking(o)
      <3>1. Live'
        BY <1>2, <2>1 DEF Live, Looking
      <3>2. abandoned' = abandoned
        BY <2>1 DEF InferenceFails
      <3> QED BY <1>1, <3>1, <3>2 DEF IInv, Turns
    <2>2. CASE ~ \E o \in Builds \ {b} : Looking(o)
      BY <1>1, <2>2 DEF InferenceFails, IInv, Turns
    <2> QED BY <2>1, <2>2
  <1>6. Turns' /\ Served'
    BY <1>1, <1>5 DEF IInv, Turns, Served, talk
  <1>7. Told'
    BY <1>1, NothingTold DEF IInv, talk, Untold
  <1> QED BY <1>2, <1>3, <1>4, <1>6, <1>7 DEF IInv

-----------------------------------------------------------------------------
LEMMA StepPreserves == IInv /\ [Next]_vars => IInv'
  <1> SUFFICES ASSUME IInv, [Next]_vars PROVE IInv'
    OBVIOUS
  <1>1. CASE UNCHANGED vars
    <2>1. Conversations'
      BY <1>1, WrittenConversations DEF IInv, Conversations, vars, talk
    <2>2. Told'
      BY <1>1, NothingTold DEF IInv, vars, turns, talk, Untold
    <2> QED BY <1>1, <2>1, <2>2 DEF IInv, Turns, FinalHeld, Served, Live, Looking, vars, turns, talk
  <1>2. ASSUME NEW b \in Builds, UserStarts(b) \/ BuildStep(b)
        PROVE  IInv'
    BY <1>2, UserStartsPreserves, LoadTemplatePreserves, ModelAnswersPreserves,
       NextInferencePreserves, EndChainPreserves, FinalCompactionPreserves, RetryPreserves,
       InferenceFailsPreserves, GenerationCompletePreserves, ToolCompletesPreserves,
       ToolFailsPreserves, CompactionDonePreserves, ClaudePreserves
       DEF BuildStep
  <1> QED BY <1>1, <1>2, UserInputPreserves, UserStopsPreserves, ClearPreserves, RestartPreserves
       DEF Next

THEOREM Invariance == Spec => []IInv
  BY InitIInv, StepPreserves, PTL DEF Spec

(* The variables keep their types, so the depth of a chain of tool calls stays   *)
(* below getMaxToolCallingDepth, the rounds of the native client are at most as  *)
(* many, and the attempts stay below the retry limit, through retries, crashes   *)
(* and overlapping builds.                                                       *)
THEOREM TypeCorrect == Spec => []TypeOK
  <1>1. IInv => TypeOK
    BY DEF IInv, Turns, Conversations, Numbered, Good, BuildRecord, TypeOK
  <1> QED BY <1>1, Invariance, PTL

(* The model knows every message the user is shown, but for those an emergency left  *)
(* out or a failed insert touched, and the last Keep of them word for word, whatever  *)
(* write-backs of compactifyIfNeeded come when and whichever insert of                *)
(* setConversationState fails.                                                        *)
THEOREM Remembers == Spec => []ModelRemembers
  <1>1. IInv => ModelRemembers
    BY DEF IInv, Conversations, Good, ModelRemembers
  <1> QED BY <1>1, Invariance, PTL

(* addConversationMessage: only what was added during a compaction, what the user *)
(* cleared, and what setConversationState failed to insert may be lost.           *)
THEOREM NoOtherLoss == Spec => []MessagesKept
  <1>1. IInv => MessagesKept
    BY DEF IInv, Conversations, Good, MessagesKept
  <1> QED BY <1>1, Invariance, PTL

(* fetchPendingUserRequests: what leaves the queue was made part of one message added *)
(* to the conversation, and of no second one, through failures, restarts and           *)
(* overlapping builds.  NoOtherLoss tells when such a message may be lost.             *)
THEOREM NoRequestDropped == Spec => []RequestsRemembered
  <1>1. IInv => RequestsRemembered
    BY DEF IInv, Told
  <1> QED BY <1>1, Invariance, PTL

(* build and generateAllFiles: an input that waits has a build that will look at *)
(* the queue, although generationPromise forgets the builds that run on.          *)
THEOREM InputsServed == Spec => []NoInputStranded
  <1>1. IInv => NoInputStranded
    BY DEF IInv, Served, Live, NoInputStranded
  <1> QED BY <1>1, Invariance, PTL

-----------------------------------------------------------------------------
(* The chains of tool calls run down.                                        *)

HeldBy(b) == {c \in Callers : <<b, c>> \in DOMAIN held}

(* A compaction under way is of a tool call that has not returned, or of an answer *)
(* the build has not left behind, which the native client did not give.            *)
Known(b) ==
  \A c \in HeldBy(b) : IF c = Builder
                         THEN /\ build[b].stage \in {"calling", "answered", "compacting"}
                              /\ build[b].rounds = 0
                         ELSE build[b].stage = "calling" /\ c \in build[b].calls

OnlyIts(b) == \A o \in Builds \ {b} : build'[o] = build[o] /\ HeldBy(o)' = HeldBy(o)

Lessens(b) == SamePlace(b) /\ Awaited(b)' \subseteq Awaited(b) /\ Awaited(b)' # Awaited(b)

GoesOn(b) == build[b].stage \in Chain => Over(b) \/ Passed(b) \/ Lessens(b)

(* How an action can change what is held. *)
LEMMA NothingHeld ==
  ASSUME UNCHANGED held
  PROVE  \A o : HeldBy(o)' = HeldBy(o)
  BY DEF HeldBy

LEMMA Holding ==
  ASSUME NEW b \in Builds, NEW caller \in Callers, NEW c, Hold(b, caller, c)
  PROVE  /\ HeldBy(b)' = HeldBy(b) \cup {caller}
         /\ \A o \in Builds \ {b} : HeldBy(o)' = HeldBy(o)
  <1>1. DOMAIN held' = DOMAIN held \cup {<<b, caller>>}
    BY DEF Hold
  <1> QED BY <1>1 DEF HeldBy

LEMMA Releasing ==
  ASSUME NEW b \in Builds, NEW caller \in Callers, Release(b, caller)
  PROVE  /\ HeldBy(b)' = HeldBy(b) \ {caller}
         /\ \A o \in Builds \ {b} : HeldBy(o)' = HeldBy(o)
  <1>1. DOMAIN held' = DOMAIN held \ {<<b, caller>>}
    BY DEF Release
  <1> QED BY <1>1 DEF HeldBy

LEMMA OnlyThis ==
  ASSUME NEW b \in Builds, NEW n, build \in [Builds -> BuildRecord],
         build' = [build EXCEPT ![b] = n], \A o \in Builds \ {b} : HeldBy(o)' = HeldBy(o)
  PROVE  OnlyIts(b) /\ build'[b] = n
  BY DEF OnlyIts

(* Awaited in terms of HeldBy. *)
LEMMA AwaitedIs ==
  ASSUME NEW b \in Builds, build[b] \in BuildRecord
  PROVE  Awaited(b) = {<<t, "result">> : t \in build[b].calls \ HeldBy(b)}
                        \cup {<<t, "return">> : t \in build[b].calls}
                        \cup {<<c, "return">> : c \in {Builder} \cap HeldBy(b)}
                        \cup {<<c, "abort">> : c \in {x \in {Builder} : ~build[b].aborted}}
  <1>1. /\ {x \in build[b].calls : <<b, x>> \notin DOMAIN held} = build[b].calls \ HeldBy(b)
        /\ {x \in {Builder} : <<b, x>> \in DOMAIN held} = {Builder} \cap HeldBy(b)
    BY DEF BuildRecord, HeldBy, Callers
  <1> QED BY <1>1, Zenon DEF Awaited

LEMMA AwaitedBecomes ==
  ASSUME NEW b \in Builds, build'[b] \in BuildRecord
  PROVE  Awaited(b)' = {<<t, "result">> : t \in build'[b].calls \ HeldBy(b)'}
                        \cup {<<t, "return">> : t \in build'[b].calls}
                        \cup {<<c, "return">> : c \in {Builder} \cap HeldBy(b)'}
                        \cup {<<c, "abort">> : c \in {x \in {Builder} : ~build'[b].aborted}}
  <1>1. /\ {x \in build'[b].calls : <<b, x>> \notin DOMAIN held'} = build'[b].calls \ HeldBy(b)'
        /\ {x \in {Builder} : <<b, x>> \in DOMAIN held'} = {Builder} \cap HeldBy(b)'
    BY DEF BuildRecord, HeldBy, Callers
  <1> QED BY <1>1, Zenon DEF Awaited

LEMMA Fewer ==
  ASSUME NEW b \in Builds, build[b] \in BuildRecord, build'[b] \in BuildRecord, SamePlace(b),
         build[b].aborted => build'[b].aborted,
         build'[b].calls \subseteq build[b].calls,
         build'[b].calls \ HeldBy(b)' \subseteq build[b].calls \ HeldBy(b),
         Builder \in HeldBy(b)' => Builder \in HeldBy(b)
  PROVE  /\ Awaited(b)' \subseteq Awaited(b)
         /\ (\/ \E t \in build[b].calls : t \notin build'[b].calls
             \/ \E t \in build[b].calls \ HeldBy(b) : t \in HeldBy(b)'
             \/ Builder \in HeldBy(b) \ HeldBy(b)'
             \/ build'[b].aborted /\ ~build[b].aborted) => Lessens(b)
  <1>1. Builder \notin build[b].calls
    BY AgenticAssumption DEF BuildRecord
  <1>2. Awaited(b)' \subseteq Awaited(b)
    BY AwaitedIs, AwaitedBecomes
  <1>3. ASSUME NEW t \in build[b].calls, t \notin build'[b].calls
        PROVE  Awaited(b)' # Awaited(b)
    <2>1. <<t, "return">> \in Awaited(b)
      BY <1>3, AwaitedIs
    <2>2. <<t, "return">> \notin Awaited(b)'
      BY <1>1, <1>3, AwaitedBecomes
    <2> QED BY <2>1, <2>2
  <1>4. ASSUME NEW t \in build[b].calls \ HeldBy(b), t \in HeldBy(b)'
        PROVE  Awaited(b)' # Awaited(b)
    <2>1. <<t, "result">> \in Awaited(b)
      BY <1>4, AwaitedIs
    <2>2. <<t, "result">> \notin Awaited(b)'
      BY <1>1, <1>4, AwaitedBecomes
    <2> QED BY <2>1, <2>2
  <1>5. ASSUME Builder \in HeldBy(b) \ HeldBy(b)'
        PROVE  Awaited(b)' # Awaited(b)
    <2>1. <<Builder, "return">> \in Awaited(b)
      BY <1>5, AwaitedIs
    <2>2. <<Builder, "return">> \notin Awaited(b)'
      BY <1>1, <1>5, AwaitedBecomes
    <2> QED BY <2>1, <2>2
  <1>6. ASSUME build'[b].aborted, ~build[b].aborted
        PROVE  Awaited(b)' # Awaited(b)
    <2>1. <<Builder, "abort">> \in Awaited(b)
      BY <1>6, AwaitedIs
    <2>2. <<Builder, "abort">> \notin Awaited(b)'
      BY <1>6, AwaitedBecomes
    <2> QED BY <2>1, <2>2
  <1> QED BY <1>2, <1>3, <1>4, <1>5, <1>6, Zenon DEF Lessens

Runs(b) == OnlyIts(b) /\ Known(b)' /\ GoesOn(b)

(* Nothing is held by a build that no chain keeps. *)
LEMMA NothingKnown ==
  ASSUME NEW b \in Builds, Known(b), build \in [Builds -> BuildRecord],
         build[b].stage \notin {"calling", "answered", "compacting"}
  PROVE  HeldBy(b) = {}
  BY DEF Known, HeldBy

LEMMA FreshIs ==
  /\ IdleBuild.stage = "idle"
  /\ \A st \in Stages : /\ [IdleBuild EXCEPT !.stage = st].stage = st
                         /\ [IdleBuild EXCEPT !.stage = st].rounds = 0
  /\ \A a \in 0..(Retries - 1) : /\ Inference(a).stage = "inferring" /\ Inference(a).attempt = a
                                 /\ Inference(a).depth = 0
  BY DEF IdleBuild, Inference

(* A build that leaves the chain, or is not in one, and holds nothing afterwards. *)
LEMMA Leaves ==
  ASSUME NEW b \in Builds, NEW n, build \in [Builds -> BuildRecord],
         build' = [build EXCEPT ![b] = n], HeldBy(b)' = {},
         \A o \in Builds \ {b} : HeldBy(o)' = HeldBy(o),
         build[b].stage \in Chain
           => \/ n.stage \notin Chain
              \/ n = Inference(0) /\ build[b].stage \in {"answered", "compacting"}
  PROVE  Runs(b)
  <1>1. OnlyIts(b) /\ build'[b] = n
    BY OnlyThis
  <1>2. Known(b)'
    BY DEF Known
  <1>3. GoesOn(b)
    BY <1>1 DEF GoesOn, Over
  <1> QED BY <1>1, <1>2, <1>3 DEF Runs

LEMMA BeginIs ==
  ASSUME NEW b, NEW waiting, NEW c, NEW joined, BeginIteration(b, waiting, c, joined)
  PROVE  build' = [build EXCEPT ![b] = Inference(0)]
  BY DEF BeginIteration

LEMMA LoadTemplateRuns ==
  ASSUME IInv, NEW b \in Builds, Known(b), LoadTemplate(b)
  PROVE  Runs(b)
  <1>1. build[b].stage = "template" /\ build \in [Builds -> BuildRecord] /\ UNCHANGED held
    BY DEF LoadTemplate, IInv
  <1>2. \E n : build' = [build EXCEPT ![b] = n]
    <2>1. CASE BeginIteration(b, pendingUserInputs, chat, cancellable)
      BY <2>1, BeginIs
    <2>2. CASE build' = [build EXCEPT ![b].stage = "wedged"]
      BY <2>2
    <2> QED BY <2>1, <2>2 DEF LoadTemplate
  <1>3. HeldBy(b)' = {} /\ \A o \in Builds \ {b} : HeldBy(o)' = HeldBy(o)
    BY <1>1, NothingKnown, NothingHeld
  <1>4. build[b].stage \notin Chain
    BY <1>1 DEF Chain
  <1> QED BY <1>1, <1>2, <1>3, <1>4, Leaves

LEMMA StartRuns ==
  ASSUME IInv, NEW b \in Builds, NEW waiting, Known(b), Start(b, waiting)
  PROVE  Runs(b)
  <1>1. build[b].stage = "idle" /\ build \in [Builds -> BuildRecord] /\ UNCHANGED held
    BY DEF Start, IInv
  <1>2. \E n : build' = [build EXCEPT ![b] = n]
    <2>1. CASE BeginIteration(b, waiting, chat, cancellable)
      BY <2>1, BeginIs
    <2>2. CASE build' = [build EXCEPT ![b] = [IdleBuild EXCEPT !.stage = "template"]]
      BY <2>2
    <2> QED BY <2>1, <2>2 DEF Start
  <1>3. HeldBy(b)' = {} /\ \A o \in Builds \ {b} : HeldBy(o)' = HeldBy(o)
    BY <1>1, NothingKnown, NothingHeld
  <1>4. build[b].stage \notin Chain
    BY <1>1 DEF Chain
  <1> QED BY <1>1, <1>2, <1>3, <1>4, Leaves

LEMMA GenerationCompleteRuns ==
  ASSUME IInv, NEW b \in Builds, Known(b), GenerationComplete(b)
  PROVE  Runs(b)
  <1>1. build[b].stage = "completing" /\ build \in [Builds -> BuildRecord] /\ UNCHANGED held
        /\ build' = [build EXCEPT ![b] = IdleBuild]
    BY DEF GenerationComplete, IInv, talk
  <1>2. HeldBy(b)' = {} /\ \A o \in Builds \ {b} : HeldBy(o)' = HeldBy(o)
    BY <1>1, NothingKnown, NothingHeld
  <1>3. build[b].stage \notin Chain
    BY <1>1 DEF Chain
  <1> QED BY <1>1, <1>2, <1>3, Leaves

LEMMA InferenceFailsRuns ==
  ASSUME IInv, NEW b \in Builds, Known(b), InferenceFails(b)
  PROVE  Runs(b)
  <1>1. build[b].stage = "inferring" /\ build \in [Builds -> BuildRecord] /\ UNCHANGED held
        /\ build' = [build EXCEPT ![b] = [IdleBuild EXCEPT !.stage = "completing"]]
    BY DEF InferenceFails, Completing, IInv, talk
  <1>2. HeldBy(b)' = {} /\ \A o \in Builds \ {b} : HeldBy(o)' = HeldBy(o)
    BY <1>1, NothingKnown, NothingHeld
  <1>3. [IdleBuild EXCEPT !.stage = "completing"].stage \notin Chain
    BY FreshIs DEF Chain, Stages
  <1> QED BY <1>1, <1>2, <1>3, Leaves

(* The end of an iteration, with the compaction of the builder gone. *)
LEMMA EndIterationRuns ==
  ASSUME IInv, NEW b \in Builds, NEW c, EndIteration(b, c),
         build[b].stage \in {"answered", "compacting"}, HeldBy(b)' = {},
         \A o \in Builds \ {b} : HeldBy(o)' = HeldBy(o)
  PROVE  Runs(b)
  <1>1. build \in [Builds -> BuildRecord]
    BY DEF IInv
  <1>2. CASE BeginIteration(b, pendingUserInputs, c, {})
    BY <1>1, <1>2, BeginIs, Leaves
  <1>3. CASE Completing(b)
    <2>1. build' = [build EXCEPT ![b] = [IdleBuild EXCEPT !.stage = "completing"]]
      BY <1>3 DEF Completing
    <2>2. [IdleBuild EXCEPT !.stage = "completing"].stage \notin Chain
      BY FreshIs DEF Chain, Stages
    <2> QED BY <1>1, <2>1, <2>2, Leaves
  <1> QED BY <1>2, <1>3 DEF EndIteration

LEMMA NoToolHeld ==
  ASSUME NEW b \in Builds, Known(b), build[b].stage # "calling"
  PROVE  HeldBy(b) \subseteq {Builder}
  BY DEF Known

LEMMA EndChainRuns ==
  ASSUME IInv, NEW b \in Builds, Known(b), EndChain(b)
  PROVE  Runs(b)
  <1>1. build[b].stage = "answered" /\ build \in [Builds -> BuildRecord]
    BY DEF EndChain, IInv
  <1>2. HeldBy(b) = {}
    <2>1. Builder \notin HeldBy(b)
      BY DEF EndChain, HeldBy
    <2> QED BY <1>1, <2>1, NoToolHeld
  <1>3. CASE UNCHANGED held /\ EndIteration(b, chat)
    BY <1>1, <1>2, <1>3, NothingHeld, EndIterationRuns
  <1>4. CASE /\ Hold(b, Builder, chat)
             /\ build' = [build EXCEPT ![b] = [IdleBuild EXCEPT !.stage = "compacting"]]
    <2>1. HeldBy(b)' = {Builder} /\ \A o \in Builds \ {b} : HeldBy(o)' = HeldBy(o)
      BY <1>2, <1>4, Holding DEF Callers
    <2>2. OnlyIts(b) /\ build'[b].stage = "compacting" /\ build'[b].rounds = 0
      BY <1>1, <1>4, <2>1, OnlyThis, FreshIs DEF Stages
    <2>3. Known(b)'
      BY <2>1, <2>2 DEF Known
    <2>4. GoesOn(b)
      BY <1>1, <2>2 DEF GoesOn, Passed
    <2> QED BY <2>2, <2>3, <2>4 DEF Runs
  <1> QED BY <1>3, <1>4 DEF EndChain

LEMMA FinalCompactionRuns ==
  ASSUME IInv, NEW b \in Builds, Known(b), FinalCompactionDone(b)
  PROVE  Runs(b)
  <1>1. PICK c \in SetConversationState(chat, Written(b, Builder)) : EndIteration(b, c)
    BY DEF FinalCompactionDone
  <1>3. build[b].stage = "compacting" /\ Release(b, Builder)
    BY DEF FinalCompactionDone
  <1>2. HeldBy(b)' = {} /\ \A o \in Builds \ {b} : HeldBy(o)' = HeldBy(o)
    BY <1>3, NoToolHeld, Releasing DEF Callers
  <1> QED BY <1>1, <1>2, <1>3, EndIterationRuns

(* A message may come with a compaction, which the caller then holds. *)
LEMMA CompletionIs ==
  ASSUME NEW b \in Builds, NEW caller \in Callers, NEW after, NEW compacting,
         build \in [Builds -> BuildRecord], MessageCompletion(b, caller, after, compacting)
  PROVE  /\ OnlyIts(b)
         /\ \/ build'[b] = after /\ HeldBy(b)' = HeldBy(b)
            \/ build'[b] = compacting /\ HeldBy(b)' = HeldBy(b) \cup {caller}
  <1>1. CASE UNCHANGED held /\ build' = [build EXCEPT ![b] = after]
    BY <1>1, NothingHeld, OnlyThis
  <1>2. ASSUME NEW c, Hold(b, caller, c), build' = [build EXCEPT ![b] = compacting]
        PROVE  OnlyIts(b) /\ build'[b] = compacting /\ HeldBy(b)' = HeldBy(b) \cup {caller}
    BY <1>2, Holding, OnlyThis
  <1>3. UNCHANGED talk => UNCHANGED held
    BY DEF talk
  <1> QED BY <1>1, <1>2, <1>3, Zenon DEF MessageCompletion

LEMMA AnswerIs ==
  ASSUME NEW b \in Builds, NEW ts \in SUBSET Tools, build[b] \in BuildRecord
  PROVE  \/ Answer(b, ts).stage = "answered" /\ Answer(b, ts).rounds = 0
         \/ /\ Answer(b, ts).stage = "calling"
            /\ Answer(b, ts).attempt = build[b].attempt
            /\ Answer(b, ts).depth = build[b].depth
            /\ Answer(b, ts).rounds = build[b].rounds
  BY FreshIs DEF Answer, BuildRecord, Stages

LEMMA ModelAnswersRuns ==
  ASSUME IInv, NEW b \in Builds, Known(b), ModelAnswers(b)
  PROVE  Runs(b)
  <1>1. /\ build[b].stage = "inferring" /\ build[b].rounds = 0
        /\ build \in [Builds -> BuildRecord] /\ HeldBy(b) = {}
    <2>1. build[b].stage = "inferring" /\ build[b].rounds = 0 /\ build \in [Builds -> BuildRecord]
      BY DEF ModelAnswers, IInv
    <2> QED BY <2>1, NothingKnown
  <1>2. PICK ts \in SUBSET Tools : MessageCompletion(b, Builder, Answer(b, ts), Answer(b, ts))
    BY DEF ModelAnswers
  <1>3. OnlyIts(b) /\ build'[b] = Answer(b, ts) /\ HeldBy(b)' \subseteq {Builder}
    <2>1. Builder \in Callers
      BY DEF Callers
    <2>2. /\ OnlyIts(b)
          /\ \/ build'[b] = Answer(b, ts) /\ HeldBy(b)' = HeldBy(b)
             \/ build'[b] = Answer(b, ts) /\ HeldBy(b)' = HeldBy(b) \cup {Builder}
      BY <1>1, <1>2, <2>1, CompletionIs, Zenon
    <2> QED BY <1>1, <2>2
  <1>4. \/ build'[b].stage = "answered" /\ build'[b].rounds = 0
        \/ /\ build'[b].stage = "calling" /\ build'[b].attempt = build[b].attempt
           /\ build'[b].depth = build[b].depth /\ build'[b].rounds = build[b].rounds
    BY <1>1, <1>3, AnswerIs
  <1>5. Known(b)'
    BY <1>1, <1>3, <1>4 DEF Known
  <1>6. GoesOn(b)
    BY <1>1, <1>4 DEF GoesOn, Passed
  <1> QED BY <1>3, <1>5, <1>6 DEF Runs

LEMMA ClaudeAnswersRuns ==
  ASSUME IInv, NEW b \in Builds, Known(b), ClaudeAnswers(b)
  PROVE  Runs(b)
  <1>1. /\ build[b].stage = "inferring" /\ UNCHANGED held
        /\ build \in [Builds -> BuildRecord]
    BY DEF ClaudeAnswers, IInv, talk
  <1>2. HeldBy(b)' = {} /\ \A o \in Builds \ {b} : HeldBy(o)' = HeldBy(o)
    BY <1>1, NothingKnown, NothingHeld
  <1>3. PICK ts \in SUBSET Tools : build' = [build EXCEPT ![b] = Answer(b, ts)]
    BY DEF ClaudeAnswers
  <1>4. OnlyIts(b) /\ build'[b] = Answer(b, ts)
    BY <1>1, <1>2, <1>3, OnlyThis
  <1>5. \/ build'[b].stage = "answered"
        \/ /\ build'[b].stage = "calling" /\ build'[b].attempt = build[b].attempt
           /\ build'[b].depth = build[b].depth /\ build'[b].rounds = build[b].rounds
    BY <1>1, <1>4, AnswerIs
  <1>6. Known(b)'
    BY <1>2 DEF Known
  <1>7. GoesOn(b)
    BY <1>1, <1>5 DEF GoesOn, Passed
  <1> QED BY <1>4, <1>6, <1>7 DEF Runs

LEMMA ClaudeFailsRuns ==
  ASSUME IInv, NEW b \in Builds, Known(b), ClaudeFails(b)
  PROVE  Runs(b)
  <1>1. /\ build[b].stage = "inferring" /\ build[b].rounds > 0 /\ UNCHANGED held
        /\ build \in [Builds -> BuildRecord] /\ build[b] \in BuildRecord
    BY DEF ClaudeFails, IInv, talk
  <1>2. HeldBy(b)' = {} /\ \A o \in Builds \ {b} : HeldBy(o)' = HeldBy(o)
    BY <1>1, NothingKnown, NothingHeld
  <1> DEFINE next == [build[b] EXCEPT !.rounds = 0]
  <1>3. build' = [build EXCEPT ![b] = next]
    BY <1>1 DEF ClaudeFails
  <1>4. /\ next.stage = "inferring" /\ next.attempt = build[b].attempt
        /\ next.depth = build[b].depth /\ next.rounds < build[b].rounds
    BY <1>1 DEF BuildRecord
  <1> HIDE DEF next
  <1>5. OnlyIts(b) /\ build'[b] = next
    BY <1>1, <1>2, <1>3, OnlyThis
  <1>6. Known(b)'
    BY <1>2 DEF Known
  <1>7. GoesOn(b)
    BY <1>1, <1>4, <1>5 DEF GoesOn, Passed
  <1> QED BY <1>5, <1>6, <1>7 DEF Runs

LEMMA NextRoundRuns ==
  ASSUME IInv, NEW b \in Builds, Known(b), NextRound(b)
  PROVE  Runs(b)
  <1>1. /\ build[b].stage = "calling" /\ build[b].calls = {} /\ build[b].rounds > 0
        /\ UNCHANGED held /\ build \in [Builds -> BuildRecord] /\ build[b] \in BuildRecord
    BY DEF NextRound, IInv, talk
  <1>2. HeldBy(b)' = {} /\ \A o \in Builds \ {b} : HeldBy(o)' = HeldBy(o)
    <2>1. HeldBy(b) = {}
      BY <1>1 DEF Known, BuildRecord
    <2> QED BY <1>1, <2>1, NothingHeld
  <1> DEFINE next == [build[b] EXCEPT !.stage = "inferring", !.rounds = @ - 1]
  <1>3. build' = [build EXCEPT ![b] = next]
    BY <1>1 DEF NextRound
  <1>4. /\ next.stage = "inferring" /\ next.attempt = build[b].attempt
        /\ next.depth = build[b].depth /\ next.rounds < build[b].rounds
    BY <1>1 DEF BuildRecord
  <1> HIDE DEF next
  <1>5. OnlyIts(b) /\ build'[b] = next
    BY <1>1, <1>2, <1>3, OnlyThis
  <1>6. Known(b)'
    BY <1>2 DEF Known
  <1>7. GoesOn(b)
    BY <1>1, <1>4, <1>5 DEF GoesOn, Passed
  <1> QED BY <1>5, <1>6, <1>7 DEF Runs

LEMMA ReturnedIs ==
  ASSUME NEW b \in Builds, NEW t, build[b] \in BuildRecord
  PROVE  /\ Returned(b, t) \in BuildRecord
         /\ Returned(b, t).stage = build[b].stage /\ Returned(b, t).attempt = build[b].attempt
         /\ Returned(b, t).depth = build[b].depth /\ Returned(b, t).aborted = build[b].aborted
         /\ Returned(b, t).rounds = build[b].rounds
         /\ Returned(b, t).calls = build[b].calls \ {t}
  BY DEF Returned, BuildRecord

LEMMA ReturnsRuns ==
  ASSUME NEW b \in Builds, NEW t \in Tools, build[b] \in BuildRecord, t \in build[b].calls, Known(b),
         build[b].stage = "calling", OnlyIts(b), build'[b] = Returned(b, t),
         HeldBy(b)' = HeldBy(b) \ {t}
  PROVE  Runs(b)
  <1>1. /\ build'[b] \in BuildRecord /\ SamePlace(b)
        /\ build'[b].aborted = build[b].aborted /\ build'[b].calls = build[b].calls \ {t}
    BY ReturnedIs DEF SamePlace
  <1>2. Lessens(b)
    <2>1. /\ build'[b].calls \subseteq build[b].calls
          /\ build'[b].calls \ HeldBy(b)' \subseteq build[b].calls \ HeldBy(b)
          /\ Builder \in HeldBy(b)' => Builder \in HeldBy(b)
          /\ t \notin build'[b].calls
      BY <1>1
    <2> QED BY <1>1, <2>1, Fewer
  <1>3. Known(b)'
    BY <1>1 DEF Known, SamePlace
  <1> QED BY <1>2, <1>3 DEF Runs, GoesOn

LEMMA RunningIs ==
  ASSUME NEW b \in Builds, NEW t \in Tools, Running(b, t)
  PROVE  /\ build[b].stage = "calling" /\ t \in build[b].calls
         /\ t \notin HeldBy(b) /\ Builder \notin HeldBy(b)
  BY DEF Running, HeldBy

LEMMA ToolCompletesRuns ==
  ASSUME IInv, NEW b \in Builds, NEW t \in Tools, Known(b), ToolCompletes(b, t)
  PROVE  Runs(b)
  <1>1. /\ build \in [Builds -> BuildRecord] /\ build[b] \in BuildRecord
        /\ build[b].stage = "calling" /\ t \in build[b].calls
        /\ t \notin HeldBy(b) /\ Builder \notin HeldBy(b)
    BY RunningIs DEF IInv, ToolCompletes
  <1>2. /\ OnlyIts(b)
        /\ \/ build'[b] = Returned(b, t) /\ HeldBy(b)' = HeldBy(b)
           \/ build'[b] = build[b] /\ HeldBy(b)' = HeldBy(b) \cup {t}
    BY <1>1, CompletionIs DEF ToolCompletes, Callers
  <1>3. CASE build'[b] = Returned(b, t) /\ HeldBy(b)' = HeldBy(b)
    BY <1>1, <1>2, <1>3, ReturnsRuns
  <1>4. CASE build'[b] = build[b] /\ HeldBy(b)' = HeldBy(b) \cup {t}
    <2>1. Lessens(b)
      <3>1. SamePlace(b) /\ t \in HeldBy(b)' /\ t # Builder
        BY <1>4, AgenticAssumption DEF SamePlace
      <3>2. Builder \in HeldBy(b)' => Builder \in HeldBy(b)
        BY <1>4, <3>1
      <3> QED BY <1>1, <1>4, <3>1, <3>2, Fewer
    <2>2. Known(b)'
      BY <1>1, <1>4, AgenticAssumption DEF Known
    <2> QED BY <1>2, <2>1, <2>2 DEF Runs, GoesOn
  <1> QED BY <1>2, <1>3, <1>4

LEMMA ToolFailsRuns ==
  ASSUME IInv, NEW b \in Builds, NEW t \in Tools, Known(b), ToolFails(b, t)
  PROVE  Runs(b)
  <1>1. /\ build \in [Builds -> BuildRecord] /\ build[b] \in BuildRecord
        /\ build[b].stage = "calling" /\ t \in build[b].calls /\ t \notin HeldBy(b)
    BY RunningIs DEF IInv, ToolFails
  <1>2. build' = [build EXCEPT ![b] = Returned(b, t)] /\ UNCHANGED held
    BY DEF ToolFails, talk
  <1>3. OnlyIts(b) /\ build'[b] = Returned(b, t) /\ HeldBy(b)' = HeldBy(b) \ {t}
    BY <1>1, <1>2, NothingHeld, OnlyThis
  <1> QED BY <1>1, <1>3, ReturnsRuns

LEMMA CompactionDoneRuns ==
  ASSUME IInv, NEW b \in Builds, NEW caller \in Callers, Known(b), CompactionDone(b, caller)
  PROVE  Runs(b)
  <1>1. /\ build \in [Builds -> BuildRecord] /\ build[b] \in BuildRecord
        /\ caller \in HeldBy(b) /\ build[b].stage # "compacting"
        /\ build' = [build EXCEPT ![b] = Returned(b, caller)] /\ Release(b, caller)
    BY DEF IInv, CompactionDone, HeldBy
  <1>2. OnlyIts(b) /\ build'[b] = Returned(b, caller) /\ HeldBy(b)' = HeldBy(b) \ {caller}
    BY <1>1, Releasing, OnlyThis
  <1>3. CASE caller = Builder
    <2>1. /\ build'[b] \in BuildRecord /\ SamePlace(b)
          /\ build'[b].aborted = build[b].aborted /\ build'[b].calls = build[b].calls
      <3>1. build[b].calls \ {Builder} = build[b].calls
        BY <1>1, AgenticAssumption DEF BuildRecord
      <3> QED BY <1>1, <1>2, <1>3, <3>1, ReturnedIs DEF SamePlace
    <2>2. Lessens(b)
      <3>1. /\ Builder \in HeldBy(b) \ HeldBy(b)'
            /\ build[b].calls \ HeldBy(b)' = build[b].calls \ HeldBy(b)
        BY <1>1, <1>2, <1>3, AgenticAssumption DEF BuildRecord
      <3> QED BY <1>1, <2>1, <3>1, Fewer
    <2>3. Known(b)'
      BY <1>2, <2>1 DEF Known, SamePlace
    <2> QED BY <1>2, <2>2, <2>3 DEF Runs, GoesOn
  <1>4. CASE caller # Builder
    <2>1. caller \in Tools /\ build[b].stage = "calling" /\ caller \in build[b].calls
      BY <1>1, <1>4 DEF Known, Callers
    <2> QED BY <1>1, <1>2, <2>1, ReturnsRuns
  <1> QED BY <1>3, <1>4

LEMMA NextInferenceRuns ==
  ASSUME IInv, NEW b \in Builds, Known(b), NextInference(b)
  PROVE  Runs(b)
  <1>1. /\ build \in [Builds -> BuildRecord] /\ build[b] \in BuildRecord
        /\ build[b].stage = "calling" /\ build[b].calls = {} /\ UNCHANGED held
        /\ <<b, Builder>> \notin DOMAIN held
    BY DEF IInv, NextInference, talk
  <1>2. HeldBy(b)' = {} /\ \A o \in Builds \ {b} : HeldBy(o)' = HeldBy(o)
    <2>1. HeldBy(b) = {}
      BY <1>1 DEF Known, HeldBy
    <2> QED BY <1>1, <2>1, NothingHeld
  <1>3. Known(b)'
    BY <1>2 DEF Known
  <1>4. CASE build' = [build EXCEPT ![b].stage = "inferring", ![b].depth = @ + 1,
                                   ![b].rounds = Rounds(build[b].attempt, build[b].depth + 1)]
    <2> DEFINE next == [build[b] EXCEPT !.stage = "inferring", !.depth = @ + 1,
                                        !.rounds = Rounds(build[b].attempt, build[b].depth + 1)]
    <2>1. build' = [build EXCEPT ![b] = next]
      BY <1>1, <1>4
    <2>2. next.stage = "inferring" /\ next.attempt = build[b].attempt
          /\ next.depth = build[b].depth + 1 /\ build[b].depth \in Int
      BY <1>1 DEF BuildRecord
    <2> HIDE DEF next
    <2>3. OnlyIts(b) /\ build'[b] = next
      BY <1>1, <1>2, <2>1, OnlyThis
    <2>4. GoesOn(b)
      BY <1>1, <2>2, <2>3 DEF GoesOn, Passed
    <2> QED BY <1>3, <2>3, <2>4 DEF Runs
  <1>5. CASE build' = [build EXCEPT ![b] = [IdleBuild EXCEPT !.stage = "answered"]]
    <2>1. OnlyIts(b) /\ build'[b].stage = "answered"
      BY <1>1, <1>2, <1>5, OnlyThis, FreshIs DEF Stages
    <2>2. GoesOn(b)
      BY <1>1, <2>1 DEF GoesOn, Passed
    <2> QED BY <1>3, <2>1, <2>2 DEF Runs
  <1> QED BY <1>4, <1>5 DEF NextInference

LEMMA InferenceRetriedRuns ==
  ASSUME IInv, NEW b \in Builds, Known(b), InferenceRetried(b)
  PROVE  Runs(b)
  <1>1. /\ build \in [Builds -> BuildRecord] /\ build[b].attempt \in 0..(Retries - 1)
        /\ build[b].stage = "inferring" /\ UNCHANGED held
        /\ build' = [build EXCEPT ![b] = Inference(build[b].attempt + 1)]
        /\ build[b].attempt + 1 < Retries
    BY DEF IInv, InferenceRetried, talk, BuildRecord
  <1>2. HeldBy(b)' = {} /\ \A o \in Builds \ {b} : HeldBy(o)' = HeldBy(o)
    BY <1>1, NothingKnown, NothingHeld
  <1>3. OnlyIts(b) /\ build'[b] = Inference(build[b].attempt + 1)
    BY <1>1, <1>2, OnlyThis
  <1>4. build[b].attempt + 1 \in 0..(Retries - 1)
    BY <1>1, AgenticAssumption
  <1>5. build'[b].stage = "inferring" /\ build'[b].attempt = build[b].attempt + 1
    BY <1>3, <1>4, FreshIs
  <1>6. GoesOn(b)
    BY <1>1, <1>5 DEF GoesOn, Passed
  <1>7. Known(b)'
    BY <1>2 DEF Known
  <1> QED BY <1>3, <1>6, <1>7 DEF Runs

(* Text may repeat once more in an inference that is cut already. *)
LEMMA TextRepeatsRuns ==
  ASSUME IInv, NEW b \in Builds, Known(b), TextRepeats(b)
  PROVE  Runs(b) \/ UNCHANGED vars
  <1>1. /\ build \in [Builds -> BuildRecord] /\ build[b] \in BuildRecord
        /\ build[b].stage = "inferring" /\ UNCHANGED <<turns, talk>> /\ UNCHANGED held
        /\ build' = [build EXCEPT ![b] = [build[b] EXCEPT !.aborted = TRUE]]
    BY DEF IInv, TextRepeats, talk
  <1> DEFINE next == [build[b] EXCEPT !.aborted = TRUE]
  <1>2. /\ next \in BuildRecord /\ next.stage = build[b].stage /\ next.attempt = build[b].attempt
        /\ next.depth = build[b].depth /\ next.calls = build[b].calls /\ next.aborted = TRUE
        /\ next.rounds = build[b].rounds
        /\ build[b].aborted => next = build[b]
    BY <1>1 DEF BuildRecord
  <1>3. build' = [build EXCEPT ![b] = next]
    BY <1>1
  <1> HIDE DEF next
  <1>4. HeldBy(b)' = {} /\ HeldBy(b) = {} /\ \A o \in Builds \ {b} : HeldBy(o)' = HeldBy(o)
    BY <1>1, NothingKnown, NothingHeld
  <1>5. OnlyIts(b) /\ build'[b] = next
    BY <1>1, <1>3, <1>4, OnlyThis
  <1>6. CASE build[b].aborted
    <2>1. build' = build
      BY <1>1, <1>2, <1>3, <1>6
    <2> QED BY <1>1, <2>1 DEF vars
  <1>7. CASE ~build[b].aborted
    <2>1. SamePlace(b)
      BY <1>2, <1>5 DEF SamePlace
    <2>2. Lessens(b)
      BY <1>1, <1>2, <1>4, <1>5, <1>7, <2>1, Fewer
    <2>3. Known(b)'
      BY <1>4 DEF Known
    <2> QED BY <1>5, <2>2, <2>3 DEF Runs, GoesOn
  <1> QED BY <1>6, <1>7

LEMMA BuildStepRuns ==
  ASSUME IInv, NEW b \in Builds, Known(b), BuildStep(b)
  PROVE  Runs(b) \/ UNCHANGED vars
  BY LoadTemplateRuns, GenerationCompleteRuns, InferenceFailsRuns, EndChainRuns, FinalCompactionRuns,
     ModelAnswersRuns, ToolCompletesRuns, ToolFailsRuns, CompactionDoneRuns, NextInferenceRuns,
     InferenceRetriedRuns, TextRepeatsRuns, ClaudeAnswersRuns, ClaudeFailsRuns, NextRoundRuns, Zenon
     DEF BuildStep

(* What other builds and users do to a chain: nothing, or they cut its inference. *)
Spared(b) == /\ Known(b) => Known(b)'
             /\ build[b].stage \in Chain
                => Over(b) \/ (SamePlace(b) /\ Awaited(b)' \subseteq Awaited(b))

LEMMA SameSpared ==
  ASSUME NEW b \in Builds, build[b] \in BuildRecord, build'[b] = build[b], HeldBy(b)' = HeldBy(b)
  PROVE  Spared(b)
  <1>1. SamePlace(b) /\ (Known(b) => Known(b)')
    BY DEF SamePlace, Known
  <1>2. Awaited(b)' = Awaited(b)
    BY AwaitedIs, AwaitedBecomes, Zenon
  <1> QED BY <1>1, <1>2 DEF Spared

LEMMA UserStopsSpares ==
  ASSUME IInv, NEW b \in Builds, UserStops
  PROVE  Spared(b)
  <1>1. build[b] \in BuildRecord /\ UNCHANGED held
    BY DEF IInv, UserStops, talk
  <1>2. PICK a \in BOOLEAN : build'[b] = [build[b] EXCEPT !.aborted = a] /\ (build[b].aborted => a)
    BY <1>1 DEF UserStops, BuildRecord
  <1>3. /\ build'[b] \in BuildRecord /\ SamePlace(b) /\ build'[b].calls = build[b].calls
        /\ build[b].aborted => build'[b].aborted
    BY <1>1, <1>2 DEF BuildRecord, SamePlace
  <1>4. HeldBy(b)' = HeldBy(b)
    BY <1>1, NothingHeld
  <1>5. Awaited(b)' \subseteq Awaited(b)
    BY <1>1, <1>3, <1>4, Fewer
  <1>6. Known(b) => Known(b)'
    BY <1>3, <1>4 DEF Known, SamePlace
  <1> QED BY <1>3, <1>5, <1>6 DEF Spared

LEMMA RestartSpares ==
  ASSUME IInv, NEW b \in Builds, Restart
  PROVE  Spared(b)
  <1>1. build'[b] = IdleBuild /\ DOMAIN held' = {}
    BY DEF Restart
  <1>2. Over(b)
    BY <1>1 DEF Over, IdleBuild, Chain
  <1>3. Known(b)'
    BY <1>1 DEF Known, HeldBy
  <1> QED BY <1>2, <1>3 DEF Spared

LEMMA ChainStep ==
  ASSUME IInv, \A b \in Builds : Known(b), [Next]_vars
  PROVE  /\ \A b \in Builds : Known(b)'
         /\ [\A b \in Builds : build[b].stage \in Chain =>
               \/ Over(b) \/ Passed(b)
               \/ /\ SamePlace(b)
                  /\ Awaited(b)' \subseteq Awaited(b)
                  /\ BuildStep(b) => Awaited(b)' # Awaited(b)]_vars
  <1>1. \A b \in Builds : build[b] \in BuildRecord
    BY DEF IInv
  <1>2. ASSUME UNCHANGED vars PROVE \A b \in Builds : Known(b)'
    <2>1. \A b \in Builds : build'[b] = build[b] /\ HeldBy(b)' = HeldBy(b)
      BY <1>2, NothingHeld DEF vars, talk
    <2> QED BY <1>1, <2>1, SameSpared DEF Spared
  <1>3. ASSUME NEW o \in Builds, Runs(o)
        PROVE  \A b \in Builds : (GoesOn(b) /\ Known(b)') \/ Spared(b)
    <2>1. \A b \in Builds \ {o} : Spared(b)
      BY <1>1, <1>3, SameSpared DEF Runs, OnlyIts
    <2> QED BY <1>3, <2>1 DEF Runs
  <1>4. \/ UNCHANGED vars
        \/ \A b \in Builds : (GoesOn(b) /\ Known(b)') \/ Spared(b)
    <2>1. CASE \E b \in Builds : BuildStep(b)
      BY <1>3, <2>1, BuildStepRuns
    <2>2. CASE \E b \in Builds : \E w \in SUBSET Requests : Start(b, w)
      BY <1>3, <2>2, StartRuns
    <2>3. CASE UNCHANGED <<build, held>>
      <3>1. \A b \in Builds : build'[b] = build[b] /\ HeldBy(b)' = HeldBy(b)
        BY <2>3, NothingHeld
      <3> QED BY <1>1, <3>1, SameSpared
    <2>4. ASSUME NEW b \in Builds, UserStarts(b)
          PROVE  \E w \in SUBSET Requests : Start(b, w)
      <3>1. pendingUserInputs \in SUBSET Requests
        BY DEF IInv, Turns
      <3> QED BY <2>4, <3>1 DEF UserStarts
    <2>5. ASSUME NEW r \in Requests, UserInput(r)
          PROVE  \/ \E b \in Builds : \E w \in SUBSET Requests : Start(b, w)
                 \/ UNCHANGED <<build, held>>
      <3>1. pendingUserInputs \cup {r} \in SUBSET Requests
        BY DEF IInv, Turns
      <3> QED BY <2>5, <3>1 DEF UserInput, talk
    <2>6. ClearConversation => UNCHANGED <<build, held>>
      BY DEF ClearConversation
    <2> QED BY <2>1, <2>2, <2>3, <2>4, <2>5, <2>6, UserStopsSpares, RestartSpares, Zenon DEF Next
  <1>5. \A b \in Builds : BuildStep(b) => GoesOn(b) \/ UNCHANGED vars
    BY BuildStepRuns DEF Runs
  <1>6. ASSUME \A b \in Builds : (GoesOn(b) /\ Known(b)') \/ Spared(b), vars' # vars
        PROVE  \A b \in Builds : build[b].stage \in Chain =>
                 \/ Over(b) \/ Passed(b)
                 \/ /\ SamePlace(b)
                    /\ Awaited(b)' \subseteq Awaited(b)
                    /\ BuildStep(b) => Awaited(b)' # Awaited(b)
    BY <1>5, <1>6 DEF GoesOn, Spared, Lessens
  <1> QED BY <1>2, <1>4, <1>6 DEF Spared

(* Half of why a chain of tool calls ends: whatever models, tools and compactions *)
(* return, in whichever order, each step of it leaves less to come, as far as the *)
(* retry limit, the depth limit, the rounds of the native client and the calls of *)
(* an answer go; a native loop that runs into its own limit goes on as the OpenAI *)
(* client's chain, once at each depth.  And nothing that other builds and users   *)
(* do gives it more.                                                              *)
THEOREM ChainsDoRunDown == Spec => ChainsRunDown
  <1> DEFINE HeldKnown == \A b \in Builds : Known(b)
  <1>1. Init => HeldKnown
    BY DEF Init, Known, HeldBy
  <1>2. IInv /\ HeldKnown /\ [Next]_vars
        => /\ HeldKnown'
           /\ [\A b \in Builds : build[b].stage \in Chain =>
                 \/ Over(b) \/ Passed(b)
                 \/ /\ SamePlace(b)
                    /\ Awaited(b)' \subseteq Awaited(b)
                    /\ BuildStep(b) => Awaited(b)' # Awaited(b)]_vars
    BY ChainStep
  <1> HIDE DEF HeldKnown
  <1> QED BY <1>1, <1>2, Invariance, PTL DEF Spec, ChainsRunDown
=============================================================================
