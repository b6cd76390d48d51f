---------------------------- MODULE BuildSession ----------------------------
(***************************************************************************)
(* The client SDK's session with an agent: BuildSession                    *)
(* (sdk/src/session.ts), the connection it makes, which reconnects by      *)
(* itself (sdk/src/ws.ts), and its two stores, the workspace               *)
(* (sdk/src/workspace.ts) and the state (sdk/src/state.ts).                *)
(*                                                                         *)
(* JavaScript runs each callback to its end, so an action is a callback: a *)
(* ticket that arrives, a socket event, a timer, a call of the program     *)
(* that uses the SDK.  A connection that was closed is not forgotten: the  *)
(* ticket it waits for and the events of its sockets still come.           *)
(*                                                                         *)
(* A listener of the program runs inside the callback it hears of and may  *)
(* give commands there.  In the callback of an open event they overtake,   *)
(* and OpensOwn has them; in any other they go out or wait as a command    *)
(* given right after it.                                                   *)
(*                                                                         *)
(* Left out: a listener that throws, connects or closes, a runtime without *)
(* WebSocket, where no connection comes up (ws.ts:204), waits for a        *)
(* message, which change nothing, the phase timeline and the other things  *)
(* the state store shows, and what a program may do with a connection it   *)
(* kept after close().                                                     *)
(***************************************************************************)
EXTENDS Naturals, Sequences, FiniteSets

CONSTANTS
    None,
    Conns,        \* connections that connect() may make
    Sockets,      \* web sockets, reused
    Files,        \* files of the agent
    Contents,     \* what may be in a file
    MaxRetries,   \* retryCfg.maxRetries; 0 is also enabled = false
    MaxPending,   \* maxPendingSends
    MaxCommands,  \* bound: commands given to one connection
    MaxInFlight   \* bound: messages on the way to the client on one socket

ASSUME SessionAssumption ==
    /\ None \notin Conns \cup Sockets \cup Contents \cup Nat
    /\ MaxRetries \in Nat
    /\ MaxPending \in Nat \ {0}
    /\ MaxCommands \in Nat
    /\ MaxInFlight \in Nat \ {0}

VARIABLES
    connection,  \* session.connection
    shown,       \* state.connection
    workspace,   \* the files the session believes the agent has
    conn,        \* each connection
    sock,        \* each socket
    saved,       \* agent: the files in its state
    announced,   \* a file was sent to the session since the state last was
    meddled      \* history: what a closed connection has changed

client == <<connection, shown, workspace, conn, meddled>>
agent == <<saved, announced>>
vars == <<client, sock, agent>>

\* session_init, with the credentials, and get_conversation_state after it;
\* commands are numbered from 1.
Hello == 0
Messages == 0 .. MaxCommands

FileMap == [Files -> Contents \cup {None}]

\* agent_connected and cf_agent_state carry the agent's files,
\* file_generated and file_regenerated one of them.
Snapshot(files) == [kind |-> "state", files |-> files]
Upsert(f, v) == [kind |-> "file", path |-> f, contents |-> v]

News == [kind : {"state"}, files : FileMap]
            \cup [kind : {"file"}, path : Files, contents : Contents]

NewConn == [stage |-> "new", fetches |-> 0, timers |-> 0, attempts |-> 0,
            ws |-> None, isOpen |-> FALSE, pending |-> <<>>,
            handed |-> <<>>, dropped |-> {}, given |-> 0, eager |-> {}]

FreeSocket == [stage |-> "free", of |-> None, first |-> None, in |-> <<>>]

ConnType ==
    [stage : {"new", "up", "closed"},
     fetches : Nat,                      \* getUrl() under way
     timers : Nat,                       \* reconnectTimer
     attempts : 0 .. MaxRetries,         \* reconnectAttempts
     ws : Sockets \cup {None},           \* None also when that socket is dead
     isOpen : BOOLEAN,
     pending : Seq(Messages),            \* pendingSends
     handed : Seq(Messages),             \* history: sent, but for its own greetings
     dropped : SUBSET Messages,          \* history: lost to the queue's limit
     given : 0 .. MaxCommands,           \* history: commands so far
     eager : SUBSET Messages]            \* history: given inside an open event

SocketType ==
    [stage : {"free", "connecting", "open", "closing"},
     of : Conns \cup {None},
     first : Messages \cup {None},       \* history: what was sent on it first
     in : Seq(News)]                     \* on the way to the client

TypeOK ==
    /\ connection \in Conns \cup {None}
    /\ shown \in {"disconnected", "connecting", "connected"}
    /\ workspace \in FileMap
    /\ conn \in [Conns -> ConnType]
    /\ sock \in [Sockets -> SocketType]
    /\ saved \in FileMap
    /\ announced \in BOOLEAN
    /\ meddled \in SUBSET {"shown", "files"}
    /\ \A c \in Conns : Len(conn[c].pending) <= MaxPending

Empty == [f \in Files |-> None]

Init ==
    /\ connection = None
    /\ shown = "disconnected"
    /\ workspace = Empty
    /\ conn = [c \in Conns |-> NewConn]
    /\ sock = [s \in Sockets |-> FreeSocket]
    /\ saved = Empty
    /\ announced = FALSE
    /\ meddled = {}

-----------------------------------------------------------------------------
(* A connection *)

(* Mutant of Scheduled: it does not see that a timer runs already. *)
ScheduledAgain(k) ==
    IF k.stage = "closed" \/ k.attempts >= MaxRetries
    THEN k
    ELSE [k EXCEPT !.attempts = @ + 1, !.timers = @ + 1]

\* scheduleReconnect
Scheduled(k) ==
    IF k.stage = "closed" \/ k.attempts >= MaxRetries \/ k.timers > 0
    THEN k
    ELSE [k EXCEPT !.attempts = @ + 1, !.timers = @ + 1]

(* Mutant of Queued: there is no limit. *)
QueuedAll(k, m) == [k EXCEPT !.pending = Append(@, m)]

(* Mutant of Queued: the newest message is put before the others. *)
QueuedFirst(k, m) ==
    IF Len(k.pending) < MaxPending
    THEN [k EXCEPT !.pending = <<m>> \o @]
    ELSE [k EXCEPT !.pending = Append(Tail(@), m),
                   !.dropped = @ \cup {Head(k.pending)}]

\* send() without a socket; the oldest message gives way when there are too many.
Queued(k, m) ==
    IF Len(k.pending) < MaxPending
    THEN [k EXCEPT !.pending = Append(@, m)]
    ELSE [k EXCEPT !.pending = Append(Tail(@), m),
                   !.dropped = @ \cup {Head(k.pending)}]

\* A socket after m is sent on it.
Carrying(s, m) == [s EXCEPT !.first = IF @ = None THEN m ELSE @]

\* send() has an open socket.
Direct(k) == k.isOpen /\ k.ws # None

\* send(m) on connection d
Sent(d, m) ==
    IF Direct(conn[d])
    THEN [conn[d] EXCEPT !.handed = Append(@, m)]
    ELSE Queued(conn[d], m)

\* What that does to the sockets q.
Wired(q, d, m) ==
    IF Direct(conn[d])
    THEN [q EXCEPT ![conn[d].ws] = Carrying(@, m)]
    ELSE q

-----------------------------------------------------------------------------
(* The session, as the program uses it *)

\* connect(): the connection asks for its first ticket.  When there is a
\* connection already, connect() just returns it.
Connect ==
    /\ connection = None
    /\ \E c \in Conns :
          /\ conn[c].stage = "new"
          /\ connection' = c
          /\ conn' = [conn EXCEPT ![c].stage = "up", ![c].fetches = 1]
    /\ shown' = "connecting"
    /\ meddled' = meddled \ {"shown"}
    /\ UNCHANGED <<workspace, sock, agent>>

\* startGeneration(), stop(), followUp() and the other commands.
Command ==
    /\ connection # None
    /\ conn[connection].given < MaxCommands
    /\ LET m == conn[connection].given + 1
       IN  /\ conn' = [conn EXCEPT ![connection] =
                          [Sent(connection, m) EXCEPT !.given = m]]
           /\ sock' = Wired(sock, connection, m)
    /\ UNCHANGED <<connection, shown, workspace, meddled, agent>>

\* close(): queue, timer and socket are given up, and the histories with them; the
\* stores are emptied.  A socket that is closing delivers no more messages; its
\* close event is still to come.
Close ==
    /\ connection # None
    /\ LET k == conn[connection]
       IN  /\ conn' = [conn EXCEPT ![connection] =
                 [NewConn EXCEPT !.stage = "closed", !.fetches = k.fetches,
                                 !.attempts = k.attempts]]
           /\ sock' = IF k.ws = None THEN sock
                      ELSE [sock EXCEPT ![k.ws].stage = "closing",
                                        ![k.ws].in = <<>>]
    /\ connection' = None
    /\ shown' = "disconnected"
    /\ workspace' = Empty
    /\ meddled' = {}
    /\ UNCHANGED agent

-----------------------------------------------------------------------------
(* Callbacks of a connection, closed or not *)

\* The socket slot s becomes a new socket of c.
NewSocket(c, s) ==
    sock' = [sock EXCEPT ![s] = [FreeSocket EXCEPT !.stage = "connecting", !.of = c]]

\* getUrl() has the ticket.  Nobody looks whether the connection was closed.
TicketArrives(c) ==
    /\ conn[c].fetches > 0
    /\ \E s \in Sockets :
          /\ sock[s].stage = "free"
          /\ NewSocket(c, s)
          /\ conn' = [conn EXCEPT ![c].fetches = @ - 1, ![c].ws = s]
    /\ UNCHANGED <<connection, shown, workspace, meddled, agent>>

\* getUrl() fails, after the retries of the HTTP client.
TicketFails(c) ==
    /\ conn[c].fetches > 0
    /\ LET k == [conn[c] EXCEPT !.fetches = @ - 1]
       IN  conn' = [conn EXCEPT ![c] = Scheduled(k)]
    /\ UNCHANGED <<connection, shown, workspace, meddled, sock, agent>>

\* The reconnect timer: connectNow.
TimerFires(c) ==
    /\ conn[c].timers > 0
    /\ conn' = [conn EXCEPT ![c].timers = @ - 1, ![c].fetches = @ + 1]
    /\ UNCHANGED <<connection, shown, workspace, meddled, sock, agent>>

\* A store is changed by a connection that is no longer the session's.
Meddles(c, what, changed) ==
    meddled' = IF c = connection THEN meddled \ {what}
               ELSE IF changed THEN meddled \cup {what} ELSE meddled

(* Mutant of Greeting: what was queued goes first. *)
QueueFirst(k, a) == k.pending \o <<Hello>>

\* The commands after the first i, up to the j-th.
Further(i, j) == [x \in 1 .. j - i |-> i + x]

\* onOpen: a listener of every event, or of the state, which is told that it is connected,
\* runs before session_init is sent, and what it commands goes out at once.
Greeting(k, a) == Further(k.given, a) \o <<Hello>>

\* onOpen of the session's own connection, the agent has accepted the socket and
\* sent agent_connected.  The commands up to the a-th are given before the
\* greeting and those up to the b-th after it, by listeners of ws:open; only then
\* is the queue sent.
OpensOwn(s) ==
    LET c == sock[s].of
        k == conn[c]
    IN  /\ c = connection
        /\ \E a \in k.given .. MaxCommands : \E b \in a .. MaxCommands :
              /\ conn' = [conn EXCEPT ![c] =
                    [k EXCEPT !.isOpen = TRUE, !.attempts = 0, !.given = b,
                              !.handed = k.handed \o Further(k.given, b) \o k.pending,
                              !.pending = <<>>, !.eager = @ \cup (k.given + 1 .. b)]]
              /\ sock' = [sock EXCEPT ![s] =
                    [Carrying(@, Head(Greeting(k, a))) EXCEPT !.stage = "open",
                                                              !.in = <<Snapshot(saved)>>]]
        /\ announced' = FALSE

\* onOpen of a closed connection.  Its queue is empty; its listener greets the
\* agent on whatever connection the session has now.
OpensClosed(s) ==
    LET c == sock[s].of
        k == [conn[c] EXCEPT !.isOpen = TRUE, !.attempts = 0]
        q == [sock EXCEPT ![s].stage = "open", ![s].in = <<Snapshot(saved)>>]
    IN  /\ c # connection
        /\ UNCHANGED announced
        /\ IF connection = None
           THEN conn' = [conn EXCEPT ![c] = k] /\ sock' = q
           ELSE /\ conn' = [conn EXCEPT ![c] = k, ![connection] = Sent(connection, Hello)]
                /\ sock' = Wired(q, connection, Hello)

SocketOpens(s) ==
    /\ sock[s].stage = "connecting"
    /\ OpensOwn(s) \/ OpensClosed(s)
    /\ shown' = "connected"
    /\ Meddles(sock[s].of, "shown", shown # "connected")
    /\ UNCHANGED <<connection, workspace, saved>>

(* Mutant of Lost: what the session shows stays as it is. *)
LostUnseen(s) == shown' = shown

\* ws:close is shown, whichever connection it is of.
Lost(s) == shown' = "disconnected"

\* A socket fails, is refused, is closed by the agent or has finished closing: an
\* error event, if there is one, and the close event in the same task.
SocketCloses(s) ==
    /\ sock[s].stage # "free"
    /\ sock' = [sock EXCEPT ![s] = FreeSocket]
    /\ \E error \in BOOLEAN :
          LET c == sock[s].of
              k == IF error THEN Scheduled(conn[c]) ELSE conn[c]
              gone == [k EXCEPT !.isOpen = FALSE,
                                !.ws = IF @ = s THEN None ELSE @]
          IN  conn' = [conn EXCEPT ![c] = Scheduled(gone)]
    /\ Lost(s)
    /\ Meddles(sock[s].of, "shown", shown # "disconnected")
    /\ UNCHANGED <<connection, workspace, agent>>

(* Mutant of Applied: the agent's state is added to the files there are. *)
AppliedToFiles(m) ==
    IF m.kind = "state"
    THEN [f \in Files |-> IF m.files[f] = None THEN workspace[f] ELSE m.files[f]]
    ELSE [workspace EXCEPT ![m.path] = m.contents]

\* WorkspaceStore.applyWsMessage
Applied(m) ==
    IF m.kind = "state" THEN m.files ELSE [workspace EXCEPT ![m.path] = m.contents]

Deliver(s) ==
    /\ sock[s].stage = "open"
    /\ sock[s].in # <<>>
    /\ workspace' = Applied(Head(sock[s].in))
    /\ sock' = [sock EXCEPT ![s].in = Tail(@)]
    /\ meddled' = IF sock[s].of # connection THEN meddled \cup {"files"}
                  ELSE IF Head(sock[s].in).kind = "state" THEN meddled \ {"files"}
                  ELSE meddled
    /\ UNCHANGED <<connection, shown, conn, agent>>

-----------------------------------------------------------------------------
(* The agent, as far as it can be seen from a socket *)

\* To every socket it has accepted; on a closing one nobody listens.
Broadcast(m) ==
    /\ \A s \in Sockets : sock[s].stage = "open" => Len(sock[s].in) < MaxInFlight
    /\ sock' = [s \in Sockets |->
                  IF sock[s].stage = "open"
                  THEN [sock[s] EXCEPT !.in = Append(@, m)] ELSE sock[s]]

\* setState: a file is written or deleted, or something else is changed.
AgentSaves ==
    /\ \E f \in Files, v \in Contents \cup {None} : saved' = [saved EXCEPT ![f] = v]
    /\ Broadcast(Snapshot(saved'))
    /\ announced' = FALSE
    /\ UNCHANGED client

\* file_generated: of a file not saved yet, or saved before an await in which it
\* may have been written anew.
AgentAnnounces ==
    /\ \E f \in Files, v \in Contents : Broadcast(Upsert(f, v))
    /\ announced' = TRUE
    /\ UNCHANGED <<client, saved>>

-----------------------------------------------------------------------------
(* The specification *)

Program == Connect \/ Command \/ Close

Callback ==
    \/ \E c \in Conns : TicketArrives(c) \/ TicketFails(c) \/ TimerFires(c)
    \/ \E s \in Sockets : SocketOpens(s) \/ SocketCloses(s) \/ Deliver(s)

Next == Program \/ Callback \/ AgentSaves \/ AgentAnnounces

Spec == Init /\ [][Next]_vars

-----------------------------------------------------------------------------
(* Properties *)

\* A connection that was not closed has exactly one way on: a ticket asked for, a
\* timer that will ask for one, or a socket; or it has given up after maxRetries
\* attempts in a row.  It never has two, however error and close events, failing
\* tickets and timers follow each other.
OneWayOn ==
    \A c \in Conns : conn[c].stage = "up" =>
        LET k == conn[c]
            ways == k.fetches + k.timers + (IF k.ws = None THEN 0 ELSE 1)
        IN  /\ ways = 1 \/ (ways = 0 /\ k.attempts = MaxRetries)
            /\ \A s \in Sockets : sock[s].of = c => s = k.ws

\* On every socket, the first and the later ones, the agent hears session_init
\* before any command that waited for the socket or is given once it is open
\* (session-ws.test.ts, "reconnects on close and re-sends init messages"); only a
\* command that a listener gives inside the open event may come before.
CredentialsFirst ==
    \A s \in Sockets : sock[s].stage = "open" =>
        sock[s].first \in {None, Hello} \cup conn[sock[s].of].eager

\* The commands of the session's connection go out each at most once over all its
\* sockets and in the order they were given, but that one given inside an open
\* event overtakes those that wait; none is missing but those the full queue has
\* dropped.
CommandsInOrder ==
    connection # None =>
        LET k == conn[connection]
            line == k.handed \o k.pending
        IN  /\ \A i, j \in DOMAIN line :
                  i < j /\ line[i] # Hello /\ line[j] # Hello =>
                      line[i] < line[j] \/ (line[i] # line[j] /\ line[i] \in k.eager)
            /\ \A m \in 1 .. k.given :
                  m \in k.dropped \/ \E i \in DOMAIN line : line[i] = m

\* The session shows whether its connection is open, unless an event of a
\* connection it has closed before changed that.
ShowsConnection ==
    "shown" \notin meddled =>
        IF connection = None THEN shown = "disconnected"
        ELSE shown = "connected" <=> conn[connection].isOpen

\* Whatever was lost with earlier sockets, and whatever was announced and never
\* saved: when all that was sent on the session's socket has arrived and the
\* agent's last word on it was its state, the session has the agent's files, unless
\* a connection it has closed before delivers messages.
CatchesUp ==
    /\ connection # None
    /\ conn[connection].isOpen
    /\ sock[conn[connection].ws].in = <<>>
    /\ ~announced
    /\ "files" \notin meddled
    => workspace = saved

\* The session is a queue of commands: reconnects, sockets that break or come late and
\* the events of connections closed before neither send, hold back nor drop a command
\* but as CommandQueue says.
Connected == connection # None

Of(c) == [open |-> conn[c].isOpen, given |-> conn[c].given, waiting |-> conn[c].pending,
          sent |-> conn[c].handed, dropped |-> conn[c].dropped]

Idle == [open |-> FALSE, given |-> 0, waiting |-> <<>>, sent |-> <<>>, dropped |-> {}]

Seen == IF Connected THEN Of(connection) ELSE Idle

Queue == INSTANCE CommandQueue WITH
    up <- Connected, open <- Seen.open, given <- Seen.given,
    waiting <- Seen.waiting, sent <- Seen.sent, dropped <- Seen.dropped

QueuesCommands == Queue!Spec
=============================================================================
