------------------------- MODULE BuildSessionProofs -------------------------
(***************************************************************************)
(* Proofs about BuildSession, for any connections, sockets, files and      *)
(* limits.                                                                 *)
(*                                                                         *)
(* The argument: a connection and its socket point at each other           *)
(* (Wiring), whether the connection was closed or not, so that an event    *)
(* of a socket finds the connection where it left it, and a socket that    *)
(* opens is the only one there is.                                         *)
(***************************************************************************)
EXTENDS BuildSession, TLAPS

-----------------------------------------------------------------------------
(* The inductive invariant *)

\* Where a connection stands.
Standing(c) ==
    LET k == conn[c]
    IN  /\ k.stage = "up" <=> c = connection
        /\ k.stage = "new" => k.fetches = 0 /\ k.timers = 0 /\ k.ws = None
        /\ k.stage = "closed" => k.timers = 0 /\ k.pending = <<>> /\ k.fetches <= 1
        /\ k.isOpen => k.ws # None /\ sock[k.ws].stage = "open"
        /\ k.ws # None => sock[k.ws].of = c /\ sock[k.ws].stage # "closing"

\* Where a socket stands.
Standard(s) ==
    LET q == sock[s]
    IN  /\ q.of = None <=> q.stage = "free"
        /\ q.of # None => conn[q.of].stage # "new"
        /\ q.stage \in {"connecting", "open"} => conn[q.of].ws = s
        /\ q.stage = "open" => conn[q.of].isOpen
        /\ q.stage = "closing" => conn[q.of].stage = "closed"
        /\ q.of # None /\ conn[q.of].stage = "closed" => conn[q.of].fetches = 0

\* One socket per connection, closing ones too.
OneSocket == \A s, t \in Sockets : sock[s].of = sock[t].of /\ sock[s].of # None => s = t

Wiring ==
    /\ \A c \in Conns : Standing(c)
    /\ \A s \in Sockets : Standard(s)
    /\ OneSocket

\* What a socket of connection k may have carried first, once it is open: a greeting or
\* a command given inside its open event.  A socket that a closed connection
\* opened carries nothing.
Heard(k) == IF k.stage = "up" THEN {Hello} \cup k.eager ELSE {None}

Hailed(s) ==
    /\ sock[s].stage = "connecting" => sock[s].first = None
    /\ sock[s].stage = "open" => sock[s].first \in Heard(conn[sock[s].of])

Greeted == \A s \in Sockets : Hailed(s)

\* The ways on of a connection, counted.
Ways(k) == k.fetches + k.timers + (IF k.ws = None THEN 0 ELSE 1)

OnItsWay ==
    \A c \in Conns : conn[c].stage = "up" =>
        Ways(conn[c]) = 1 \/ (Ways(conn[c]) = 0 /\ conn[c].attempts = MaxRetries)

IInv == TypeOK /\ Wiring /\ Greeted /\ OnItsWay

-----------------------------------------------------------------------------
(* The records of a connection and a socket *)

\* scheduleReconnect arms at most one timer, and only a connection in use.
LEMMA ScheduledIs ==
  ASSUME NEW k \in ConnType
  PROVE  /\ Scheduled(k) \in ConnType
         /\ Scheduled(k).stage = k.stage
         /\ Scheduled(k).fetches = k.fetches
         /\ Scheduled(k).ws = k.ws
         /\ Scheduled(k).isOpen = k.isOpen
         /\ Scheduled(k).pending = k.pending
         /\ Scheduled(k).handed = k.handed
         /\ Scheduled(k).dropped = k.dropped
         /\ Scheduled(k).given = k.given
         /\ Scheduled(k).eager = k.eager
         /\ \/ Scheduled(k) = k /\ (k.stage = "closed" \/ k.attempts = MaxRetries \/ k.timers > 0)
            \/ k.stage # "closed" /\ k.timers = 0 /\ Scheduled(k).timers = 1
  <1>1. CASE k.stage = "closed" \/ k.attempts >= MaxRetries \/ k.timers > 0
    <2>1. Scheduled(k) = k
      BY <1>1 DEF Scheduled
    <2>2. k.attempts >= MaxRetries => k.attempts = MaxRetries
      BY SessionAssumption DEF ConnType
    <2> QED BY <1>1, <2>1, <2>2
  <1>2. CASE ~(k.stage = "closed" \/ k.attempts >= MaxRetries \/ k.timers > 0)
    <2> DEFINE a == k.attempts + 1
               t == k.timers + 1
    <2>1. Scheduled(k) = [k EXCEPT !.attempts = a, !.timers = t]
      BY <1>2 DEF Scheduled
    <2>2. a \in 0 .. MaxRetries /\ t \in Nat /\ t = 1 /\ k.timers = 0 /\ k.stage # "closed"
      BY <1>2, SessionAssumption DEF ConnType
    <2> HIDE DEF a, t
    <2> QED BY <2>1, <2>2 DEF ConnType
  <1> QED BY <1>1, <1>2

\* One way on, or none, is not two.
LEMMA WaysAre ==
  ASSUME NEW k \in ConnType, Ways(k) = 1 \/ Ways(k) = 0
  PROVE  /\ k.fetches <= 1
         /\ k.ws # None => k.fetches = 0 /\ k.timers = 0
         /\ k.fetches > 0 => k.fetches = 1 /\ k.timers = 0 /\ k.ws = None
         /\ k.timers > 0 => k.timers = 1 /\ k.fetches = 0 /\ k.ws = None
  <1>1. k.fetches \in Nat /\ k.timers \in Nat
    BY DEF ConnType
  <1> QED BY <1>1 DEF Ways

\* The queue is bounded, and a message is all that changes in it.
LEMMA QueuedIs ==
  ASSUME NEW k \in ConnType, NEW m \in Messages, Len(k.pending) <= MaxPending
  PROVE  /\ Queued(k, m) \in ConnType
         /\ Len(Queued(k, m).pending) <= MaxPending
         /\ Queued(k, m).stage = k.stage
         /\ Queued(k, m).fetches = k.fetches
         /\ Queued(k, m).timers = k.timers
         /\ Queued(k, m).attempts = k.attempts
         /\ Queued(k, m).ws = k.ws
         /\ Queued(k, m).isOpen = k.isOpen
         /\ Queued(k, m).handed = k.handed
         /\ Queued(k, m).given = k.given
         /\ Queued(k, m).eager = k.eager
  <1>1. CASE Len(k.pending) < MaxPending
    <2>1. Append(k.pending, m) \in Seq(Messages) /\ Len(Append(k.pending, m)) = Len(k.pending) + 1
      BY DEF ConnType
    <2> DEFINE p == Append(k.pending, m)
    <2>2. Queued(k, m) = [k EXCEPT !.pending = p]
      BY <1>1 DEF Queued
    <2> HIDE DEF p
    <2>3. p \in Seq(Messages) /\ Len(p) <= MaxPending
      BY <2>1, <1>1, SessionAssumption DEF p, ConnType
    <2> QED BY <2>2, <2>3 DEF ConnType
  <1>2. CASE ~(Len(k.pending) < MaxPending)
    <2>1. /\ Len(k.pending) = MaxPending /\ k.pending # <<>> /\ k.pending \in Seq(Messages)
      BY <1>2, SessionAssumption DEF ConnType
    <2>2. /\ Tail(k.pending) \in Seq(Messages)
          /\ Len(Tail(k.pending)) = Len(k.pending) - 1
          /\ Head(k.pending) \in Messages
      BY <2>1
    <2> DEFINE p == Append(Tail(k.pending), m)
               d == k.dropped \cup {Head(k.pending)}
    <2>3. Queued(k, m) = [k EXCEPT !.pending = p, !.dropped = d]
      BY <1>2 DEF Queued
    <2>4. p \in Seq(Messages) /\ Len(p) <= MaxPending /\ d \in SUBSET Messages
      BY <2>1, <2>2, SessionAssumption DEF ConnType
    <2> HIDE DEF p, d
    <2> QED BY <2>3, <2>4 DEF ConnType
  <1> QED BY <1>1, <1>2

\* The same of send(), which besides may hand the message to the open socket.
LEMMA SentIs ==
  ASSUME NEW d \in Conns, NEW m \in Messages, conn[d] \in ConnType,
         Len(conn[d].pending) <= MaxPending
  PROVE  /\ Sent(d, m) \in ConnType
         /\ Len(Sent(d, m).pending) <= MaxPending
         /\ Sent(d, m).stage = conn[d].stage
         /\ Sent(d, m).fetches = conn[d].fetches
         /\ Sent(d, m).timers = conn[d].timers
         /\ Sent(d, m).attempts = conn[d].attempts
         /\ Sent(d, m).ws = conn[d].ws
         /\ Sent(d, m).isOpen = conn[d].isOpen
         /\ Sent(d, m).given = conn[d].given
         /\ Sent(d, m).eager = conn[d].eager
  <1>1. CASE Direct(conn[d])
    <2> DEFINE h == Append(conn[d].handed, m)
    <2>1. h \in Seq(Messages)
      BY DEF ConnType
    <2>2. Sent(d, m) = [conn[d] EXCEPT !.handed = h]
      BY <1>1 DEF Sent
    <2> HIDE DEF h
    <2> QED BY <2>1, <2>2 DEF ConnType
  <1>2. CASE ~Direct(conn[d])
    BY <1>2, QueuedIs DEF Sent
  <1> QED BY <1>1, <1>2

\* What send() does to the sockets: at most the first message of one is new.
LEMMA WiredIs ==
  ASSUME NEW q \in [Sockets -> SocketType], NEW d \in Conns, NEW m \in Messages,
         conn[d] \in ConnType
  PROVE  /\ Wired(q, d, m) \in [Sockets -> SocketType]
         /\ \A s \in Sockets :
               /\ Wired(q, d, m)[s].stage = q[s].stage
               /\ Wired(q, d, m)[s].of = q[s].of
               /\ Wired(q, d, m)[s].in = q[s].in
               /\ \/ Wired(q, d, m)[s].first = q[s].first
                  \/ Direct(conn[d]) /\ s = conn[d].ws /\ q[s].first = None
  <1>1. CASE Direct(conn[d])
    <2> DEFINE w == conn[d].ws
    <2>1. w \in Sockets
      BY <1>1 DEF Direct, ConnType
    <2>2. Wired(q, d, m) = [q EXCEPT ![w] = Carrying(q[w], m)]
      BY <1>1 DEF Wired
    <2>3. /\ Carrying(q[w], m) \in SocketType
          /\ Carrying(q[w], m).stage = q[w].stage
          /\ Carrying(q[w], m).of = q[w].of
          /\ Carrying(q[w], m).in = q[w].in
          /\ \/ Carrying(q[w], m).first = q[w].first
             \/ q[w].first = None
      <3> DEFINE g == IF q[w].first = None THEN m ELSE q[w].first
      <3>1. Carrying(q[w], m) = [q[w] EXCEPT !.first = g]
        BY DEF Carrying
      <3>2. q[w] \in SocketType /\ g \in Messages \cup {None} /\ (g = q[w].first \/ q[w].first = None)
        BY <2>1 DEF SocketType
      <3> HIDE DEF g
      <3> QED BY <3>1, <3>2 DEF SocketType
    <2> QED BY <1>1, <2>1, <2>2, <2>3
  <1>2. CASE ~Direct(conn[d])
    BY <1>2 DEF Wired
  <1> QED BY <1>1, <1>2

LEMMA Fresh ==
  /\ NewConn \in ConnType
  /\ FreeSocket \in SocketType
  /\ Empty \in FileMap
  /\ Hello \in Messages
  <1>1. <<>> \in Seq(Messages) /\ <<>> \in Seq(News)
    OBVIOUS
  <1>2. Hello \in Messages
    BY SessionAssumption DEF Messages, Hello
  <1> QED BY <1>1, <1>2, SessionAssumption DEF NewConn, FreeSocket, Empty, FileMap, ConnType, SocketType

-----------------------------------------------------------------------------
(* Every action preserves the invariant *)

LEMMA InitInv == Init => IInv
  <1> SUFFICES ASSUME Init PROVE IInv
    OBVIOUS
  <1>1. /\ \A c \in Conns : conn[c] = NewConn
        /\ \A s \in Sockets : sock[s] = FreeSocket
    BY DEF Init
  <1>2. TypeOK
    <2>1. Len(NewConn.pending) <= MaxPending
      BY SessionAssumption DEF NewConn
    <2>2. announced \in BOOLEAN
      BY Zenon DEF Init
    <2>3. conn \in [Conns -> ConnType] /\ sock \in [Sockets -> SocketType]
      BY Fresh DEF Init
    <2> QED BY <1>1, <2>1, <2>2, <2>3, Fresh DEF Init, TypeOK
  <1>3. Wiring
    BY <1>1, SessionAssumption DEF Init, Wiring, Standing, Standard, OneSocket, NewConn, FreeSocket
  <1>4. Greeted /\ OnItsWay
    BY <1>1 DEF Greeted, Hailed, OnItsWay, NewConn, FreeSocket
  <1> QED BY <1>2, <1>3, <1>4 DEF IInv

\* connect() takes a connection nobody points at.
LEMMA ConnectInv ==
  ASSUME IInv, Connect
  PROVE  IInv'
  <1>1. PICK c \in Conns : /\ conn[c].stage = "new"
                           /\ connection' = c
                           /\ conn' = [conn EXCEPT ![c].stage = "up", ![c].fetches = 1]
    BY DEF Connect
  <1> DEFINE k == [conn[c] EXCEPT !.stage = "up", !.fetches = 1]
  <1>2. conn' = [conn EXCEPT ![c] = k] /\ conn \in [Conns -> ConnType] /\ conn[c] \in ConnType
    BY <1>1 DEF IInv, TypeOK
  <1>3. /\ k \in ConnType /\ k.stage = "up" /\ k.fetches = 1
        /\ k.timers = 0 /\ k.ws = None /\ k.isOpen = conn[c].isOpen /\ k.pending = conn[c].pending
        /\ k.eager = conn[c].eager
    <2>1. conn[c].fetches = 0 /\ conn[c].timers = 0 /\ conn[c].ws = None
      BY <1>1 DEF IInv, Wiring, Standing
    <2>2. k \in ConnType
      BY <1>2 DEF ConnType
    <2> QED BY <1>2, <2>1, <2>2 DEF ConnType
  <1> HIDE DEF k
  <1>4. connection = None /\ sock' = sock /\ UNCHANGED <<workspace, saved, announced>>
        /\ shown' = "connecting" /\ meddled' = meddled \ {"shown"}
    BY DEF Connect, agent
  <1>5. TypeOK'
    <2>1. conn' \in [Conns -> ConnType] /\ \A d \in Conns : Len(conn'[d].pending) <= MaxPending
      BY <1>2, <1>3 DEF IInv, TypeOK
    <2>2. announced' \in BOOLEAN
      BY <1>4, Zenon DEF IInv, TypeOK
    <2> QED BY <1>1, <1>4, <2>1, <2>2 DEF IInv, TypeOK
  <1>6. \A s \in Sockets : sock[s].of # c
    BY <1>1, SessionAssumption DEF IInv, Wiring, Standard
  <1>7. Wiring'
    <2>1. ASSUME NEW d \in Conns PROVE Standing(d)'
      BY <1>1, <1>2, <1>3, <1>4, SessionAssumption DEF IInv, Wiring, Standing
    <2>2. ASSUME NEW s \in Sockets PROVE Standard(s)'
      BY <1>1, <1>2, <1>3, <1>4, <1>6 DEF IInv, TypeOK, SocketType, Wiring, Standard
    <2> QED BY <2>1, <2>2, <1>4 DEF IInv, Wiring, OneSocket
  <1>8. Greeted'
    <2> SUFFICES ASSUME NEW s \in Sockets PROVE Hailed(s)'
      BY DEF Greeted
    <2>1. Hailed(s) /\ (sock[s].stage = "open" => sock[s].of \in Conns /\ sock[s].of # c)
      BY <1>1, <1>6 DEF IInv, Wiring, Standard, Greeted, TypeOK, SocketType
    <2>2. sock[s].stage = "open" => conn'[sock[s].of] = conn[sock[s].of]
      BY <1>2, <2>1
    <2> QED BY <1>4, <2>1, <2>2 DEF Hailed
  <1>9. OnItsWay'
    <2>1. Ways(k) = 1
      BY <1>3 DEF Ways
    <2>2. conn'[c] = k /\ \A d \in Conns : d # c => conn'[d] = conn[d]
      BY <1>2
    <2> QED BY <2>1, <2>2 DEF IInv, OnItsWay
  <1> QED BY <1>5, <1>7, <1>8, <1>9 DEF IInv

\* The open socket of the session's connection has carried something.
LEMMA GreetedAlready ==
  ASSUME IInv, connection # None, Direct(conn[connection])
  PROVE  /\ conn[connection].ws \in Sockets
         /\ sock[conn[connection].ws].of = connection
         /\ sock[conn[connection].ws].first # None
  <1>1. connection \in Conns /\ conn[connection].stage = "up"
    BY DEF IInv, TypeOK, Wiring, Standing
  <1>2. conn[connection].ws \in Sockets
    BY <1>1 DEF Direct, IInv, TypeOK, ConnType
  <1>3. sock[conn[connection].ws].of = connection /\ sock[conn[connection].ws].stage = "open"
    BY <1>1, <1>2 DEF Direct, IInv, Wiring, Standing
  <1>4. sock[conn[connection].ws].first \in Messages
    <2>1. sock[conn[connection].ws].first \in Heard(conn[connection])
      BY <1>2, <1>3 DEF IInv, Greeted, Hailed
    <2>2. conn[connection].eager \subseteq Messages
      BY <1>1 DEF IInv, TypeOK, ConnType
    <2> QED BY <1>1, <2>1, <2>2, Fresh DEF Heard
  <1> QED BY <1>2, <1>3, <1>4, SessionAssumption DEF Messages

\* A message on the session's connection: nothing moves but what is in its record
\* and what is first on its open socket, which has been greeted.
LEMMA SendInv ==
  ASSUME IInv, connection # None, NEW m \in Messages, NEW k \in ConnType,
         Len(k.pending) <= MaxPending,
         k.stage = conn[connection].stage, k.fetches = conn[connection].fetches,
         k.timers = conn[connection].timers, k.attempts = conn[connection].attempts,
         k.ws = conn[connection].ws, k.isOpen = conn[connection].isOpen,
         k.eager = conn[connection].eager,
         conn' = [conn EXCEPT ![connection] = k],
         sock' = Wired(sock, connection, m),
         UNCHANGED <<connection, shown, workspace, meddled, agent>>
  PROVE  IInv'
  <1>1. /\ connection \in Conns /\ conn[connection].stage = "up" /\ connection' = connection
        /\ conn \in [Conns -> ConnType] /\ sock \in [Sockets -> SocketType]
    BY DEF IInv, TypeOK, Wiring, Standing
  <1>2. /\ sock' \in [Sockets -> SocketType]
        /\ \A s \in Sockets :
              /\ sock'[s].stage = sock[s].stage
              /\ sock'[s].of = sock[s].of
              /\ \/ sock'[s].first = sock[s].first
                 \/ /\ Direct(conn[connection])
                    /\ s = conn[connection].ws
                    /\ sock[s].first = None
    BY <1>1, WiredIs
  <1>3. TypeOK'
    BY <1>1, <1>2 DEF IInv, TypeOK, agent
  <1>4. \A c \in Conns : /\ conn'[c].stage = conn[c].stage /\ conn'[c].fetches = conn[c].fetches
                         /\ conn'[c].timers = conn[c].timers /\ conn'[c].attempts = conn[c].attempts
                         /\ conn'[c].ws = conn[c].ws /\ conn'[c].isOpen = conn[c].isOpen
                         /\ conn'[c].eager = conn[c].eager
                         /\ c # connection => conn'[c].pending = conn[c].pending
    BY <1>1
  <1>5. Wiring'
    <2>1. ASSUME NEW d \in Conns PROVE Standing(d)'
      <3>1. conn[d].ws # None => conn[d].ws \in Sockets
        BY <1>1 DEF ConnType
      <3> QED BY <1>1, <1>2, <1>4, <3>1 DEF IInv, Wiring, Standing
    <2>2. ASSUME NEW s \in Sockets PROVE Standard(s)'
      <3>1. sock[s].of # None => sock[s].of \in Conns
        BY <1>1 DEF SocketType
      <3> QED BY <1>2, <1>4, <3>1 DEF IInv, Wiring, Standard
    <2>3. OneSocket'
      BY <1>2 DEF IInv, Wiring, OneSocket
    <2> QED BY <2>1, <2>2, <2>3 DEF Wiring
  <1>6. Greeted'
    <2>1. Direct(conn[connection]) => sock[conn[connection].ws].first # None
      BY GreetedAlready
    <2>2. \A s \in Sockets : sock'[s].first = sock[s].first
      BY <1>2, <2>1
    <2> SUFFICES ASSUME NEW s \in Sockets PROVE Hailed(s)'
      BY DEF Greeted
    <2>3. Hailed(s) /\ (sock[s].stage = "open" => sock[s].of \in Conns)
      BY <1>1 DEF IInv, Wiring, Standard, Greeted, SocketType
    <2>4. sock[s].stage = "open" => Heard(conn'[sock[s].of]) = Heard(conn[sock[s].of])
      BY <1>4, <2>3 DEF Heard
    <2> QED BY <1>2, <2>2, <2>3, <2>4 DEF Hailed
  <1>7. OnItsWay'
    BY <1>4 DEF IInv, OnItsWay, Ways
  <1> QED BY <1>3, <1>5, <1>6, <1>7 DEF IInv

LEMMA CommandInv ==
  ASSUME IInv, Command
  PROVE  IInv'
  <1> DEFINE m == conn[connection].given + 1
             k == [Sent(connection, m) EXCEPT !.given = m]
  <1>1. /\ connection # None /\ connection \in Conns /\ conn[connection] \in ConnType
        /\ Len(conn[connection].pending) <= MaxPending
    BY DEF Command, IInv, TypeOK
  <1>2. m \in Messages
    BY <1>1, SessionAssumption DEF Command, Messages, ConnType
  <1>3. m \in 0 .. MaxCommands
    BY <1>2 DEF Messages
  <1>4. /\ k \in ConnType /\ Len(k.pending) <= MaxPending
        /\ k.stage = conn[connection].stage /\ k.fetches = conn[connection].fetches
        /\ k.timers = conn[connection].timers /\ k.attempts = conn[connection].attempts
        /\ k.ws = conn[connection].ws /\ k.isOpen = conn[connection].isOpen
        /\ k.eager = conn[connection].eager
    <2> HIDE DEF m
    <2>1. Sent(connection, m) \in ConnType
      BY <1>1, <1>2, SentIs
    <2>2. k \in ConnType
      BY <1>3, <2>1 DEF ConnType
    <2>3. Len(k.pending) <= MaxPending
      BY <1>1, <1>2, <2>1, SentIs DEF ConnType
    <2> QED BY <1>1, <1>2, <2>1, <2>2, <2>3, SentIs DEF ConnType
  <1>5. /\ conn' = [conn EXCEPT ![connection] = k] /\ sock' = Wired(sock, connection, m)
        /\ UNCHANGED <<connection, shown, workspace, meddled, agent>>
    BY DEF Command
  <1> HIDE DEF k, m
  <1> QED BY <1>1, <1>2, <1>4, <1>5, SendInv

\* close() parts connection and socket; the ticket under way, if any, is the only
\* thing left to come, or the socket's close event.
LEMMA CloseInv ==
  ASSUME IInv, Close
  PROVE  IInv'
  <1>0. /\ connection \in Conns /\ connection # None
        /\ conn \in [Conns -> ConnType] /\ sock \in [Sockets -> SocketType]
    BY DEF Close, IInv, TypeOK
  <1> PICK c \in Conns : c = connection
    BY <1>0
  <1> PICK w \in Sockets \cup {None} : w = conn[c].ws
    BY <1>0 DEF ConnType
  <1> DEFINE k == [NewConn EXCEPT !.stage = "closed", !.fetches = conn[c].fetches,
                                  !.attempts = conn[c].attempts]
  <1>1. /\ c \in Conns /\ conn[c].stage = "up" /\ conn[c] \in ConnType /\ c # None
        /\ conn \in [Conns -> ConnType] /\ sock \in [Sockets -> SocketType]
    BY <1>0 DEF IInv, Wiring, Standing
  <1>2. /\ k \in ConnType /\ k.stage = "closed" /\ k.fetches = conn[c].fetches
        /\ k.timers = 0 /\ k.ws = None /\ k.isOpen = FALSE /\ k.pending = <<>>
    <2>1. NewConn \in ConnType
      BY Fresh
    <2> QED BY <1>1, <2>1 DEF ConnType, NewConn
  <1>3. conn' = [conn EXCEPT ![c] = k]
    BY DEF Close
  <1>4. /\ connection' = None /\ shown' = "disconnected" /\ workspace' = Empty
        /\ meddled' = {} /\ saved' = saved /\ announced' = announced
    BY DEF Close, agent
  <1> HIDE DEF k
  <1>5. /\ conn'[c] = k
        /\ \A d \in Conns : d # c => conn'[d] = conn[d]
    BY <1>1, <1>3
  <1>6. /\ sock' \in [Sockets -> SocketType]
        /\ \A s \in Sockets : s # w => sock'[s] = sock[s]
        /\ w # None => /\ w \in Sockets /\ sock'[w].stage = "closing"
                       /\ sock'[w].of = sock[w].of /\ sock'[w].first = sock[w].first
    <2>1. CASE w = None
      BY <1>1, <2>1 DEF Close
    <2>2. CASE w # None
      <3>1. w \in Sockets /\ sock[w] \in SocketType
        BY <1>1, <2>2 DEF ConnType
      <3> DEFINE q == [sock[w] EXCEPT !.stage = "closing", !.in = <<>>]
      <3>2. sock' = [sock EXCEPT ![w] = q]
        BY <2>2, <3>1, <1>1 DEF Close
      <3>3. <<>> \in Seq(News)
        OBVIOUS
      <3>4. q \in SocketType /\ q.stage = "closing" /\ q.of = sock[w].of /\ q.first = sock[w].first
        BY <3>1, <3>3 DEF SocketType
      <3> HIDE DEF q
      <3> QED BY <1>1, <2>2, <3>1, <3>2, <3>4
    <2> QED BY <2>1, <2>2
  <1>61. \A s \in Sockets : /\ sock'[s].of = sock[s].of
                            /\ s = w => w # None
    BY <1>6, SessionAssumption
  <1>7. \A s \in Sockets : sock[s].of = c => s = w
    BY <1>1 DEF IInv, Wiring, Standard, SocketType
  <1>8. w # None => sock[w].of = c
    BY <1>1 DEF IInv, Wiring, Standing
  <1>9. conn[c].fetches <= 1 /\ (w # None => conn[c].fetches = 0)
    BY <1>1, WaysAre DEF IInv, OnItsWay
  <1>10. TypeOK'
    <2>1. conn' \in [Conns -> ConnType] /\ \A d \in Conns : Len(conn'[d].pending) <= MaxPending
      BY <1>1, <1>2, <1>3, <1>5, SessionAssumption DEF IInv, TypeOK
    <2>2. announced' \in BOOLEAN
      BY <1>4, Zenon DEF IInv, TypeOK
    <2> QED BY <1>4, <1>6, <2>1, <2>2, Fresh DEF IInv, TypeOK
  <1>11. Wiring'
    <2>1. ASSUME NEW d \in Conns PROVE Standing(d)'
      <3>1. CASE d = c
        BY <3>1, <1>1, <1>2, <1>4, <1>5, <1>9, SessionAssumption DEF Standing
      <3>2. CASE d # c
        <4>1. conn[d].ws # None => conn[d].ws # w /\ conn[d].ws \in Sockets
          BY <3>2, <1>1, <1>8 DEF IInv, Wiring, Standing, ConnType
        <4>2. conn'[d] = conn[d] /\ d # None /\ connection' # d /\ connection # d
          BY <3>2, <1>1, <1>4, <1>5, SessionAssumption
        <4>3. Standing(d)
          BY DEF IInv, Wiring
        <4>4. conn[d].ws # None => sock'[conn[d].ws] = sock[conn[d].ws]
          BY <4>1, <1>6
        <4> QED BY <4>2, <4>3, <4>4 DEF Standing
      <3> QED BY <3>1, <3>2
    <2>2. ASSUME NEW s \in Sockets PROVE Standard(s)'
      <3>1. CASE s = w
        <4>1. sock'[s].of = c /\ sock'[s].stage = "closing"
          BY <3>1, <1>6, <1>61, <1>8
        <4>2. conn'[c].stage = "closed" /\ conn'[c].fetches = 0
          BY <3>1, <1>2, <1>5, <1>61, <1>9
        <4> QED BY <4>1, <4>2, <1>1 DEF Standard
      <3>2. CASE s # w
        <4>1. sock[s].of # c /\ (sock[s].of # None => sock[s].of \in Conns)
          BY <3>2, <1>1, <1>7 DEF SocketType
        <4> QED BY <3>2, <4>1, <1>5, <1>6 DEF IInv, Wiring, Standard
      <3> QED BY <3>1, <3>2
    <2>3. OneSocket
      BY DEF IInv, Wiring
    <2>4. OneSocket'
      BY <2>3, <1>61 DEF OneSocket
    <2> QED BY <2>1, <2>2, <2>4 DEF Wiring
  <1>12. Greeted'
    <2> SUFFICES ASSUME NEW s \in Sockets PROVE Hailed(s)'
      BY DEF Greeted
    <2>1. CASE s = w
      BY <2>1, <1>6, <1>61 DEF Hailed
    <2>2. CASE s # w
      <3>1. sock[s].of # c /\ (sock[s].of # None => sock[s].of \in Conns)
        BY <2>2, <1>1, <1>7 DEF SocketType
      <3>2. Hailed(s) /\ (sock[s].stage = "open" => sock[s].of # None)
        BY DEF IInv, Wiring, Standard, Greeted
      <3> QED BY <2>2, <3>1, <3>2, <1>5, <1>6 DEF Hailed
    <2> QED BY <2>1, <2>2
  <1>13. OnItsWay'
    BY <1>2, <1>5 DEF IInv, OnItsWay
  <1> QED BY <1>10, <1>11, <1>12, <1>13 DEF IInv

\* A ticket or a timer: a connection moves on, no socket does.
LEMMA MovesOn ==
  ASSUME IInv, NEW c \in Conns, NEW k \in ConnType,
         conn[c].stage # "new",
         k.stage = conn[c].stage, k.ws = conn[c].ws, k.isOpen = conn[c].isOpen,
         k.pending = conn[c].pending, k.eager = conn[c].eager,
         k.stage = "closed" => k.timers = 0 /\ k.fetches <= conn[c].fetches,
         k.stage = "up" => Ways(k) = 1 \/ (Ways(k) = 0 /\ k.attempts = MaxRetries),
         conn' = [conn EXCEPT ![c] = k],
         UNCHANGED <<connection, shown, workspace, meddled, sock, agent>>
  PROVE  IInv'
  <1>1. /\ conn \in [Conns -> ConnType] /\ sock \in [Sockets -> SocketType]
        /\ conn'[c] = k
        /\ \A d \in Conns : d # c => conn'[d] = conn[d]
    BY DEF IInv, TypeOK
  <1>2. TypeOK'
    <2>1. conn' \in [Conns -> ConnType] /\ \A d \in Conns : Len(conn'[d].pending) <= MaxPending
      BY <1>1 DEF IInv, TypeOK
    <2>2. announced' \in BOOLEAN
      BY Zenon DEF IInv, TypeOK, agent
    <2> QED BY <2>1, <2>2 DEF IInv, TypeOK, agent
  <1>3. Wiring'
    <2>1. ASSUME NEW d \in Conns PROVE Standing(d)'
      <3>1. Standing(d)
        BY DEF IInv, Wiring
      <3>2. CASE d = c
        BY <3>1, <3>2, <1>1 DEF Standing, ConnType
      <3>3. CASE d # c
        BY <3>1, <3>3, <1>1 DEF Standing
      <3> QED BY <3>2, <3>3
    <2>2. ASSUME NEW s \in Sockets PROVE Standard(s)'
      <3>1. Standard(s) /\ (sock[s].of # None => sock[s].of \in Conns)
        BY <1>1 DEF IInv, Wiring, SocketType
      <3>2. k.fetches \in Nat /\ conn[c].fetches \in Nat
        BY <1>1 DEF ConnType
      <3>3. CASE sock[s].of = c
        BY <3>1, <3>2, <3>3, <1>1 DEF Standard
      <3>4. CASE sock[s].of # c
        BY <3>1, <3>4, <1>1 DEF Standard
      <3> QED BY <3>3, <3>4
    <2> QED BY <2>1, <2>2 DEF IInv, Wiring, OneSocket
  <1>4. Greeted'
    <2>1. \A s \in Sockets : sock[s].stage = "open" => sock[s].of \in Conns
      BY <1>1 DEF IInv, Wiring, Standard, SocketType
    <2>2. \A d \in Conns : Heard(conn'[d]) = Heard(conn[d])
      BY <1>1 DEF Heard
    <2> QED BY <2>1, <2>2 DEF IInv, Greeted, Hailed
  <1>5. OnItsWay'
    BY <1>1 DEF IInv, OnItsWay
  <1> QED BY <1>2, <1>3, <1>4, <1>5 DEF IInv

LEMMA TimerFiresInv ==
  ASSUME IInv, NEW c \in Conns, TimerFires(c)
  PROVE  IInv'
  <1> DEFINE f == conn[c].fetches + 1
             t == conn[c].timers - 1
             k == [conn[c] EXCEPT !.timers = t, !.fetches = f]
  <1>1. /\ conn[c] \in ConnType /\ conn[c].timers > 0 /\ conn[c].stage = "up"
        /\ conn' = [conn EXCEPT ![c] = k]
        /\ UNCHANGED <<connection, shown, workspace, meddled, sock, agent>>
    <2>1. conn[c] \in ConnType /\ conn[c].timers > 0
      BY DEF TimerFires, IInv, TypeOK
    <2>2. conn[c].stage \in {"new", "up", "closed"} /\ conn[c].timers # 0
      BY <2>1 DEF ConnType
    <2>3. conn[c].stage = "up"
      BY <2>2 DEF IInv, Wiring, Standing
    <2> QED BY <2>1, <2>3 DEF TimerFires, IInv, TypeOK
  <1>2. f \in Nat /\ t \in Nat
    BY <1>1 DEF ConnType
  <1>3. /\ k \in ConnType /\ k.stage = "up" /\ k.ws = conn[c].ws /\ k.isOpen = conn[c].isOpen
        /\ k.pending = conn[c].pending /\ k.fetches = f /\ k.timers = t
        /\ k.eager = conn[c].eager
    <2> HIDE DEF f, t
    <2> QED BY <1>1, <1>2 DEF ConnType
  <1>4. Ways(k) = 1
    <2>1. Ways(conn[c]) = 1
      BY <1>1 DEF IInv, OnItsWay, Ways, ConnType
    <2> HIDE DEF k
    <2> QED BY <1>1, <1>3, <2>1 DEF Ways, ConnType
  <1> HIDE DEF k
  <1> QED BY <1>1, <1>3, <1>4, MovesOn

LEMMA TicketFailsInv ==
  ASSUME IInv, NEW c \in Conns, TicketFails(c)
  PROVE  IInv'
  <1> DEFINE f == conn[c].fetches - 1
             j == [conn[c] EXCEPT !.fetches = f]
             k == Scheduled(j)
  <1>1. /\ conn[c] \in ConnType /\ conn[c].fetches > 0 /\ conn[c].stage # "new"
        /\ conn' = [conn EXCEPT ![c] = k]
        /\ UNCHANGED <<connection, shown, workspace, meddled, sock, agent>>
    <2>1. conn[c] \in ConnType /\ conn[c].fetches > 0
      BY DEF TicketFails, IInv, TypeOK
    <2>2. conn[c].fetches # 0
      BY <2>1 DEF ConnType
    <2>3. conn[c].stage # "new"
      BY <2>2 DEF IInv, Wiring, Standing
    <2> QED BY <2>1, <2>3 DEF TicketFails, IInv, TypeOK
  <1>2. f \in Nat
    BY <1>1 DEF ConnType
  <1>3. /\ j \in ConnType /\ j.stage = conn[c].stage /\ j.fetches = f
        /\ j.timers = conn[c].timers /\ j.attempts = conn[c].attempts
        /\ j.ws = conn[c].ws /\ j.isOpen = conn[c].isOpen /\ j.pending = conn[c].pending
        /\ j.eager = conn[c].eager
    <2> HIDE DEF f
    <2> QED BY <1>1, <1>2 DEF ConnType
  <1> HIDE DEF j
  <1>4. /\ k \in ConnType /\ k.stage = j.stage /\ k.fetches = j.fetches
        /\ k.ws = j.ws /\ k.isOpen = j.isOpen /\ k.pending = j.pending
        /\ k.eager = j.eager
        /\ \/ k = j /\ (j.stage = "closed" \/ j.attempts = MaxRetries \/ j.timers > 0)
           \/ j.stage # "closed" /\ j.timers = 0 /\ k.timers = 1
    BY <1>3, ScheduledIs
  <1> HIDE DEF k
  <1>5. k.stage = "closed" => k.timers = 0 /\ k.fetches <= conn[c].fetches
    <2>1. conn[c].stage = "closed" => conn[c].timers = 0
      BY DEF IInv, Wiring, Standing
    <2>2. f <= conn[c].fetches
      BY <1>1 DEF ConnType
    <2> HIDE DEF f
    <2> QED BY <1>3, <1>4, <2>1, <2>2
  <1>6. k.stage = "up" => Ways(k) = 1 \/ (Ways(k) = 0 /\ k.attempts = MaxRetries)
    <2> SUFFICES ASSUME k.stage = "up"
                 PROVE  Ways(k) = 1 \/ (Ways(k) = 0 /\ k.attempts = MaxRetries)
      OBVIOUS
    <2>1. conn[c].fetches = 1 /\ conn[c].timers = 0 /\ conn[c].ws = None
      <3>1. Ways(conn[c]) = 1 \/ Ways(conn[c]) = 0
        BY <1>3, <1>4 DEF IInv, OnItsWay
      <3>2. conn[c].fetches \in Nat /\ conn[c].timers \in Nat /\ conn[c].fetches > 0
        BY <1>1 DEF ConnType
      <3> QED BY <3>1, <3>2 DEF Ways
    <2> QED BY <1>3, <1>4, <2>1 DEF Ways
  <1> QED BY <1>1, <1>3, <1>4, <1>5, <1>6, MovesOn

\* Connection c and socket s move, the only ones that may point at each other; of
\* the others nothing changes that the invariant speaks of, but for the queue of
\* the session's connection.
LEMMA OneMoves ==
  ASSUME IInv, NEW c \in Conns, NEW s \in Sockets,
         TypeOK', connection' = connection,
         sock[s].of \in {None, c}, sock'[s].of \in {None, c},
         \A t \in Sockets : t # s =>
            /\ sock[t].of # c
            /\ sock'[t].stage = sock[t].stage
            /\ sock'[t].of = sock[t].of
            /\ sock'[t].first = sock[t].first,
         \A d \in Conns : d # c =>
            /\ conn'[d].stage = conn[d].stage
            /\ conn'[d].fetches = conn[d].fetches
            /\ conn'[d].timers = conn[d].timers
            /\ conn'[d].attempts = conn[d].attempts
            /\ conn'[d].ws = conn[d].ws
            /\ conn'[d].isOpen = conn[d].isOpen
            /\ conn'[d].eager = conn[d].eager
            /\ d # connection => conn'[d].pending = conn[d].pending,
         Standing(c)', Standard(s)', Hailed(s)',
         conn'[c].stage = "up" =>
            Ways(conn'[c]) = 1 \/ (Ways(conn'[c]) = 0 /\ conn'[c].attempts = MaxRetries)
  PROVE  IInv'
  <1>1. conn \in [Conns -> ConnType] /\ sock \in [Sockets -> SocketType]
    BY DEF IInv, TypeOK
  <1>2. \A t \in Sockets : sock[t].of # None => sock[t].of \in Conns
    BY <1>1 DEF SocketType
  <1>3. c # None
    BY SessionAssumption
  <1>4. ASSUME NEW d \in Conns PROVE Standing(d)'
    <2>1. CASE d = c
      BY <2>1
    <2>2. CASE d # c
      <3>1. Standing(d)
        BY DEF IInv, Wiring
      <3>2. conn[d].ws # None => conn[d].ws \in Sockets /\ conn[d].ws # s
        <4>1. conn[d].ws # None => conn[d].ws \in Sockets
          BY <1>1 DEF ConnType
        <4>2. d # None
          BY SessionAssumption
        <4> QED BY <4>1, <4>2, <3>1, <2>2 DEF Standing
      <3>3. /\ conn'[d].stage = conn[d].stage
            /\ conn'[d].fetches = conn[d].fetches
            /\ conn'[d].timers = conn[d].timers
            /\ conn'[d].ws = conn[d].ws
            /\ conn'[d].isOpen = conn[d].isOpen
            /\ d # connection => conn'[d].pending = conn[d].pending
        BY <2>2
      <3>4. conn[d].ws # None => /\ sock'[conn[d].ws].of = sock[conn[d].ws].of
                                 /\ sock'[conn[d].ws].stage = sock[conn[d].ws].stage
        BY <3>2
      <3> QED BY <3>1, <3>3, <3>4 DEF Standing
    <2> QED BY <2>1, <2>2
  <1>5. ASSUME NEW t \in Sockets PROVE Standard(t)'
    <2>1. CASE t = s
      BY <2>1
    <2>2. CASE t # s
      <3>1. Standard(t)
        BY DEF IInv, Wiring
      <3>2. /\ sock'[t].stage = sock[t].stage /\ sock'[t].of = sock[t].of /\ sock[t].of # c
        BY <2>2
      <3>3. sock[t].of # None => /\ conn'[sock[t].of].stage = conn[sock[t].of].stage
                                 /\ conn'[sock[t].of].fetches = conn[sock[t].of].fetches
                                 /\ conn'[sock[t].of].ws = conn[sock[t].of].ws
                                 /\ conn'[sock[t].of].isOpen = conn[sock[t].of].isOpen
        BY <1>2, <3>2
      <3> QED BY <3>1, <3>2, <3>3 DEF Standard
    <2> QED BY <2>1, <2>2
  <1>6. OneSocket'
    <2>1. OneSocket
      BY DEF IInv, Wiring
    <2> SUFFICES ASSUME NEW t \in Sockets, NEW u \in Sockets,
                        sock'[t].of = sock'[u].of, sock'[t].of # None
                 PROVE  t = u
      BY DEF OneSocket
    <2>2. CASE t # s /\ u # s
      BY <2>1, <2>2 DEF OneSocket
    <2>3. CASE t = s \/ u = s
      BY <2>3
    <2> QED BY <2>2, <2>3
  <1>7. Greeted'
    <2> SUFFICES ASSUME NEW t \in Sockets PROVE Hailed(t)'
      BY DEF Greeted
    <2>1. CASE t = s
      BY <2>1
    <2>2. CASE t # s
      <3>1. /\ sock'[t].stage = sock[t].stage /\ sock'[t].of = sock[t].of /\ sock[t].of # c
            /\ sock'[t].first = sock[t].first
        BY <2>2
      <3>2. sock[t].stage = "open" => sock[t].of \in Conns
        BY <1>2 DEF IInv, Wiring, Standard
      <3>3. sock[t].stage = "open" => Heard(conn'[sock[t].of]) = Heard(conn[sock[t].of])
        BY <3>1, <3>2 DEF Heard
      <3> QED BY <3>1, <3>3 DEF IInv, Greeted, Hailed
    <2> QED BY <2>1, <2>2
  <1>8. OnItsWay'
    <2> SUFFICES ASSUME NEW d \in Conns, conn'[d].stage = "up"
                 PROVE  Ways(conn'[d]) = 1 \/ (Ways(conn'[d]) = 0 /\ conn'[d].attempts = MaxRetries)
      BY DEF OnItsWay
    <2>1. CASE d = c
      BY <2>1
    <2>2. CASE d # c
      <3>1. Ways(conn'[d]) = Ways(conn[d])
        BY <2>2 DEF Ways
      <3> QED BY <2>2, <3>1 DEF IInv, OnItsWay
    <2> QED BY <2>1, <2>2
  <1> QED BY <1>4, <1>5, <1>6, <1>7, <1>8 DEF IInv, Wiring

\* A ticket becomes a socket: there was none of this connection before.
LEMMA TicketArrivesInv ==
  ASSUME IInv, NEW c \in Conns, TicketArrives(c)
  PROVE  IInv'
  <1>1. /\ conn \in [Conns -> ConnType] /\ sock \in [Sockets -> SocketType]
        /\ conn[c] \in ConnType /\ conn[c].fetches > 0 /\ c # None
        /\ UNCHANGED <<connection, shown, workspace, meddled, agent>>
    BY SessionAssumption DEF TicketArrives, IInv, TypeOK
  <1> DEFINE f == conn[c].fetches - 1
  <1>2. PICK s \in Sockets :
           /\ sock[s].stage = "free"
           /\ sock' = [sock EXCEPT ![s] = [FreeSocket EXCEPT !.stage = "connecting", !.of = c]]
           /\ conn' = [conn EXCEPT ![c].fetches = f, ![c].ws = s]
    BY DEF TicketArrives, NewSocket
  <1> DEFINE k == [conn[c] EXCEPT !.fetches = f, !.ws = s]
             q == [FreeSocket EXCEPT !.stage = "connecting", !.of = c]
  <1>3. conn' = [conn EXCEPT ![c] = k] /\ sock' = [sock EXCEPT ![s] = q]
    BY <1>1, <1>2
  <1>4. f \in Nat
    BY <1>1 DEF ConnType
  <1>5. /\ k \in ConnType /\ k.stage = conn[c].stage /\ k.fetches = f
        /\ k.timers = conn[c].timers /\ k.attempts = conn[c].attempts
        /\ k.ws = s /\ k.isOpen = conn[c].isOpen /\ k.pending = conn[c].pending
    <2> HIDE DEF f
    <2> QED BY <1>1, <1>4 DEF ConnType
  <1>6. q \in SocketType /\ q.stage = "connecting" /\ q.of = c /\ q.first = None
    BY <1>1, Fresh DEF SocketType, FreeSocket
  <1> HIDE DEF k, q
  <1>7. conn'[c] = k /\ sock'[s] = q
        /\ (\A d \in Conns : d # c => conn'[d] = conn[d])
        /\ (\A t \in Sockets : t # s => sock'[t] = sock[t])
    BY <1>1, <1>3
  <1>8. conn[c].stage \in {"up", "closed"}
    <2>1. conn[c].fetches # 0 /\ conn[c].stage \in {"new", "up", "closed"}
      BY <1>1 DEF ConnType
    <2> QED BY <2>1 DEF IInv, Wiring, Standing
  <1>9. conn[c].fetches = 1 /\ conn[c].ws = None /\ (conn[c].stage = "up" => conn[c].timers = 0)
    <2>1. CASE conn[c].stage = "up"
      BY <2>1, <1>1, WaysAre DEF IInv, OnItsWay
    <2>2. CASE conn[c].stage = "closed"
      <3>1. conn[c].fetches <= 1
        BY <2>2 DEF IInv, Wiring, Standing
      <3>2. conn[c].fetches = 1
        BY <3>1, <1>1 DEF ConnType
      <3>3. ASSUME conn[c].ws # None PROVE FALSE
        <4>1. conn[c].ws \in Sockets
          BY <1>1, <3>3 DEF ConnType
        <4>2. sock[conn[c].ws].of = c
          BY <3>3 DEF IInv, Wiring, Standing
        <4> QED BY <4>1, <4>2, <1>1, <2>2, <3>2 DEF IInv, Wiring, Standard
      <3> QED BY <2>2, <3>2, <3>3
    <2> QED BY <1>8, <2>1, <2>2
  <1>10. s # None /\ sock[s].of = None
    BY <1>2, SessionAssumption DEF IInv, Wiring, Standard
  <1>11. \A t \in Sockets : sock[t].of # c
    <2> SUFFICES ASSUME NEW t \in Sockets, sock[t].of = c PROVE FALSE
      OBVIOUS
    <2>1. conn[c].stage # "closed"
      BY <1>1, <1>9 DEF IInv, Wiring, Standard
    <2>2. sock[t].stage \in {"connecting", "open"}
      <3>1. sock[t].stage \in {"free", "connecting", "open", "closing"}
        BY <1>1 DEF SocketType
      <3>2. sock[t].stage # "free" /\ sock[t].stage # "closing"
        BY <1>1, <2>1 DEF IInv, Wiring, Standard
      <3> QED BY <3>1, <3>2
    <2>3. conn[c].ws = t
      BY <2>2 DEF IInv, Wiring, Standard
    <2> QED BY <2>3, <1>9, SessionAssumption
  <1>12. TypeOK'
    <2>1. /\ conn' \in [Conns -> ConnType] /\ \A d \in Conns : Len(conn'[d].pending) <= MaxPending
          /\ sock' \in [Sockets -> SocketType]
      BY <1>1, <1>3, <1>5, <1>6, <1>7 DEF IInv, TypeOK
    <2>2. announced' \in BOOLEAN
      BY <1>1, Zenon DEF IInv, TypeOK, agent
    <2> QED BY <1>1, <2>1, <2>2 DEF IInv, TypeOK, agent
  <1>13. k.fetches = 0
    BY <1>5, <1>9
  <1>14. Standing(c)'
    <2>1. Standing(c)
      BY DEF IInv, Wiring
    <2> QED BY <2>1, <1>1, <1>5, <1>6, <1>7, <1>8, <1>9, <1>10, <1>13 DEF Standing
  <1>15. Standard(s)'
    BY <1>1, <1>5, <1>6, <1>7, <1>8, <1>13 DEF Standard
  <1>16. conn'[c].stage = "up" => Ways(conn'[c]) = 1
    BY <1>5, <1>7, <1>9, <1>10, <1>13 DEF Ways
  <1> QED
    <2> HIDE DEF f
    <2>1. Hailed(s)'
      BY <1>6, <1>7 DEF Hailed
    <2> QED BY <1>1, <1>6, <1>7, <1>10, <1>11, <1>12, <1>14, <1>15, <1>16, <2>1, OneMoves

\* What an opening socket and its connection were.
LEMMA Opening ==
  ASSUME IInv, NEW s \in Sockets, sock[s].stage = "connecting"
  PROVE  /\ sock[s].of \in Conns
         /\ sock[s].first = None
         /\ conn[sock[s].of].ws = s
         /\ conn[sock[s].of].stage \in {"up", "closed"}
         /\ \A t \in Sockets : t # s => sock[t].of # sock[s].of
  <1>1. sock[s] \in SocketType
    BY DEF IInv, TypeOK
  <1>2. sock[s].of \in Conns
    BY <1>1 DEF SocketType, IInv, Wiring, Standard
  <1>3. conn[sock[s].of].stage # "new" /\ conn[sock[s].of].ws = s
    BY <1>2, SessionAssumption DEF IInv, Wiring, Standard
  <1>4. conn[sock[s].of] \in ConnType
    BY <1>2 DEF IInv, TypeOK
  <1>5. \A t \in Sockets : t # s => sock[t].of # sock[s].of
    BY <1>2, SessionAssumption DEF IInv, Wiring, OneSocket
  <1> QED BY <1>2, <1>3, <1>4, <1>5 DEF IInv, Greeted, Hailed, ConnType

LEMMA SnapshotIs ==
  ASSUME saved \in FileMap
  PROVE  <<Snapshot(saved)>> \in Seq(News)
  <1>1. Snapshot(saved) \in News
    BY DEF News, Snapshot
  <1> QED BY <1>1

\* What goes out first on a socket that opens.
LEMMA GreetingIs ==
  ASSUME NEW k \in ConnType, NEW a \in k.given .. MaxCommands
  PROVE  Head(Greeting(k, a)) \in {Hello} \cup (k.given + 1 .. a)
  <1>1. k.given \in Nat /\ a \in Nat /\ k.given <= a
    BY SessionAssumption DEF ConnType
  <1> DEFINE n == a - k.given
             f == [x \in 1 .. n |-> k.given + x]
  <1>0. Greeting(k, a) = f \o <<Hello>>
    BY DEF Greeting, Further
  <1>2. n \in Nat /\ f \in Seq(Nat) /\ Len(f) = n
    BY <1>1
  <1>3. CASE n = 0
    <2>1. f = <<>>
      BY <1>2, <1>3
    <2> HIDE DEF f
    <2>2. f \o <<Hello>> = <<Hello>>
      BY <2>1
    <2>3. Head(<<Hello>>) = Hello
      OBVIOUS
    <2> QED BY <1>0, <2>2, <2>3
  <1>4. CASE n > 0
    <2>1. f[1] = k.given + 1
      BY <1>2, <1>4
    <2> HIDE DEF f
    <2>2. <<Hello>> \in Seq(Nat)
      BY DEF Hello
    <2>3. Len(f \o <<Hello>>) = n + 1 /\ (f \o <<Hello>>)[1] = f[1]
      BY <1>2, <1>4, <2>2
    <2>4. Head(f \o <<Hello>>) = k.given + 1
      BY <1>2, <2>1, <2>2, <2>3
    <2>5. k.given + 1 \in k.given + 1 .. a
      BY <1>1, <1>4
    <2> QED BY <1>0, <2>4, <2>5
  <1> QED BY <1>2, <1>3, <1>4

\* Commands are messages.
LEMMA FurtherIs ==
  ASSUME NEW i \in 0 .. MaxCommands, NEW j \in i .. MaxCommands
  PROVE  /\ Further(i, j) \in Seq(Messages)
         /\ Len(Further(i, j)) = j - i
         /\ \A x \in 1 .. j - i : Further(i, j)[x] = i + x
         /\ i + 1 .. j \subseteq Messages
         /\ j \in 0 .. MaxCommands
  <1>1. /\ i \in Nat /\ j \in Nat /\ i <= j /\ j <= MaxCommands
        /\ MaxCommands \in Nat
    BY SessionAssumption
  <1>2. j - i \in Nat /\ \A x \in 1 .. j - i : i + x \in Messages
    BY <1>1 DEF Messages
  <1>3. Further(i, j) \in Seq(Messages) /\ Len(Further(i, j)) = j - i
    BY <1>2 DEF Further
  <1> QED BY <1>1, <1>2, <1>3 DEF Further, Messages

\* The session's own connection opens: its greeting is the first on its socket, or
\* what was commanded inside this event.
LEMMA OpensOwnInv ==
  ASSUME IInv, NEW s \in Sockets, SocketOpens(s), OpensOwn(s)
  PROVE  IInv'
  <1>1. /\ conn \in [Conns -> ConnType] /\ sock \in [Sockets -> SocketType] /\ sock[s] \in SocketType
        /\ sock[s].stage = "connecting" /\ saved \in FileMap
    BY DEF SocketOpens, IInv, TypeOK
  <1>2. PICK c \in Conns : c = sock[s].of
    BY <1>1, Opening
  <1>3. /\ c = connection /\ conn[c].stage = "up" /\ conn[c].ws = s /\ sock[s].first = None
        /\ conn[c] \in ConnType /\ c # None /\ s # None
        /\ \A t \in Sockets : t # s => sock[t].of # c
    BY <1>1, <1>2, Opening, SessionAssumption DEF OpensOwn, IInv, Wiring, Standing
  <1>30. PICK a \in conn[c].given .. MaxCommands, b \in conn[c].given .. MaxCommands :
           /\ a <= b
           /\ conn' = [conn EXCEPT ![c] =
                 [conn[c] EXCEPT !.isOpen = TRUE, !.attempts = 0, !.given = b,
                     !.handed = conn[c].handed \o Further(conn[c].given, b) \o conn[c].pending,
                     !.pending = <<>>, !.eager = conn[c].eager \cup (conn[c].given + 1 .. b)]]
           /\ sock' = [sock EXCEPT ![s] =
                 [Carrying(sock[s], Head(Greeting(conn[c], a))) EXCEPT
                     !.stage = "open", !.in = <<Snapshot(saved)>>]]
    <2>1. conn[c].given \in Nat /\ MaxCommands \in Nat
      BY <1>3, SessionAssumption DEF ConnType
    <2>2. \A a \in conn[c].given .. MaxCommands : \A b \in a .. MaxCommands :
              b \in conn[c].given .. MaxCommands /\ a <= b
      BY <2>1
    <2> QED BY <1>1, <1>2, <2>2 DEF OpensOwn
  <1>31. /\ conn[c].given \in 0 .. MaxCommands /\ conn[c].given + 1 .. a \subseteq conn[c].given + 1 .. b
         /\ Head(Greeting(conn[c], a)) \in {Hello} \cup (conn[c].given + 1 .. a)
    <2>1. conn[c].given \in 0 .. MaxCommands /\ MaxCommands \in Nat
      BY <1>3, SessionAssumption DEF ConnType
    <2>2. conn[c].given + 1 .. a \subseteq conn[c].given + 1 .. b
      BY <1>30, <2>1
    <2> QED BY <1>3, <1>30, <2>1, <2>2, GreetingIs
  <1> DEFINE h == conn[c].handed \o Further(conn[c].given, b) \o conn[c].pending
             e == conn[c].eager \cup (conn[c].given + 1 .. b)
             k == [conn[c] EXCEPT !.isOpen = TRUE, !.attempts = 0, !.given = b, !.handed = h,
                                  !.pending = <<>>, !.eager = e]
             g == Head(Greeting(conn[c], a))
             i == <<Snapshot(saved)>>
             q == [Carrying(sock[s], g) EXCEPT !.stage = "open", !.in = i]
  <1>4. conn' = [conn EXCEPT ![c] = k] /\ sock' = [sock EXCEPT ![s] = q]
    BY <1>30
  <1>40. e \in SUBSET Messages /\ b \in 0 .. MaxCommands /\ g \in {Hello} \cup e
    <2>1. conn[c].given + 1 .. b \subseteq Messages /\ b \in 0 .. MaxCommands
      BY <1>31, FurtherIs
    <2>2. conn[c].eager \subseteq Messages
      BY <1>3 DEF ConnType
    <2> QED BY <1>31, <2>1, <2>2
  <1>5. /\ k \in ConnType /\ k.stage = "up" /\ k.fetches = conn[c].fetches
        /\ k.timers = conn[c].timers /\ k.ws = s /\ k.isOpen = TRUE /\ k.pending = <<>>
        /\ k.eager = e
    <2>1. h \in Seq(Messages) /\ <<>> \in Seq(Messages)
      <3>1. Further(conn[c].given, b) \in Seq(Messages)
        BY <1>31, FurtherIs
      <3>2. conn[c].handed \in Seq(Messages) /\ conn[c].pending \in Seq(Messages)
        BY <1>3 DEF ConnType
      <3> QED BY <3>1, <3>2
    <2>2. 0 \in 0 .. MaxRetries
      BY SessionAssumption
    <2> HIDE DEF h, e
    <2> QED BY <1>3, <1>40, <2>1, <2>2 DEF ConnType
  <1>7. q \in SocketType /\ q.stage = "open" /\ q.of = c /\ q.first = g
    <2> DEFINE d == Carrying(sock[s], g)
    <2>1. d = [sock[s] EXCEPT !.first = g]
      BY <1>1, <1>3 DEF Carrying, SocketType
    <2>2. i \in Seq(News)
      BY <1>1, SnapshotIs
    <2>3. g \in Messages
      BY <1>40, Fresh
    <2> HIDE DEF g, i
    <2>4. d \in SocketType /\ d.of = c /\ d.first = g
      BY <1>1, <1>2, <2>1, <2>3 DEF SocketType
    <2>5. q = [d EXCEPT !.stage = "open", !.in = i]
      OBVIOUS
    <2> HIDE DEF d, q
    <2> QED BY <2>2, <2>4, <2>5 DEF SocketType
  <1> HIDE DEF h, e, k, g, i, q
  <1>8. conn'[c] = k /\ sock'[s] = q
        /\ (\A d \in Conns : d # c => conn'[d] = conn[d])
        /\ (\A t \in Sockets : t # s => sock'[t] = sock[t])
    BY <1>1, <1>4
  <1>9. TypeOK' /\ connection' = connection
    <2>1. /\ conn' \in [Conns -> ConnType] /\ \A d \in Conns : Len(conn'[d].pending) <= MaxPending
          /\ sock' \in [Sockets -> SocketType]
      BY <1>1, <1>4, <1>5, <1>7, <1>8, SessionAssumption DEF IInv, TypeOK
    <2>2. announced' \in BOOLEAN
      BY Zenon DEF OpensOwn
    <2>3. meddled' \in SUBSET {"shown", "files"}
      BY DEF SocketOpens, Meddles, IInv, TypeOK
    <2> QED BY <2>1, <2>2, <2>3 DEF IInv, TypeOK, SocketOpens
  <1>10. Standing(c)'
    BY <1>3, <1>5, <1>7, <1>8, <1>9 DEF Standing
  <1>11. Standard(s)'
    BY <1>3, <1>5, <1>7, <1>8 DEF Standard
  <1>110. Hailed(s)'
    BY <1>5, <1>7, <1>8, <1>40 DEF Hailed, Heard
  <1>12. Ways(conn'[c]) = 1
    <2>1. Ways(conn[c]) = 1 /\ conn[c].fetches = 0 /\ conn[c].timers = 0
      <3>1. conn[c].fetches = 0 /\ conn[c].timers = 0
        BY <1>3, WaysAre DEF IInv, OnItsWay
      <3> QED BY <3>1, <1>3 DEF Ways
    <2> QED BY <2>1, <1>3, <1>5, <1>8 DEF Ways
  <1> QED BY <1>2, <1>3, <1>7, <1>8, <1>9, <1>10, <1>11, <1>110, <1>12, OneMoves

\* A closed connection opens: its socket carries nothing, the session's open
\* socket has carried its greeting already.
LEMMA OpensClosedInv ==
  ASSUME IInv, NEW s \in Sockets, SocketOpens(s), OpensClosed(s)
  PROVE  IInv'
  <1>1. /\ conn \in [Conns -> ConnType] /\ sock \in [Sockets -> SocketType] /\ sock[s] \in SocketType
        /\ sock[s].stage = "connecting" /\ saved \in FileMap /\ connection \in Conns \cup {None}
    BY DEF SocketOpens, IInv, TypeOK
  <1>2. PICK c \in Conns : c = sock[s].of
    BY <1>1, Opening
  <1>3. /\ c # connection /\ conn[c].stage = "closed" /\ conn[c].ws = s /\ sock[s].first = None
        /\ conn[c] \in ConnType /\ c # None /\ s # None
        /\ \A t \in Sockets : t # s => sock[t].of # c
    BY <1>1, <1>2, Opening, SessionAssumption DEF OpensClosed, IInv, Wiring, Standing
  <1> DEFINE k == [conn[c] EXCEPT !.isOpen = TRUE, !.attempts = 0]
             i == <<Snapshot(saved)>>
             x == [sock[s] EXCEPT !.stage = "open", !.in = i]
             q == [sock EXCEPT ![s] = x]
  <1>4. IF connection = None
        THEN conn' = [conn EXCEPT ![c] = k] /\ sock' = q
        ELSE /\ conn' = [conn EXCEPT ![c] = k, ![connection] = Sent(connection, Hello)]
             /\ sock' = Wired(q, connection, Hello)
    <2>1. q = [sock EXCEPT ![s].stage = "open", ![s].in = i]
      BY <1>1
    <2> HIDE DEF q
    <2> QED BY <1>1, <1>2, <2>1 DEF OpensClosed
  <1>5. /\ k \in ConnType /\ k.stage = "closed" /\ k.fetches = conn[c].fetches
        /\ k.timers = conn[c].timers /\ k.ws = s /\ k.isOpen = TRUE /\ k.pending = conn[c].pending
    <2>1. 0 \in 0 .. MaxRetries
      BY SessionAssumption
    <2> QED BY <1>3, <2>1 DEF ConnType
  <1>6. x \in SocketType /\ x.stage = "open" /\ x.of = c /\ x.first = None
    <2>1. i \in Seq(News)
      BY <1>1, SnapshotIs
    <2> HIDE DEF i
    <2> QED BY <1>1, <1>2, <1>3, <2>1 DEF SocketType
  <1> HIDE DEF k, x
  <1>7. /\ q \in [Sockets -> SocketType] /\ q[s] = x
        /\ \A t \in Sockets : t # s => q[t] = sock[t]
    BY <1>1, <1>6
  <1> HIDE DEF q
  <1>8. /\ sock' \in [Sockets -> SocketType]
        /\ \A t \in Sockets : sock'[t].stage = q[t].stage /\ sock'[t].of = q[t].of
                              /\ sock'[t].first = q[t].first
    <2>1. CASE connection = None
      BY <2>1, <1>4, <1>7
    <2>2. CASE connection # None
      <3>1. sock' = Wired(q, connection, Hello) /\ connection \in Conns
        BY <2>2, <1>1, <1>4
      <3>2. conn[connection] \in ConnType
        BY <3>1, <1>1
      <3>3. /\ sock' \in [Sockets -> SocketType]
            /\ \A t \in Sockets :
                 /\ sock'[t].stage = q[t].stage
                 /\ sock'[t].of = q[t].of
                 /\ \/ sock'[t].first = q[t].first
                    \/ Direct(conn[connection]) /\ t = conn[connection].ws /\ q[t].first = None
        BY <3>1, <3>2, <1>7, Fresh, WiredIs
      <3>4. Direct(conn[connection]) => q[conn[connection].ws].first # None
        <4>1. Direct(conn[connection]) =>
                 /\ conn[connection].ws \in Sockets /\ conn[connection].ws # s
                 /\ sock[conn[connection].ws].first # None
          BY <2>2, <1>2, <1>3, GreetedAlready
        <4> QED BY <4>1, <1>7
      <3> QED BY <3>3, <3>4
    <2> QED BY <2>1, <2>2
  <1>9. /\ conn' \in [Conns -> ConnType] /\ conn'[c] = k
        /\ \A d \in Conns : Len(conn'[d].pending) <= MaxPending
        /\ \A d \in Conns : d # c =>
              /\ conn'[d].stage = conn[d].stage
              /\ conn'[d].fetches = conn[d].fetches
              /\ conn'[d].timers = conn[d].timers
              /\ conn'[d].attempts = conn[d].attempts
              /\ conn'[d].ws = conn[d].ws
              /\ conn'[d].isOpen = conn[d].isOpen
              /\ conn'[d].eager = conn[d].eager
              /\ d # connection => conn'[d].pending = conn[d].pending
    <2>0. Len(k.pending) <= MaxPending /\ \A d \in Conns : Len(conn[d].pending) <= MaxPending
      BY <1>5 DEF IInv, TypeOK
    <2>1. CASE connection = None
      <3>1. conn' = [conn EXCEPT ![c] = k]
        BY <2>1, <1>4
      <3> QED BY <3>1, <2>0, <1>1, <1>5
    <2>2. CASE connection # None
      <3> DEFINE m == Sent(connection, Hello)
      <3>1. connection \in Conns /\ conn' = [conn EXCEPT ![c] = k, ![connection] = m]
        BY <2>2, <1>1, <1>4
      <3>2. /\ m \in ConnType /\ Len(m.pending) <= MaxPending
            /\ m.stage = conn[connection].stage /\ m.fetches = conn[connection].fetches
            /\ m.timers = conn[connection].timers /\ m.attempts = conn[connection].attempts
            /\ m.ws = conn[connection].ws /\ m.isOpen = conn[connection].isOpen
            /\ m.eager = conn[connection].eager
        BY <3>1, <2>0, <1>1, Fresh, SentIs
      <3> HIDE DEF m
      <3>3. /\ conn'[c] = k /\ conn'[connection] = m
            /\ \A d \in Conns : d # c /\ d # connection => conn'[d] = conn[d]
        BY <3>1, <1>1, <1>3
      <3> QED BY <3>1, <3>2, <3>3, <2>0, <1>1, <1>5
    <2> QED BY <2>1, <2>2
  <1>10. TypeOK' /\ connection' = connection
    <2>1. announced' \in BOOLEAN
      BY Zenon DEF OpensClosed, IInv, TypeOK
    <2>2. meddled' \in SUBSET {"shown", "files"}
      BY DEF SocketOpens, Meddles, IInv, TypeOK
    <2> QED BY <1>8, <1>9, <2>1, <2>2 DEF IInv, TypeOK, SocketOpens
  <1>11. sock'[s].stage = "open" /\ sock'[s].of = c /\ sock'[s].first = None
    BY <1>6, <1>7, <1>8
  <1>12. /\ conn[c].timers = 0 /\ conn[c].pending = <<>> /\ conn[c].fetches = 0
    BY <1>2, <1>3 DEF IInv, Wiring, Standing, Standard
  <1>13. Standing(c)'
    BY <1>3, <1>5, <1>9, <1>10, <1>11, <1>12 DEF Standing
  <1>14. Standard(s)'
    BY <1>3, <1>5, <1>9, <1>11, <1>12 DEF Standard
  <1>15. \A t \in Sockets : t # s =>
            /\ sock[t].of # c
            /\ sock'[t].stage = sock[t].stage
            /\ sock'[t].of = sock[t].of
            /\ sock'[t].first = sock[t].first
    BY <1>3, <1>7, <1>8
  <1>16. Hailed(s)'
    BY <1>3, <1>5, <1>9, <1>11 DEF Hailed, Heard
  <1> QED BY <1>2, <1>5, <1>9, <1>10, <1>11, <1>13, <1>14, <1>15, <1>16, OneMoves

LEMMA SocketOpensInv ==
  ASSUME IInv, NEW s \in Sockets, SocketOpens(s)
  PROVE  IInv'
  BY OpensOwnInv, OpensClosedInv DEF SocketOpens

\* A socket is gone: one timer is armed for a connection in use, however the
\* socket went, unless it has no attempt left.
LEMMA SocketClosesInv ==
  ASSUME IInv, NEW s \in Sockets, SocketCloses(s)
  PROVE  IInv'
  <1>1. /\ conn \in [Conns -> ConnType] /\ sock \in [Sockets -> SocketType] /\ sock[s] \in SocketType
        /\ sock[s].stage # "free" /\ s # None
    BY SessionAssumption DEF SocketCloses, IInv, TypeOK
  <1>2. PICK c \in Conns : c = sock[s].of
    BY <1>1 DEF SocketType, IInv, Wiring, Standard
  <1>3. /\ conn[c] \in ConnType /\ c # None /\ conn[c].stage \in {"up", "closed"}
        /\ \A t \in Sockets : t # s => sock[t].of # c
    <2>1. c # None
      BY SessionAssumption
    <2>2. conn[c] \in ConnType /\ conn[c].stage # "new"
      BY <1>1, <1>2, <2>1 DEF IInv, Wiring, Standard
    <2>3. \A t \in Sockets : t # s => sock[t].of # c
      BY <1>2, <2>1 DEF IInv, Wiring, OneSocket
    <2> QED BY <2>1, <2>2, <2>3 DEF ConnType
  <1>4. conn[c].ws \in {s, None}
    BY <1>1, <1>3 DEF ConnType, IInv, Wiring, Standing
  <1>5. conn[c].stage = "up" => conn[c].ws = s /\ conn[c].timers = 0 /\ conn[c].fetches = 0
    <2> SUFFICES ASSUME conn[c].stage = "up"
                 PROVE  conn[c].ws = s /\ conn[c].timers = 0 /\ conn[c].fetches = 0
      OBVIOUS
    <2>1. sock[s].stage \in {"connecting", "open"}
      BY <1>1, <1>2 DEF SocketType, IInv, Wiring, Standard
    <2>2. conn[c].ws = s
      BY <1>2, <2>1 DEF IInv, Wiring, Standard
    <2> QED BY <1>1, <1>3, <2>2, WaysAre DEF IInv, OnItsWay
  <1>6. PICK j \in {conn[c], Scheduled(conn[c])} :
           conn' = [conn EXCEPT ![c] =
                      Scheduled([j EXCEPT !.isOpen = FALSE, !.ws = IF j.ws = s THEN None ELSE j.ws])]
    BY <1>2 DEF SocketCloses
  <1>7. /\ j \in ConnType /\ j.stage = conn[c].stage /\ j.fetches = conn[c].fetches
        /\ j.ws = conn[c].ws /\ j.pending = conn[c].pending
        /\ j.stage = "closed" => j.timers = conn[c].timers
        /\ j.stage = "up" => j.timers \in {0, 1}
    <2>1. CASE j = conn[c]
      BY <2>1, <1>3, <1>5
    <2>2. CASE j = Scheduled(conn[c])
      BY <2>2, <1>3, <1>5, ScheduledIs
    <2> QED BY <1>6, <2>1, <2>2
  <1> DEFINE g == [j EXCEPT !.isOpen = FALSE, !.ws = IF j.ws = s THEN None ELSE j.ws]
             k == Scheduled(g)
  <1>8. /\ g \in ConnType /\ g.stage = conn[c].stage /\ g.fetches = conn[c].fetches
        /\ g.ws = None /\ g.isOpen = FALSE /\ g.pending = conn[c].pending
        /\ g.timers = j.timers /\ g.attempts = j.attempts
    <2>1. (IF j.ws = s THEN None ELSE j.ws) = None
      BY <1>4, <1>7
    <2> QED BY <1>7, <2>1 DEF ConnType
  <1>9. conn' = [conn EXCEPT ![c] = k]
    BY <1>6
  <1> HIDE DEF g
  <1>10. /\ k \in ConnType /\ k.stage = conn[c].stage /\ k.fetches = conn[c].fetches
         /\ k.ws = None /\ k.isOpen = FALSE /\ k.pending = conn[c].pending
         /\ \/ k = g /\ (g.stage = "closed" \/ g.attempts = MaxRetries \/ g.timers > 0)
            \/ g.stage # "closed" /\ g.timers = 0 /\ k.timers = 1
    BY <1>8, ScheduledIs
  <1> HIDE DEF k
  <1>11. sock' = [sock EXCEPT ![s] = FreeSocket]
    BY DEF SocketCloses
  <1>12. /\ conn'[c] = k /\ sock'[s] = FreeSocket
         /\ (\A d \in Conns : d # c => conn'[d] = conn[d])
         /\ (\A t \in Sockets : t # s => sock'[t] = sock[t])
    BY <1>1, <1>9, <1>11
  <1>13. TypeOK' /\ connection' = connection
    <2>1. /\ conn' \in [Conns -> ConnType] /\ \A d \in Conns : Len(conn'[d].pending) <= MaxPending
          /\ sock' \in [Sockets -> SocketType]
      BY <1>1, <1>9, <1>10, <1>11, <1>12, Fresh DEF IInv, TypeOK
    <2>2. announced' \in BOOLEAN
      BY Zenon DEF SocketCloses, IInv, TypeOK, agent
    <2>3. meddled' \in SUBSET {"shown", "files"}
      BY DEF SocketCloses, Meddles, IInv, TypeOK
    <2> QED BY <2>1, <2>2, <2>3 DEF IInv, TypeOK, SocketCloses, Lost, agent
  <1>14. Standing(c)'
    <2>1. Standing(c)
      BY DEF IInv, Wiring
    <2>2. k.stage = "closed" => k.timers = 0
      BY <2>1, <1>7, <1>8, <1>10 DEF Standing
    <2> QED BY <2>1, <2>2, <1>3, <1>10, <1>12, <1>13 DEF Standing
  <1>15. Standard(s)'
    BY <1>12 DEF Standard, FreeSocket
  <1>16. conn'[c].stage = "up" =>
            Ways(conn'[c]) = 1 \/ (Ways(conn'[c]) = 0 /\ conn'[c].attempts = MaxRetries)
    BY <1>5, <1>7, <1>8, <1>10, <1>12 DEF Ways
  <1>17. sock'[s].of = None /\ sock'[s].first = None /\ sock'[s].stage = "free"
    BY <1>12 DEF FreeSocket
  <1>18. Hailed(s)'
    BY <1>17 DEF Hailed
  <1> QED BY <1>2, <1>3, <1>12, <1>13, <1>14, <1>15, <1>16, <1>17, <1>18, OneMoves

\* What is on the way to the client, and the agent's files, are of no account here.
LEMMA MessagesMove ==
  ASSUME IInv, TypeOK', UNCHANGED <<connection, conn>>,
         \A s \in Sockets : /\ sock'[s].stage = sock[s].stage
                            /\ sock'[s].of = sock[s].of
                            /\ sock'[s].first = sock[s].first
  PROVE  IInv'
  <1>1. ASSUME NEW d \in Conns PROVE Standing(d)'
    <2>1. conn[d].ws # None => conn[d].ws \in Sockets
      BY DEF IInv, TypeOK, ConnType
    <2> QED BY <2>1 DEF IInv, Wiring, Standing
  <1>2. ASSUME NEW s \in Sockets PROVE Standard(s)'
    BY DEF IInv, Wiring, Standard
  <1>3. OneSocket' /\ Greeted' /\ OnItsWay'
    BY DEF IInv, Wiring, OneSocket, Greeted, Hailed, OnItsWay
  <1> QED BY <1>1, <1>2, <1>3 DEF IInv, Wiring

LEMMA DeliverInv ==
  ASSUME IInv, NEW s \in Sockets, Deliver(s)
  PROVE  IInv'
  <1>1. /\ sock \in [Sockets -> SocketType] /\ sock[s] \in SocketType
        /\ sock[s].in \in Seq(News) /\ sock[s].in # <<>> /\ workspace \in FileMap
    BY DEF Deliver, IInv, TypeOK, SocketType
  <1> DEFINE i == Tail(sock[s].in)
             q == [sock[s] EXCEPT !.in = i]
             m == Head(sock[s].in)
  <1>2. sock' = [sock EXCEPT ![s] = q]
    BY <1>1 DEF Deliver
  <1>3. i \in Seq(News) /\ m \in News
    BY <1>1
  <1>4. q \in SocketType /\ q.stage = sock[s].stage /\ q.of = sock[s].of /\ q.first = sock[s].first
    <2> HIDE DEF i
    <2> QED BY <1>1, <1>3 DEF SocketType
  <1>5. Applied(m) \in FileMap
    <2> HIDE DEF m
    <2>1. CASE m.kind = "state"
      BY <1>3, <2>1 DEF Applied, News
    <2>2. CASE m.kind # "state"
      <3>1. m.path \in Files /\ m.contents \in Contents
        BY <1>3, <2>2 DEF News
      <3> QED BY <1>1, <2>2, <3>1 DEF Applied, FileMap
    <2> QED BY <2>1, <2>2
  <1> HIDE DEF q, i
  <1>6. TypeOK'
    <2>1. sock' \in [Sockets -> SocketType]
      BY <1>1, <1>2, <1>4
    <2>2. workspace' \in FileMap
      BY <1>5 DEF Deliver
    <2>3. meddled' \in SUBSET {"shown", "files"}
      BY DEF Deliver, IInv, TypeOK
    <2>4. announced' \in BOOLEAN
      BY Zenon DEF Deliver, IInv, TypeOK, agent
    <2>5. UNCHANGED <<connection, shown, conn, saved>>
      BY DEF Deliver, agent
    <2> QED BY <2>1, <2>2, <2>3, <2>4, <2>5 DEF IInv, TypeOK
  <1>7. \A t \in Sockets : /\ sock'[t].stage = sock[t].stage
                           /\ sock'[t].of = sock[t].of
                           /\ sock'[t].first = sock[t].first
    BY <1>1, <1>2, <1>4
  <1> QED BY <1>6, <1>7, MessagesMove DEF Deliver

\* A broadcast is of the right type and changes nothing but what is on the way.
LEMMA BroadcastIs ==
  ASSUME sock \in [Sockets -> SocketType], NEW m \in News, Broadcast(m)
  PROVE  /\ sock' \in [Sockets -> SocketType]
         /\ \A s \in Sockets : /\ sock'[s].stage = sock[s].stage
                               /\ sock'[s].of = sock[s].of
                               /\ sock'[s].first = sock[s].first
                               /\ sock[s].stage = "open" =>
                                     sock'[s].in = Append(sock[s].in, m)
  <1>1. ASSUME NEW s \in Sockets
        PROVE  /\ sock'[s] \in SocketType
               /\ sock'[s].stage = sock[s].stage
               /\ sock'[s].of = sock[s].of
               /\ sock'[s].first = sock[s].first
               /\ sock[s].stage = "open" => sock'[s].in = Append(sock[s].in, m)
    <2> DEFINE i == Append(sock[s].in, m)
    <2>1. i \in Seq(News) /\ sock[s] \in SocketType
      BY DEF SocketType
    <2>2. sock'[s] = IF sock[s].stage = "open" THEN [sock[s] EXCEPT !.in = i] ELSE sock[s]
      BY DEF Broadcast
    <2> HIDE DEF i
    <2>3. sock'[s] \in SocketType
          /\ sock'[s].stage = sock[s].stage
          /\ sock'[s].of = sock[s].of
          /\ sock'[s].first = sock[s].first
          /\ (sock[s].stage = "open" => sock'[s].in = i)
      BY <2>1, <2>2 DEF SocketType
    <2> QED BY <2>3 DEF i
  <1>2. DOMAIN sock' = Sockets /\ sock' = [s \in Sockets |-> sock'[s]]
    BY DEF Broadcast
  <1> QED BY <1>1, <1>2

LEMMA AgentInv ==
  ASSUME IInv, AgentSaves \/ AgentAnnounces
  PROVE  IInv'
  <1>1. sock \in [Sockets -> SocketType] /\ saved \in FileMap
    BY DEF IInv, TypeOK
  <1>2. PICK m \in News : Broadcast(m) /\ saved' \in FileMap
    <2>1. CASE AgentSaves
      <3>1. saved' \in FileMap
        BY <2>1, <1>1 DEF AgentSaves, FileMap
      <3> QED BY <2>1, <3>1 DEF AgentSaves, News, Snapshot
    <2>2. CASE AgentAnnounces
      BY <2>2, <1>1 DEF AgentAnnounces, News, Upsert
    <2> QED BY <2>1, <2>2
  <1>3. announced' \in BOOLEAN
    BY Zenon DEF AgentSaves, AgentAnnounces
  <1>4. UNCHANGED <<connection, shown, workspace, conn, meddled>>
    BY DEF AgentSaves, AgentAnnounces, client
  <1>5. sock' \in [Sockets -> SocketType]
        /\ \A s \in Sockets : /\ sock'[s].stage = sock[s].stage
                              /\ sock'[s].of = sock[s].of
                              /\ sock'[s].first = sock[s].first
    BY <1>1, <1>2, BroadcastIs
  <1>6. TypeOK'
    BY <1>2, <1>3, <1>4, <1>5 DEF IInv, TypeOK
  <1> QED BY <1>4, <1>5, <1>6, MessagesMove

-----------------------------------------------------------------------------
(* The theorems *)

LEMMA Inductive ==
  ASSUME IInv, [Next]_vars
  PROVE  IInv'
  <1>1. CASE Program
    BY <1>1, ConnectInv, CommandInv, CloseInv DEF Program
  <1>2. CASE Callback
    BY <1>2, TicketArrivesInv, TicketFailsInv, TimerFiresInv, SocketOpensInv, SocketClosesInv,
       DeliverInv DEF Callback
  <1>3. CASE AgentSaves \/ AgentAnnounces
    BY <1>3, AgentInv
  <1>4. CASE UNCHANGED vars
    <2>1. TypeOK'
      <3>1. announced' \in BOOLEAN
        BY <1>4, Zenon DEF IInv, TypeOK, vars, agent
      <3> QED BY <1>4, <3>1 DEF IInv, TypeOK, vars, client, agent
    <2> QED BY <1>4, <2>1, MessagesMove DEF vars, client
  <1> QED BY <1>1, <1>2, <1>3, <1>4 DEF Next

LEMMA SpecInv == Spec => []IInv
  BY InitInv, Inductive, PTL DEF Spec

\* The parts of the session's state keep their types.
THEOREM TypeCorrect == Spec => []TypeOK
  <1>1. IInv => TypeOK
    BY DEF IInv
  <1> QED BY <1>1, SpecInv, PTL

\* However tickets, sockets, timers and errors follow each other, a connection in
\* use has one way on, or none and no attempt left, and no second socket.
THEOREM NoSecondReconnect == Spec => []OneWayOn
  <1>1. IInv => OneWayOn
    <2> SUFFICES ASSUME IInv, NEW c \in Conns, conn[c].stage = "up"
                 PROVE  /\ Ways(conn[c]) = 1 \/ (Ways(conn[c]) = 0 /\ conn[c].attempts = MaxRetries)
                        /\ \A s \in Sockets : sock[s].of = c => s = conn[c].ws
      BY DEF OneWayOn, Ways
    <2>1. ASSUME NEW s \in Sockets, sock[s].of = c PROVE s = conn[c].ws
      <3>1. sock[s].stage \in {"free", "connecting", "open", "closing"}
        BY DEF IInv, TypeOK, SocketType
      <3>2. sock[s].stage # "free" /\ sock[s].stage # "closing"
        BY <2>1, SessionAssumption DEF IInv, Wiring, Standard
      <3> QED BY <3>1, <3>2, <2>1 DEF IInv, Wiring, Standard
    <2> QED BY <2>1 DEF IInv, OnItsWay
  <1> QED BY <1>1, SpecInv, PTL

\* On every open socket the agent hears session_init first, unless a listener gave a
\* command inside the open event.
THEOREM GreetedFirst == Spec => []CredentialsFirst
  <1>1. IInv => CredentialsFirst
    BY DEF IInv, Greeted, Hailed, Heard, CredentialsFirst
  <1> QED BY <1>1, SpecInv, PTL

-----------------------------------------------------------------------------
(* What the session shows *)

\* Actions that leave the shown state, the connection and what is open alone.
LEMMA NotShown ==
  ASSUME IInv, ShowsConnection,
         \/ Command \/ AgentSaves \/ AgentAnnounces \/ UNCHANGED vars
         \/ \E c \in Conns : TicketArrives(c) \/ TicketFails(c) \/ TimerFires(c)
         \/ \E s \in Sockets : Deliver(s)
  PROVE  ShowsConnection'
  <1>0. conn \in [Conns -> ConnType] /\ connection \in Conns \cup {None}
    BY DEF IInv, TypeOK
  <1>1. /\ connection' = connection /\ shown' = shown
        /\ "shown" \notin meddled' => "shown" \notin meddled
    BY DEF Command, AgentSaves, AgentAnnounces, TicketArrives, TicketFails, TimerFires, Deliver,
           vars, client
  <1>2. connection # None => conn'[connection].isOpen = conn[connection].isOpen
    <2> SUFFICES ASSUME connection # None
                 PROVE  conn'[connection].isOpen = conn[connection].isOpen
      OBVIOUS
    <2>1. CASE Command
      <3>1. PICK m \in Messages : conn' = [conn EXCEPT ![connection] =
                                             [Sent(connection, m) EXCEPT !.given = m]]
        <4>1. conn[connection].given + 1 \in Messages
          BY <1>0, <2>1, SessionAssumption DEF Command, Messages, ConnType
        <4> QED BY <2>1, <4>1 DEF Command
      <3>2. /\ conn[connection] \in ConnType /\ connection \in Conns
            /\ Len(conn[connection].pending) <= MaxPending
        BY <1>0 DEF IInv, TypeOK
      <3>3. Sent(connection, m) \in ConnType /\ Sent(connection, m).isOpen = conn[connection].isOpen
        BY <3>2, SentIs
      <3> QED BY <3>1, <3>2, <3>3, <1>0 DEF ConnType
    <2>2. CASE \E c \in Conns : TicketArrives(c)
      BY <2>2, <1>0 DEF TicketArrives, ConnType
    <2>3. CASE \E c \in Conns : TicketFails(c)
      <3>1. PICK c \in Conns : TicketFails(c)
        BY <2>3
      <3> DEFINE f == conn[c].fetches - 1
                 k == [conn[c] EXCEPT !.fetches = f]
      <3>2. conn' = [conn EXCEPT ![c] = Scheduled(k)]
        BY <3>1 DEF TicketFails
      <3>3. f \in Nat /\ conn[c] \in ConnType
        BY <3>1, <1>0 DEF TicketFails, ConnType
      <3> HIDE DEF f
      <3>4. k \in ConnType /\ k.isOpen = conn[c].isOpen
        BY <3>3 DEF ConnType
      <3> HIDE DEF k
      <3> QED BY <3>2, <3>4, <1>0, ScheduledIs
    <2>4. CASE \E c \in Conns : TimerFires(c)
      BY <2>4, <1>0 DEF TimerFires, ConnType
    <2>5. CASE AgentSaves \/ AgentAnnounces \/ UNCHANGED vars \/ \E s \in Sockets : Deliver(s)
      BY <2>5 DEF AgentSaves, AgentAnnounces, Deliver, vars, client
    <2> QED BY <2>1, <2>2, <2>3, <2>4, <2>5
  <1> QED BY <1>1, <1>2 DEF ShowsConnection

LEMMA OpensShown ==
  ASSUME IInv, ShowsConnection, NEW s \in Sockets, SocketOpens(s)
  PROVE  ShowsConnection'
  <1>1. /\ conn \in [Conns -> ConnType] /\ connection \in Conns \cup {None}
        /\ sock[s].of \in Conns /\ shown' = "connected" /\ connection' = connection
    BY Opening DEF SocketOpens, IInv, TypeOK
  <1>2. CASE OpensOwn(s)
    <2>1. sock[s].of = connection /\ conn[connection] \in ConnType /\ connection # None
      BY <1>1, <1>2, SessionAssumption DEF OpensOwn
    <2>2. conn'[connection].isOpen = TRUE
      BY <1>1, <1>2, <2>1 DEF OpensOwn
    <2> QED BY <1>1, <2>1, <2>2 DEF ShowsConnection
  <1>3. CASE OpensClosed(s)
    <2> SUFFICES ASSUME "shown" \notin meddled' PROVE ShowsConnection'
      BY DEF ShowsConnection
    <2>1. sock[s].of # connection
      BY <1>3 DEF OpensClosed
    <2>2. shown = "connected" /\ "shown" \notin meddled
      BY <2>1 DEF SocketOpens, Meddles
    <2>3. connection # None /\ conn[connection].isOpen
      BY <2>2 DEF ShowsConnection
    <2>4. conn'[connection].isOpen = conn[connection].isOpen
      <3> DEFINE m == Sent(connection, Hello)
                 k == [conn[sock[s].of] EXCEPT !.isOpen = TRUE, !.attempts = 0]
      <3>1. conn' = [conn EXCEPT ![sock[s].of] = k, ![connection] = m]
        BY <1>3, <2>3 DEF OpensClosed
      <3>2. m.isOpen = conn[connection].isOpen
        BY <1>1, <2>3, Fresh, SentIs DEF IInv, TypeOK
      <3> HIDE DEF m, k
      <3> QED BY <1>1, <2>1, <2>3, <3>1, <3>2
    <2> QED BY <1>1, <2>3, <2>4 DEF ShowsConnection
  <1> QED BY <1>2, <1>3 DEF SocketOpens

LEMMA ClosesShown ==
  ASSUME IInv, ShowsConnection, NEW s \in Sockets, SocketCloses(s)
  PROVE  ShowsConnection'
  <1>1. /\ conn \in [Conns -> ConnType] /\ connection \in Conns \cup {None}
        /\ shown' = "disconnected" /\ connection' = connection
    BY DEF SocketCloses, Lost, IInv, TypeOK
  <1>2. PICK c \in Conns : c = sock[s].of
    BY SessionAssumption DEF SocketCloses, IInv, TypeOK, SocketType, Wiring, Standard
  <1>3. PICK j \in {conn[c], Scheduled(conn[c])} :
           conn' = [conn EXCEPT ![c] =
                      Scheduled([j EXCEPT !.isOpen = FALSE, !.ws = IF j.ws = s THEN None ELSE j.ws])]
    BY <1>2 DEF SocketCloses
  <1>4. CASE c = connection
    <2> DEFINE g == [j EXCEPT !.isOpen = FALSE, !.ws = IF j.ws = s THEN None ELSE j.ws]
    <2>1. j \in ConnType
      BY <1>1, <1>3, ScheduledIs
    <2>2. g \in ConnType /\ g.isOpen = FALSE
      BY <2>1 DEF ConnType
    <2>3. conn' = [conn EXCEPT ![c] = Scheduled(g)]
      BY <1>3
    <2> HIDE DEF g
    <2>4. conn'[c].isOpen = FALSE
      BY <1>1, <2>2, <2>3, ScheduledIs
    <2> QED BY <1>1, <1>4, <2>4, SessionAssumption DEF ShowsConnection
  <1>5. CASE c # connection
    <2>1. "shown" \notin meddled' => shown = "disconnected" /\ "shown" \notin meddled
      BY <1>2, <1>5 DEF SocketCloses, Meddles
    <2>2. connection # None => conn'[connection] = conn[connection]
      BY <1>1, <1>3, <1>5
    <2> QED BY <1>1, <2>1, <2>2 DEF ShowsConnection
  <1> QED BY <1>4, <1>5

\* As long as no connection that was closed has changed it, the session shows
\* whether its connection is open.
THEOREM ShowsItsConnection == Spec => []ShowsConnection
  <1>1. Init => ShowsConnection
    BY DEF Init, ShowsConnection
  <1>2. ASSUME IInv, ShowsConnection, [Next]_vars PROVE ShowsConnection'
    <2>1. CASE Connect
      <3>1. PICK c \in Conns : /\ conn[c].stage = "new" /\ connection' = c
                               /\ conn' = [conn EXCEPT ![c].stage = "up", ![c].fetches = 1]
        BY <2>1 DEF Connect
      <3>2. conn \in [Conns -> ConnType] /\ conn[c] \in ConnType
        BY <1>2 DEF IInv, TypeOK
      <3>3. conn[c].isOpen = FALSE
        <4>1. conn[c].isOpen \in BOOLEAN
          BY <3>2 DEF ConnType
        <4>2. ~conn[c].isOpen
          BY <1>2, <3>1 DEF IInv, Wiring, Standing
        <4> QED BY <4>1, <4>2
      <3>4. conn'[c].isOpen = FALSE
        BY <3>1, <3>2, <3>3 DEF ConnType
      <3>5. shown' = "connecting" /\ c # None
        BY <2>1, SessionAssumption DEF Connect
      <3> QED BY <3>1, <3>4, <3>5 DEF ShowsConnection
    <2>2. CASE Close
      BY <2>2 DEF Close, ShowsConnection
    <2>3. CASE \E s \in Sockets : SocketOpens(s) \/ SocketCloses(s)
      BY <2>3, <1>2, OpensShown, ClosesShown
    <2>4. CASE \/ Command \/ AgentSaves \/ AgentAnnounces \/ UNCHANGED vars
               \/ \E c \in Conns : TicketArrives(c) \/ TicketFails(c) \/ TimerFires(c)
               \/ \E s \in Sockets : Deliver(s)
      BY <2>4, <1>2, NotShown
    <2> QED BY <1>2, <2>1, <2>2, <2>3, <2>4 DEF Next, Program, Callback
  <1> QED BY <1>1, <1>2, SpecInv, PTL DEF Spec
=============================================================================
