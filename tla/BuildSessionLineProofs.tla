----------------------- MODULE BuildSessionLineProofs -----------------------
(***************************************************************************)
(* Proofs about what passes between a session and its agent: the commands  *)
(* one way, the agent's files the other.  They rest on the invariant of    *)
(* BuildSessionProofs, by which an event of another connection leaves the  *)
(* session's open socket alone.                                            *)
(***************************************************************************)
EXTENDS BuildSessionProofs, SequenceTheorems

-----------------------------------------------------------------------------
(* The files *)

\* What has not arrived on the session's socket ends with the agent's state.
LastWord ==
    connection # None /\ conn[connection].isOpen =>
        LET in == sock[conn[connection].ws].in
        IN  /\ in # <<>> /\ ~announced => in[Len(in)] = Snapshot(saved)
            /\ in = <<>> /\ ~announced /\ "files" \notin meddled => workspace = saved

\* Nothing happens to the session's socket, its files or the agent's.
LEMMA NothingArrives ==
  ASSUME IInv, LastWord, connection' = connection,
         UNCHANGED <<workspace, agent>>,
         "files" \notin meddled' => "files" \notin meddled,
         connection # None => \/ ~conn'[connection].isOpen
                              \/ /\ conn[connection].isOpen
                                 /\ conn'[connection].ws = conn[connection].ws
                                 /\ sock'[conn[connection].ws].in = sock[conn[connection].ws].in
  PROVE  LastWord'
  BY DEF LastWord, agent

\* The open socket of the session's connection.
LEMMA OpenSocket ==
  ASSUME IInv, connection # None, conn[connection].isOpen
  PROVE  /\ connection \in Conns /\ conn[connection] \in ConnType
         /\ conn[connection].ws \in Sockets
         /\ conn[connection].ws # None
         /\ sock[conn[connection].ws].of = connection
         /\ sock[conn[connection].ws].stage = "open"
         /\ conn[connection].fetches = 0
         /\ conn[connection].pending \in Seq(Messages)
  <1>1. connection \in Conns /\ conn[connection] \in ConnType /\ conn[connection].stage = "up"
    BY DEF IInv, TypeOK, Wiring, Standing
  <1>2. conn[connection].ws \in Sockets /\ conn[connection].ws # None
    BY <1>1 DEF ConnType, IInv, Wiring, Standing
  <1>3. sock[conn[connection].ws].of = connection /\ sock[conn[connection].ws].stage = "open"
    BY <1>1, <1>2 DEF IInv, Wiring, Standing
  <1>4. conn[connection].fetches = 0
    BY <1>1, <1>2, WaysAre DEF IInv, OnItsWay
  <1> QED BY <1>1, <1>2, <1>3, <1>4 DEF ConnType

LEMMA CommandWord ==
  ASSUME IInv, LastWord, Command
  PROVE  LastWord'
  <1>1. /\ connection \in Conns /\ connection # None /\ conn \in [Conns -> ConnType]
        /\ sock \in [Sockets -> SocketType]
        /\ Len(conn[connection].pending) <= MaxPending
    BY DEF Command, IInv, TypeOK
  <1>2. PICK m \in Messages :
           /\ conn' = [conn EXCEPT ![connection] = [Sent(connection, m) EXCEPT !.given = m]]
           /\ sock' = Wired(sock, connection, m)
    <2>1. conn[connection].given + 1 \in Messages
      BY <1>1, SessionAssumption DEF Command, Messages, ConnType
    <2> QED BY <2>1 DEF Command
  <1>3. /\ Sent(connection, m) \in ConnType
        /\ Sent(connection, m).isOpen = conn[connection].isOpen
        /\ Sent(connection, m).ws = conn[connection].ws
    BY <1>1, SentIs
  <1>4. conn'[connection].isOpen = conn[connection].isOpen
        /\ conn'[connection].ws = conn[connection].ws
    BY <1>1, <1>2, <1>3 DEF ConnType
  <1>5. \A s \in Sockets : sock'[s].in = sock[s].in
    BY <1>1, <1>2, WiredIs
  <1>6. conn[connection].isOpen \in BOOLEAN
    BY <1>1 DEF ConnType
  <1> QED BY <1>1, <1>4, <1>5, <1>6, OpenSocket, NothingArrives DEF Command

\* Tickets and timers, of any connection.
LEMMA TicketWord ==
  ASSUME IInv, LastWord, NEW c \in Conns,
         TicketArrives(c) \/ TicketFails(c) \/ TimerFires(c)
  PROVE  LastWord'
  <1>1. /\ conn \in [Conns -> ConnType] /\ sock \in [Sockets -> SocketType]
        /\ connection \in Conns \cup {None}
        /\ UNCHANGED <<connection, workspace, meddled, agent>>
    BY DEF TicketArrives, TicketFails, TimerFires, IInv, TypeOK
  <1> SUFFICES ASSUME connection # None
               PROVE  \/ ~conn'[connection].isOpen
                      \/ /\ conn[connection].isOpen
                         /\ conn'[connection].ws = conn[connection].ws
                         /\ sock'[conn[connection].ws].in = sock[conn[connection].ws].in
    BY <1>1, NothingArrives
  <1>2. CASE TicketArrives(c)
    <2>1. PICK s \in Sockets :
             /\ sock[s].stage = "free"
             /\ sock' = [sock EXCEPT ![s] = [FreeSocket EXCEPT !.stage = "connecting", !.of = c]]
             /\ conn' = [conn EXCEPT ![c].fetches = conn[c].fetches - 1, ![c].ws = s]
      BY <1>2 DEF TicketArrives, NewSocket
    <2>2. conn'[connection].isOpen = conn[connection].isOpen
      <3> DEFINE f == conn[c].fetches - 1
                 k == [conn[c] EXCEPT !.fetches = f, !.ws = s]
      <3>1. conn' = [conn EXCEPT ![c] = k] /\ conn[c] \in ConnType
        BY <1>1, <2>1
      <3> HIDE DEF f
      <3>2. k.isOpen = conn[c].isOpen
        BY <3>1 DEF ConnType
      <3> HIDE DEF k
      <3> QED BY <1>1, <3>1, <3>2
    <2>3. CASE ~conn[connection].isOpen
      BY <2>2, <2>3
    <2>4. CASE conn[connection].isOpen
      <3>1. c # connection
        <4>1. conn[c].fetches > 0 /\ conn[connection].fetches = 0
          BY <1>2, <2>4, OpenSocket DEF TicketArrives
        <4> QED BY <4>1
      <3>2. conn'[connection] = conn[connection]
        BY <1>1, <2>1, <3>1
      <3>3. conn[connection].ws \in Sockets /\ conn[connection].ws # s
        BY <2>1, <2>4, OpenSocket
      <3> QED BY <1>1, <2>1, <2>4, <3>2, <3>3
    <2> QED BY <2>3, <2>4
  <1>3. CASE TicketFails(c)
    <2> DEFINE f == conn[c].fetches - 1
               k == [conn[c] EXCEPT !.fetches = f]
    <2>1. conn' = [conn EXCEPT ![c] = Scheduled(k)] /\ sock' = sock
      BY <1>3 DEF TicketFails
    <2>2. f \in Nat /\ conn[c] \in ConnType
      BY <1>1, <1>3 DEF TicketFails, ConnType
    <2> HIDE DEF f
    <2>3. k \in ConnType /\ k.isOpen = conn[c].isOpen /\ k.ws = conn[c].ws
      BY <2>2 DEF ConnType
    <2> HIDE DEF k
    <2>4. Scheduled(k).isOpen = conn[c].isOpen /\ Scheduled(k).ws = conn[c].ws
      BY <2>3, ScheduledIs
    <2>5. conn'[connection].isOpen = conn[connection].isOpen
          /\ conn'[connection].ws = conn[connection].ws
      BY <1>1, <2>1, <2>4
    <2> QED BY <2>1, <2>5
  <1>4. CASE TimerFires(c)
    <2>1. conn'[connection].isOpen = conn[connection].isOpen
          /\ conn'[connection].ws = conn[connection].ws /\ sock' = sock
      BY <1>1, <1>4 DEF TimerFires, ConnType
    <2> QED BY <2>1
  <1> QED BY <1>2, <1>3, <1>4

\* The session's connection when its socket opens.
LEMMA OpensOwnIs ==
  ASSUME IInv, NEW s \in Sockets, connection \in Conns, OpensOwn(s)
  PROVE  \E b \in conn[connection].given .. MaxCommands :
            \E k : /\ conn' = [conn EXCEPT ![connection] = k]
                  /\ conn'[connection] = k
                  /\ k.isOpen = TRUE /\ k.ws = conn[connection].ws
                  /\ k.stage = conn[connection].stage /\ k.pending = <<>>
                  /\ k.handed = conn[connection].handed \o Further(conn[connection].given, b)
                                    \o conn[connection].pending
                  /\ k.dropped = conn[connection].dropped /\ k.given = b
                  /\ k.eager = conn[connection].eager \cup (conn[connection].given + 1 .. b)
  <1>1. /\ conn \in [Conns -> ConnType] /\ conn[connection] \in ConnType
        /\ sock[s].of = connection /\ conn[connection].given \in Nat /\ MaxCommands \in Nat
    BY SessionAssumption DEF OpensOwn, IInv, TypeOK, ConnType
  <1>2. PICK b \in conn[connection].given .. MaxCommands :
           conn' = [conn EXCEPT ![connection] =
                 [conn[connection] EXCEPT !.isOpen = TRUE, !.attempts = 0, !.given = b,
                     !.handed = conn[connection].handed \o Further(conn[connection].given, b)
                                    \o conn[connection].pending,
                     !.pending = <<>>,
                     !.eager = conn[connection].eager \cup (conn[connection].given + 1 .. b)]]
    <2>1. PICK a \in conn[connection].given .. MaxCommands : \E b \in a .. MaxCommands :
             conn' = [conn EXCEPT ![connection] =
                 [conn[connection] EXCEPT !.isOpen = TRUE, !.attempts = 0, !.given = b,
                     !.handed = conn[connection].handed \o Further(conn[connection].given, b)
                                    \o conn[connection].pending,
                     !.pending = <<>>,
                     !.eager = conn[connection].eager \cup (conn[connection].given + 1 .. b)]]
      BY <1>1 DEF OpensOwn
    <2>2. \A b \in a .. MaxCommands : b \in conn[connection].given .. MaxCommands
      BY <1>1
    <2> QED BY <2>1, <2>2
  <1> DEFINE h == conn[connection].handed \o Further(conn[connection].given, b)
                      \o conn[connection].pending
             e == conn[connection].eager \cup (conn[connection].given + 1 .. b)
             k == [conn[connection] EXCEPT !.isOpen = TRUE, !.attempts = 0, !.given = b,
                                           !.handed = h, !.pending = <<>>, !.eager = e]
  <1>4. conn' = [conn EXCEPT ![connection] = k]
    BY <1>2
  <1>5. /\ k.isOpen = TRUE /\ k.ws = conn[connection].ws
        /\ k.stage = conn[connection].stage /\ k.pending = <<>> /\ k.handed = h
        /\ k.dropped = conn[connection].dropped /\ k.given = b /\ k.eager = e
    <2> HIDE DEF h, e
    <2> QED BY <1>1 DEF ConnType
  <1> HIDE DEF k
  <1>6. conn'[connection] = k
    BY <1>1, <1>4
  <1> QED BY <1>4, <1>5, <1>6

\* A socket that opens brings the agent's state; of another connection, it does
\* nothing to the session's socket.
LEMMA OpensWord ==
  ASSUME IInv, LastWord, NEW s \in Sockets, SocketOpens(s)
  PROVE  LastWord'
  <1>1. /\ conn \in [Conns -> ConnType] /\ sock \in [Sockets -> SocketType]
        /\ connection \in Conns \cup {None}
        /\ sock[s].stage = "connecting" /\ sock[s].of \in Conns
        /\ conn[sock[s].of].ws = s
        /\ UNCHANGED <<connection, workspace, saved>>
        /\ "files" \notin meddled' => "files" \notin meddled
    BY Opening DEF SocketOpens, Meddles, IInv, TypeOK
  <1>2. CASE OpensOwn(s)
    <2>1. /\ sock[s].of = connection /\ connection \in Conns /\ conn[connection] \in ConnType
          /\ conn[connection].ws = s
      BY <1>1, <1>2 DEF OpensOwn
    <2>2. conn'[connection].ws = s
      BY <1>1, <1>2, <2>1, OpensOwnIs
    <2>30. \E a : sock' = [sock EXCEPT ![s] = [Carrying(sock[s], Head(Greeting(conn[sock[s].of], a)))
                               EXCEPT !.stage = "open", !.in = <<Snapshot(saved)>>]]
      BY <1>2 DEF OpensOwn
    <2>3. PICK a : sock' = [sock EXCEPT ![s] = [Carrying(sock[s], Head(Greeting(conn[sock[s].of], a)))
                               EXCEPT !.stage = "open", !.in = <<Snapshot(saved)>>]]
      BY <2>30
    <2> DEFINE d == Carrying(sock[s], Head(Greeting(conn[sock[s].of], a)))
    <2>4. sock' = [sock EXCEPT ![s] = [d EXCEPT !.stage = "open", !.in = <<Snapshot(saved)>>]]
      BY <2>3
    <2>5. DOMAIN d = DOMAIN sock[s] /\ "in" \in DOMAIN sock[s]
      BY <1>1 DEF Carrying, SocketType
    <2> HIDE DEF d
    <2>6. sock'[s].in = <<Snapshot(saved)>>
      BY <1>1, <2>4, <2>5
    <2> QED BY <1>1, <2>1, <2>2, <2>6 DEF LastWord
  <1>3. CASE OpensClosed(s)
    <2> SUFFICES ASSUME connection # None
                 PROVE  \/ ~conn'[connection].isOpen
                        \/ /\ conn[connection].isOpen
                           /\ conn'[connection].ws = conn[connection].ws
                           /\ sock'[conn[connection].ws].in = sock[conn[connection].ws].in
      <3>1. UNCHANGED agent
        BY <1>1, <1>3 DEF OpensClosed, agent
      <3> QED BY <1>1, <3>1, NothingArrives
    <2> DEFINE m == Sent(connection, Hello)
               k == [conn[sock[s].of] EXCEPT !.isOpen = TRUE, !.attempts = 0]
               x == [sock[s] EXCEPT !.stage = "open", !.in = <<Snapshot(saved)>>]
               q == [sock EXCEPT ![s] = x]
    <2>1. /\ sock[s].of # connection
          /\ conn' = [conn EXCEPT ![sock[s].of] = k, ![connection] = m]
          /\ sock' = Wired([sock EXCEPT ![s].stage = "open", ![s].in = <<Snapshot(saved)>>],
                           connection, Hello)
      BY <1>3 DEF OpensClosed
    <2>2. q = [sock EXCEPT ![s].stage = "open", ![s].in = <<Snapshot(saved)>>]
      BY <1>1
    <2>3. m.isOpen = conn[connection].isOpen /\ m.ws = conn[connection].ws
      BY <1>1, Fresh, SentIs DEF IInv, TypeOK
    <2>4. conn'[connection].isOpen = conn[connection].isOpen
          /\ conn'[connection].ws = conn[connection].ws
      <3> HIDE DEF m, k
      <3> QED BY <1>1, <2>1, <2>3
    <2>5. q \in [Sockets -> SocketType]
      <3>1. <<Snapshot(saved)>> \in Seq(News)
        BY SnapshotIs DEF IInv, TypeOK
      <3>2. x \in SocketType
        BY <1>1, <3>1 DEF SocketType
      <3> HIDE DEF x
      <3> QED BY <1>1, <3>2
    <2>6. conn[connection].isOpen => q[conn[connection].ws] = sock[conn[connection].ws]
                                     /\ conn[connection].ws \in Sockets
      BY <1>1, <2>1, OpenSocket
    <2>7. sock' = Wired(q, connection, Hello)
      BY <2>1, <2>2
    <2> HIDE DEF q
    <2>8. \A t \in Sockets : sock'[t].in = q[t].in
      BY <1>1, <2>5, <2>7, Fresh, WiredIs
    <2> QED BY <2>4, <2>6, <2>8
  <1> QED BY <1>2, <1>3 DEF SocketOpens

LEMMA ClosesWord ==
  ASSUME IInv, LastWord, NEW s \in Sockets, SocketCloses(s)
  PROVE  LastWord'
  <1>1. /\ conn \in [Conns -> ConnType] /\ sock \in [Sockets -> SocketType]
        /\ connection \in Conns \cup {None}
        /\ UNCHANGED <<connection, workspace, agent>>
        /\ "files" \notin meddled' => "files" \notin meddled
    BY DEF SocketCloses, Meddles, IInv, TypeOK
  <1>2. PICK c \in Conns : c = sock[s].of
    BY SessionAssumption DEF SocketCloses, IInv, TypeOK, SocketType, Wiring, Standard
  <1>3. PICK j \in {conn[c], Scheduled(conn[c])} :
           conn' = [conn EXCEPT ![c] =
                      Scheduled([j EXCEPT !.isOpen = FALSE, !.ws = IF j.ws = s THEN None ELSE j.ws])]
    BY <1>2 DEF SocketCloses
  <1> SUFFICES ASSUME connection # None
               PROVE  \/ ~conn'[connection].isOpen
                      \/ /\ conn[connection].isOpen
                         /\ conn'[connection].ws = conn[connection].ws
                         /\ sock'[conn[connection].ws].in = sock[conn[connection].ws].in
    BY <1>1, NothingArrives
  <1>4. CASE c = connection
    <2> DEFINE g == [j EXCEPT !.isOpen = FALSE, !.ws = IF j.ws = s THEN None ELSE j.ws]
    <2>1. j \in ConnType
      BY <1>1, <1>3, ScheduledIs
    <2>2. g \in ConnType /\ g.isOpen = FALSE
      BY <2>1 DEF ConnType
    <2>3. conn' = [conn EXCEPT ![c] = Scheduled(g)]
      BY <1>3
    <2> HIDE DEF g
    <2>4. conn'[c].isOpen = FALSE
      BY <1>1, <2>2, <2>3, ScheduledIs
    <2> QED BY <1>4, <2>4
  <1>5. CASE c # connection
    <2>1. conn'[connection] = conn[connection]
      BY <1>1, <1>3, <1>5
    <2>2. conn[connection].isOpen => conn[connection].ws \in Sockets /\ conn[connection].ws # s
      BY <1>2, <1>5, OpenSocket
    <2>3. sock' = [sock EXCEPT ![s] = FreeSocket]
      BY DEF SocketCloses
    <2> QED BY <1>1, <2>1, <2>2, <2>3
  <1> QED BY <1>4, <1>5

LEMMA LastOfTail ==
  ASSUME NEW T, NEW q \in Seq(T), q # <<>>
  PROVE  /\ Tail(q) # <<>> => Tail(q)[Len(Tail(q))] = q[Len(q)]
         /\ Tail(q) = <<>> => Head(q) = q[Len(q)]
  <1>1. /\ Len(q) \in Nat /\ Len(q) > 0
        /\ Len(Tail(q)) = Len(q) - 1
        /\ Tail(q) \in Seq(T)
        /\ Head(q) = q[1]
    OBVIOUS
  <1>2. ASSUME Tail(q) = <<>> PROVE Len(q) = 1
    BY <1>1, <1>2
  <1>3. ASSUME Tail(q) # <<>> PROVE Tail(q)[Len(q) - 1] = q[Len(q)]
    <2>1. Len(Tail(q)) # 0
      BY <1>1, <1>3
    <2>2. Len(q) - 1 \in 1 .. Len(q) - 1
      BY <1>1, <2>1
    <2>3. \A i \in 1 .. Len(q) - 1 : Tail(q)[i] = q[i + 1]
      BY <1>1, HeadTailProperties
    <2> QED BY <1>1, <2>2, <2>3
  <1> QED BY <1>1, <1>2, <1>3

\* The last message to arrive is the agent's last word.
LEMMA DeliverWord ==
  ASSUME IInv, LastWord, NEW s \in Sockets, Deliver(s)
  PROVE  LastWord'
  <1>1. /\ conn \in [Conns -> ConnType] /\ sock \in [Sockets -> SocketType] /\ sock[s] \in SocketType
        /\ sock[s].in \in Seq(News) /\ sock[s].in # <<>> /\ sock[s].stage = "open"
        /\ UNCHANGED <<connection, conn, saved, announced>>
        /\ workspace' = Applied(Head(sock[s].in))
    BY DEF Deliver, IInv, TypeOK, SocketType, agent
  <1> DEFINE i == Tail(sock[s].in)
             q == [sock[s] EXCEPT !.in = i]
  <1>0. i = Tail(sock[s].in) /\ sock[s].in \in Seq(News) /\ sock[s].in # <<>>
    BY <1>1
  <1>2. sock' = [sock EXCEPT ![s] = q]
    BY <1>1 DEF Deliver
  <1>3. q.in = i
    BY <1>1 DEF SocketType
  <1> SUFFICES ASSUME connection # None, conn[connection].isOpen, ~announced
               PROVE  LET in == sock'[conn[connection].ws].in
                      IN  /\ in # <<>> => in[Len(in)] = Snapshot(saved)
                          /\ in = <<>> /\ "files" \notin meddled' => workspace' = saved
    BY <1>1 DEF LastWord
  <1>4. CASE s = conn[connection].ws
    <2>1. sock[s].in[Len(sock[s].in)] = Snapshot(saved)
      BY <1>1, <1>4 DEF LastWord
    <2>2. sock'[s].in = i
      BY <1>1, <1>2, <1>3
    <2>3. i # <<>> => i[Len(i)] = Snapshot(saved)
      <3> HIDE DEF i
      <3> QED BY <2>1, <1>0, LastOfTail
    <2>4. i = <<>> => Head(sock[s].in) = Snapshot(saved)
      <3> HIDE DEF i
      <3> QED BY <2>1, <1>0, LastOfTail
    <2>5. i = <<>> => workspace' = saved
      BY <1>1, <2>4 DEF Applied, Snapshot
    <2> QED BY <1>4, <2>2, <2>3, <2>5
  <1>5. CASE s # conn[connection].ws
    <2>1. sock[s].of # connection
      BY <1>1, <1>5, OpenSocket, SessionAssumption DEF IInv, Wiring, OneSocket
    <2>2. "files" \in meddled'
      BY <2>1 DEF Deliver
    <2>3. sock'[conn[connection].ws].in = sock[conn[connection].ws].in
      BY <1>1, <1>2, <1>5, OpenSocket
    <2> QED BY <2>2, <2>3 DEF LastWord
  <1> QED BY <1>4, <1>5

LEMMA AgentWord ==
  ASSUME IInv, LastWord, AgentSaves \/ AgentAnnounces
  PROVE  LastWord'
  <1>1. /\ sock \in [Sockets -> SocketType] /\ saved \in FileMap
        /\ UNCHANGED <<connection, conn, workspace, meddled>>
    BY DEF AgentSaves, AgentAnnounces, client, IInv, TypeOK
  <1>2. CASE AgentAnnounces
    <2>1. announced'
      BY <1>2, Zenon DEF AgentAnnounces
    <2> QED BY <2>1 DEF LastWord
  <1>3. CASE AgentSaves
    <2>1. saved' \in FileMap
      BY <1>1, <1>3 DEF AgentSaves, FileMap
    <2>2. Snapshot(saved') \in News /\ Broadcast(Snapshot(saved'))
      BY <1>3, <2>1 DEF AgentSaves, News, Snapshot
    <2> SUFFICES ASSUME connection # None, conn[connection].isOpen
                 PROVE  LET in == sock'[conn[connection].ws].in
                        IN  in # <<>> /\ in[Len(in)] = Snapshot(saved')
      BY <1>1 DEF LastWord
    <2> DEFINE w == conn[connection].ws
    <2>3. w \in Sockets /\ sock[w].stage = "open" /\ sock[w].in \in Seq(News)
      BY <1>1, OpenSocket DEF SocketType
    <2>4. sock'[w].in = Append(sock[w].in, Snapshot(saved'))
      BY <1>1, <2>2, <2>3, BroadcastIs
    <2> HIDE DEF w
    <2>5. sock'[w].in # <<>> /\ sock'[w].in[Len(sock'[w].in)] = Snapshot(saved')
      <3> DEFINE x == Snapshot(saved')
                 y == sock[w].in
                 z == sock'[w].in
      <3>1. z = Append(y, x) /\ y \in Seq(News) /\ x \in News
        BY <2>2, <2>3, <2>4
      <3> HIDE DEF x, y, z
      <3>2. z # <<>> /\ z[Len(z)] = x
        BY <3>1
      <3> QED BY <3>2 DEF x, z
    <2> QED BY <2>5 DEF w
  <1> QED BY <1>2, <1>3

\* Whatever was lost with earlier sockets, the session has the agent's files when
\* the agent's state has arrived, unless a closed connection delivers messages.
THEOREM FilesCatchUp == Spec => []CatchesUp
  <1>1. Init => LastWord
    BY DEF Init, LastWord
  <1>2. ASSUME IInv, LastWord, [Next]_vars PROVE LastWord'
    <2>1. CASE Connect
      <3>1. PICK c \in Conns : /\ conn[c].stage = "new" /\ connection' = c
                               /\ conn' = [conn EXCEPT ![c].stage = "up", ![c].fetches = 1]
        BY <2>1 DEF Connect
      <3>2. conn \in [Conns -> ConnType] /\ ~conn[c].isOpen
        BY <1>2, <3>1 DEF IInv, TypeOK, Wiring, Standing
      <3>3. conn'[c].isOpen = conn[c].isOpen
        BY <3>1, <3>2 DEF ConnType
      <3> QED BY <3>1, <3>2, <3>3 DEF LastWord
    <2>2. CASE Close
      BY <2>2 DEF Close, LastWord
    <2>3. CASE Command
      BY <1>2, <2>3, CommandWord
    <2>4. CASE Callback
      BY <1>2, <2>4, TicketWord, OpensWord, ClosesWord, DeliverWord DEF Callback
    <2>5. CASE AgentSaves \/ AgentAnnounces
      BY <1>2, <2>5, AgentWord
    <2>6. CASE UNCHANGED vars
      BY <1>2, <2>6 DEF LastWord, vars, client, agent
    <2> QED BY <1>2, <2>1, <2>2, <2>3, <2>4, <2>5, <2>6 DEF Next, Program
  <1>3. LastWord => CatchesUp
    BY DEF LastWord, CatchesUp
  <1> QED BY <1>1, <1>2, <1>3, SpecInv, PTL DEF Spec

-----------------------------------------------------------------------------
(* The commands *)

\* A line of messages, after g commands of which those in d were dropped and those in
\* e may overtake.
InLine(l, d, g, e) ==
    /\ \A i, j \in 1 .. Len(l) : i < j /\ l[i] # Hello /\ l[j] # Hello =>
           l[i] < l[j] \/ (l[i] # l[j] /\ l[i] \in e)
    /\ \A m \in 1 .. g : m \in d \/ \E i \in 1 .. Len(l) : l[i] = m
    /\ \A i \in 1 .. Len(l) : l[i] <= g

Line(k) == k.handed \o k.pending

\* A connection that was never used has no commands; on an open one none waits.
InOrder ==
    /\ \A c \in Conns : conn[c].stage = "new" =>
          /\ conn[c].handed = <<>> /\ conn[c].pending = <<>>
          /\ conn[c].dropped = {} /\ conn[c].given = 0
    /\ connection # None =>
          LET k == conn[connection]
          IN  InLine(Line(k), k.dropped, k.given, k.eager) /\ (k.isOpen => k.pending = <<>>)

\* A greeting or the next command at the end of the line.
LEMMA AppendInLine ==
  ASSUME NEW l \in Seq(Messages), NEW d, NEW g \in Nat, NEW e, InLine(l, d, g, e),
         NEW m \in Messages, NEW h,
         (m = Hello /\ h = g) \/ (m = g + 1 /\ h = m)
  PROVE  InLine(Append(l, m), d, h, e)
  <1> DEFINE a == Append(l, m)
             n == Len(l)
  <1>1. /\ n \in Nat /\ Len(a) = n + 1 /\ a[n + 1] = m
        /\ \A i \in 1 .. n : a[i] = l[i] /\ l[i] \in Messages
    BY AppendProperties
  <1>2. /\ \A i, j \in 1 .. n : i < j /\ l[i] # Hello /\ l[j] # Hello =>
               l[i] < l[j] \/ (l[i] # l[j] /\ l[i] \in e)
        /\ \A x \in 1 .. g : x \in d \/ \E i \in 1 .. n : l[i] = x
        /\ \A i \in 1 .. n : l[i] <= g
    BY DEF InLine
  <1> HIDE DEF a, n
  <1>3. \A i \in 1 .. n + 1 : i \in 1 .. n \/ i = n + 1
    BY <1>1
  <1>4. \A i \in 1 .. n : l[i] \in Nat
    BY <1>1, SessionAssumption DEF Messages
  <1>5. ASSUME NEW i \in 1 .. n + 1, NEW j \in 1 .. n + 1, i < j, a[i] # Hello, a[j] # Hello
        PROVE  a[i] < a[j] \/ (a[i] # a[j] /\ a[i] \in e)
    <2>1. i \in 1 .. n
      BY <1>1, <1>5
    <2>2. CASE j \in 1 .. n
      BY <1>1, <1>2, <1>5, <2>1, <2>2
    <2>3. CASE j = n + 1
      BY <1>1, <1>2, <1>4, <1>5, <2>1, <2>3
    <2> QED BY <1>3, <2>2, <2>3
  <1>6. ASSUME NEW x \in 1 .. h PROVE x \in d \/ \E i \in 1 .. n + 1 : a[i] = x
    <2>1. CASE x \in 1 .. g
      <3>1. x \in d \/ \E i \in 1 .. n : l[i] = x
        BY <1>2, <2>1
      <3>2. \A i \in 1 .. n : i \in 1 .. n + 1
        BY <1>1
      <3> QED BY <1>1, <3>1, <3>2
    <2>2. CASE x \notin 1 .. g
      <3>1. x = m
        BY <2>2
      <3>2. n + 1 \in 1 .. n + 1
        BY <1>1
      <3> QED BY <1>1, <3>1, <3>2
    <2> QED BY <2>1, <2>2
  <1>7. ASSUME NEW i \in 1 .. n + 1 PROVE a[i] <= h
    <2>1. CASE i \in 1 .. n
      BY <1>1, <1>2, <1>4, <2>1 DEF Hello
    <2>2. CASE i = n + 1
      BY <1>1, <2>2 DEF Hello
    <2> QED BY <1>3, <2>1, <2>2
  <1>8. InLine(a, d, h, e)
    BY <1>1, <1>5, <1>6, <1>7 DEF InLine
  <1> QED BY <1>8 DEF a

\* The oldest waiting message leaves the line.
LEMMA DropInLine ==
  ASSUME NEW h \in Seq(Messages), NEW p \in Seq(Messages), p # <<>>,
         NEW d, NEW g \in Nat, NEW e, InLine(h \o p, d, g, e)
  PROVE  /\ h \o Tail(p) \in Seq(Messages)
         /\ InLine(h \o Tail(p), d \cup {Head(p)}, g, e)
  <1> DEFINE l == h \o p
             r == h \o Tail(p)
             n == Len(h)
             b == Len(p)
  <1>1. /\ Tail(p) \in Seq(Messages) /\ Len(Tail(p)) = b - 1 /\ Head(p) = p[1]
        /\ \A i \in 1 .. b - 1 : Tail(p)[i] = p[i + 1]
        /\ n \in Nat /\ b \in Nat /\ b > 0
    BY HeadTailProperties
  <1>2. /\ l \in Seq(Messages) /\ Len(l) = n + b
        /\ \A i \in 1 .. n + b : l[i] = IF i <= n THEN h[i] ELSE p[i - n]
    BY ConcatProperties
  <1>3. /\ r \in Seq(Messages) /\ Len(r) = n + (b - 1)
        /\ \A i \in 1 .. n + (b - 1) : r[i] = IF i <= n THEN h[i] ELSE Tail(p)[i - n]
    BY <1>1, ConcatProperties
  <1>4. /\ \A i, j \in 1 .. n + b : i < j /\ l[i] # Hello /\ l[j] # Hello =>
               l[i] < l[j] \/ (l[i] # l[j] /\ l[i] \in e)
        /\ \A x \in 1 .. g : x \in d \/ \E i \in 1 .. n + b : l[i] = x
        /\ \A i \in 1 .. n + b : l[i] <= g
    BY <1>2 DEF InLine
  <1> HIDE DEF l, r, n, b
  <1> DEFINE up(i) == IF i <= n THEN i ELSE i + 1
  <1>5. ASSUME NEW i \in 1 .. n + (b - 1)
        PROVE  up(i) \in 1 .. n + b /\ r[i] = l[up(i)]
    <2>1. CASE i <= n
      BY <1>1, <1>2, <1>3, <2>1
    <2>2. CASE ~(i <= n)
      <3>1. i - n \in 1 .. b - 1 /\ i + 1 \in 1 .. n + b /\ ~(i + 1 <= n) /\ (i + 1) - n = (i - n) + 1
        BY <1>1, <2>2
      <3>2. r[i] = p[(i - n) + 1]
        BY <1>1, <1>3, <2>2, <3>1
      <3>3. l[i + 1] = p[(i + 1) - n]
        BY <1>2, <3>1
      <3> QED BY <2>2, <3>1, <3>2, <3>3
    <2> QED BY <2>1, <2>2
  <1>6. \A i, j \in 1 .. n + (b - 1) : i < j => up(i) < up(j)
    BY <1>1
  <1>7. ASSUME NEW i \in 1 .. n + (b - 1), NEW j \in 1 .. n + (b - 1),
               i < j, r[i] # Hello, r[j] # Hello
        PROVE  r[i] < r[j] \/ (r[i] # r[j] /\ r[i] \in e)
    <2>1. up(i) < up(j)
      BY <1>6, <1>7
    <2> HIDE DEF up
    <2> QED BY <1>4, <1>5, <1>7, <2>1
  <1>8. ASSUME NEW x \in 1 .. g
        PROVE  x \in d \cup {Head(p)} \/ \E i \in 1 .. n + (b - 1) : r[i] = x
    <2>1. CASE x \in d
      BY <2>1
    <2>2. CASE x \notin d
      <3>1. PICK i \in 1 .. n + b : l[i] = x
        BY <1>4, <2>2
      <3>2. CASE i <= n
        <4>1. i \in 1 .. n + (b - 1) /\ up(i) = i
          BY <1>1, <3>2
        <4> QED BY <1>5, <3>1, <4>1
      <3>3. CASE i = n + 1
        <4>1. l[i] = p[1]
          BY <1>1, <1>2, <3>3
        <4> QED BY <1>1, <3>1, <4>1
      <3>4. CASE i > n + 1
        <4>1. i - 1 \in 1 .. n + (b - 1) /\ up(i - 1) = i
          BY <1>1, <3>4
        <4> QED BY <1>5, <3>1, <4>1
      <3> QED BY <1>1, <3>2, <3>3, <3>4
    <2> QED BY <2>1, <2>2
  <1>9. ASSUME NEW i \in 1 .. n + (b - 1) PROVE r[i] <= g
    <2> HIDE DEF up
    <2> QED BY <1>4, <1>5
  <1>10. InLine(r, d \cup {Head(p)}, g, e)
    BY <1>3, <1>7, <1>8, <1>9 DEF InLine
  <1> QED BY <1>3, <1>10 DEF r

\* Commands given inside an open event go out before those that wait.
LEMMA InsertInLine ==
  ASSUME NEW h \in Seq(Messages), NEW p \in Seq(Messages), NEW d, NEW e,
         NEW g \in 0 .. MaxCommands, NEW b \in g .. MaxCommands, InLine(h \o p, d, g, e)
  PROVE  /\ h \o Further(g, b) \o p \in Seq(Messages)
         /\ InLine(h \o Further(g, b) \o p, d, b, e \cup (g + 1 .. b))
  <1> DEFINE l == h \o p
             F == Further(g, b)
             u == h \o F
             r == u \o p
             n == Len(h)
             f == b - g
             q == Len(p)
  <1>1. /\ n \in Nat /\ q \in Nat /\ f \in Nat /\ g \in Nat /\ b \in Nat /\ b = g + f
        /\ F \in Seq(Messages) /\ Len(F) = f /\ \A x \in 1 .. f : F[x] = g + x
    <2>1. g \in Nat /\ b \in Nat /\ f \in Nat /\ b = g + f
      BY SessionAssumption
    <2>2. Further(g, b) \in Seq(Messages) /\ Len(Further(g, b)) = b - g
          /\ \A x \in 1 .. b - g : Further(g, b)[x] = g + x
      BY FurtherIs
    <2>3. n \in Nat /\ q \in Nat
      OBVIOUS
    <2> QED BY <2>1, <2>2, <2>3
  <1>2. /\ l \in Seq(Messages) /\ Len(l) = n + q
        /\ \A i \in 1 .. n + q : l[i] = IF i <= n THEN h[i] ELSE p[i - n]
    BY ConcatProperties
  <1>3. /\ u \in Seq(Messages) /\ Len(u) = n + f
        /\ \A i \in 1 .. n + f : u[i] = IF i <= n THEN h[i] ELSE F[i - n]
    <2> HIDE DEF F, f
    <2> QED BY <1>1, ConcatProperties
  <1>4. /\ r \in Seq(Messages) /\ Len(r) = n + f + q
        /\ \A i \in 1 .. n + f + q : r[i] = IF i <= n + f THEN u[i] ELSE p[i - (n + f)]
    <2> HIDE DEF u, f, n
    <2>1. Len(r) = Len(u) + Len(p) /\ r \in Seq(Messages)
          /\ \A i \in 1 .. Len(u) + Len(p) : r[i] = IF i <= Len(u) THEN u[i] ELSE p[i - Len(u)]
      BY <1>3, ConcatProperties
    <2> QED BY <1>3, <2>1
  <1>5. /\ \A i, j \in 1 .. n + q : i < j /\ l[i] # Hello /\ l[j] # Hello =>
               l[i] < l[j] \/ (l[i] # l[j] /\ l[i] \in e)
        /\ \A x \in 1 .. g : x \in d \/ \E i \in 1 .. n + q : l[i] = x
        /\ \A i \in 1 .. n + q : l[i] <= g /\ l[i] \in Nat
    <2> HIDE DEF l, n, q
    <2>1. \A i \in 1 .. n + q : l[i] \in Messages
      BY <1>2
    <2>2. \A x \in Messages : x \in Nat
      BY SessionAssumption DEF Messages
    <2>3. InLine(l, d, g, e)
      BY DEF l
    <2> QED BY <1>2, <2>1, <2>2, <2>3 DEF InLine
  <1> HIDE DEF l, F, u, r, n, f, q
  \* Where an element of the old line is in the new one.
  <1> DEFINE up(i) == IF i <= n THEN i ELSE i + f
             Old(i) == i <= n \/ i > n + f
             back(i) == IF i <= n THEN i ELSE i - f
  <1>6. ASSUME NEW i \in 1 .. n + q
        PROVE  up(i) \in 1 .. n + f + q /\ r[up(i)] = l[i]
    <2>1. CASE i <= n
      <3>1. /\ up(i) = i /\ i \in 1 .. n + f + q /\ i \in 1 .. n + f /\ i <= n + f
        BY <1>1, <2>1
      <3>2. r[i] = u[i]
        BY <1>4, <3>1
      <3>3. u[i] = h[i]
        BY <1>3, <2>1, <3>1
      <3>4. l[i] = h[i]
        BY <1>2, <2>1
      <3> QED BY <3>1, <3>2, <3>3, <3>4
    <2>2. CASE ~(i <= n)
      <3>1. /\ i + f \in 1 .. n + f + q /\ ~(i + f <= n + f) /\ (i + f) - (n + f) = i - n
            /\ up(i) = i + f
        BY <1>1, <2>2
      <3>2. r[i + f] = p[(i + f) - (n + f)]
        BY <1>4, <3>1
      <3>3. l[i] = p[i - n]
        BY <1>2, <2>2
      <3> QED BY <3>1, <3>2, <3>3
    <2> QED BY <2>1, <2>2
  <1>7. ASSUME NEW i \in 1 .. n + f + q, Old(i)
        PROVE  back(i) \in 1 .. n + q /\ r[i] = l[back(i)]
    <2>1. back(i) \in 1 .. n + q /\ up(back(i)) = i
      BY <1>1, <1>7
    <2> HIDE DEF up, back
    <2> QED BY <1>6, <2>1
  <1>8. ASSUME NEW i \in 1 .. n + f + q, ~Old(i)
        PROVE  r[i] = g + (i - n) /\ i - n \in 1 .. f
    <2>1. i <= n + f /\ ~(i <= n) /\ i - n \in 1 .. f /\ i \in 1 .. n + f
      BY <1>1, <1>8
    <2> QED BY <1>1, <1>3, <1>4, <2>1
  <1>9. ASSUME NEW i \in 1 .. n + f + q, NEW j \in 1 .. n + f + q,
               i < j, r[i] # Hello, r[j] # Hello
        PROVE  r[i] < r[j] \/ (r[i] # r[j] /\ r[i] \in e \cup (g + 1 .. b))
    <2>1. CASE Old(i) /\ Old(j)
      <3>1. back(i) < back(j)
        BY <1>1, <1>9, <2>1
      <3>2. /\ back(i) \in 1 .. n + q /\ r[i] = l[back(i)]
            /\ back(j) \in 1 .. n + q /\ r[j] = l[back(j)]
        BY <1>7, <2>1
      <3> HIDE DEF back
      <3> QED BY <1>5, <1>9, <3>1, <3>2
    <2>2. CASE Old(i) /\ ~Old(j)
      <3>1. back(i) \in 1 .. n + q /\ r[i] = l[back(i)]
        BY <1>7, <2>2
      <3>2. r[j] = g + (j - n) /\ j - n \in 1 .. f
        BY <1>8, <2>2
      <3>3. r[i] <= g /\ r[i] \in Nat
        <4> HIDE DEF back
        <4> QED BY <1>5, <3>1
      <3> QED BY <1>1, <3>2, <3>3
    <2>3. CASE ~Old(i) /\ ~Old(j)
      <3>1. /\ r[i] = g + (i - n) /\ i - n \in 1 .. f
            /\ r[j] = g + (j - n) /\ j - n \in 1 .. f
        BY <1>8, <2>3
      <3> QED BY <1>1, <1>9, <3>1
    <2>4. CASE ~Old(i) /\ Old(j)
      <3>1. back(j) \in 1 .. n + q /\ r[j] = l[back(j)]
        BY <1>7, <2>4
      <3>2. r[i] = g + (i - n) /\ i - n \in 1 .. f
        BY <1>8, <2>4
      <3>3. r[j] <= g /\ r[j] \in Nat
        <4> HIDE DEF back
        <4> QED BY <1>5, <3>1
      <3>4. r[i] \in g + 1 .. b /\ r[i] > g
        BY <1>1, <3>2
      <3> QED BY <1>1, <3>2, <3>3, <3>4
    <2> QED BY <2>1, <2>2, <2>3, <2>4
  <1>10. ASSUME NEW x \in 1 .. b
         PROVE  x \in d \/ \E i \in 1 .. n + f + q : r[i] = x
    <2>1. CASE x \in 1 .. g
      <3>1. x \in d \/ \E i \in 1 .. n + q : l[i] = x
        BY <1>5, <2>1
      <3> HIDE DEF up
      <3> QED BY <1>6, <3>1
    <2>2. CASE x \notin 1 .. g
      <3>1. n + (x - g) \in 1 .. n + f + q /\ ~Old(n + (x - g)) /\ (n + (x - g)) - n = x - g
        BY <1>1, <2>2
      <3>2. r[n + (x - g)] = g + ((n + (x - g)) - n)
        <4> HIDE DEF Old
        <4> QED BY <1>8, <3>1
      <3>3. r[n + (x - g)] = x
        BY <1>1, <3>1, <3>2
      <3> QED BY <3>1, <3>3
    <2> QED BY <2>1, <2>2
  <1>11. ASSUME NEW i \in 1 .. n + f + q PROVE r[i] <= b
    <2>1. CASE Old(i)
      <3>1. back(i) \in 1 .. n + q /\ r[i] = l[back(i)]
        BY <1>7, <2>1
      <3>2. r[i] <= g /\ r[i] \in Nat
        <4> HIDE DEF back
        <4> QED BY <1>5, <3>1
      <3> QED BY <1>1, <3>2
    <2>2. CASE ~Old(i)
      <3>1. r[i] = g + (i - n) /\ i - n \in 1 .. f
        BY <1>8, <2>2
      <3> QED BY <1>1, <3>1
    <2> QED BY <2>1, <2>2
  <1>12. InLine(r, d, b, e \cup (g + 1 .. b))
    BY <1>4, <1>9, <1>10, <1>11 DEF InLine
  <1> QED BY <1>4, <1>12 DEF r, u, F

LEMMA ConcatAppend ==
  ASSUME NEW w \in Seq(Messages), NEW p \in Seq(Messages), NEW m \in Messages
  PROVE  w \o Append(p, m) = Append(w \o p, m)
  <1> DEFINE e == <<m>>
  <1>1. e \in Seq(Messages) /\ w \o p \in Seq(Messages)
    BY ConcatProperties
  <1>2. Append(p, m) = p \o e /\ Append(w \o p, m) = (w \o p) \o e
    BY <1>1, AppendIsConcat
  <1>3. (w \o p) \o e = w \o (p \o e)
    <2> HIDE DEF e
    <2> QED BY <1>1, ConcatAssociative
  <1> QED BY <1>2, <1>3

\* send() puts its message at the end of the line; a full queue drops its oldest.
LEMMA SentInLine ==
  ASSUME NEW d \in Conns, conn[d] \in ConnType, Len(conn[d].pending) <= MaxPending,
         conn[d].isOpen => conn[d].ws # None /\ conn[d].pending = <<>>,
         InLine(Line(conn[d]), conn[d].dropped, conn[d].given, conn[d].eager),
         NEW m \in Messages, NEW h,
         (m = Hello /\ h = conn[d].given) \/ (m = conn[d].given + 1 /\ h = m)
  PROVE  /\ InLine(Line(Sent(d, m)), Sent(d, m).dropped, h, conn[d].eager)
         /\ conn[d].isOpen => Sent(d, m).pending = <<>>
  <1> DEFINE k == conn[d]
             w == k.handed
             p == k.pending
  <1>1. /\ w \in Seq(Messages) /\ p \in Seq(Messages) /\ k.given \in Nat /\ k \in ConnType
        /\ Len(p) <= MaxPending /\ w \o p \in Seq(Messages)
    BY ConcatProperties DEF ConnType
  <1>2. InLine(w \o p, k.dropped, k.given, k.eager)
    BY DEF Line
  <1>3. CASE Direct(k)
    <2>1. p = <<>> /\ w \o p = w
      <3>1. p = <<>>
        BY <1>3 DEF Direct
      <3>2. w \o <<>> = w
        BY <1>1, ConcatEmptySeq
      <3> QED BY <3>1, <3>2
    <2> DEFINE a == Append(w, m)
    <2>2. Sent(d, m) = [k EXCEPT !.handed = a] /\ a \in Seq(Messages)
      BY <1>1, <1>3 DEF Sent
    <2>3. InLine(a, k.dropped, h, k.eager)
      BY <1>1, <1>2, <2>1, AppendInLine
    <2> HIDE DEF a
    <2>4. Sent(d, m).handed = a /\ Sent(d, m).pending = <<>> /\ Sent(d, m).dropped = k.dropped
      BY <1>1, <2>1, <2>2 DEF ConnType
    <2>5. Line(Sent(d, m)) = a
      BY <2>2, <2>4, ConcatEmptySeq DEF Line
    <2> QED BY <2>3, <2>4, <2>5
  <1>4. CASE ~Direct(k)
    <2>1. Sent(d, m) = Queued(k, m) /\ ~k.isOpen
      BY <1>4 DEF Sent, Direct
    <2>2. CASE Len(p) < MaxPending
      <3> DEFINE a == Append(p, m)
      <3>1. Sent(d, m) = [k EXCEPT !.pending = a]
        BY <2>1, <2>2 DEF Queued
      <3>2. w \o a = Append(w \o p, m)
        BY <1>1, ConcatAppend
      <3>3. InLine(w \o a, k.dropped, h, k.eager)
        BY <1>1, <1>2, <3>2, AppendInLine
      <3> HIDE DEF a
      <3>4. Sent(d, m).handed = w /\ Sent(d, m).pending = a /\ Sent(d, m).dropped = k.dropped
        BY <1>1, <3>1 DEF ConnType
      <3> QED BY <2>1, <3>3, <3>4 DEF Line
    <2>3. CASE ~(Len(p) < MaxPending)
      <3> DEFINE a == Append(Tail(p), m)
                 x == k.dropped \cup {Head(p)}
      <3>1. Sent(d, m) = [k EXCEPT !.pending = a, !.dropped = x]
        BY <2>1, <2>3 DEF Queued
      <3>2. p # <<>>
        BY <1>1, <2>3, SessionAssumption
      <3>3. Tail(p) \in Seq(Messages)
        BY <1>1, <3>2
      <3>4. w \o Tail(p) \in Seq(Messages) /\ InLine(w \o Tail(p), x, k.given, k.eager)
        BY <1>1, <1>2, <3>2, DropInLine
      <3>5. w \o a = Append(w \o Tail(p), m)
        BY <1>1, <3>3, ConcatAppend
      <3>6. InLine(w \o a, x, h, k.eager)
        BY <1>1, <3>4, <3>5, AppendInLine
      <3> HIDE DEF a, x
      <3>7. Sent(d, m).handed = w /\ Sent(d, m).pending = a /\ Sent(d, m).dropped = x
        BY <1>1, <3>1 DEF ConnType
      <3> QED BY <2>1, <3>6, <3>7 DEF Line
    <2> QED BY <2>2, <2>3
  <1> QED BY <1>3, <1>4

\* Callbacks, of whatever connection, that say nothing to the agent.
LEMMA NothingSaid ==
  ASSUME IInv, InOrder, connection' = connection,
         \A c \in Conns :
            /\ conn'[c].stage = conn[c].stage
            /\ conn'[c].handed = conn[c].handed
            /\ conn'[c].pending = conn[c].pending
            /\ conn'[c].dropped = conn[c].dropped
            /\ conn'[c].given = conn[c].given
            /\ conn'[c].eager = conn[c].eager
            /\ conn'[c].isOpen => conn[c].isOpen \/ c # connection
  PROVE  InOrder'
  BY DEF IInv, TypeOK, InOrder, Line

LEMMA ConnectLine ==
  ASSUME IInv, InOrder, Connect
  PROVE  InOrder'
  <1>1. PICK c \in Conns : /\ conn[c].stage = "new" /\ connection' = c
                           /\ conn' = [conn EXCEPT ![c].stage = "up", ![c].fetches = 1]
    BY DEF Connect
  <1> DEFINE k == [conn[c] EXCEPT !.stage = "up", !.fetches = 1]
  <1>2. conn' = [conn EXCEPT ![c] = k] /\ conn \in [Conns -> ConnType] /\ conn[c] \in ConnType
    BY <1>1 DEF IInv, TypeOK
  <1>3. /\ conn[c].handed = <<>> /\ conn[c].pending = <<>> /\ conn[c].given = 0
    BY <1>1 DEF InOrder
  <1>4. k.stage = "up" /\ k.handed = <<>> /\ k.pending = <<>> /\ k.given = 0
    BY <1>2, <1>3 DEF ConnType
  <1> HIDE DEF k
  <1>5. InLine(Line(k), k.dropped, k.given, k.eager)
    <2>1. Line(k) = <<>>
      BY <1>4 DEF Line
    <2> QED BY <1>4, <2>1 DEF InLine
  <1>6. conn'[c] = k /\ \A d \in Conns : d # c => conn'[d] = conn[d]
    BY <1>2
  <1> QED BY <1>1, <1>4, <1>5, <1>6 DEF InOrder

LEMMA CommandLine ==
  ASSUME IInv, InOrder, Command
  PROVE  InOrder'
  <1>1. /\ connection \in Conns /\ connection # None /\ conn \in [Conns -> ConnType]
        /\ Len(conn[connection].pending) <= MaxPending /\ conn[connection].stage = "up"
        /\ connection' = connection
    BY DEF Command, IInv, TypeOK, Wiring, Standing
  <1> DEFINE m == conn[connection].given + 1
             k == [Sent(connection, m) EXCEPT !.given = m]
  <1>2. m \in Messages /\ conn' = [conn EXCEPT ![connection] = k]
    BY <1>1, SessionAssumption DEF Command, Messages, ConnType
  <1> HIDE DEF m
  <1>3. /\ Sent(connection, m) \in ConnType
        /\ Sent(connection, m).stage = "up"
        /\ Sent(connection, m).isOpen = conn[connection].isOpen
        /\ Sent(connection, m).eager = conn[connection].eager
    BY <1>1, <1>2, SentIs
  <1>4. conn[connection].isOpen => conn[connection].ws # None /\ conn[connection].pending = <<>>
    BY <1>1, OpenSocket DEF InOrder
  <1>5. /\ InLine(Line(Sent(connection, m)), Sent(connection, m).dropped, m, conn[connection].eager)
        /\ conn[connection].isOpen => Sent(connection, m).pending = <<>>
    BY <1>1, <1>2, <1>4, SentInLine DEF InOrder, m
  <1>6. /\ k.stage = "up" /\ k.handed = Sent(connection, m).handed
        /\ k.pending = Sent(connection, m).pending /\ k.dropped = Sent(connection, m).dropped
        /\ k.given = m /\ k.isOpen = conn[connection].isOpen /\ k.eager = conn[connection].eager
    BY <1>3 DEF ConnType
  <1> HIDE DEF k
  <1>7. /\ conn'[connection] = k /\ connection' = connection
        /\ \A d \in Conns : d # connection => conn'[d] = conn[d]
    BY <1>1, <1>2
  <1> QED BY <1>1, <1>5, <1>6, <1>7 DEF InOrder, Line

LEMMA CloseLine ==
  ASSUME IInv, InOrder, Close
  PROVE  InOrder'
  <1>1. /\ connection' = None /\ conn \in [Conns -> ConnType]
        /\ \A d \in Conns : conn'[d].stage = "new" => conn'[d] = conn[d]
    <2> DEFINE k == [NewConn EXCEPT !.stage = "closed", !.fetches = conn[connection].fetches,
                                    !.attempts = conn[connection].attempts]
    <2>1. k.stage = "closed"
      BY DEF NewConn
    <2>2. conn' = [conn EXCEPT ![connection] = k] /\ connection' = None
      BY DEF Close
    <2> HIDE DEF k
    <2> QED BY <2>1, <2>2 DEF IInv, TypeOK
  <1> QED BY <1>1 DEF InOrder

\* A ticket and a timer change nothing of what is sent and waits.
LEMMA TicketLeaves ==
  ASSUME IInv, NEW c \in Conns,
         TicketArrives(c) \/ TicketFails(c) \/ TimerFires(c)
  PROVE  \E k : /\ conn' = [conn EXCEPT ![c] = k]
                /\ k.stage = conn[c].stage /\ k.handed = conn[c].handed
                /\ k.pending = conn[c].pending /\ k.dropped = conn[c].dropped
                /\ k.given = conn[c].given /\ k.isOpen = conn[c].isOpen
                /\ k.eager = conn[c].eager
  <1>0. conn \in [Conns -> ConnType] /\ conn[c] \in ConnType
    BY DEF IInv, TypeOK
  <1>1. CASE TicketArrives(c)
    <2>1. PICK s \in Sockets :
             conn' = [conn EXCEPT ![c].fetches = conn[c].fetches - 1, ![c].ws = s]
      BY <1>1 DEF TicketArrives
    <2> DEFINE f == conn[c].fetches - 1
               k == [conn[c] EXCEPT !.fetches = f, !.ws = s]
    <2>2. conn' = [conn EXCEPT ![c] = k]
      BY <1>0, <2>1
    <2> HIDE DEF f
    <2>3. /\ k.stage = conn[c].stage /\ k.handed = conn[c].handed
          /\ k.pending = conn[c].pending /\ k.dropped = conn[c].dropped
          /\ k.given = conn[c].given /\ k.isOpen = conn[c].isOpen
          /\ k.eager = conn[c].eager
      BY <1>0 DEF ConnType
    <2> QED BY <2>2, <2>3
  <1>2. CASE TicketFails(c)
    <2> DEFINE f == conn[c].fetches - 1
               k == [conn[c] EXCEPT !.fetches = f]
    <2>1. conn' = [conn EXCEPT ![c] = Scheduled(k)]
      BY <1>2 DEF TicketFails
    <2>2. f \in Nat
      BY <1>0, <1>2 DEF TicketFails, ConnType
    <2> HIDE DEF f
    <2>3. /\ k \in ConnType
          /\ k.stage = conn[c].stage /\ k.handed = conn[c].handed
          /\ k.pending = conn[c].pending /\ k.dropped = conn[c].dropped
          /\ k.given = conn[c].given /\ k.isOpen = conn[c].isOpen
          /\ k.eager = conn[c].eager
      BY <1>0, <2>2 DEF ConnType
    <2> HIDE DEF k
    <2> DEFINE z == Scheduled(k)
    <2>4. /\ z.stage = conn[c].stage /\ z.handed = conn[c].handed
          /\ z.pending = conn[c].pending /\ z.dropped = conn[c].dropped
          /\ z.given = conn[c].given /\ z.isOpen = conn[c].isOpen
          /\ z.eager = conn[c].eager
      BY <2>3, ScheduledIs
    <2>5. conn' = [conn EXCEPT ![c] = z]
      BY <2>1
    <2> HIDE DEF z
    <2> QED BY <2>4, <2>5
  <1>3. CASE TimerFires(c)
    <2> DEFINE f == conn[c].fetches + 1
               t == conn[c].timers - 1
               k == [conn[c] EXCEPT !.timers = t, !.fetches = f]
    <2>1. conn' = [conn EXCEPT ![c] = k]
      BY <1>0, <1>3 DEF TimerFires
    <2> HIDE DEF f, t
    <2>2. /\ k.stage = conn[c].stage /\ k.handed = conn[c].handed
          /\ k.pending = conn[c].pending /\ k.dropped = conn[c].dropped
          /\ k.given = conn[c].given /\ k.isOpen = conn[c].isOpen
          /\ k.eager = conn[c].eager
      BY <1>0 DEF ConnType
    <2> QED BY <2>1, <2>2
  <1> QED BY <1>1, <1>2, <1>3

LEMMA TicketLine ==
  ASSUME IInv, InOrder, NEW c \in Conns,
         TicketArrives(c) \/ TicketFails(c) \/ TimerFires(c)
  PROVE  InOrder'
  <1>1. conn \in [Conns -> ConnType] /\ conn[c] \in ConnType /\ connection' = connection
    BY DEF TicketArrives, TicketFails, TimerFires, IInv, TypeOK
  <1>2. PICK k : /\ conn' = [conn EXCEPT ![c] = k]
                 /\ k.stage = conn[c].stage /\ k.handed = conn[c].handed
                 /\ k.pending = conn[c].pending /\ k.dropped = conn[c].dropped
                 /\ k.given = conn[c].given /\ k.isOpen = conn[c].isOpen
                 /\ k.eager = conn[c].eager
    BY TicketLeaves
  <1>3. conn'[c] = k /\ \A d \in Conns : d # c => conn'[d] = conn[d]
    BY <1>1, <1>2
  <1> QED BY <1>1, <1>2, <1>3, NothingSaid

\* The queue is sent behind what was handed over before; a closed connection's
\* listener puts a greeting into the line.
LEMMA OpensLine ==
  ASSUME IInv, InOrder, NEW s \in Sockets, SocketOpens(s)
  PROVE  InOrder'
  <1>1. /\ conn \in [Conns -> ConnType] /\ connection \in Conns \cup {None}
        /\ sock[s].of \in Conns /\ conn[sock[s].of].stage \in {"up", "closed"}
        /\ connection' = connection
    BY Opening DEF SocketOpens, IInv, TypeOK
  <1>2. CASE OpensOwn(s)
    <2>1. connection \in Conns /\ conn[connection] \in ConnType /\ connection # None
      BY <1>1, <1>2, SessionAssumption DEF OpensOwn
    <2>20. PICK b \in conn[connection].given .. MaxCommands : \E k :
             /\ conn' = [conn EXCEPT ![connection] = k]
             /\ conn'[connection] = k /\ k.stage = conn[connection].stage /\ k.pending = <<>>
             /\ k.handed = conn[connection].handed \o Further(conn[connection].given, b)
                               \o conn[connection].pending
             /\ k.dropped = conn[connection].dropped /\ k.given = b
             /\ k.eager = conn[connection].eager \cup (conn[connection].given + 1 .. b)
      BY <1>2, <2>1, OpensOwnIs
    <2>2. PICK k :
             /\ conn' = [conn EXCEPT ![connection] = k]
             /\ conn'[connection] = k /\ k.stage = conn[connection].stage /\ k.pending = <<>>
             /\ k.handed = conn[connection].handed \o Further(conn[connection].given, b)
                               \o conn[connection].pending
             /\ k.dropped = conn[connection].dropped /\ k.given = b
             /\ k.eager = conn[connection].eager \cup (conn[connection].given + 1 .. b)
      BY <2>20
    <2> DEFINE x == conn[connection].handed
               p == conn[connection].pending
               g == conn[connection].given
    <2>3. /\ x \in Seq(Messages) /\ p \in Seq(Messages) /\ g \in 0 .. MaxCommands
          /\ InLine(x \o p, conn[connection].dropped, g, conn[connection].eager)
      BY <2>1 DEF ConnType, InOrder, Line
    <2>4. /\ k.handed \in Seq(Messages)
          /\ InLine(k.handed, k.dropped, k.given, k.eager)
      <3> HIDE DEF x, p, g
      <3>1. b \in g .. MaxCommands
        BY DEF g
      <3>2. /\ x \o Further(g, b) \o p \in Seq(Messages)
            /\ InLine(x \o Further(g, b) \o p, conn[connection].dropped, b,
                      conn[connection].eager \cup (g + 1 .. b))
        BY <2>3, <3>1, InsertInLine
      <3> QED BY <2>2, <3>2 DEF x, p, g
    <2>5. Line(k) = k.handed
      BY <2>2, <2>4, ConcatEmptySeq DEF Line
    <2>6. \A d \in Conns : d # connection => conn'[d] = conn[d]
      BY <1>1, <2>1, <2>2
    <2>7. k.stage # "new"
      BY <1>1, <1>2, <2>1, <2>2 DEF OpensOwn
    <2> QED BY <1>1, <2>1, <2>2, <2>4, <2>5, <2>6, <2>7 DEF InOrder
  <1>3. CASE OpensClosed(s)
    <2> DEFINE c == sock[s].of
               k == [conn[c] EXCEPT !.isOpen = TRUE, !.attempts = 0]
    <2>1. /\ c # connection
          /\ IF connection = None
             THEN conn' = [conn EXCEPT ![c] = k]
             ELSE conn' = [conn EXCEPT ![c] = k, ![connection] = Sent(connection, Hello)]
      BY <1>3 DEF OpensClosed
    <2>2. k.stage \in {"up", "closed"}
      BY <1>1 DEF ConnType
    <2> HIDE DEF c, k
    <2>3. CASE connection = None
      <3>1. conn' = [conn EXCEPT ![c] = k] /\ connection' = None
        BY <1>1, <2>1, <2>3
      <3> QED BY <1>1, <2>2, <3>1 DEF InOrder
    <2>4. CASE connection # None
      <3> DEFINE m == Sent(connection, Hello)
      <3>1. /\ connection \in Conns /\ conn[connection] \in ConnType
            /\ Len(conn[connection].pending) <= MaxPending /\ conn[connection].stage = "up"
        BY <1>1, <2>4 DEF IInv, TypeOK, Wiring, Standing
      <3>2. conn[connection].isOpen => conn[connection].ws # None /\ conn[connection].pending = <<>>
        BY <2>4, OpenSocket DEF InOrder
      <3>3. conn[connection].given \in Nat
        BY <3>1 DEF ConnType
      <3>4. /\ InLine(Line(m), m.dropped, conn[connection].given, conn[connection].eager)
            /\ conn[connection].isOpen => m.pending = <<>>
        BY <2>4, <3>1, <3>2, Fresh, SentInLine DEF InOrder
      <3>5. /\ m.stage = "up" /\ m.given = conn[connection].given
            /\ m.isOpen = conn[connection].isOpen /\ m.eager = conn[connection].eager
        BY <3>1, Fresh, SentIs
      <3>6. conn' = [conn EXCEPT ![c] = k, ![connection] = m]
        BY <2>1, <2>4
      <3> HIDE DEF m
      <3>7. /\ conn'[connection] = m
            /\ \A d \in Conns : d # connection => conn'[d] = conn[d] \/ conn'[d] = k
        BY <1>1, <2>1, <3>1, <3>6
      <3> QED BY <1>1, <2>2, <2>4, <3>1, <3>4, <3>5, <3>7 DEF InOrder
    <2> QED BY <2>3, <2>4
  <1> QED BY <1>2, <1>3 DEF SocketOpens

\* Nor does an event of a socket that ends it.
LEMMA ClosesLeaves ==
  ASSUME IInv, NEW s \in Sockets, NEW c \in Conns, c = sock[s].of, SocketCloses(s)
  PROVE  \E k : /\ conn' = [conn EXCEPT ![c] = k]
                /\ k.isOpen = FALSE /\ k.stage = conn[c].stage /\ k.handed = conn[c].handed
                /\ k.pending = conn[c].pending /\ k.dropped = conn[c].dropped
                /\ k.given = conn[c].given /\ k.eager = conn[c].eager
  <1>1. conn \in [Conns -> ConnType]
    BY DEF IInv, TypeOK
  <1>3. PICK j \in {conn[c], Scheduled(conn[c])} :
           conn' = [conn EXCEPT ![c] =
                      Scheduled([j EXCEPT !.isOpen = FALSE, !.ws = IF j.ws = s THEN None ELSE j.ws])]
    BY DEF SocketCloses
  <1> DEFINE g == [j EXCEPT !.isOpen = FALSE, !.ws = IF j.ws = s THEN None ELSE j.ws]
             k == Scheduled(g)
  <1>4. /\ j \in ConnType /\ j.stage = conn[c].stage /\ j.handed = conn[c].handed
        /\ j.pending = conn[c].pending /\ j.dropped = conn[c].dropped /\ j.given = conn[c].given
        /\ j.eager = conn[c].eager
    BY <1>1, <1>3, ScheduledIs
  <1>5. /\ g \in ConnType /\ g.isOpen = FALSE /\ g.stage = j.stage /\ g.handed = j.handed
        /\ g.pending = j.pending /\ g.dropped = j.dropped /\ g.given = j.given
        /\ g.eager = j.eager
    BY <1>4 DEF ConnType
  <1>6. conn' = [conn EXCEPT ![c] = k]
    BY <1>3
  <1> HIDE DEF g
  <1>7. /\ k.isOpen = FALSE /\ k.stage = conn[c].stage /\ k.handed = conn[c].handed
        /\ k.pending = conn[c].pending /\ k.dropped = conn[c].dropped /\ k.given = conn[c].given
        /\ k.eager = conn[c].eager
    BY <1>4, <1>5, ScheduledIs
  <1> HIDE DEF k
  <1> QED BY <1>6, <1>7

LEMMA ClosesLine ==
  ASSUME IInv, InOrder, NEW s \in Sockets, SocketCloses(s)
  PROVE  InOrder'
  <1>1. conn \in [Conns -> ConnType] /\ connection' = connection
    BY DEF SocketCloses, IInv, TypeOK
  <1>2. PICK c \in Conns : c = sock[s].of
    BY SessionAssumption DEF SocketCloses, IInv, TypeOK, SocketType, Wiring, Standard
  <1>3. PICK k : /\ conn' = [conn EXCEPT ![c] = k]
                 /\ k.isOpen = FALSE /\ k.stage = conn[c].stage /\ k.handed = conn[c].handed
                 /\ k.pending = conn[c].pending /\ k.dropped = conn[c].dropped
                 /\ k.given = conn[c].given /\ k.eager = conn[c].eager
    BY <1>2, ClosesLeaves
  <1>4. conn'[c] = k /\ \A d \in Conns : d # c => conn'[d] = conn[d]
    BY <1>1, <1>3
  <1> QED BY <1>1, <1>3, <1>4, NothingSaid

LEMMA SpecInOrder == Spec => []InOrder
  <1>1. Init => InOrder
    BY DEF Init, InOrder, NewConn
  <1>2. ASSUME IInv, InOrder, [Next]_vars PROVE InOrder'
    <2>1. CASE Program
      BY <1>2, <2>1, ConnectLine, CommandLine, CloseLine DEF Program
    <2>2. CASE \E c \in Conns : TicketArrives(c) \/ TicketFails(c) \/ TimerFires(c)
      BY <1>2, <2>2, TicketLine
    <2>3. CASE \E s \in Sockets : SocketOpens(s) \/ SocketCloses(s)
      BY <1>2, <2>3, OpensLine, ClosesLine
    <2>4. CASE (\E s \in Sockets : Deliver(s)) \/ AgentSaves \/ AgentAnnounces \/ UNCHANGED vars
      <3>1. conn' = conn /\ connection' = connection
        BY <2>4 DEF Deliver, AgentSaves, AgentAnnounces, vars, client
      <3> QED BY <1>2, <3>1 DEF InOrder, Line
    <2> QED BY <1>2, <2>1, <2>2, <2>3, <2>4 DEF Next, Callback
  <1> QED BY <1>1, <1>2, SpecInv, PTL DEF Spec

\* The commands of the session's connection go out once and in the order they were
\* given, but for those given inside an open event; none is missing but those the full
\* queue has dropped.
THEOREM CommandsKeepTheirOrder == Spec => []CommandsInOrder
  <1>1. IInv /\ InOrder => CommandsInOrder
    <2> SUFFICES ASSUME IInv, InOrder, connection # None
                 PROVE  LET k == conn[connection]
                            line == k.handed \o k.pending
                        IN  /\ \A i, j \in DOMAIN line :
                                  i < j /\ line[i] # Hello /\ line[j] # Hello =>
                                      line[i] < line[j]
                                      \/ (line[i] # line[j] /\ line[i] \in k.eager)
                            /\ \A m \in 1 .. k.given :
                                  m \in k.dropped \/ \E i \in DOMAIN line : line[i] = m
      BY DEF CommandsInOrder
    <2> DEFINE k == conn[connection]
               line == k.handed \o k.pending
    <2>1. line \in Seq(Messages)
      BY ConcatProperties DEF IInv, TypeOK, ConnType
    <2>2. InLine(line, k.dropped, k.given, k.eager)
      BY DEF InOrder, Line
    <2> HIDE DEF line
    <2>3. DOMAIN line = 1 .. Len(line)
      BY <2>1
    <2>4. /\ \A i, j \in DOMAIN line :
                i < j /\ line[i] # Hello /\ line[j] # Hello =>
                    line[i] < line[j] \/ (line[i] # line[j] /\ line[i] \in k.eager)
          /\ \A m \in 1 .. k.given : m \in k.dropped \/ \E i \in DOMAIN line : line[i] = m
      BY <2>2, <2>3 DEF InLine
    <2> QED BY <2>4 DEF line
  <1> QED BY <1>1, SpecInv, SpecInOrder, PTL

-----------------------------------------------------------------------------
(* The queue of commands *)

\* What is seen of a connection that no command and no socket event changes.
LEMMA NothingSeen ==
  ASSUME connection' = connection,
         connection # None => Of(connection)' = Of(connection)
  PROVE  UNCHANGED Queue!vars
  <1>1. Seen' = Seen /\ Connected' = Connected
    BY DEF Seen, Connected, Idle
  <1> QED BY <1>1 DEF Queue!vars

LEMMA SeenIs ==
  ASSUME NEW c \in Conns, connection = c
  PROVE  /\ Connected = TRUE
         /\ Seen.open = conn[c].isOpen
         /\ Seen.given = conn[c].given
         /\ Seen.waiting = conn[c].pending
         /\ Seen.sent = conn[c].handed
         /\ Seen.dropped = conn[c].dropped
  BY SessionAssumption DEF Connected, Seen, Of

LEMMA SeenBecomes ==
  ASSUME NEW c \in Conns, connection' = c
  PROVE  /\ Connected' = TRUE
         /\ Seen.open' = conn'[c].isOpen
         /\ Seen.given' = conn'[c].given
         /\ Seen.waiting' = conn'[c].pending
         /\ Seen.sent' = conn'[c].handed
         /\ Seen.dropped' = conn'[c].dropped
  BY SessionAssumption DEF Connected, Seen, Of

\* send() as the queue has it.
LEMMA SendQueues ==
  ASSUME IInv, InOrder, NEW c \in Conns, connection = c, connection' = c, NEW m \in Messages,
         conn'[c].isOpen = conn[c].isOpen,
         conn'[c].pending = Sent(c, m).pending,
         conn'[c].handed = Sent(c, m).handed,
         conn'[c].dropped = Sent(c, m).dropped
  PROVE  Queue!Send(m)
  <1> DEFINE k == conn[c]
  <1>1. /\ k \in ConnType /\ Len(k.pending) <= MaxPending /\ k.pending \in Seq(Messages)
        /\ k.isOpen \in BOOLEAN /\ connection # None
    BY SessionAssumption DEF IInv, TypeOK, ConnType
  <1>2. k.isOpen => k.ws # None /\ k.pending = <<>>
    BY <1>1, OpenSocket DEF InOrder
  <1>3. CASE k.isOpen
    <2> DEFINE a == Append(k.handed, m)
    <2>1. Sent(c, m) = [k EXCEPT !.handed = a]
      BY <1>2, <1>3 DEF Sent, Direct
    <2> HIDE DEF a
    <2>2. Sent(c, m).handed = a /\ Sent(c, m).pending = k.pending /\ Sent(c, m).dropped = k.dropped
      BY <1>1, <2>1 DEF ConnType
    <2>3. Queue!GoesOut(m)
      BY <1>2, <1>3, <2>2, SeenIs, SeenBecomes DEF Queue!GoesOut, a
    <2> QED BY <2>3, SeenIs, SeenBecomes DEF Queue!Send
  <1>4. CASE ~k.isOpen
    <2>1. Sent(c, m) = Queued(k, m)
      BY <1>4 DEF Sent, Direct
    <2>2. CASE Len(k.pending) < MaxPending
      <3> DEFINE a == Append(k.pending, m)
      <3>1. Sent(c, m) = [k EXCEPT !.pending = a]
        BY <2>1, <2>2 DEF Queued
      <3> HIDE DEF a
      <3>2. Sent(c, m).handed = k.handed /\ Sent(c, m).pending = a /\ Sent(c, m).dropped = k.dropped
        BY <1>1, <3>1 DEF ConnType
      <3>3. Queue!Waits(m)
        BY <1>4, <2>2, <3>2, SeenIs, SeenBecomes DEF Queue!Waits, a
      <3> QED BY <3>3, SeenIs, SeenBecomes DEF Queue!Send
    <2>3. CASE ~(Len(k.pending) < MaxPending)
      <3> DEFINE a == Append(Tail(k.pending), m)
                 x == k.dropped \cup {Head(k.pending)}
      <3>1. Sent(c, m) = [k EXCEPT !.pending = a, !.dropped = x]
        BY <2>1, <2>3 DEF Queued
      <3> HIDE DEF a, x
      <3>2. Sent(c, m).handed = k.handed /\ Sent(c, m).pending = a /\ Sent(c, m).dropped = x
        BY <1>1, <3>1 DEF ConnType
      <3>3. Len(k.pending) = MaxPending
        BY <1>1, <2>3, SessionAssumption
      <3>4. Queue!Waits(m)
        BY <1>4, <3>2, <3>3, SeenIs, SeenBecomes DEF Queue!Waits, a, x
      <3> QED BY <3>4, SeenIs, SeenBecomes DEF Queue!Send
    <2> QED BY <2>2, <2>3
  <1> QED BY <1>1, <1>3, <1>4

LEMMA ConnectQueue ==
  ASSUME IInv, InOrder, Connect
  PROVE  Queue!Begin
  <1>1. PICK c \in Conns : /\ conn[c].stage = "new" /\ connection' = c
                           /\ conn' = [conn EXCEPT ![c].stage = "up", ![c].fetches = 1]
    BY DEF Connect
  <1>2. connection = None /\ conn \in [Conns -> ConnType] /\ conn[c] \in ConnType
    BY DEF Connect, IInv, TypeOK
  <1>3. /\ conn[c].handed = <<>> /\ conn[c].pending = <<>> /\ conn[c].given = 0
        /\ conn[c].dropped = {}
    BY <1>1 DEF InOrder
  <1>4. conn[c].isOpen = FALSE
    BY <1>1, <1>2 DEF IInv, Wiring, Standing, ConnType
  <1>5. /\ conn'[c].handed = <<>> /\ conn'[c].pending = <<>> /\ conn'[c].given = 0
        /\ conn'[c].dropped = {} /\ conn'[c].isOpen = FALSE
    BY <1>1, <1>2, <1>3, <1>4 DEF ConnType
  <1>6. ~Connected
    BY <1>2 DEF Connected
  <1> QED BY <1>1, <1>5, <1>6, SeenBecomes DEF Queue!Begin, Queue!Nothing

LEMMA CloseQueue ==
  ASSUME Close
  PROVE  Queue!End
  <1>1. Connected /\ ~Connected' /\ Seen' = Idle
    BY DEF Close, Connected, Seen
  <1> QED BY <1>1 DEF Queue!End, Queue!Nothing, Idle

LEMMA GiveQueue ==
  ASSUME IInv, InOrder, Command
  PROVE  Queue!Give
  <1>1. PICK c \in Conns : c = connection
    BY DEF Command, IInv, TypeOK
  <1>2. /\ conn \in [Conns -> ConnType] /\ Len(conn[c].pending) <= MaxPending
        /\ connection' = c
    BY <1>1 DEF Command, IInv, TypeOK
  <1>3. PICK m : m = conn[c].given + 1
    OBVIOUS
  <1> DEFINE k == [Sent(c, m) EXCEPT !.given = m]
  <1>4. m \in Messages /\ conn' = [conn EXCEPT ![c] = k]
    BY <1>1, <1>2, <1>3, SessionAssumption DEF Command, Messages, ConnType
  <1>5. Sent(c, m) \in ConnType /\ Sent(c, m).isOpen = conn[c].isOpen
    BY <1>2, <1>4, SentIs
  <1>6. /\ k.handed = Sent(c, m).handed /\ k.pending = Sent(c, m).pending
        /\ k.dropped = Sent(c, m).dropped /\ k.given = m /\ k.isOpen = conn[c].isOpen
    BY <1>5 DEF ConnType
  <1> HIDE DEF k
  <1>7. conn'[c] = k
    BY <1>2, <1>4
  <1>8. Queue!Send(m)
    BY <1>1, <1>2, <1>4, <1>6, <1>7, SendQueues
  <1>9. Seen.given' = m /\ m = Seen.given + 1
    BY <1>1, <1>2, <1>3, <1>6, <1>7, SeenIs, SeenBecomes
  <1> QED BY <1>8, <1>9 DEF Queue!Give

\* Tickets and timers change nothing of the queue.
LEMMA TicketQueue ==
  ASSUME IInv, NEW c \in Conns, TicketArrives(c) \/ TicketFails(c) \/ TimerFires(c)
  PROVE  UNCHANGED Queue!vars
  <1>1. conn \in [Conns -> ConnType] /\ conn[c] \in ConnType /\ connection' = connection
        /\ connection \in Conns \cup {None}
    BY DEF TicketArrives, TicketFails, TimerFires, IInv, TypeOK
  <1>2. PICK k : /\ conn' = [conn EXCEPT ![c] = k]
                 /\ k.handed = conn[c].handed
                 /\ k.pending = conn[c].pending /\ k.dropped = conn[c].dropped
                 /\ k.given = conn[c].given /\ k.isOpen = conn[c].isOpen
                 /\ k.eager = conn[c].eager
    BY TicketLeaves
  <1>3. \A d \in Conns : Of(d)' = Of(d)
    BY <1>1, <1>2 DEF Of
  <1> QED BY <1>1, <1>3, NothingSeen

\* The session's own socket opens, or another's listener greets the agent.
LEMMA OpensQueue ==
  ASSUME IInv, InOrder, NEW s \in Sockets, SocketOpens(s)
  PROVE  Queue!Open \/ Queue!Greet \/ UNCHANGED Queue!vars
  <1>1. /\ conn \in [Conns -> ConnType] /\ connection \in Conns \cup {None}
        /\ sock[s].of \in Conns /\ connection' = connection
    BY Opening DEF SocketOpens, IInv, TypeOK
  <1>2. PICK c \in Conns : c = sock[s].of
    BY <1>1
  <1>3. CASE OpensOwn(s)
    <2>1. connection = c /\ conn[c].given \in Nat /\ MaxCommands \in Nat
      BY <1>1, <1>2, <1>3, SessionAssumption DEF OpensOwn, ConnType
    <2>20. PICK b \in conn[c].given .. MaxCommands : \E k :
             /\ conn'[c] = k /\ k.isOpen = TRUE /\ k.pending = <<>>
             /\ k.handed = conn[c].handed \o Further(conn[c].given, b) \o conn[c].pending
             /\ k.dropped = conn[c].dropped /\ k.given = b
      BY <1>3, <2>1, OpensOwnIs
    <2>2. PICK k :
             /\ conn'[c] = k /\ k.isOpen = TRUE /\ k.pending = <<>>
             /\ k.handed = conn[c].handed \o Further(conn[c].given, b) \o conn[c].pending
             /\ k.dropped = conn[c].dropped /\ k.given = b
      BY <2>20
    <2>3. b >= conn[c].given
      BY <2>1
    <2>4. Queue!Open
      BY <1>1, <2>1, <2>2, <2>3, SeenIs, SeenBecomes DEF Queue!Open, Further
    <2> QED BY <2>4
  <1>4. CASE OpensClosed(s)
    <2> DEFINE k == [conn[c] EXCEPT !.isOpen = TRUE, !.attempts = 0]
    <2>1. /\ c # connection
          /\ IF connection = None
             THEN conn' = [conn EXCEPT ![c] = k]
             ELSE conn' = [conn EXCEPT ![c] = k, ![connection] = Sent(connection, Hello)]
      BY <1>2, <1>4 DEF OpensClosed
    <2> HIDE DEF k
    <2>2. CASE connection = None
      BY <1>1, <2>2, NothingSeen
    <2>3. CASE connection # None
      <3>1. PICK d \in Conns : d = connection
        BY <1>1, <2>3
      <3> DEFINE m == Sent(d, Hello)
      <3>2. conn[d] \in ConnType /\ Len(conn[d].pending) <= MaxPending
        BY <1>1 DEF IInv, TypeOK
      <3>3. m.isOpen = conn[d].isOpen /\ m.given = conn[d].given
        BY <3>2, Fresh, SentIs
      <3>4. conn' = [conn EXCEPT ![c] = k, ![d] = m]
        BY <2>1, <2>3, <3>1
      <3> HIDE DEF m
      <3>5. conn'[d] = m
        BY <1>1, <3>4
      <3>6. Queue!Send(Hello)
        BY <1>1, <3>1, <3>3, <3>5, Fresh, SendQueues DEF m
      <3>7. Seen.given' = Seen.given
        BY <1>1, <3>1, <3>3, <3>5, SeenIs, SeenBecomes
      <3> QED BY <3>6, <3>7 DEF Queue!Greet, Queue!Greeting, Hello
    <2> QED BY <2>2, <2>3
  <1> QED BY <1>3, <1>4 DEF SocketOpens

\* A socket of the session's connection breaks; another's is nothing to the queue.
LEMMA ClosesQueue ==
  ASSUME IInv, InOrder, NEW s \in Sockets, SocketCloses(s)
  PROVE  Queue!Break \/ UNCHANGED Queue!vars
  <1>1. conn \in [Conns -> ConnType] /\ connection' = connection
        /\ connection \in Conns \cup {None}
    BY DEF SocketCloses, IInv, TypeOK
  <1>2. PICK c \in Conns : c = sock[s].of
    BY SessionAssumption DEF SocketCloses, IInv, TypeOK, SocketType, Wiring, Standard
  <1>3. PICK k : /\ conn' = [conn EXCEPT ![c] = k]
                 /\ k.isOpen = FALSE /\ k.handed = conn[c].handed
                 /\ k.pending = conn[c].pending /\ k.dropped = conn[c].dropped
                 /\ k.given = conn[c].given
    BY <1>2, ClosesLeaves
  <1>4. conn'[c] = k /\ \A d \in Conns : d # c => conn'[d] = conn[d]
    BY <1>1, <1>3
  <1>5. CASE connection = c
    <2>1. Queue!Break
      BY <1>1, <1>3, <1>4, <1>5, SeenIs, SeenBecomes DEF Queue!Break
    <2> QED BY <2>1
  <1>6. CASE connection # c
    <2>1. connection # None => Of(connection)' = Of(connection)
      BY <1>1, <1>4, <1>6 DEF Of
    <2> QED BY <1>1, <2>1, NothingSeen
  <1> QED BY <1>5, <1>6

\* The session is a queue of commands, whatever happens to its sockets, to tickets and
\* timers and to the connections closed before.
THEOREM ImplementsCommandQueue == Spec => QueuesCommands
  <1>1. Init => Queue!Init
    BY DEF Init, Queue!Init, Queue!Nothing, Seen, Connected, Idle
  <1>2. ASSUME IInv, InOrder, [Next]_vars PROVE [Queue!Next]_(Queue!vars)
    <2>1. CASE Program
      BY <1>2, <2>1, ConnectQueue, GiveQueue, CloseQueue DEF Program, Queue!Next
    <2>2. CASE \E c \in Conns : TicketArrives(c) \/ TicketFails(c) \/ TimerFires(c)
      BY <1>2, <2>2, TicketQueue
    <2>3. CASE \E s \in Sockets : SocketOpens(s) \/ SocketCloses(s)
      BY <1>2, <2>3, OpensQueue, ClosesQueue DEF Queue!Next
    <2>4. CASE (\E s \in Sockets : Deliver(s)) \/ AgentSaves \/ AgentAnnounces \/ UNCHANGED vars
      <3>1. conn' = conn /\ connection' = connection
        BY <2>4 DEF Deliver, AgentSaves, AgentAnnounces, vars, client
      <3> QED BY <3>1, NothingSeen DEF Of
    <2> QED BY <1>2, <2>1, <2>2, <2>3, <2>4 DEF Next, Callback
  <1> QED BY <1>1, <1>2, SpecInv, SpecInOrder, PTL DEF Spec, QueuesCommands, Queue!Spec
=============================================================================
