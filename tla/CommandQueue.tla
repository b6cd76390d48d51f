---------------------------- MODULE CommandQueue ----------------------------
(***************************************************************************)
(* What a session promises the program that gives it commands, whatever    *)
(* becomes of its sockets: while a socket is open a command goes out at    *)
(* once; otherwise it waits behind the others, the oldest giving way when  *)
(* there are MaxPending; and all that wait go out, in order, before any    *)
(* later one, but that commands given just as the socket opens overtake    *)
(* them.  A greeting may come in between.                                  *)
(***************************************************************************)
EXTENDS Naturals, Sequences

CONSTANT MaxPending

VARIABLES
    up,       \* there is a session
    open,     \* its socket is open
    given,    \* the commands given, numbered from 1
    waiting,  \* those that wait for a socket
    sent,     \* those that went out, on whichever socket
    dropped   \* those that gave way

vars == <<up, open, given, waiting, sent, dropped>>

Greeting == 0

Nothing == open = FALSE /\ given = 0 /\ waiting = <<>> /\ sent = <<>> /\ dropped = {}

Init == up = FALSE /\ Nothing

Begin == ~up /\ up' = TRUE /\ Nothing'

End == up /\ up' = FALSE /\ Nothing'

GoesOut(m) ==
    /\ open
    /\ waiting = <<>>
    /\ sent' = Append(sent, m)
    /\ UNCHANGED <<waiting, dropped>>

Waits(m) ==
    /\ ~open
    /\ \/ /\ Len(waiting) < MaxPending
          /\ waiting' = Append(waiting, m)
          /\ UNCHANGED dropped
       \/ /\ Len(waiting) = MaxPending
          /\ waiting' = Append(Tail(waiting), m)
          /\ dropped' = dropped \cup {Head(waiting)}
    /\ UNCHANGED sent

Send(m) == up /\ (GoesOut(m) \/ Waits(m)) /\ UNCHANGED <<up, open>>

Give == given' = given + 1 /\ Send(given')

Greet == given' = given /\ Send(Greeting)

Open ==
    /\ up
    /\ open' = TRUE
    /\ given' >= given
    /\ sent' = sent \o [i \in 1 .. given' - given |-> given + i] \o waiting
    /\ waiting' = <<>>
    /\ UNCHANGED <<up, dropped>>

Break == open' = FALSE /\ UNCHANGED <<up, given, waiting, sent, dropped>>

Next == Begin \/ End \/ Give \/ Greet \/ Open \/ Break

Spec == Init /\ [][Next]_vars
=============================================================================
