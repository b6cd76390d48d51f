----------------------------- MODULE PhasePlan -----------------------------
(***************************************************************************)
(* What a phasic agent promises the users who request changes, whatever    *)
(* its builds do: requests wait until a planner takes all of them; what it *)
(* plans becomes a phase, one at a time, which stays open until it is      *)
(* complete.  Only a planner can lose a request.  Phases are paid for: by  *)
(* MaxPhases at first, by what a request finds missing up to Recharge, and *)
(* by one final phase on the house.                                        *)
(***************************************************************************)
EXTENDS Integers

CONSTANTS Requests, MaxPhases, Recharge

VARIABLES
    asked,    \* the requests made
    waiting,  \* those no planner has taken
    planned,  \* those the planner has
    open,     \* a phase is open
    within,   \* the requests that it is for
    done,     \* the requests of the phases completed
    phases,   \* phases begun
    left,     \* phases paid for and not completed
    final     \* the final phase may still come

vars == <<asked, waiting, planned, open, within, done, phases, left, final>>

Init ==
    /\ asked = {} /\ waiting = {} /\ planned = {}
    /\ open = FALSE /\ within = {} /\ done = {}
    /\ phases = 0
    /\ left = MaxPhases
    /\ final = TRUE

\* The final phase may be given up for good.
GivesUpFinal == final' \in {final, FALSE}

Ask(r) ==
    /\ r \notin asked
    /\ asked' = asked \cup {r}
    /\ waiting' = waiting \cup {r}
    /\ left' = IF left < Recharge THEN Recharge ELSE left
    /\ UNCHANGED <<planned, open, within, done, phases, final>>

\* A planner takes what waits.
Take ==
    /\ ~open
    /\ planned = {}
    /\ planned' = waiting
    /\ waiting' = {}
    /\ UNCHANGED <<asked, open, within, done, phases, left, final>>

\* It makes a phase of what it took, or of nothing but the blueprint.
Begin ==
    /\ ~open
    /\ left > 0 \/ (left = 0 /\ final)
    /\ open' = TRUE
    /\ within' = planned
    /\ planned' = {}
    /\ phases' = phases + 1
    /\ GivesUpFinal
    /\ UNCHANGED <<asked, waiting, done, left>>

\* It fails, is stopped or evicted, or sees nothing to do.
Drop ==
    /\ planned' = {}
    /\ GivesUpFinal
    /\ UNCHANGED <<asked, waiting, open, within, done, phases, left>>

Complete ==
    /\ open
    /\ open' = FALSE
    /\ done' = done \cup within
    /\ within' = {}
    /\ left' = left - 1
    /\ GivesUpFinal
    /\ UNCHANGED <<asked, waiting, planned, phases>>

Next == Drop \/ Take \/ Begin \/ Complete \/ \E r \in Requests : Ask(r)

Spec == Init /\ [][Next]_vars

\* A request is at one place: it waits, is being planned, is in the open phase or
\* in a completed one, so that nothing is planned or implemented twice.
OnePlace ==
    /\ waiting \cup planned \cup within \cup done \subseteq asked
    /\ waiting \cap (planned \cup within \cup done) = {}
    /\ planned \cap (within \cup done) = {}
    /\ within \cap done = {}
=============================================================================
