----------------------------- MODULE Supervisor -----------------------------
(***************************************************************************)
(* What a process monitor promises, whatever it does for it: it runs one   *)
(* child at a time, it starts at most MaxRestarts children after the first *)
(* unless a long run has earned it a new series, and it starts none once   *)
(* it is gone.                                                             *)
(***************************************************************************)
EXTENDS Naturals

CONSTANT MaxRestarts

VARIABLES
    alive,    \* a child runs
    started,  \* children started in this series
    earned,   \* the last run was long enough for a new series
    gone      \* the monitor has left

vars == <<alive, started, earned, gone>>

Init ==
    /\ alive = FALSE
    /\ started = 0
    /\ earned = FALSE
    /\ gone = FALSE

\* The next child of the series.
Start ==
    /\ ~alive /\ ~gone /\ ~earned
    /\ started <= MaxRestarts
    /\ alive' = TRUE
    /\ started' = started + 1
    /\ UNCHANGED <<earned, gone>>

\* The first child of a new series; if it cannot be started the series is new all
\* the same, and the monitor may leave.
StartOver ==
    /\ ~alive /\ ~gone /\ earned
    /\ \/ alive' = TRUE /\ started' = 1 /\ earned' = FALSE /\ gone' = FALSE
       \/ alive' = FALSE /\ started' = 0 /\ earned' = TRUE /\ gone' \in BOOLEAN

End ==
    /\ alive
    /\ alive' = FALSE
    /\ earned' \in IF gone THEN {earned} ELSE BOOLEAN
    /\ UNCHANGED <<started, gone>>

\* A child that runs may be left behind.
Leave ==
    /\ ~gone
    /\ gone' = TRUE
    /\ UNCHANGED <<alive, started, earned>>

Next == Start \/ StartOver \/ End \/ Leave

Spec == Init /\ [][Next]_vars
=============================================================================
