-------------------------- MODULE SharedDeployment --------------------------
(***************************************************************************)
(* What deployToSandbox promises its callers, whatever it does for it: all *)
(* who call while a deployment is shared wait for that one; a deployment   *)
(* ends once at most, with one preview for all who still wait for it and   *)
(* for nobody else, which holds the theme files of the caller that began   *)
(* it and of other files at most such as callers have brought.  A caller   *)
(* may leave earlier with nothing; the deployment it began goes on, but is *)
(* no longer shared.                                                       *)
(***************************************************************************)
CONSTANTS
    Calls,
    Files,
    Theme,      \* the files that no preview may lack
    Brings,     \* the files each call brings
    None

VARIABLES
    made,     \* the calls made so far
    waits,    \* the deployment each caller waits for; one is named by its first caller
    current,  \* the deployment that is shared
    running,  \* the deployments under way
    preview,  \* the files in the preview a deployment came to
    got       \* the calls that have returned with a preview

vars == <<made, waits, current, running, preview, got>>

Init ==
    /\ made = {}
    /\ waits = [c \in Calls |-> None]
    /\ current = None
    /\ running = {}
    /\ preview = [c \in Calls |-> {}]
    /\ got = {}

\* The first caller begins a deployment.
Begin(c) ==
    /\ c \notin made
    /\ current = None
    /\ made' = made \cup {c}
    /\ waits' = [waits EXCEPT ![c] = c]
    /\ current' = c
    /\ running' = running \cup {c}
    /\ UNCHANGED <<preview, got>>

\* The next ones share it.
Join(c) ==
    /\ c \notin made
    /\ current # None
    /\ made' = made \cup {c}
    /\ waits' = [waits EXCEPT ![c] = current]
    /\ UNCHANGED <<current, running, preview, got>>

Deliver(d) ==
    /\ d \in running
    /\ running' = running \ {d}
    /\ \E files \in SUBSET UNION {Brings[c] : c \in made} :
          /\ Brings[d] \cap Theme \subseteq files
          /\ preview' = [preview EXCEPT ![d] = files]
    /\ got' = got \cup {c \in Calls : waits[c] = d}
    /\ waits' = [c \in Calls |-> IF waits[c] = d THEN None ELSE waits[c]]
    /\ current' = IF current = d THEN None ELSE current
    /\ UNCHANGED made

GiveUp(c) ==
    /\ waits[c] # None
    /\ waits' = [waits EXCEPT ![c] = None]
    /\ current' = IF current = c THEN None ELSE current
    /\ UNCHANGED <<made, running, preview, got>>

\* Everything under way may be lost at once.
Lose ==
    /\ waits' = [c \in Calls |-> None]
    /\ current' = None
    /\ running' = {}
    /\ preview' = [c \in Calls |-> {}]
    /\ UNCHANGED <<made, got>>

Next ==
    \/ \E c \in Calls : Begin(c) \/ Join(c) \/ Deliver(c) \/ GiveUp(c)
    \/ Lose

Spec == Init /\ [][Next]_vars
=============================================================================
