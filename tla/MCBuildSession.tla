--------------------------- MODULE MCBuildSession ---------------------------
(* Symmetry for the run of BuildSession. *)
EXTENDS BuildSession, TLC

\* A connection has one socket at a time, closing or not, so there is always one
\* to be had.
ASSUME Cardinality(Sockets) >= Cardinality(Conns)

Names == Permutations(Conns) \cup Permutations(Sockets)
            \cup Permutations(Files) \cup Permutations(Contents)
=============================================================================
