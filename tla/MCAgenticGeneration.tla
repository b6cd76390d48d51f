------------------------ MODULE MCAgenticGeneration ------------------------
(* Small instances of AgenticGeneration for TLC. *)
EXTENDS AgenticGeneration

AllDisturbances == {"llm", "template", "stop", "clear", "store", "compaction", "restart"}

(* A write has failed, an emergency has shortened the history, or the user cleared it. *)
Disturbed ==
  chat.unstored # {} \/ chat.forgotten # {} \/ (log # {} /\ log \subseteq exposed)

(* Bounds.  A second attempt, which the native client makes, is followed while the  *)
(* conversation has two messages at most, and a cut inference until the conversation *)
(* has been disturbed.                                                              *)
Bounds ==
  /\ Cardinality(log) > 2 => \A b \in Builds : build[b].attempt = 0
  /\ Disturbed => \A b \in Builds : ~build[b].aborted
=============================================================================
