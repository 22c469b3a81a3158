---------------------------- MODULE JournalOrder ----------------------------
(* Which checkpoint may follow which in the journal of an acquisition       *)
(* (adapters/market-acquisition/journal.ts).                                *)

ArtifactRequired ==
  {"artifact-committed", "artifact-verified", "page-checkpointed", "chain-complete",
   "normalization-started", "normalization-complete", "selection-started", "completed"}
BeforeArtifact == {"acquisition-declared", "request-started", "attempt-started", "request-succeeded"}
TerminalKinds == {"stopped", "failed-clean", "quarantined"}

NonterminalTransitions ==
  [k \in ArtifactRequired \cup BeforeArtifact \cup TerminalKinds |->
     CASE k = "acquisition-declared" -> {"request-started"} \cup TerminalKinds
       [] k = "request-started" -> {"attempt-started"} \cup TerminalKinds
       [] k = "attempt-started" -> {"attempt-started", "request-succeeded"} \cup TerminalKinds
       [] k = "request-succeeded" -> {"attempt-started", "artifact-committed"} \cup TerminalKinds
       [] k = "artifact-committed" -> {"artifact-verified"} \cup TerminalKinds
       [] k = "artifact-verified" -> {"page-checkpointed"} \cup TerminalKinds
       [] k = "page-checkpointed" -> {"attempt-started", "chain-complete", "stopped", "failed-clean"}
       [] k = "chain-complete" -> {"normalization-started"} \cup TerminalKinds
       [] k = "normalization-started" -> {"normalization-complete"} \cup TerminalKinds
       [] k = "normalization-complete" -> {"selection-started"} \cup TerminalKinds
       [] k = "selection-started" -> {"completed"} \cup TerminalKinds
       [] OTHER -> {}]
=============================================================================
