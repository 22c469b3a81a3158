------------------------------- MODULE MCLoop -------------------------------
(* One cluster with its timers and its analysis, and two workers.            *)
EXTENDS AnalysisLoop

CONSTANTS a1, w1, w2, MaxEventId

MCWorkers == {w1, w2}
MCOffers == {[kind |-> "fmp_release", artifact |-> a1]}

\* Every job key of a cluster with one source.
MCIntents ==
    {TimerKey(t) : t \in TimerTypes}
    \cup {RecoveryKey(t, n) : t \in TimerTypes, n \in 1 .. MaxEventId}
    \cup {BranchKey("first_source", <<n>>) : n \in 1 .. MaxEventId}
=============================================================================
