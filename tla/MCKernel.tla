------------------------------ MODULE MCKernel ------------------------------
(* Small instances of Kernel and SnapshotReader for TLC, each on its own:    *)
(* `subject` says which one a behaviour is about.  Beside a snapshot only    *)
(* its own run moves, since the store keeps runs apart.                      *)
EXTENDS SnapshotReader, TLC

CONSTANTS p1, p2, p3, p4, p5, k1, k2, k3, a1, s1, s2

MCKeys == {k1, k2, k3}
MCArtifacts == {a1}
MCSubjects == {s1, s2}
MCPayloads == {"first", "second"}

D(k, s, m) == [key |-> k, artifact |-> a1, subject |-> s, payload |-> m]

\* Two records of one aggregate, and one of another whose job would reuse the
\* dedupe key of the first: the run that meets it second can never commit it.
MCDrafts == {D(k1, s1, "first"), D(k2, s1, "second"), D(k3, s2, "first")}
\* The same without the reuse.
MCDraftsClean == {D(k1, s1, "first"), D(k2, s1, "second")}

\* A reducer with one aggregate per subject.  The state is the sum of what its
\* events brought, which depends on the order of the aggregate's events.
MCAggregateIds == MCSubjects
MCStates == 0 .. 20
MCRoute(e) == e.draft.subject
MCInitialState(a, m) == 0
MCApply(s, e, m) ==
    LET weight == IF e.draft.payload = "first" THEN 1 ELSE 2
        next == IF m.behavior = "v1" THEN 2 * s + weight ELSE s + 1
    IN  [state |-> next, decisions |-> <<next>>,
         jobs |-> <<[dedupeKey |-> e.draft.payload, body |-> next]>>,
         outbox |-> IF s = 0 THEN <<[dedupeKey |-> e.draft.subject, body |-> next]>> ELSE <<>>]

Live == [runId |-> "live", kind |-> "live", effectsAllowed |-> TRUE, behavior |-> "v1"]
Replay == [runId |-> "replay", kind |-> "replay", effectsAllowed |-> FALSE, behavior |-> "v1"]
\* The live run's id under another behavior, and a replay that wants effects.
LiveV2 == [Live EXCEPT !.behavior = "v2"]
Effectful == [Replay EXCEPT !.runId = "rogue", !.effectsAllowed = TRUE]

MCManifests == {Live, Replay, LiveV2, Effectful}
MCRunIds == {"live", "replay", "rogue"}
MCBehaviors == {"v1", "v2"}
MCDedupeKeys == MCPayloads \cup MCSubjects

\* A well-formed first event of some other log.
Forged ==
    LET d == D(k3, s1, "second")
    IN  [position |-> 1, draft |-> d, streamVersion |-> 1, receivedAtMs |-> 0,
         logicalAtMs |-> 0, previousEventHash |-> <<>>,
         eventHash |-> computeEventHash(<<>>, 1, d, 1, 0, 0)]
MCForeign == {Forged}
MCNoForeign == {}

\* Two polling processors of one run.
MCCompete == (p1 :> Live) @@ (p2 :> Live)
\* The live run, a replay fed by hand, a processor whose manifest disagrees
\* with the live run's registration, and a replay that asks for effects.
MCMixed == (p1 :> Live) @@ (p2 :> Live) @@ (p3 :> LiveV2) @@ (p4 :> Replay) @@ (p5 :> Effectful)

Twins == Permutations({p1, p2})

MCAggregateOrder == <<s1, s2>>

VARIABLE subject

sharedVars == <<snapshotVars, subject>>

SharedInit == SnapshotInit /\ subject \in {"processors", "snapshot"}

SharedNext ==
    \/ subject = "processors" /\ Next /\ UNCHANGED <<subject, reading>>
    \/ subject = "snapshot" /\ SnapshotNext /\ UNCHANGED subject
       /\ \A p \in Procs \ {Reader} : pc'[p] = "new"

SharedSpec == SharedInit /\ [][SharedNext]_sharedVars

\* The processors alone, under the fairness of Kernel.
ProcessorsInit == SnapshotInit /\ subject = "processors"
FairProcessors ==
    /\ ProcessorsInit /\ [][SharedNext]_sharedVars
    /\ \A p \in Procs : WF_vars(Step(p))
=============================================================================
