------------------------------ MODULE RunStore ------------------------------
(***************************************************************************)
(* The processing store and the pure part of DeterministicProcessor:       *)
(* what one event does to one run, and the transaction that persists it    *)
(* (src/core/processor.ts, adapters/sqlite/processing-store.ts, the        *)
(* indices of migrations/001_kernel_contracts_v2.sql).                     *)
(*                                                                         *)
(* The reducer is a parameter: Route, InitialState and Apply are the three *)
(* pure functions of the Reducer interface.  State and decision heads are  *)
(* hash chains, modelled like event hashes by what they are computed from. *)
(***************************************************************************)
EXTENDS EventLog

CONSTANTS
    RunIds,
    Behaviors,          \* reducer identity, configuration and run identities
    Manifests,          \* the manifests that hosts start processors with
    AggregateIds,       \* what validateAggregateId accepts
    States,             \* what parseState accepts, within the JSON limits
    Bodies,             \* what outputBody accepts, deterministic ids included
    DedupeKeys,
    NoKey,              \* the null dedupe key of a decision
    None,               \* an absent row
    Route(_),           \* reducer.route(event)
    InitialState(_, _), \* reducer.initialState(aggregateId, configuration)
    Apply(_, _, _)      \* reducer.apply(state, event, context)

Kinds == {"live", "replay", "shadow", "research", "paper"}
Categories == {"decision", "job", "outbox"}

Manifest == [runId : RunIds, kind : Kinds, effectsAllowed : BOOLEAN, behavior : Behaviors]

VARIABLES
    runs,         \* run_manifests: run id -> manifest or None
    cursors,      \* run_cursors: run id -> cursor or None
    aggregates,   \* aggregate_checkpoints: run id -> aggregate id -> checkpoint or None
    outputs,      \* processing_outputs in sequence order
    dispatchable  \* sequences that have a row in jobs or outbox

storeVars == <<runs, cursors, aggregates, outputs, dispatchable>>

StateStep == [eventHash : Hash, aggregateId : AggregateIds, state : States]
SemanticOutput == [category : Categories, ordinal : Nat, body : Bodies]
DecisionStep == [eventHash : Hash, outputs : Seq(SemanticOutput)]

Cursor == [manifest : Manifest, processedPosition : Nat, logicalAtMs : Nat,
           lastEventHash : Hash, stateHead : Seq(StateStep), decisionHead : Seq(DecisionStep)]

Checkpoint == [aggregateId : AggregateIds, version : Nat, lastInputPosition : Nat, state : States]

Output == [runId : RunIds, inputPosition : Nat, inputEventHash : Hash, aggregateId : AggregateIds,
           category : Categories, ordinal : Nat, dedupeKey : DedupeKeys \cup {NoKey}, body : Bodies]

\* What a reducer may ask for besides the next state.
Intent == [dedupeKey : DedupeKeys, body : Bodies]
Transition == [state : States, decisions : Seq(Bodies), jobs : Seq(Intent), outbox : Seq(Intent)]

ASSUME ManifestsAssumption == Manifests \subseteq Manifest
ASSUME AbsentAssumption ==
    /\ None \notin Manifest
    /\ None \notin Cursor
    /\ None \notin Checkpoint
    /\ NoKey \notin DedupeKeys

InitStore ==
    /\ runs = [r \in RunIds |-> None]
    /\ cursors = [r \in RunIds |-> None]
    /\ aggregates = [r \in RunIds |-> [a \in AggregateIds |-> None]]
    /\ outputs = <<>>
    /\ dispatchable = {}

-----------------------------------------------------------------------------
(* Registration.                                                           *)

\* Only a live run may have effects (checked by deriveRunRegistration, and by
\* a CHECK constraint of run_manifests).
assertRunEffectPolicy(m) == m.effectsAllowed => m.kind = "live"

\* The manifest is of its type and its hashes are recomputed from it.
validateRunRegistration(m) == m \in Manifest /\ assertRunEffectPolicy(m)

\* The run id is free, or registered with this very manifest.
RegistrationAgrees(m) == runs[m.runId] \in {None, m}

\* Mutant: INSERT OR REPLACE, a second manifest takes the run id over.
ensureRun_Replace(m) ==
    /\ validateRunRegistration(m)
    /\ runs' = [runs EXCEPT ![m.runId] = m]

ensureRun(m) ==
    /\ validateRunRegistration(m)
    /\ RegistrationAgrees(m)
    /\ runs' = [runs EXCEPT ![m.runId] = m]

-----------------------------------------------------------------------------
(* Reads.                                                                  *)

\* The genesis heads hash the behavior, which every cursor carries along in
\* its manifest; here they are the empty chains.
createGenesisRunCursor(m) ==
    [manifest |-> m, processedPosition |-> 0, logicalAtMs |-> 0, lastEventHash |-> GenesisHash,
     stateHead |-> <<>>, decisionHead |-> <<>>]

loadCursor(m) ==
    IF cursors[m.runId] = None THEN createGenesisRunCursor(m) ELSE cursors[m.runId]

aggregateGenesis(a, m) ==
    [aggregateId |-> a, version |-> 0, lastInputPosition |-> 0, state |-> InitialState(a, m)]

loadAggregate(m, a) ==
    IF aggregates[m.runId][a] = None THEN aggregateGenesis(a, m) ELSE aggregates[m.runId][a]

-----------------------------------------------------------------------------
(* What a processor asks of what it read.                                  *)

\* The stored cursor carries the manifest and the behavior of this processor.
verifyCursor(m, cursor) == cursor.manifest = m

\* The reducer still parses the stored state.
verifyAggregate(checkpoint) == checkpoint.state \in States

-----------------------------------------------------------------------------
(* One step of a run.                                                      *)

\* #materialize: the decisions, then the jobs, then the outbox messages of a
\* transition become immutable outputs bound to run, event and aggregate.
OutputsOf(m, event, aggregateId, category, intents) ==
    [i \in DOMAIN intents |->
        [runId |-> m.runId, inputPosition |-> event.position,
         inputEventHash |-> event.eventHash, aggregateId |-> aggregateId,
         category |-> category, ordinal |-> i - 1,
         dedupeKey |-> IF category = "decision" THEN NoKey ELSE intents[i].dedupeKey,
         body |-> IF category = "decision" THEN intents[i] ELSE intents[i].body]]

materialize(m, event, aggregateId, transition) ==
    OutputsOf(m, event, aggregateId, "decision", transition.decisions)
    \o OutputsOf(m, event, aggregateId, "job", transition.jobs)
    \o OutputsOf(m, event, aggregateId, "outbox", transition.outbox)

\* The identity under which an output is emitted at most once.
computeOutputDedupeIdentity(o) == <<o.runId, o.category, o.dedupeKey>>

\* #materialize and verifyProcessingCommit refuse a key used twice in one transition.
DistinctKeys(outs) ==
    \A i, j \in DOMAIN outs :
        (i # j /\ outs[i].dedupeKey # NoKey) =>
            computeOutputDedupeIdentity(outs[i]) # computeOutputDedupeIdentity(outs[j])

semanticOutputs(outs) ==
    [i \in DOMAIN outs |->
        [category |-> outs[i].category, ordinal |-> outs[i].ordinal, body |-> outs[i].body]]

\* Mutant: the new head hashes the step alone, not the head before it.
StateHeadStep_Unchained(head, event, aggregate) ==
    <<[eventHash |-> event.eventHash, aggregateId |-> aggregate.aggregateId, state |-> aggregate.state]>>

StateHeadStep(head, event, aggregate) ==
    Append(head, [eventHash |-> event.eventHash, aggregateId |-> aggregate.aggregateId,
                  state |-> aggregate.state])

DecisionHeadStep(head, event, outs) ==
    Append(head, [eventHash |-> event.eventHash, outputs |-> semanticOutputs(outs)])

\* parseState, the JSON limits and outputBody refuse a malformed transition.
WellFormed(transition) == transition \in Transition

\* The commit that process() builds from the cursor and checkpoint it loaded.
BuildCommit(m, previous, prior, event) ==
    LET transition == Apply(prior.state, event, m)
        aggregate  == [aggregateId |-> prior.aggregateId, version |-> prior.version + 1,
                       lastInputPosition |-> event.position, state |-> transition.state]
        outs       == materialize(m, event, prior.aggregateId, transition)
    IN  [expectedPosition |-> previous.processedPosition,
         event |-> event,
         aggregate |-> aggregate,
         outputs |-> outs,
         cursor |-> [manifest |-> m, processedPosition |-> event.position,
                     logicalAtMs |-> event.logicalAtMs, lastEventHash |-> event.eventHash,
                     stateHead |-> StateHeadStep(previous.stateHead, event, aggregate),
                     decisionHead |-> DecisionHeadStep(previous.decisionHead, event, outs)]]

-----------------------------------------------------------------------------
(* The commit transaction.                                                 *)

\* The event of a commit is exactly the one stored at its position.
ExactPersistedEvent(e) == Persisted(e.position) /\ log[e.position] = e

\* Decisions, then jobs, then outbox messages, each numbered from 0.
CanonicalOrder(outs) ==
    LET rank == [decision |-> 0, job |-> 1, outbox |-> 2]
    IN  \A i \in DOMAIN outs :
          /\ i > 1 => rank[outs[i - 1].category] <= rank[outs[i].category]
          /\ outs[i].ordinal = IF i > 1 /\ outs[i - 1].category = outs[i].category
                               THEN outs[i - 1].ordinal + 1 ELSE 0

\* Only a decision comes without a dedupe key, and it always does.
validateStoredOutputBody(o) == (o.category = "decision") <=> (o.dedupeKey = NoKey)

\* The envelope of a commit, before a field of it is trusted.
validateProcessingCommit(c) == \A i \in DOMAIN c.outputs : validateStoredOutputBody(c.outputs[i])

\* verifyProcessingCommit: the commit is about one event of one run.
verifyProcessingCommit(c, m) ==
    /\ SelfConsistent(c.event)
    /\ c.cursor.manifest = m
    /\ c.cursor.processedPosition = c.event.position
    /\ c.cursor.logicalAtMs = c.event.logicalAtMs
    /\ c.cursor.lastEventHash = c.event.eventHash
    /\ c.aggregate.lastInputPosition = c.event.position
    /\ CanonicalOrder(c.outputs)
    /\ \A i \in DOMAIN c.outputs :
          /\ c.outputs[i].runId = m.runId
          /\ c.outputs[i].inputPosition = c.event.position
          /\ c.outputs[i].inputEventHash = c.event.eventHash
          /\ c.outputs[i].aggregateId = c.aggregate.aggregateId
    /\ DistinctKeys(c.outputs)

\* verifyProcessingTransition: the commit extends the stored cursor.
verifyProcessingTransition(c, m, previous) ==
    /\ verifyProcessingCommit(c, m)
    /\ previous.manifest = m
    /\ c.expectedPosition = previous.processedPosition
    /\ c.event.position = previous.processedPosition + 1
    /\ c.event.previousEventHash = previous.lastEventHash
    /\ c.event.logicalAtMs >= previous.logicalAtMs
    /\ c.cursor.stateHead = StateHeadStep(previous.stateHead, c.event, c.aggregate)
    /\ c.cursor.decisionHead = DecisionHeadStep(previous.decisionHead, c.event, c.outputs)

\* The unique index processing_outputs_run_dedupe aborts the transaction when
\* the run has emitted this key in this category before.
LedgerAdmits(outs) ==
    \A i \in DOMAIN outs, j \in DOMAIN outputs :
        outs[i].dedupeKey # NoKey =>
            computeOutputDedupeIdentity(outs[i]) # computeOutputDedupeIdentity(outputs[j])

\* Everything commit checks before, and while, it writes.
CommitAccepted(m, c) ==
    /\ validateProcessingCommit(c)
    /\ ExactPersistedEvent(c.event)
    /\ runs[m.runId] # None
    /\ loadCursor(runs[m.runId]).processedPosition = c.expectedPosition
    /\ verifyProcessingTransition(c, runs[m.runId], loadCursor(runs[m.runId]))
    /\ c.aggregate.version = loadAggregate(m, c.aggregate.aggregateId).version + 1
    /\ LedgerAdmits(c.outputs)

\* Mutant: outputs are persisted only when they may be dispatched.
CommitWrites_EffectsOnly(m, c) ==
    LET effects == runs[m.runId].effectsAllowed
    IN  /\ outputs' = IF effects THEN outputs \o c.outputs ELSE outputs
        /\ dispatchable' = dispatchable \cup
              {Len(outputs) + i : i \in {j \in DOMAIN c.outputs :
                  effects /\ c.outputs[j].category \in {"job", "outbox"}}}
        /\ aggregates' = [aggregates EXCEPT ![m.runId][c.aggregate.aggregateId] = c.aggregate]
        /\ cursors' = [cursors EXCEPT ![m.runId] = c.cursor]
        /\ UNCHANGED runs

\* Everything commit writes: outputs with the next sequences, a jobs or outbox
\* row for each intent of a run with effects, the checkpoint and the cursor.
CommitWrites(m, c) ==
    /\ outputs' = outputs \o c.outputs
    /\ dispatchable' = dispatchable \cup
          {Len(outputs) + i : i \in {j \in DOMAIN c.outputs :
              runs[m.runId].effectsAllowed /\ c.outputs[j].category \in {"job", "outbox"}}}
    /\ aggregates' = [aggregates EXCEPT ![m.runId][c.aggregate.aggregateId] = c.aggregate]
    /\ cursors' = [cursors EXCEPT ![m.runId] = c.cursor]
    /\ UNCHANGED runs

-----------------------------------------------------------------------------
(* Audit reads: every reader passes each row through one of these, which   *)
(* throws when the row is not what a commit could have written.            *)

\* #runRow: the manifest is canonical and its columns repeat it.
RunRowReads(r) == runs[r] \in Manifest /\ runs[r].runId = r

\* #cursorFromRow: the cursor parses.
CursorRowReads(r) == cursors[r] \in Cursor

\* #aggregateFromRow: a checkpoint of a registered run that absorbed an event.
AggregateRowReads(r, a) ==
    LET checkpoint == aggregates[r][a]
    IN  /\ checkpoint \in Checkpoint
        /\ checkpoint.version > 0
        /\ checkpoint.lastInputPosition > 0
        /\ checkpoint.aggregateId = a
        /\ runs[r] # None /\ RunRowReads(r)

\* #outputFromRow: an output of a registered run and of the event that is
\* stored at its position, with the delivery metadata of its category.
OutputRowReads(o) ==
    /\ runs[o.runId] # None /\ RunRowReads(o.runId)
    /\ Persisted(o.inputPosition)
    /\ log[o.inputPosition].eventHash = o.inputEventHash
    /\ validateStoredOutputBody(o)

=============================================================================
