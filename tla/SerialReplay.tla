---------------------------- MODULE SerialReplay ----------------------------
(***************************************************************************)
(* What the kernel promises, without its concurrency: a run consumes the   *)
(* log one event at a time, each event in one indivisible step that reads  *)
(* the stored cursor and checkpoint, applies the reducer and stores the    *)
(* result.  Kernel, where processors read, think and commit separately,    *)
(* crash and compete, is shown to implement this specification.            *)
(***************************************************************************)
EXTENDS RunStore, FiniteSets

serialVars == <<log, clock, runs, cursors, aggregates, outputs, dispatchable>>

SerialInit == InitLog /\ InitStore

\* A provider record is captured.
CaptureDraft(d) == AppendNew(d) /\ UNCHANGED <<clock, runs, cursors, aggregates, outputs, dispatchable>>

ClockStep == Tick /\ UNCHANGED <<runs, cursors, aggregates, outputs, dispatchable>>

\* A run is registered under its manifest; a second registration changes nothing.
Register(m) == ensureRun(m) /\ UNCHANGED <<log, clock, cursors, aggregates, outputs, dispatchable>>

\* The event that a run processes next.
NextEvent(m) == log[loadCursor(m).processedPosition + 1]

\* The commit for it, computed from what is stored now.
NextCommit(m) ==
    BuildCommit(m, loadCursor(m), loadAggregate(m, Route(NextEvent(m))), NextEvent(m))

\* A registered run processes its next event.
ProcessNext(m) ==
    /\ runs[m.runId] = m
    /\ loadCursor(m).processedPosition < Len(log)
    /\ Route(NextEvent(m)) \in AggregateIds
    /\ WellFormed(Apply(loadAggregate(m, Route(NextEvent(m))).state, NextEvent(m), m))
    /\ DistinctKeys(NextCommit(m).outputs)
    /\ LedgerAdmits(NextCommit(m).outputs)
    /\ CommitWrites(m, NextCommit(m))
    /\ UNCHANGED <<log, clock>>

SerialNext ==
    \/ \E d \in Drafts : CaptureDraft(d)
    \/ ClockStep
    \/ \E m \in Manifests : Register(m) \/ ProcessNext(m)

SerialSpec == SerialInit /\ [][SerialNext]_serialVars

-----------------------------------------------------------------------------
(* What holds of the store.  Every property is about the seven store       *)
(* variables, so it can be asked of Kernel as well.                        *)

\* Every stored value has its type.
StoreTypeOK ==
    /\ log \in Seq(StoredEvent)
    /\ clock \in Nat
    /\ runs \in [RunIds -> Manifest \cup {None}]
    /\ cursors \in [RunIds -> Cursor \cup {None}]
    /\ aggregates \in [RunIds -> [AggregateIds -> Checkpoint \cup {None}]]
    /\ outputs \in Seq(Output)
    /\ dispatchable \subseteq DOMAIN outputs

\* The log as the kernel sees it: positions are dense, each event is hashed
\* over its predecessor, and logical time does not decrease.
LogChained ==
    \A i \in DOMAIN log :
        /\ log[i].position = i
        /\ log[i].previousEventHash = HashAt(i - 1)
        /\ SelfConsistent(log[i])
        /\ \A j \in 1 .. i : log[j].logicalAtMs <= log[i].logicalAtMs

\* A cursor points at an event that exists, with that event's hash and time,
\* under the manifest the run is registered with: a fork of the log, a cursor
\* past its end and a cursor of another behavior are all impossible.
CursorBound ==
    \A r \in RunIds : cursors[r] # None =>
        /\ cursors[r].manifest = runs[r]
        /\ cursors[r].processedPosition \in DOMAIN log
        /\ cursors[r].lastEventHash = log[cursors[r].processedPosition].eventHash
        /\ cursors[r].logicalAtMs = log[cursors[r].processedPosition].logicalAtMs

\* The steps of a state head that are about one aggregate, and the last of them.
StepsOf(head, a) == {i \in DOMAIN head : head[i].aggregateId = a}
Latest(steps) == CHOOSE i \in steps : \A j \in steps : j <= i

\* The state an aggregate has after the steps of a state head.
StateAfter(m, head, a) ==
    IF StepsOf(head, a) = {} THEN InitialState(a, m) ELSE head[Latest(StepsOf(head, a))].state

\* Step i of the heads is what the reducer yields for event i from the state
\* that the steps before it leave.
ReplaysAt(m, head, decisions, i) ==
    LET a == Route(log[i])
        t == Apply(StateAfter(m, SubSeq(head, 1, i - 1), a), log[i], m)
    IN  /\ head[i] = [eventHash |-> log[i].eventHash, aggregateId |-> a, state |-> t.state]
        /\ decisions[i] = [eventHash |-> log[i].eventHash,
                           outputs |-> semanticOutputs(materialize(m, log[i], a, t))]

\* Determinism: whatever the interleaving, the heads of a run are what replaying
\* events 1, 2, ... in order through the reducer yields.  No event is skipped,
\* applied twice or applied to a stale state, so two stores that processed the
\* same log under one manifest have equal heads.
HeadsReplayReducer ==
    \A r \in RunIds : cursors[r] # None =>
        /\ Len(cursors[r].stateHead) = cursors[r].processedPosition
        /\ Len(cursors[r].decisionHead) = cursors[r].processedPosition
        /\ \A i \in 1 .. cursors[r].processedPosition :
              ReplaysAt(runs[r], cursors[r].stateHead, cursors[r].decisionHead, i)

\* A checkpoint is what the state head last recorded for its aggregate, at the
\* position where it did so, and its version counts the events it absorbed: the
\* checkpoint table and the heads never drift apart.
CheckpointsMatchHead ==
    \A r \in RunIds, a \in AggregateIds :
        LET head == IF cursors[r] = None THEN <<>> ELSE cursors[r].stateHead
            steps == StepsOf(head, a)
        IN  aggregates[r][a] =
              IF steps = {} THEN None
              ELSE [aggregateId |-> a, version |-> Cardinality(steps),
                    lastInputPosition |-> Latest(steps), state |-> head[Latest(steps)].state]

\* The ledger rows of one run that one event emitted.
RowsOf(r, i) == {n \in DOMAIN outputs : outputs[n].runId = r /\ outputs[n].inputPosition = i}

\* The rows of event i are one unbroken stretch of the ledger, after the rows
\* of every earlier event of the run, and say in order what was decided.
StretchMatches(r, i, decided) ==
    \E k \in 0 .. Len(outputs) :
        /\ RowsOf(r, i) = (k + 1) .. (k + Len(decided))
        /\ \A j \in DOMAIN decided :
              decided[j] = [category |-> outputs[k + j].category, ordinal |-> outputs[k + j].ordinal,
                            body |-> outputs[k + j].body]
        /\ \A n \in DOMAIN outputs :
              (outputs[n].runId = r /\ outputs[n].inputPosition < i) => n <= k

\* The ledger and the decision head tell the same story: the outputs of a run
\* are, for each event it processed and in ledger order, exactly the ones the
\* decision head hashed, and nothing is in the ledger for an unprocessed event.
LedgerMatchesDecisions ==
    \A r \in RunIds :
        LET head == IF cursors[r] = None THEN <<>> ELSE cursors[r].decisionHead
        IN  /\ \A i \in DOMAIN head : StretchMatches(r, i, head[i].outputs)
            /\ \A n \in DOMAIN outputs : outputs[n].runId = r => outputs[n].inputPosition \in DOMAIN head

\* Whatever a commit stored can be read back: no row that the write path admits
\* is one that an audit read throws on, now or after any later commit.
RowsReadable ==
    /\ \A r \in RunIds :
          /\ runs[r] # None => RunRowReads(r)
          /\ cursors[r] # None => CursorRowReads(r)
          /\ \A a \in AggregateIds : aggregates[r][a] # None => AggregateRowReads(r, a)
    /\ \A n \in DOMAIN outputs : OutputRowReads(outputs[n])

\* A dedupe key is emitted at most once per run and category, whatever crashes,
\* retries and competing processors do.
IntentsEmittedOnce ==
    \A i, j \in DOMAIN outputs :
        (i # j /\ outputs[i].dedupeKey # NoKey) =>
            computeOutputDedupeIdentity(outputs[i]) # computeOutputDedupeIdentity(outputs[j])

\* Exactly the jobs and outbox messages of runs that are live and may have
\* effects can be dispatched: a replay, shadow, research or paper run never
\* queues an external effect, and a live run never loses one.
EffectsGated ==
    dispatchable =
        {n \in DOMAIN outputs :
            /\ outputs[n].category # "decision"
            /\ runs[outputs[n].runId] # None
            /\ runs[outputs[n].runId].kind = "live"
            /\ runs[outputs[n].runId].effectsAllowed}

\* No step rewrites history: registrations and outputs are immutable, a cursor
\* moves forward by at most one event, and its heads extend what they were.
HistoryKept ==
    /\ SubSeq(outputs', 1, Len(outputs)) = outputs
    /\ dispatchable \subseteq dispatchable'
    /\ \A r \in RunIds :
          /\ runs[r] # None => runs'[r] = runs[r]
          /\ cursors[r] # None =>
                /\ cursors'[r] # None
                /\ cursors'[r].processedPosition \in
                      {cursors[r].processedPosition, cursors[r].processedPosition + 1}
                /\ SubSeq(cursors'[r].stateHead, 1, Len(cursors[r].stateHead))
                     = cursors[r].stateHead

HistoryImmutable == [][HistoryKept]_serialVars

=============================================================================
