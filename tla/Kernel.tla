------------------------------- MODULE Kernel -------------------------------
(***************************************************************************)
(* DeterministicProcessor (src/core/processor.ts) over a shared event log  *)
(* and processing store.  Several processors, in one or more operating     *)
(* system processes, may work for the same run.  An async method is split  *)
(* at each await: what a processor loaded may be stale when it commits.    *)
(* Every read and every transaction of the store is one step.              *)
(***************************************************************************)
EXTENDS SerialReplay

CONSTANTS
    Procs,          \* processors
    ManifestOf,     \* the manifest each is constructed with
    Direct,         \* processors whose host calls process(event); the others'
                    \* hosts call processAvailable()
    ForeignEvents,  \* well-formed envelopes that are not from this log
    PageSize,       \* the page size of processAvailable
    MaxCrashes      \* bound: crashes in one behaviour

ASSUME ManifestOfAssumption == ManifestOf \in [Procs -> Manifests]
ASSUME DirectAssumption == Direct \subseteq Procs
ASSUME ForeignAssumption == \A e \in ForeignEvents : e \in StoredEvent /\ SelfConsistent(e)
ASSUME PageSizeAssumption == PageSize \in Nat \ {0}
ASSUME MaxCrashesAssumption == MaxCrashes \in Nat

VARIABLES
    pc,       \* where each processor's current call is
    arg,      \* the event being processed
    seen,     \* the cursor that the call loaded last
    base,     \* the checkpoint that the call loaded
    page,     \* events of the current page still to process
    more,     \* hasMore of the current page
    crashes   \* crashes so far

localVars == <<pc, arg, seen, base, page, more>>
vars == <<log, clock, runs, cursors, aggregates, outputs, dispatchable,
          pc, arg, seen, base, page, more, crashes>>
storeAndLog == <<log, clock, runs, cursors, aggregates, outputs, dispatchable>>

PCs == {"new", "idle", "scan", "load", "recheck", "verify", "reduce", "commit"}

Init ==
    /\ SerialInit
    /\ pc = [p \in Procs |-> "new"]
    /\ arg = [p \in Procs |-> None]
    /\ seen = [p \in Procs |-> None]
    /\ base = [p \in Procs |-> None]
    /\ page = [p \in Procs |-> <<>>]
    /\ more = [p \in Procs |-> FALSE]
    /\ crashes = 0

-----------------------------------------------------------------------------
(* Control.                                                                *)

\* The call's locals take new values.
Locals(p, pc1, arg1, seen1, base1, page1, more1) ==
    /\ pc' = [pc EXCEPT ![p] = pc1]
    /\ arg' = [arg EXCEPT ![p] = arg1]
    /\ seen' = [seen EXCEPT ![p] = seen1]
    /\ base' = [base EXCEPT ![p] = base1]
    /\ page' = [page EXCEPT ![p] = page1]
    /\ more' = [more EXCEPT ![p] = more1]

\* The call moves on to another await.
Continue(p, pc1, seen1, base1) == Locals(p, pc1, arg[p], seen1, base1, page[p], more[p])

\* The call rejects: the whole of processAvailable is abandoned with it.
Throw(p) == Locals(p, "idle", None, None, None, <<>>, FALSE)

\* process() resolves to a cursor.  processAvailable goes on with the next
\* event of the page, then with the next page if there was more.
Return(p, cursor) ==
    \/ /\ page[p] # <<>>
       /\ Locals(p, "load", Head(page[p]), None, None, Tail(page[p]), more[p])
    \/ /\ page[p] = <<>> /\ more[p]
       /\ Locals(p, "scan", None, cursor, None, <<>>, FALSE)
    \/ /\ page[p] = <<>> /\ ~more[p]
       /\ Locals(p, "idle", None, None, None, <<>>, FALSE)

-----------------------------------------------------------------------------
(* Steps of a processor.                                                   *)

\* #initialize: ensureRun, once per instance.  When the run is registered
\* under another manifest it throws and the processor stays uninitialized.
Initialize(p) ==
    /\ pc[p] = "new"
    /\ ensureRun(ManifestOf[p])
    /\ Locals(p, "idle", None, None, None, <<>>, FALSE)
    /\ UNCHANGED <<log, clock, cursors, aggregates, outputs, dispatchable, crashes>>

\* process(event) is called, with an event of the log or with another one.
CallProcess(p, e) ==
    /\ p \in Direct
    /\ pc[p] = "idle"
    /\ Locals(p, "load", e, None, None, <<>>, FALSE)
    /\ UNCHANGED <<storeAndLog, crashes>>

\* processAvailable() is called: it loads the cursor.
CallProcessAvailable(p) ==
    /\ p \notin Direct
    /\ pc[p] = "idle"
    /\ Locals(p, "scan", None, loadCursor(ManifestOf[p]), None, <<>>, FALSE)
    /\ UNCHANGED <<storeAndLog, crashes>>

\* processAvailable reads a page after the cursor; it returns on an empty one.
ReadPage(p) ==
    LET events == PageAfter(seen[p].processedPosition, PageSize)
    IN  /\ pc[p] = "scan"
        /\ IF events = <<>> THEN Throw(p)
           ELSE Locals(p, "load", Head(events), None, None, Tail(events),
                       HasMoreAfter(seen[p].processedPosition, PageSize))
        /\ UNCHANGED <<storeAndLog, crashes>>

\* process: load and verify the cursor, then compare positions.
LoadCursor(p) ==
    LET cursor == loadCursor(ManifestOf[p])
        position == arg[p].position
    IN  /\ pc[p] = "load"
        /\ IF ~verifyCursor(ManifestOf[p], cursor) THEN Throw(p)
           ELSE IF position <= cursor.processedPosition THEN Continue(p, "recheck", cursor, None)
           ELSE IF position = cursor.processedPosition + 1 THEN Continue(p, "verify", cursor, None)
           ELSE Throw(p)
        /\ UNCHANGED <<storeAndLog, crashes>>

\* process, position already processed: the event must be exactly the stored
\* one and the stored chain must lead from it to the cursor; then the loaded
\* cursor is returned and nothing is written.
ProcessedBefore(p) ==
    LET e == arg[p]
        last == seen[p].processedPosition
    IN  /\ e.position = 1 \/ Persisted(e.position - 1)
        /\ verifyStoredEvent(e, HashAt(e.position - 1))
        /\ ExactPersistedEvent(e)
        /\ \A i \in (e.position + 1) .. last :
              Persisted(i) /\ log[i].position = i /\ verifyStoredEvent(log[i], HashAt(i - 1))
        /\ HashAt(last) = seen[p].lastEventHash

Recheck(p) ==
    /\ pc[p] = "recheck"
    /\ IF ProcessedBefore(p) THEN Return(p, seen[p]) ELSE Throw(p)
    /\ UNCHANGED <<storeAndLog, crashes>>

\* Mutant: the event is not compared with the stored one.
Verify_Trusting(p) ==
    /\ pc[p] = "verify"
    /\ IF /\ verifyStoredEvent(arg[p], seen[p].lastEventHash)
          /\ arg[p].logicalAtMs >= seen[p].logicalAtMs
          /\ Route(arg[p]) \in AggregateIds
       THEN Continue(p, "reduce", seen[p], None)
       ELSE Throw(p)
    /\ UNCHANGED <<storeAndLog, crashes>>

\* #verifyExactPersistedEvent against the loaded cursor, the clock check, route.
Verify(p) ==
    /\ pc[p] = "verify"
    /\ IF /\ verifyStoredEvent(arg[p], seen[p].lastEventHash)
          /\ ExactPersistedEvent(arg[p])
          /\ arg[p].logicalAtMs >= seen[p].logicalAtMs
          /\ Route(arg[p]) \in AggregateIds
       THEN Continue(p, "reduce", seen[p], None)
       ELSE Throw(p)
    /\ UNCHANGED <<storeAndLog, crashes>>

\* Load the checkpoint, apply the reducer, materialize its outputs.
Reduce(p) ==
    LET m == ManifestOf[p]
        prior == loadAggregate(m, Route(arg[p]))
    IN  /\ pc[p] = "reduce"
        /\ IF /\ verifyAggregate(prior)
              /\ WellFormed(Apply(prior.state, arg[p], m))
              /\ DistinctKeys(BuildCommit(m, seen[p], prior, arg[p]).outputs)
           THEN Continue(p, "commit", seen[p], prior)
           ELSE Throw(p)
        /\ UNCHANGED <<storeAndLog, crashes>>

\* Mutant: the outputs of a rejected commit are not rolled back.
Commit_KeepsOutputs(p) ==
    LET m == ManifestOf[p]
        c == BuildCommit(m, seen[p], base[p], arg[p])
    IN  /\ pc[p] = "commit"
        /\ \/ /\ CommitAccepted(m, c)
              /\ CommitWrites(m, c)
              /\ Return(p, c.cursor)
           \/ /\ ~CommitAccepted(m, c)
              /\ Throw(p)
              /\ outputs' = outputs \o c.outputs
              /\ UNCHANGED <<runs, cursors, aggregates, dispatchable>>
        /\ UNCHANGED <<log, clock, crashes>>

\* store.commit: one immediate transaction, rolled back by any failed check.
Commit(p) ==
    LET m == ManifestOf[p]
        c == BuildCommit(m, seen[p], base[p], arg[p])
    IN  /\ pc[p] = "commit"
        /\ \/ /\ CommitAccepted(m, c)
              /\ CommitWrites(m, c)
              /\ Return(p, c.cursor)
           \/ /\ ~CommitAccepted(m, c)
              /\ Throw(p)
              /\ UNCHANGED storeVars
        /\ UNCHANGED <<log, clock, crashes>>

\* The processor's operating system process dies; a new instance takes over.
Crash(p) ==
    /\ pc[p] # "new"
    /\ crashes < MaxCrashes
    /\ crashes' = crashes + 1
    /\ Locals(p, "new", None, None, None, <<>>, FALSE)
    /\ UNCHANGED storeAndLog

Step(p) ==
    \/ Initialize(p)
    \/ CallProcessAvailable(p)
    \/ ReadPage(p)
    \/ LoadCursor(p)
    \/ Recheck(p)
    \/ Verify(p)
    \/ Reduce(p)
    \/ Commit(p)

\* A provider record is captured, or the wall clock moves.
Environment ==
    /\ (\E d \in Drafts : CaptureDraft(d)) \/ ClockStep
    /\ UNCHANGED <<localVars, crashes>>

Next ==
    \/ \E p \in Procs :
          \/ Step(p)
          \/ \E e \in {log[i] : i \in DOMAIN log} \cup ForeignEvents : CallProcess(p, e)
          \/ Crash(p)
    \/ Environment

Spec == Init /\ [][Next]_vars

\* The hosts of polling processors keep calling processAvailable, and every
\* call that is running keeps running.
FairSpec == Spec /\ \A p \in Procs : WF_vars(Step(p))

-----------------------------------------------------------------------------
(* Properties of the processors; those of the store are in SerialReplay.   *)

\* Every variable has its type.
TypeOK ==
    /\ StoreTypeOK
    /\ pc \in [Procs -> PCs]
    /\ arg \in [Procs -> StoredEvent \cup {None}]
    /\ seen \in [Procs -> Cursor \cup {None}]
    /\ base \in [Procs -> Checkpoint \cup {None}]
    /\ page \in [Procs -> Seq(StoredEvent)]
    /\ more \in [Procs -> BOOLEAN]
    /\ crashes \in Nat

\* What a processor loaded is never ahead of what is stored, and is still what
\* is stored as long as the run has not advanced: a stale read always shows in
\* the position, which is what the commit compares.
StaleReadsShow ==
    \A p \in Procs :
        LET m == ManifestOf[p]
        IN  /\ seen[p] # None =>
                  /\ seen[p].processedPosition <= loadCursor(m).processedPosition
                  /\ seen[p].processedPosition = loadCursor(m).processedPosition
                        => seen[p] = loadCursor(m)
            /\ pc[p] = "commit" =>
                  (seen[p].processedPosition = loadCursor(m).processedPosition
                      => base[p] = loadAggregate(m, Route(arg[p])))

\* A processor that passed its checks holds the exact stored event that
\* follows the cursor it loaded: nothing from outside the log is ever reduced.
OnlyStoredEventsReduced ==
    \A p \in Procs : pc[p] \in {"reduce", "commit"} =>
        /\ arg[p].position \in DOMAIN log
        /\ log[arg[p].position] = arg[p]
        /\ arg[p].position = seen[p].processedPosition + 1

\* Whatever the interleaving, the store of every run is what replaying the log
\* leaves: heads, checkpoints, cursors, intents and the rows to dispatch.
RunsReplay ==
    /\ TypeOK
    /\ HeadsReplayReducer /\ CheckpointsMatchHead
    /\ IntentsEmittedOnce /\ CursorBound /\ EffectsGated /\ RowsReadable

\* What was read before an await is used only where it is still true.
ReadsSafe == StaleReadsShow /\ OnlyStoredEventsReduced

\* Every captured event is eventually processed by every run that has a polling
\* processor, whatever crashes and competing processors do in between.
PolledRuns == {ManifestOf[p].runId : p \in Procs \ Direct}
EverythingProcessed ==
    \A r \in PolledRuns : \A n \in 1 .. Cardinality(Drafts) :
        (Len(log) >= n) ~> (cursors[r] # None /\ cursors[r].processedPosition >= n)

=============================================================================
