--------------------------- MODULE SnapshotReader ---------------------------
(***************************************************************************)
(* DeterministicProcessor.snapshot (src/core/processor.ts) beside the      *)
(* processors of Kernel: the cursor, then the outputs page by page, then   *)
(* the checkpoints page by page, each read a step of its own.  Nothing     *)
(* stops the run meanwhile, so the three parts are of different moments.   *)
(***************************************************************************)
EXTENDS Kernel

CONSTANTS
    Reader,          \* the processor whose host asks for snapshots
    AggregateOrder,  \* the aggregate ids in the order of their text
    SnapshotPage     \* the page size of snapshot

ASSUME ReaderAssumption == Reader \in Procs
ASSUME OrderAssumption ==
    /\ AggregateOrder \in Seq(AggregateIds)
    /\ \A a \in AggregateIds : \E i \in DOMAIN AggregateOrder : AggregateOrder[i] = a
    /\ \A i, j \in DOMAIN AggregateOrder : AggregateOrder[i] = AggregateOrder[j] => i = j
ASSUME SnapshotPageAssumption == SnapshotPage \in Nat \ {0}

VARIABLE reading  \* the call's locals: where it is and what it has collected

snapshotVars == <<vars, reading>>

NotReading == [stage |-> "idle", cursor |-> None, outputs |-> {}, outputCursor |-> 0,
               aggregates |-> {}, aggregateCursor |-> 0]

SnapshotInit == Init /\ reading = NotReading

-----------------------------------------------------------------------------
(* Pages of the store.                                                     *)

\* Rows are named by their place: an output by its sequence, a checkpoint by
\* its id's place in the order of ids.  A page is the first SnapshotPage rows.
FirstRows(rows) == {n \in rows : Cardinality({k \in rows : k < n}) < SnapshotPage}

\* Mutant: LIMIT is the page size itself, so a full page looks like the last.
PageOf_Unprobed(rows) == [rows |-> FirstRows(rows), hasMore |-> FALSE]

\* One row more than the page is asked for; it only says whether there is more.
PageOf(rows) == [rows |-> FirstRows(rows), hasMore |-> rows # FirstRows(rows)]

readOutputsAfter(runId, sequence) ==
    PageOf({n \in DOMAIN outputs : n > sequence /\ outputs[n].runId = runId})

readAggregatesAfter(runId, place) ==
    PageOf({i \in DOMAIN AggregateOrder : i > place /\ aggregates[runId][AggregateOrder[i]] # None})

\* The cursor after a page: its last row, or the one before when it is empty.
Following(rows, cursor) ==
    IF rows = {} THEN cursor ELSE CHOOSE n \in rows : \A k \in rows : k <= n

\* The output of a row, with its sequence.
Stored(n) == [sequence |-> n, output |-> outputs[n]]

-----------------------------------------------------------------------------
(* The call.                                                               *)

RunRead == ManifestOf[Reader].runId

\* Each read passes its rows through the audit checks; a row that fails them
\* rejects the whole call.  An initialized processor loads the cursor of its run.
SnapshotBegin ==
    /\ reading.stage \in {"idle", "done"}
    /\ pc[Reader] # "new"
    /\ reading' = [NotReading EXCEPT !.stage = "outputs", !.cursor = loadCursor(ManifestOf[Reader])]

SnapshotOutputs ==
    LET read == readOutputsAfter(RunRead, reading.outputCursor)
    IN  /\ reading.stage = "outputs"
        /\ reading' = IF \A n \in read.rows : OutputRowReads(outputs[n])
                      THEN [reading EXCEPT
                              !.outputs = @ \cup {Stored(n) : n \in read.rows},
                              !.outputCursor = Following(read.rows, @),
                              !.stage = IF read.hasMore THEN "outputs" ELSE "aggregates"]
                      ELSE NotReading

SnapshotAggregates ==
    LET read == readAggregatesAfter(RunRead, reading.aggregateCursor)
    IN  /\ reading.stage = "aggregates"
        /\ reading' = IF \A i \in read.rows : AggregateRowReads(RunRead, AggregateOrder[i])
                      THEN [reading EXCEPT
                              !.aggregates = @ \cup {aggregates[RunRead][AggregateOrder[i]] : i \in read.rows},
                              !.aggregateCursor = Following(read.rows, @),
                              !.stage = IF read.hasMore THEN "aggregates" ELSE "done"]
                      ELSE NotReading

SnapshotStep == SnapshotBegin \/ SnapshotOutputs \/ SnapshotAggregates

\* A crash of the processor's process takes the call with it.
SnapshotNext ==
    \/ Next /\ reading' = IF pc'[Reader] = "new" THEN NotReading ELSE reading
    \/ SnapshotStep /\ UNCHANGED vars

SnapshotSpec == SnapshotInit /\ [][SnapshotNext]_snapshotVars

-----------------------------------------------------------------------------

\* The outputs that the run's first n events emitted.
OutputsUpTo(n) ==
    {Stored(k) : k \in {j \in DOMAIN outputs : /\ outputs[j].runId = RunRead
                                               /\ outputs[j].inputPosition <= n}}

\* The one checkpoint of an aggregate that was read is reduced as far as event i.
ReadOnce(a, i) ==
    \E c \in reading.aggregates :
        /\ c.aggregateId = a
        /\ c.lastInputPosition >= i
        /\ \A d \in reading.aggregates : d.aggregateId = a => d = c

\* What snapshot returns while the run goes on can be told apart and ordered:
\* its outputs are exactly those of the first n events for some n at or after
\* the cursor, never a part of an event's; and of every one of these events the
\* aggregate is there, each once, reduced at least as far as that event.
SnapshotOrdered ==
    reading.stage = "done" =>
        \E n \in reading.cursor.processedPosition .. loadCursor(ManifestOf[Reader]).processedPosition :
            /\ reading.outputs = OutputsUpTo(n)
            /\ \A i \in 1 .. n : ReadOnce(Route(log[i]), i)

=============================================================================
