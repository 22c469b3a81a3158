---------------------------- MODULE KernelProofs ----------------------------
(***************************************************************************)
(* The kernel.  First SerialReplay, for every set of drafts, manifests and *)
(* aggregates and for every reducer; then that Kernel implements it:       *)
(* concurrent, crashing processors with stale reads yield nothing that     *)
(* indivisible steps could not; then a snapshot read beside them.          *)
(***************************************************************************)
EXTENDS SnapshotReader, SequenceTheorems, FiniteSetTheorems, WellFoundedInduction, TLAPS


-----------------------------------------------------------------------------
(* The log.                                                                *)

LogTypeOK == log \in Seq(StoredEvent) /\ clock \in Nat

\* A hash is a hash chain extended by one typed link.
LEMMA HashTyped ==
    ASSUME NEW previous \in Hash, NEW position \in Nat, NEW d \in Draft,
           NEW version \in Nat, NEW received \in Nat, NEW logical \in Nat
    PROVE  computeEventHash(previous, position, d, version, received, logical) \in Hash
BY DEF Hash, Link, computeEventHash

\* Positions and fields of stored events.
LEMMA EventsTyped ==
    ASSUME LogTypeOK
    PROVE  /\ Len(log) \in Nat
           /\ DOMAIN log = 1 .. Len(log)
           /\ \A i \in 1 .. Len(log) :
                 /\ log[i] \in StoredEvent
                 /\ log[i].position \in Nat
                 /\ log[i].draft \in Draft
                 /\ log[i].streamVersion \in Nat
                 /\ log[i].receivedAtMs \in Nat
                 /\ log[i].logicalAtMs \in Nat
                 /\ log[i].previousEventHash \in Hash
                 /\ log[i].eventHash \in Hash
<1>1. Len(log) \in Nat /\ DOMAIN log = 1 .. Len(log)
  BY DEF LogTypeOK
<1>2. \A i \in 1 .. Len(log) : log[i] \in StoredEvent
  BY DEF LogTypeOK
<1> QED
  BY <1>1, <1>2 DEF StoredEvent

\* The envelope that append builds around a typed draft is a typed event.
LEMMA EnvelopeTyped ==
    ASSUME LogTypeOK, NEW d \in Drafts
    PROVE  Envelope(d) \in StoredEvent
<1> DEFINE position == Len(log) + 1
           version == NextStreamVersion(d.subject)
           logical == IF HeadLogicalAt > clock THEN HeadLogicalAt ELSE clock
<1>1. d \in Draft
  BY DraftsAssumption
<1>2. position \in Nat
  BY DEF LogTypeOK
<1>3. version \in Nat
  <2>1. VersionsOf(d.subject) \subseteq Nat
    BY EventsTyped DEF VersionsOf
  <2> QED
    BY <2>1 DEF NextStreamVersion
<1>4. logical \in Nat
  <2>1. log # <<>> => Len(log) \in 1 .. Len(log)
    BY DEF LogTypeOK
  <2> QED
    BY <2>1, EventsTyped DEF HeadLogicalAt, LogTypeOK
<1>5. HashAt(Len(log)) \in Hash
  <2>1. Len(log) # 0 => log[Len(log)].eventHash \in Hash
    BY EventsTyped
  <2>2. GenesisHash \in Hash
    BY DEF GenesisHash, Hash
  <2> QED
    BY <2>1, <2>2 DEF HashAt
<1>6. computeEventHash(HashAt(Len(log)), position, d, version, clock, logical) \in Hash
  BY <1>1, <1>2, <1>3, <1>4, <1>5, HashTyped DEF LogTypeOK
<1> HIDE DEF position, version, logical
<1>7. Envelope(d) = [position |-> position, draft |-> d, streamVersion |-> version,
                     receivedAtMs |-> clock, logicalAtMs |-> logical,
                     previousEventHash |-> HashAt(Len(log)),
                     eventHash |-> computeEventHash(HashAt(Len(log)), position, d, version, clock, logical)]
  BY DEF Envelope, position, version, logical
<1> QED
  BY <1>1, <1>2, <1>3, <1>4, <1>5, <1>6, <1>7 DEF LogTypeOK, StoredEvent

-----------------------------------------------------------------------------
(* One commit.                                                             *)

\* A function on 1 .. n is a sequence of length n.
LEMMA FunctionIsSeq ==
    ASSUME NEW S, NEW n \in Nat, NEW f \in [1 .. n -> S]
    PROVE  f \in Seq(S) /\ Len(f) = n
BY SeqDef

\* A sequence over a subset is a sequence over the whole.
LEMMA SeqOfSubset ==
    ASSUME NEW S, NEW T, S \subseteq T
    PROVE  Seq(S) \subseteq Seq(T)
BY SeqDef

\* The outputs of one run.
OutputFor(m) == {o \in Output : o.runId = m.runId}

\* What materialize makes of one list of a transition is typed.
LEMMA DecisionsTyped ==
    ASSUME NEW m \in Manifest, NEW e \in StoredEvent, NEW a \in AggregateIds,
           NEW list \in Seq(Bodies)
    PROVE  OutputsOf(m, e, a, "decision", list) \in Seq(OutputFor(m))
<1>1. Len(list) \in Nat /\ DOMAIN list = 1 .. Len(list)
  OBVIOUS
<1>2. e.position \in Nat /\ e.eventHash \in Hash /\ m.runId \in RunIds
  BY DEF StoredEvent, Manifest
<1>3. \A i \in 1 .. Len(list) : list[i] \in Bodies /\ i - 1 \in Nat
  OBVIOUS
<1>4. OutputsOf(m, e, a, "decision", list) \in [1 .. Len(list) -> OutputFor(m)]
  BY <1>1, <1>2, <1>3 DEF OutputsOf, Output, OutputFor, Categories
<1> QED
  BY <1>1, <1>4, FunctionIsSeq

\* The same for jobs and outbox messages.
LEMMA IntentsTyped ==
    ASSUME NEW m \in Manifest, NEW e \in StoredEvent, NEW a \in AggregateIds,
           NEW category \in {"job", "outbox"}, NEW list \in Seq(Intent)
    PROVE  OutputsOf(m, e, a, category, list) \in Seq(OutputFor(m))
<1>1. Len(list) \in Nat /\ DOMAIN list = 1 .. Len(list)
  OBVIOUS
<1>2. e.position \in Nat /\ e.eventHash \in Hash /\ m.runId \in RunIds
  BY DEF StoredEvent, Manifest
<1>3. \A i \in 1 .. Len(list) : list[i] \in Intent /\ i - 1 \in Nat
  OBVIOUS
<1>4. \A i \in 1 .. Len(list) : list[i].dedupeKey \in DedupeKeys /\ list[i].body \in Bodies
  BY <1>3 DEF Intent
<1>5. OutputsOf(m, e, a, category, list) \in [1 .. Len(list) -> OutputFor(m)]
  BY <1>1, <1>2, <1>3, <1>4 DEF OutputsOf, Output, OutputFor, Categories
<1> QED
  BY <1>1, <1>5, FunctionIsSeq

\* All outputs of a typed transition are typed.
LEMMA OutputsTyped ==
    ASSUME NEW m \in Manifest, NEW e \in StoredEvent, NEW a \in AggregateIds,
           NEW t \in Transition
    PROVE  materialize(m, e, a, t) \in Seq(OutputFor(m))
<1>1. t.decisions \in Seq(Bodies) /\ t.jobs \in Seq(Intent) /\ t.outbox \in Seq(Intent)
  BY DEF Transition
<1>2. /\ OutputsOf(m, e, a, "decision", t.decisions) \in Seq(OutputFor(m))
      /\ OutputsOf(m, e, a, "job", t.jobs) \in Seq(OutputFor(m))
      /\ OutputsOf(m, e, a, "outbox", t.outbox) \in Seq(OutputFor(m))
  BY <1>1, DecisionsTyped, IntentsTyped
<1> QED
  BY <1>2, ConcatProperties DEF materialize

\* What the decision head hashes of typed outputs is typed.
LEMMA SemanticOutputsTyped ==
    ASSUME NEW outs \in Seq(Output)
    PROVE  semanticOutputs(outs) \in Seq(SemanticOutput)
<1>1. Len(outs) \in Nat /\ DOMAIN outs = 1 .. Len(outs)
  OBVIOUS
<1>2. \A i \in 1 .. Len(outs) : outs[i] \in Output
  OBVIOUS
<1>3. semanticOutputs(outs) \in [1 .. Len(outs) -> SemanticOutput]
  BY <1>1, <1>2 DEF semanticOutputs, Output, SemanticOutput
<1> QED
  BY <1>1, <1>3, FunctionIsSeq

\* The commit that process() builds from typed inputs is typed.
LEMMA CommitTyped ==
    ASSUME NEW m \in Manifest, NEW previous \in Cursor, NEW prior, NEW e \in StoredEvent,
           prior.aggregateId \in AggregateIds, prior.version \in Nat,
           WellFormed(Apply(prior.state, e, m))
    PROVE  LET c == BuildCommit(m, previous, prior, e)
           IN  /\ c.aggregate \in Checkpoint
               /\ c.outputs \in Seq(OutputFor(m))
               /\ c.outputs \in Seq(Output)
               /\ c.cursor \in Cursor
<1> DEFINE t == Apply(prior.state, e, m)
           aggregate == [aggregateId |-> prior.aggregateId, version |-> prior.version + 1,
                         lastInputPosition |-> e.position, state |-> t.state]
           outs == materialize(m, e, prior.aggregateId, t)
           stateHead == StateHeadStep(previous.stateHead, e, aggregate)
           decisionHead == DecisionHeadStep(previous.decisionHead, e, outs)
           cursor == [manifest |-> m, processedPosition |-> e.position,
                      logicalAtMs |-> e.logicalAtMs, lastEventHash |-> e.eventHash,
                      stateHead |-> stateHead, decisionHead |-> decisionHead]
<1>1. t \in Transition
  BY DEF WellFormed
<1>2. /\ e.position \in Nat
      /\ e.logicalAtMs \in Nat
      /\ e.eventHash \in Hash
  BY DEF StoredEvent
<1>3. aggregate \in Checkpoint
  BY <1>1, <1>2 DEF Checkpoint, Transition
<1>4. outs \in Seq(OutputFor(m)) /\ outs \in Seq(Output)
  <2>1. outs \in Seq(OutputFor(m))
    BY <1>1, OutputsTyped
  <2>2. OutputFor(m) \subseteq Output
    BY DEF OutputFor
  <2> QED
    BY <2>1, <2>2, SeqOfSubset
<1>5. stateHead \in Seq(StateStep)
  <2>1. previous.stateHead \in Seq(StateStep)
    BY DEF Cursor
  <2>2. [eventHash |-> e.eventHash, aggregateId |-> aggregate.aggregateId,
         state |-> aggregate.state] \in StateStep
    BY <1>2, <1>3 DEF Checkpoint, StateStep
  <2> QED
    BY <2>1, <2>2 DEF StateHeadStep
<1>6. decisionHead \in Seq(DecisionStep)
  <2>1. previous.decisionHead \in Seq(DecisionStep)
    BY DEF Cursor
  <2>2. [eventHash |-> e.eventHash, outputs |-> semanticOutputs(outs)] \in DecisionStep
    BY <1>2, <1>4, SemanticOutputsTyped DEF DecisionStep
  <2> QED
    BY <2>1, <2>2 DEF DecisionHeadStep
<1> HIDE DEF stateHead, decisionHead, outs, aggregate, t
<1>7. cursor \in Cursor
  BY <1>2, <1>5, <1>6 DEF Cursor
<1>8. /\ BuildCommit(m, previous, prior, e).aggregate = aggregate
      /\ BuildCommit(m, previous, prior, e).outputs = outs
      /\ BuildCommit(m, previous, prior, e).cursor = cursor
  BY DEF BuildCommit, stateHead, decisionHead, outs, aggregate, t
<1> QED
  BY <1>3, <1>4, <1>7, <1>8

-----------------------------------------------------------------------------
(* Type correctness.                                                       *)

\* A typed store has a typed log.
LEMMA StoreTypeIsLogType == StoreTypeOK => LogTypeOK
BY DEF StoreTypeOK, LogTypeOK

\* What a load returns is typed, the genesis of an absent row included.
LEMMA LoadsTyped ==
    ASSUME StoreTypeOK, NEW m \in Manifest
    PROVE  /\ loadCursor(m) \in Cursor
           /\ \A a \in AggregateIds : /\ loadAggregate(m, a).aggregateId \in AggregateIds
                                      /\ loadAggregate(m, a).version \in Nat
<1>1. m.runId \in RunIds
  BY DEF Manifest
<1>2. createGenesisRunCursor(m) \in Cursor
  <2>1. <<>> \in Hash /\ <<>> \in Seq(StateStep) /\ <<>> \in Seq(DecisionStep)
    BY DEF Hash
  <2> QED
    BY <2>1 DEF createGenesisRunCursor, Cursor, GenesisHash
<1>3. loadCursor(m) \in Cursor
  BY <1>1, <1>2 DEF StoreTypeOK, loadCursor
<1>4. ASSUME NEW a \in AggregateIds
      PROVE  loadAggregate(m, a).aggregateId \in AggregateIds /\ loadAggregate(m, a).version \in Nat
  <2>1. aggregates[m.runId][a] \in Checkpoint \cup {None}
    BY <1>1 DEF StoreTypeOK
  <2>2. aggregateGenesis(a, m).aggregateId = a /\ aggregateGenesis(a, m).version = 0
    BY DEF aggregateGenesis
  <2> QED
    BY <2>1, <2>2 DEF loadAggregate, Checkpoint
<1> QED
  BY <1>3, <1>4

\* A capture extends the log by a typed event.
LEMMA CaptureTyped ==
    ASSUME StoreTypeOK, NEW d \in Drafts, CaptureDraft(d)
    PROVE  StoreTypeOK'
<1>1. Envelope(d) \in StoredEvent
  BY EnvelopeTyped, StoreTypeIsLogType
<1>2. log' \in Seq(StoredEvent)
  BY <1>1 DEF StoreTypeOK, CaptureDraft, AppendNew
<1> QED
  BY <1>2 DEF StoreTypeOK, CaptureDraft

\* A commit of typed parts leaves a typed store.
LEMMA CommitWritesTyped ==
    ASSUME StoreTypeOK, NEW m \in Manifest, NEW c,
           c.aggregate \in Checkpoint, c.outputs \in Seq(Output), c.cursor \in Cursor,
           CommitWrites(m, c), UNCHANGED <<log, clock>>
    PROVE  StoreTypeOK'
<1>1. m.runId \in RunIds /\ c.aggregate.aggregateId \in AggregateIds
  BY DEF Manifest, Checkpoint
<1>2. outputs' \in Seq(Output) /\ Len(outputs') = Len(outputs) + Len(c.outputs)
  BY ConcatProperties DEF StoreTypeOK, CommitWrites
<1>3. cursors' \in [RunIds -> Cursor \cup {None}]
  BY <1>1 DEF StoreTypeOK, CommitWrites
<1>4. aggregates' \in [RunIds -> [AggregateIds -> Checkpoint \cup {None}]]
  BY <1>1 DEF StoreTypeOK, CommitWrites
<1>5. dispatchable' \subseteq DOMAIN outputs'
  <2>0. outputs \in Seq(Output) /\ dispatchable \subseteq DOMAIN outputs
    BY DEF StoreTypeOK
  <2>1. /\ Len(outputs) \in Nat /\ DOMAIN outputs = 1 .. Len(outputs)
        /\ Len(c.outputs) \in Nat /\ DOMAIN c.outputs = 1 .. Len(c.outputs)
        /\ DOMAIN outputs' = 1 .. Len(outputs')
    BY <1>2, <2>0
  <2>2. \A n \in dispatchable' : n \in dispatchable
                                 \/ \E i \in DOMAIN c.outputs : n = Len(outputs) + i
    BY DEF CommitWrites
  <2>3. \A n \in dispatchable' : n \in 1 .. Len(outputs')
    BY <1>2, <2>0, <2>1, <2>2
  <2> QED
    BY <2>1, <2>3
<1> QED
  BY <1>2, <1>3, <1>4, <1>5 DEF StoreTypeOK, CommitWrites

\* Processing an event keeps the store typed.
LEMMA ProcessNextTyped ==
    ASSUME StoreTypeOK, NEW m \in Manifests, ProcessNext(m)
    PROVE  /\ NextEvent(m) \in StoredEvent
           /\ NextCommit(m).aggregate \in Checkpoint
           /\ NextCommit(m).outputs \in Seq(OutputFor(m))
           /\ NextCommit(m).outputs \in Seq(Output)
           /\ NextCommit(m).cursor \in Cursor
<1>1. m \in Manifest
  BY ManifestsAssumption
<1>2. loadCursor(m) \in Cursor /\ loadCursor(m).processedPosition \in Nat
  BY <1>1, LoadsTyped DEF Cursor
<1>3. NextEvent(m) \in StoredEvent
  BY <1>2, EventsTyped, StoreTypeIsLogType DEF NextEvent, ProcessNext
<1> DEFINE prior == loadAggregate(m, Route(NextEvent(m)))
<1>4. prior.aggregateId \in AggregateIds /\ prior.version \in Nat
  BY <1>1, LoadsTyped DEF ProcessNext
<1>5. WellFormed(Apply(prior.state, NextEvent(m), m))
  BY DEF ProcessNext
<1> QED
  BY <1>1, <1>2, <1>3, <1>4, <1>5, CommitTyped DEF NextCommit

\* Every step of the serial specification keeps the store typed.
LEMMA StoreTypeStep ==
    StoreTypeOK /\ [SerialNext]_serialVars => StoreTypeOK'
<1> SUFFICES ASSUME StoreTypeOK, [SerialNext]_serialVars
             PROVE  StoreTypeOK'
  OBVIOUS
<1>1. ASSUME NEW d \in Drafts, CaptureDraft(d)
      PROVE  StoreTypeOK'
  BY <1>1, CaptureTyped
<1>2. CASE ClockStep
  BY <1>2, MaxClockAssumption DEF StoreTypeOK, ClockStep, Tick
<1>3. ASSUME NEW m \in Manifests, Register(m)
      PROVE  StoreTypeOK'
  BY <1>3, ManifestsAssumption DEF StoreTypeOK, Register, ensureRun, Manifest
<1>4. ASSUME NEW m \in Manifests, ProcessNext(m)
      PROVE  StoreTypeOK'
  BY <1>4, ManifestsAssumption, ProcessNextTyped, CommitWritesTyped DEF ProcessNext
<1>5. CASE UNCHANGED serialVars
  BY <1>5 DEF StoreTypeOK, serialVars
<1> QED
  BY <1>1, <1>2, <1>3, <1>4, <1>5 DEF SerialNext

\* The initial store is typed.
LEMMA StoreTypeInit == SerialInit => StoreTypeOK
BY DEF SerialInit, InitLog, InitStore, StoreTypeOK

\* The store is well typed in every reachable state, whatever the reducer
\* returns: process() refuses what does not parse before it commits.
THEOREM SerialTypeCorrect == SerialSpec => []StoreTypeOK
BY StoreTypeInit, StoreTypeStep, PTL DEF SerialSpec

-----------------------------------------------------------------------------
(* The log is a chain, and cursors point into it.                          *)

\* What a capture appends, and that it touches no earlier position.
LEMMA CaptureAppends ==
    ASSUME LogTypeOK, NEW d \in Drafts, AppendNew(d)
    PROVE  /\ Len(log') = Len(log) + 1
           /\ log'[Len(log) + 1] = Envelope(d)
           /\ \A i \in 1 .. Len(log) : log'[i] = log[i]
           /\ \A i \in 0 .. Len(log) : HashAt(i)' = HashAt(i)
<1>1. /\ Len(log') = Len(log) + 1
      /\ log'[Len(log) + 1] = Envelope(d)
      /\ \A i \in 1 .. Len(log) : log'[i] = log[i]
  BY DEF LogTypeOK, AppendNew
<1> QED
  BY <1>1, EventsTyped DEF HashAt

\* The envelope that append builds continues the hash chain.
LEMMA EnvelopeChained ==
    ASSUME LogTypeOK, NEW d \in Drafts
    PROVE  /\ Envelope(d).position = Len(log) + 1
           /\ Envelope(d).previousEventHash = HashAt(Len(log))
           /\ SelfConsistent(Envelope(d))
           /\ Envelope(d).logicalAtMs \in Nat
           /\ Envelope(d).logicalAtMs >= HeadLogicalAt
<1>1. HeadLogicalAt \in Nat
  <2>1. log # <<>> => Len(log) \in 1 .. Len(log)
    BY DEF LogTypeOK
  <2> QED
    BY <2>1, EventsTyped DEF HeadLogicalAt
<1>2. Envelope(d).logicalAtMs = IF HeadLogicalAt > clock THEN HeadLogicalAt ELSE clock
  BY DEF Envelope
<1>3. /\ Envelope(d).logicalAtMs \in Nat
      /\ Envelope(d).logicalAtMs >= HeadLogicalAt
  BY <1>1, <1>2 DEF LogTypeOK
<1>4. /\ Envelope(d).position = Len(log) + 1
      /\ Envelope(d).previousEventHash = HashAt(Len(log))
      /\ SelfConsistent(Envelope(d))
  BY DEF Envelope, SelfConsistent
<1> QED
  BY <1>3, <1>4

\* The empty log is chained.
LEMMA LogChainedInit == SerialInit => LogChained
BY DEF SerialInit, InitLog, LogChained

\* A capture keeps the log chained.
LEMMA LogChainedCapture ==
    ASSUME LogTypeOK, LogChained, NEW d \in Drafts, AppendNew(d)
    PROVE  LogChained'
<1>0. PICK n \in Nat : n = Len(log)
  BY EventsTyped
<1>1. n \in Nat /\ DOMAIN log = 1 .. n
  BY <1>0, EventsTyped
<1>2. /\ DOMAIN log' = 1 .. (n + 1)
      /\ log'[n + 1] = Envelope(d)
      /\ \A i \in 1 .. n : log'[i] = log[i]
      /\ \A i \in 0 .. n : HashAt(i)' = HashAt(i)
  BY <1>0, CaptureAppends, EnvelopeTyped DEF AppendNew, LogTypeOK
<1>3. ASSUME NEW i \in 1 .. n
      PROVE  /\ log'[i].position = i
             /\ log'[i].previousEventHash = HashAt(i - 1)'
             /\ SelfConsistent(log'[i])
             /\ \A j \in 1 .. i : log'[j].logicalAtMs <= log'[i].logicalAtMs
  BY <1>1, <1>2 DEF LogChained
<1>4. /\ log'[n + 1].position = n + 1
      /\ log'[n + 1].previousEventHash = HashAt(n)'
      /\ SelfConsistent(log'[n + 1])
  <2>1. HashAt(n)' = HashAt(n) /\ log'[n + 1] = Envelope(d)
    BY <1>1, <1>2
  <2>2. /\ Envelope(d).position = n + 1
        /\ Envelope(d).previousEventHash = HashAt(n)
        /\ SelfConsistent(Envelope(d))
    BY <1>0, EnvelopeChained
  <2> QED
    BY <2>1, <2>2 DEF SelfConsistent
<1>5. ASSUME NEW j \in 1 .. (n + 1)
      PROVE  log'[j].logicalAtMs <= log'[n + 1].logicalAtMs
  <2>1. CASE j = n + 1
    BY <2>1, <1>1, <1>2, EnvelopeChained
  <2>2. CASE j \in 1 .. n
    <3>1. log[j].logicalAtMs <= log[n].logicalAtMs /\ HeadLogicalAt = log[n].logicalAtMs
      BY <2>2, <1>0, <1>1 DEF LogChained, HeadLogicalAt
    <3>2. log[j].logicalAtMs \in Nat /\ log[n].logicalAtMs \in Nat
      BY <2>2, <1>1, EventsTyped
    <3> QED
      BY <3>1, <3>2, <2>2, <1>2, EnvelopeChained
  <2> QED
    BY <2>1, <2>2, <1>1
<1>6. ASSUME NEW i \in 1 .. (n + 1)
      PROVE  /\ log'[i].position = i
             /\ log'[i].previousEventHash = HashAt(i - 1)'
             /\ SelfConsistent(log'[i])
             /\ \A j \in 1 .. i : log'[j].logicalAtMs <= log'[i].logicalAtMs
  <2>1. CASE i = n + 1
    <3>1. (n + 1) - 1 = n
      BY <1>1
    <3> QED
      BY <2>1, <3>1, <1>4, <1>5
  <2>2. CASE i \in 1 .. n
    BY <2>2, <1>3
  <2> QED
    BY <2>1, <2>2, <1>1
<1> QED
  BY <1>2, <1>6 DEF LogChained, SelfConsistent

\* What the cursor a run would load says, when cursors are bound to the log.
LEMMA LoadedCursorBound ==
    ASSUME StoreTypeOK, CursorBound, NEW m \in Manifest
    PROVE  /\ loadCursor(m).processedPosition \in 0 .. Len(log)
           /\ loadCursor(m).lastEventHash = HashAt(loadCursor(m).processedPosition)
           /\ runs[m.runId] = m => loadCursor(m).manifest = m
<1>0. m.runId \in RunIds
  BY DEF Manifest
<1>1. DOMAIN log = 1 .. Len(log) /\ Len(log) \in Nat
  BY EventsTyped, StoreTypeIsLogType
<1>2. CASE cursors[m.runId] = None
  BY <1>0, <1>1, <1>2 DEF loadCursor, createGenesisRunCursor, HashAt
<1>3. CASE cursors[m.runId] # None
  BY <1>0, <1>1, <1>3 DEF loadCursor, CursorBound, HashAt
<1> QED
  BY <1>2, <1>3

\* The event that ProcessNext takes, and the cursor it leaves behind.
LEMMA NextCursor ==
    ASSUME StoreTypeOK, LogChained, CursorBound, NEW m \in Manifests, ProcessNext(m)
    PROVE  LET n == loadCursor(m).processedPosition + 1
           IN  /\ m \in Manifest
               /\ m.runId \in RunIds
               /\ n \in 1 .. Len(log)
               /\ NextEvent(m) = log[n]
               /\ log[n].position = n
               /\ NextCommit(m).cursor.manifest = m
               /\ NextCommit(m).cursor.processedPosition = n
               /\ NextCommit(m).cursor.lastEventHash = log[n].eventHash
               /\ NextCommit(m).cursor.logicalAtMs = log[n].logicalAtMs
<1> DEFINE n == loadCursor(m).processedPosition + 1
<1>1. m \in Manifest /\ m.runId \in RunIds
  BY ManifestsAssumption DEF Manifest
<1>2. DOMAIN log = 1 .. Len(log) /\ Len(log) \in Nat
  BY EventsTyped, StoreTypeIsLogType
<1>3. n \in 1 .. Len(log)
  BY <1>1, <1>2, LoadedCursorBound DEF ProcessNext
<1>4. NextEvent(m) = log[n] /\ log[n].position = n
  BY <1>2, <1>3 DEF NextEvent, LogChained
<1>5. /\ NextCommit(m).cursor.manifest = m
      /\ NextCommit(m).cursor.processedPosition = NextEvent(m).position
      /\ NextCommit(m).cursor.lastEventHash = NextEvent(m).eventHash
      /\ NextCommit(m).cursor.logicalAtMs = NextEvent(m).logicalAtMs
  BY DEF NextCommit, BuildCommit
<1> HIDE DEF n
<1> QED
  BY <1>1, <1>3, <1>4, <1>5 DEF n

\* Every step keeps cursors bound to the log.
LEMMA CursorBoundStep ==
    ASSUME StoreTypeOK, LogChained, CursorBound, [SerialNext]_serialVars
    PROVE  CursorBound'
<1>0. DOMAIN log = 1 .. Len(log) /\ Len(log) \in Nat
  BY EventsTyped, StoreTypeIsLogType
<1>1. ASSUME NEW d \in Drafts, CaptureDraft(d)
      PROVE  CursorBound'
  <2>1. /\ Len(log') = Len(log) + 1
        /\ \A i \in 1 .. Len(log) : log'[i] = log[i]
    BY <1>1, CaptureAppends, StoreTypeIsLogType DEF CaptureDraft
  <2>2. DOMAIN log' = 1 .. Len(log')
    BY <1>1, CaptureTyped DEF StoreTypeOK
  <2> QED
    BY <1>0, <1>1, <2>1, <2>2 DEF CursorBound, CaptureDraft
<1>2. CASE ClockStep
  BY <1>2 DEF CursorBound, ClockStep, Tick
<1>3. ASSUME NEW m \in Manifests, Register(m)
      PROVE  CursorBound'
  <2>1. \A r \in RunIds : cursors[r] # None => cursors[r] \in Cursor /\ cursors[r].manifest \in Manifest
    BY DEF StoreTypeOK, Cursor
  <2>2. \A r \in RunIds : cursors[r] # None => runs'[r] = runs[r]
    BY <1>3, <2>1, AbsentAssumption DEF CursorBound, Register, ensureRun, RegistrationAgrees, StoreTypeOK
  <2> QED
    BY <1>3, <2>2 DEF CursorBound, Register
<1>4. ASSUME NEW m \in Manifests, ProcessNext(m)
      PROVE  CursorBound'
  <2>1. /\ cursors' = [cursors EXCEPT ![m.runId] = NextCommit(m).cursor]
        /\ UNCHANGED <<log, runs>> /\ runs[m.runId] = m
    BY <1>4 DEF ProcessNext, CommitWrites
  <2>2. m.runId \in RunIds /\ cursors' [m.runId] = NextCommit(m).cursor
        /\ \A r \in RunIds : r # m.runId => cursors'[r] = cursors[r]
    BY <1>4, <2>1, NextCursor DEF StoreTypeOK
  <2>3. LET c == cursors'[m.runId]
        IN  /\ c.manifest = runs[m.runId]
            /\ c.processedPosition \in DOMAIN log
            /\ c.lastEventHash = log[c.processedPosition].eventHash
            /\ c.logicalAtMs = log[c.processedPosition].logicalAtMs
    BY <1>0, <1>4, <2>1, <2>2, NextCursor
  <2> QED
    BY <2>1, <2>2, <2>3 DEF CursorBound
<1>5. CASE UNCHANGED serialVars
  BY <1>5 DEF CursorBound, serialVars
<1> QED
  BY <1>1, <1>2, <1>3, <1>4, <1>5 DEF SerialNext

\* The three invariants together are inductive.
LogAndCursors == StoreTypeOK /\ LogChained /\ CursorBound

\* The log and the cursors agree initially.
LEMMA LogAndCursorsInit == SerialInit => LogAndCursors
BY StoreTypeInit, LogChainedInit DEF SerialInit, InitStore, LogAndCursors, CursorBound

\* The log and the cursors agree after every step.
LEMMA LogAndCursorsStep == LogAndCursors /\ [SerialNext]_serialVars => LogAndCursors'
<1> SUFFICES ASSUME StoreTypeOK, LogChained, CursorBound, [SerialNext]_serialVars
             PROVE  StoreTypeOK' /\ LogChained' /\ CursorBound'
  BY DEF LogAndCursors
<1>1. LogChained'
  <2>1. ASSUME NEW d \in Drafts, CaptureDraft(d)
        PROVE  LogChained'
    BY <2>1, LogChainedCapture, StoreTypeIsLogType DEF CaptureDraft
  <2>2. CASE UNCHANGED log
    BY <2>2 DEF LogChained, HashAt
  <2> QED
    BY <2>1, <2>2 DEF SerialNext, ClockStep, Tick, Register, ProcessNext, serialVars
<1> QED
  BY <1>1, StoreTypeStep, CursorBoundStep

\* A run's cursor always points at a stored event, carries that event's hash
\* and time, and belongs to the manifest the run is registered with.
THEOREM CursorsBoundToLog == SerialSpec => []CursorBound
BY LogAndCursorsInit, LogAndCursorsStep, PTL DEF SerialSpec, LogAndCursors

-----------------------------------------------------------------------------
(* Heads and checkpoints.                                                  *)

\* A non-empty bounded set of naturals has a largest element.
LEMMA LargestExists ==
    ASSUME NEW n \in Nat, NEW T, T \subseteq 0 .. n, T # {}
    PROVE  \E x \in T : \A y \in T : y <= x
<1> DEFINE Gap == {n - y : y \in T}
<1>1. \A y \in T : y \in Int /\ n - y \in Nat
  OBVIOUS
<1>2. Gap \subseteq Nat /\ Gap # {}
  BY <1>1
<1>3. \E x \in Gap : \A y \in Gap : ~ (<<y, x>> \in OpToRel(<, Nat))
  BY <1>2, WFMin, NatLessThanWellFounded
<1>4. PICK x \in Gap : \A y \in Gap : ~ (y < x)
  BY <1>2, <1>3 DEF OpToRel
<1>5. PICK z \in T : x = n - z
  OBVIOUS
<1>6. ASSUME NEW y \in T
      PROVE  y <= z
  <2>1. ~ (n - y < n - z)
    BY <1>4, <1>5
  <2>2. y \in Int /\ z \in Int
    BY <1>1
  <2> QED
    BY <2>1, <2>2
<1> QED
  BY <1>6

\* The latest of some steps of a head is one of them.
LEMMA LatestIsStep ==
    ASSUME NEW head \in Seq(StateStep), NEW a, StepsOf(head, a) # {}
    PROVE  /\ Latest(StepsOf(head, a)) \in StepsOf(head, a)
           /\ Latest(StepsOf(head, a)) \in 1 .. Len(head)
<1>1. Len(head) \in Nat /\ DOMAIN head = 1 .. Len(head)
  OBVIOUS
<1>2. StepsOf(head, a) \subseteq 1 .. Len(head)
  BY <1>1 DEF StepsOf
<1>3. \E x \in StepsOf(head, a) : \A y \in StepsOf(head, a) : y <= x
  BY <1>1, <1>2, LargestExists
<1> QED
  BY <1>2, <1>3 DEF Latest

\* One more step of a head: an aggregate gains the step, the others nothing.
LEMMA StepsOfAppend ==
    ASSUME NEW head \in Seq(StateStep), NEW step \in StateStep, NEW a
    PROVE  StepsOf(Append(head, step), a) =
              IF step.aggregateId = a THEN StepsOf(head, a) \cup {Len(head) + 1}
              ELSE StepsOf(head, a)
<1>1. Len(head) \in Nat /\ DOMAIN head = 1 .. Len(head)
  OBVIOUS
<1>2. /\ DOMAIN Append(head, step) = 1 .. (Len(head) + 1)
      /\ \A i \in 1 .. Len(head) : Append(head, step)[i] = head[i]
      /\ Append(head, step)[Len(head) + 1] = step
  OBVIOUS
<1> QED
  BY <1>1, <1>2 DEF StepsOf

\* The step that was appended is the latest of its aggregate.
LEMMA LatestAppend ==
    ASSUME NEW head \in Seq(StateStep), NEW a
    PROVE  Latest(StepsOf(head, a) \cup {Len(head) + 1}) = Len(head) + 1
<1>1. Len(head) \in Nat /\ DOMAIN head = 1 .. Len(head)
  OBVIOUS
<1>2. StepsOf(head, a) \subseteq 1 .. Len(head)
  BY <1>1 DEF StepsOf
<1> DEFINE S == StepsOf(head, a) \cup {Len(head) + 1}
<1>3. Len(head) + 1 \in S /\ \A j \in S : j \in Int /\ j <= Len(head) + 1
  BY <1>1, <1>2
<1> HIDE DEF S
<1>4. \A i \in S : (\A j \in S : j <= i) => i = Len(head) + 1
  BY <1>1, <1>3
<1>5. Latest(S) = Len(head) + 1
  BY <1>3, <1>4 DEF Latest
<1> QED
  BY <1>5 DEF S

\* Appending to a head keeps its prefixes.
LEMMA PrefixOfAppend ==
    ASSUME NEW head \in Seq(StateStep), NEW step \in StateStep, NEW i \in 1 .. (Len(head) + 1)
    PROVE  SubSeq(Append(head, step), 1, i - 1) = SubSeq(head, 1, i - 1)
<1>1. Len(head) \in Nat /\ Append(head, step) \in Seq(StateStep)
  OBVIOUS
<1>2. /\ SubSeq(Append(head, step), 1, i - 1) \in Seq(StateStep)
      /\ SubSeq(head, 1, i - 1) \in Seq(StateStep)
      /\ Len(SubSeq(Append(head, step), 1, i - 1)) = i - 1
      /\ Len(SubSeq(head, 1, i - 1)) = i - 1
      /\ \A k \in 1 .. (i - 1) : SubSeq(Append(head, step), 1, i - 1)[k] = SubSeq(head, 1, i - 1)[k]
  BY <1>1
<1> QED
  BY <1>1, <1>2, SeqEqual

\* A sequence is its own longest prefix.
LEMMA WholePrefix ==
    ASSUME NEW head \in Seq(StateStep)
    PROVE  SubSeq(head, 1, (Len(head) + 1) - 1) = head
<1>1. Len(head) \in Nat /\ (Len(head) + 1) - 1 = Len(head)
  OBVIOUS
<1>2. SubSeq(head, 1, Len(head)) = head
  OBVIOUS
<1> QED
  BY <1>1, <1>2

\* The heads that a run would load are those of its cursor, empty at genesis,
\* and they replay the reducer.
HeadOf(r) == IF cursors[r] = None THEN <<>> ELSE cursors[r].stateHead

\* The heads of the cursor that a run loads.
LEMMA LoadedHeads ==
    ASSUME StoreTypeOK, HeadsReplayReducer, NEW m \in Manifest, runs[m.runId] = m
    PROVE  /\ loadCursor(m).stateHead = HeadOf(m.runId)
           /\ loadCursor(m).stateHead \in Seq(StateStep)
           /\ loadCursor(m).decisionHead \in Seq(DecisionStep)
           /\ Len(loadCursor(m).stateHead) = loadCursor(m).processedPosition
           /\ Len(loadCursor(m).decisionHead) = loadCursor(m).processedPosition
           /\ \A i \in 1 .. loadCursor(m).processedPosition :
                 ReplaysAt(m, loadCursor(m).stateHead, loadCursor(m).decisionHead, i)
<1>1. m.runId \in RunIds
  BY DEF Manifest
<1>2. loadCursor(m) \in Cursor
  BY LoadsTyped
<1>3. /\ loadCursor(m).stateHead \in Seq(StateStep)
      /\ loadCursor(m).decisionHead \in Seq(DecisionStep)
  BY <1>2 DEF Cursor
<1>4. CASE cursors[m.runId] = None
  <2>1. /\ loadCursor(m).stateHead = <<>> /\ loadCursor(m).decisionHead = <<>>
        /\ loadCursor(m).processedPosition = 0
    BY <1>4 DEF loadCursor, createGenesisRunCursor
  <2> QED
    BY <1>3, <1>4, <2>1 DEF HeadOf
<1>5. CASE cursors[m.runId] # None
  BY <1>1, <1>3, <1>5 DEF loadCursor, HeadsReplayReducer, HeadOf
<1> QED
  BY <1>4, <1>5

\* The checkpoint that a run loads is what its head says of the aggregate.
LEMMA PriorIsReplayed ==
    ASSUME StoreTypeOK, HeadsReplayReducer, CheckpointsMatchHead,
           NEW m \in Manifest, runs[m.runId] = m, NEW a \in AggregateIds
    PROVE  /\ loadAggregate(m, a).aggregateId = a
           /\ loadAggregate(m, a).version = Cardinality(StepsOf(loadCursor(m).stateHead, a))
           /\ loadAggregate(m, a).state = StateAfter(m, loadCursor(m).stateHead, a)
<1>1. m.runId \in RunIds
  BY DEF Manifest
<1> DEFINE head == loadCursor(m).stateHead
           steps == StepsOf(head, a)
<1>2. head = HeadOf(m.runId)
  BY LoadedHeads
<1>3. aggregates[m.runId][a] =
        IF steps = {} THEN None
        ELSE [aggregateId |-> a, version |-> Cardinality(steps),
              lastInputPosition |-> Latest(steps), state |-> head[Latest(steps)].state]
  BY <1>1, <1>2 DEF CheckpointsMatchHead, HeadOf
<1>4. CASE steps = {}
  BY <1>3, <1>4, FS_EmptySet DEF loadAggregate, aggregateGenesis, StateAfter
<1>5. CASE steps # {}
  <2>1. aggregates[m.runId][a] # None
    <3>1. aggregates[m.runId][a].version = Cardinality(steps) /\ steps # {}
      BY <1>3, <1>5
    <3>2. head \in Seq(StateStep)
      BY LoadedHeads
    <3>3. Latest(steps) \in 1 .. Len(head)
      BY <1>5, <3>2, LatestIsStep
    <3> HIDE DEF head
    <3>4. head[Latest(steps)].state \in States
      <4>1. head[Latest(steps)] \in StateStep
        BY <3>2, <3>3
      <4> QED
        BY <4>1 DEF StateStep
    <3>5. IsFiniteSet(steps)
      <4>1. Len(head) \in Nat /\ DOMAIN head = 1 .. Len(head)
        BY <3>2
      <4>2. steps \subseteq 1 .. Len(head)
        BY <4>1 DEF StepsOf
      <4>3. IsFiniteSet(1 .. Len(head))
        BY <4>1, FS_Interval
      <4> QED
        BY <4>2, <4>3, FS_Subset
    <3>6. Cardinality(steps) \in Nat /\ Latest(steps) \in Nat
      BY <3>2, <3>3, <3>5, FS_CardinalityType
    <3>7. aggregates[m.runId][a] \in Checkpoint
      BY <1>3, <1>5, <3>4, <3>6 DEF Checkpoint
    <3> QED
      BY <3>7, AbsentAssumption
  <2> QED
    BY <1>3, <1>5, <2>1 DEF loadAggregate, StateAfter
<1> QED
  BY <1>4, <1>5

\* What ProcessNext appends to the heads and stores as the checkpoint.
LEMMA NextHeads ==
    ASSUME StoreTypeOK, LogChained, CursorBound, HeadsReplayReducer, CheckpointsMatchHead,
           NEW m \in Manifests, ProcessNext(m)
    PROVE  LET c == loadCursor(m)
               e == NextEvent(m)
               a == Route(e)
               t == Apply(StateAfter(m, c.stateHead, a), e, m)
           IN  /\ a \in AggregateIds
               /\ NextCommit(m).cursor.stateHead =
                    Append(c.stateHead,
                           [eventHash |-> e.eventHash, aggregateId |-> a, state |-> t.state])
               /\ NextCommit(m).cursor.decisionHead =
                    Append(c.decisionHead,
                           [eventHash |-> e.eventHash,
                            outputs |-> semanticOutputs(materialize(m, e, a, t))])
               /\ NextCommit(m).aggregate =
                    [aggregateId |-> a, version |-> Cardinality(StepsOf(c.stateHead, a)) + 1,
                     lastInputPosition |-> e.position, state |-> t.state]
<1>1. m \in Manifest /\ runs[m.runId] = m
  BY ManifestsAssumption DEF ProcessNext
<1> DEFINE e == NextEvent(m)
           a == Route(e)
           prior == loadAggregate(m, a)
<1>2. a \in AggregateIds
  BY DEF ProcessNext
<1>3. /\ prior.aggregateId = a
      /\ prior.version = Cardinality(StepsOf(loadCursor(m).stateHead, a))
      /\ prior.state = StateAfter(m, loadCursor(m).stateHead, a)
  BY <1>1, <1>2, PriorIsReplayed
<1>4. NextCommit(m) = BuildCommit(m, loadCursor(m), prior, e)
  BY DEF NextCommit
<1> HIDE DEF e, prior
<1>5. /\ NextCommit(m).cursor.stateHead =
            Append(loadCursor(m).stateHead,
                   [eventHash |-> e.eventHash, aggregateId |-> prior.aggregateId,
                    state |-> Apply(prior.state, e, m).state])
      /\ NextCommit(m).cursor.decisionHead =
            Append(loadCursor(m).decisionHead,
                   [eventHash |-> e.eventHash,
                    outputs |-> semanticOutputs(materialize(m, e, prior.aggregateId,
                                                            Apply(prior.state, e, m)))])
      /\ NextCommit(m).aggregate =
            [aggregateId |-> prior.aggregateId, version |-> prior.version + 1,
             lastInputPosition |-> e.position, state |-> Apply(prior.state, e, m).state]
  BY <1>4 DEF BuildCommit, StateHeadStep, DecisionHeadStep
<1> QED
  BY <1>2, <1>3, <1>5 DEF e

\* The two invariants survive a commit.
LEMMA HeadsCommit ==
    ASSUME StoreTypeOK, LogChained, CursorBound, HeadsReplayReducer, CheckpointsMatchHead,
           NEW m \in Manifests, ProcessNext(m)
    PROVE  HeadsReplayReducer' /\ CheckpointsMatchHead'
<1>1. m \in Manifest /\ runs[m.runId] = m /\ m.runId \in RunIds
  BY ManifestsAssumption DEF ProcessNext, Manifest
<1>2. PICK c \in Cursor : c = loadCursor(m)
  BY <1>1, LoadsTyped
<1>3. PICK n \in Nat : n = c.processedPosition
  BY DEF Cursor
<1>4. /\ c.stateHead \in Seq(StateStep) /\ c.decisionHead \in Seq(DecisionStep)
      /\ Len(c.stateHead) = n /\ Len(c.decisionHead) = n
      /\ c.stateHead = HeadOf(m.runId)
      /\ \A i \in 1 .. n : ReplaysAt(m, c.stateHead, c.decisionHead, i)
  BY <1>1, <1>2, <1>3, LoadedHeads
<1>5. PICK e \in StoredEvent : e = NextEvent(m)
  BY ProcessNextTyped
<1>6. e = log[n + 1] /\ e.position = n + 1
  BY <1>2, <1>3, <1>5, NextCursor
<1>7. PICK a \in AggregateIds : a = Route(e)
  BY <1>5, NextHeads
<1>8. PICK t : t = Apply(StateAfter(m, c.stateHead, a), e, m)
  OBVIOUS
<1>9. PICK step : step = [eventHash |-> e.eventHash, aggregateId |-> a, state |-> t.state]
  OBVIOUS
<1>10. PICK decision :
         decision = [eventHash |-> e.eventHash, outputs |-> semanticOutputs(materialize(m, e, a, t))]
  OBVIOUS
<1>11. PICK c1 : c1 = NextCommit(m).cursor
  OBVIOUS
<1>12. /\ c1 \in Cursor
       /\ c1.processedPosition = n + 1
       /\ c1.stateHead = Append(c.stateHead, step)
       /\ c1.decisionHead = Append(c.decisionHead, decision)
       /\ NextCommit(m).aggregate =
             [aggregateId |-> a, version |-> Cardinality(StepsOf(c.stateHead, a)) + 1,
              lastInputPosition |-> n + 1, state |-> t.state]
  BY <1>2, <1>3, <1>5, <1>6, <1>7, <1>8, <1>9, <1>10, <1>11, NextHeads, NextCursor, ProcessNextTyped
<1>13. c1.stateHead \in Seq(StateStep) /\ c1.decisionHead \in Seq(DecisionStep)
  BY <1>12 DEF Cursor
<1>14. step \in StateStep
  <2>1. Len(c1.stateHead) = n + 1 /\ c1.stateHead[n + 1] = step
    BY <1>4, <1>12
  <2> QED
    BY <2>1, <1>13
<1>15. /\ cursors' = [cursors EXCEPT ![m.runId] = c1]
       /\ aggregates' = [aggregates EXCEPT ![m.runId][NextCommit(m).aggregate.aggregateId]
                                            = NextCommit(m).aggregate]
       /\ UNCHANGED <<log, runs>>
  BY <1>11 DEF ProcessNext, CommitWrites
<1>16. cursors'[m.runId] = c1 /\ \A r \in RunIds : r # m.runId => cursors'[r] = cursors[r]
  BY <1>1, <1>15 DEF StoreTypeOK
<1>17. c1 # None
  BY <1>12, AbsentAssumption
<1>18. \A i \in 1 .. (n + 1) : ReplaysAt(m, c1.stateHead, c1.decisionHead, i)
  <2>1. ASSUME NEW i \in 1 .. n
        PROVE  ReplaysAt(m, c1.stateHead, c1.decisionHead, i)
    <3>1. ReplaysAt(m, c.stateHead, c.decisionHead, i)
      BY <1>4
    <3>2. c1.stateHead[i] = c.stateHead[i] /\ c1.decisionHead[i] = c.decisionHead[i]
      BY <1>4, <1>12
    <3>3. SubSeq(c1.stateHead, 1, i - 1) = SubSeq(c.stateHead, 1, i - 1)
      BY <1>4, <1>12, <1>14, PrefixOfAppend
    <3> QED
      BY <3>1, <3>2, <3>3 DEF ReplaysAt
  <2>2. ReplaysAt(m, c1.stateHead, c1.decisionHead, n + 1)
    <3>1. c1.stateHead[n + 1] = step /\ c1.decisionHead[n + 1] = decision
      BY <1>4, <1>12
    <3>2. SubSeq(c1.stateHead, 1, (n + 1) - 1) = c.stateHead
      <4>1. n + 1 \in 1 .. (Len(c.stateHead) + 1)
        BY <1>4
      <4>2. SubSeq(c1.stateHead, 1, (n + 1) - 1) = SubSeq(c.stateHead, 1, (n + 1) - 1)
        BY <4>1, <1>4, <1>12, <1>14, PrefixOfAppend
      <4> QED
        BY <4>2, <1>4, WholePrefix
    <3> QED
      BY <3>1, <3>2, <1>6, <1>7, <1>8, <1>9, <1>10 DEF ReplaysAt
  <2> QED
    BY <2>1, <2>2
<1>19. HeadsReplayReducer'
  <2>1. Len(c1.stateHead) = n + 1 /\ Len(c1.decisionHead) = n + 1
    BY <1>4, <1>12
  <2>2. ASSUME NEW r \in RunIds, NEW i \in 1 .. (n + 1), r = m.runId
        PROVE  ReplaysAt(runs[r], c1.stateHead, c1.decisionHead, i)'
    BY <2>2, <1>1, <1>15, <1>18 DEF ReplaysAt
  <2>3. ASSUME NEW r \in RunIds, r # m.runId, cursors'[r] # None
        PROVE  /\ Len(cursors'[r].stateHead) = cursors'[r].processedPosition
               /\ Len(cursors'[r].decisionHead) = cursors'[r].processedPosition
               /\ \A i \in 1 .. cursors'[r].processedPosition :
                     ReplaysAt(runs[r], cursors[r].stateHead, cursors[r].decisionHead, i)'
    BY <2>3, <1>15, <1>16 DEF HeadsReplayReducer, ReplaysAt
  <2> QED
    BY <2>1, <2>2, <2>3, <1>12, <1>16 DEF HeadsReplayReducer
<1>20. CheckpointsMatchHead'
  <2> SUFFICES ASSUME NEW r \in RunIds, NEW b \in AggregateIds
               PROVE  LET head == HeadOf(r)'
                          steps == StepsOf(head, b)
                      IN  aggregates'[r][b] =
                            IF steps = {} THEN None
                            ELSE [aggregateId |-> b, version |-> Cardinality(steps),
                                  lastInputPosition |-> Latest(steps),
                                  state |-> head[Latest(steps)].state]
    BY DEF CheckpointsMatchHead, HeadOf
  <2>0. LET steps == StepsOf(HeadOf(r), b)
        IN  aggregates[r][b] =
              IF steps = {} THEN None
              ELSE [aggregateId |-> b, version |-> Cardinality(steps),
                    lastInputPosition |-> Latest(steps), state |-> HeadOf(r)[Latest(steps)].state]
    BY DEF CheckpointsMatchHead, HeadOf
  <2>1. CASE r # m.runId
    <3>1. aggregates'[r][b] = aggregates[r][b]
      BY <2>1, <1>1, <1>15 DEF StoreTypeOK
    <3>2. HeadOf(r)' = HeadOf(r)
      BY <2>1, <1>16 DEF HeadOf
    <3> QED
      BY <2>0, <3>1, <3>2
  <2>2. CASE r = m.runId /\ b # a
    <3>1. aggregates'[r][b] = aggregates[r][b]
      BY <2>2, <1>1, <1>12, <1>15 DEF StoreTypeOK
    <3>2. HeadOf(r)' = Append(c.stateHead, step)
      BY <2>2, <1>12, <1>16, <1>17 DEF HeadOf
    <3>3. StepsOf(Append(c.stateHead, step), b) = StepsOf(c.stateHead, b)
      BY <2>2, <1>4, <1>9, <1>14, StepsOfAppend
    <3>4. StepsOf(c.stateHead, b) # {} =>
            Append(c.stateHead, step)[Latest(StepsOf(c.stateHead, b))]
              = c.stateHead[Latest(StepsOf(c.stateHead, b))]
      BY <1>4, <1>14, LatestIsStep
    <3> QED
      BY <2>0, <2>2, <3>1, <3>2, <3>3, <3>4, <1>4
  <2>3. CASE r = m.runId /\ b = a
    <3>1. aggregates'[r][b] = NextCommit(m).aggregate
      BY <2>3, <1>1, <1>12, <1>15 DEF StoreTypeOK
    <3>2. HeadOf(r)' = Append(c.stateHead, step)
      BY <2>3, <1>12, <1>16, <1>17 DEF HeadOf
    <3>3. StepsOf(Append(c.stateHead, step), b) = StepsOf(c.stateHead, b) \cup {n + 1}
      BY <2>3, <1>4, <1>9, <1>14, StepsOfAppend
    <3>4. Latest(StepsOf(c.stateHead, b) \cup {n + 1}) = n + 1
      BY <1>4, LatestAppend
    <3>5. Cardinality(StepsOf(c.stateHead, b) \cup {n + 1}) = Cardinality(StepsOf(c.stateHead, b)) + 1
      <4>1. Len(c.stateHead) = n /\ DOMAIN c.stateHead = 1 .. n
        BY <1>4
      <4>2. StepsOf(c.stateHead, b) \subseteq 1 .. n
        BY <4>1 DEF StepsOf
      <4>3. IsFiniteSet(1 .. n)
        BY FS_Interval
      <4>4. IsFiniteSet(StepsOf(c.stateHead, b))
        BY <4>2, <4>3, FS_Subset
      <4>5. n + 1 \notin StepsOf(c.stateHead, b)
        BY <4>2
      <4> QED
        BY <4>4, <4>5, FS_AddElement
    <3>6. Append(c.stateHead, step)[n + 1] = step
      BY <1>4, <1>14
    <3>7. step.state = t.state
      BY <1>9
    <3>8. PICK after : after = Append(c.stateHead, step)
      OBVIOUS
    <3>9. PICK steps : steps = StepsOf(after, b)
      OBVIOUS
    <3>10. /\ steps # {}
           /\ Latest(steps) = n + 1
           /\ Cardinality(steps) = Cardinality(StepsOf(c.stateHead, b)) + 1
           /\ after[n + 1].state = t.state
      BY <3>3, <3>4, <3>5, <3>6, <3>7, <3>8, <3>9
    <3>11. aggregates'[r][b] =
             [aggregateId |-> b, version |-> Cardinality(steps),
              lastInputPosition |-> Latest(steps), state |-> after[Latest(steps)].state]
      BY <2>3, <3>1, <3>10, <1>12
    <3> QED
      BY <3>2, <3>8, <3>9, <3>10, <3>11
  <2> QED
    BY <2>1, <2>2, <2>3
<1> QED
  BY <1>19, <1>20

\* Determinism as an inductive invariant: the heads alone are not enough, since
\* what the next step reads is the checkpoint table and the cursor.
ReplayInv == LogAndCursors /\ HeadsReplayReducer /\ CheckpointsMatchHead

\* Nothing is processed initially.
LEMMA ReplayInit == SerialInit => ReplayInv
<1> SUFFICES ASSUME SerialInit PROVE HeadsReplayReducer /\ CheckpointsMatchHead
  BY LogAndCursorsInit DEF ReplayInv
<1>1. \A r \in RunIds : cursors[r] = None /\ \A a \in AggregateIds : aggregates[r][a] = None
  BY DEF SerialInit, InitStore
<1>2. \A a : StepsOf(<<>>, a) = {}
  BY DEF StepsOf
<1> QED
  BY <1>1, <1>2 DEF HeadsReplayReducer, CheckpointsMatchHead

\* Every step keeps heads and checkpoints replayed.
LEMMA ReplayStep == ReplayInv /\ [SerialNext]_serialVars => ReplayInv'
<1> SUFFICES ASSUME ReplayInv, [SerialNext]_serialVars
             PROVE  HeadsReplayReducer' /\ CheckpointsMatchHead'
  BY LogAndCursorsStep DEF ReplayInv
<1>0. StoreTypeOK /\ LogChained /\ CursorBound /\ HeadsReplayReducer /\ CheckpointsMatchHead
  BY DEF ReplayInv, LogAndCursors
<1>1. ASSUME NEW m \in Manifests, ProcessNext(m)
      PROVE  HeadsReplayReducer' /\ CheckpointsMatchHead'
  BY <1>0, <1>1, HeadsCommit
<1>2. CASE UNCHANGED <<cursors, aggregates>>
           /\ (\A r \in RunIds : cursors[r] # None => runs'[r] = runs[r])
           /\ (\A i \in 1 .. Len(log) : log'[i] = log[i])
  <2>1. CheckpointsMatchHead'
    BY <1>0, <1>2 DEF CheckpointsMatchHead
  <2>2. \A r \in RunIds : cursors[r] # None => 1 .. cursors[r].processedPosition \subseteq 1 .. Len(log)
    BY <1>0, EventsTyped, StoreTypeIsLogType DEF CursorBound
  <2>3. ASSUME NEW r \in RunIds, cursors[r] # None, NEW i \in 1 .. cursors[r].processedPosition
        PROVE  ReplaysAt(runs[r], cursors[r].stateHead, cursors[r].decisionHead, i)'
    <3>1. runs'[r] = runs[r] /\ log'[i] = log[i]
      BY <1>2, <2>2, <2>3
    <3>2. ReplaysAt(runs[r], cursors[r].stateHead, cursors[r].decisionHead, i)
      BY <1>0, <2>3 DEF HeadsReplayReducer
    <3> QED
      BY <1>2, <3>1, <3>2 DEF ReplaysAt
  <2>4. HeadsReplayReducer'
    BY <1>0, <1>2, <2>3 DEF HeadsReplayReducer
  <2> QED
    BY <2>1, <2>4
<1>3. ASSUME NEW d \in Drafts, CaptureDraft(d)
      PROVE  UNCHANGED <<cursors, aggregates, runs>> /\ \A i \in 1 .. Len(log) : log'[i] = log[i]
  BY <1>0, <1>3, CaptureAppends, StoreTypeIsLogType DEF CaptureDraft
<1>4. ASSUME NEW m \in Manifests, Register(m)
      PROVE  /\ UNCHANGED <<cursors, aggregates, log>>
             /\ \A r \in RunIds : cursors[r] # None => runs'[r] = runs[r]
  <2>1. \A r \in RunIds : cursors[r] # None => cursors[r] \in Cursor /\ cursors[r].manifest \in Manifest
    BY <1>0 DEF StoreTypeOK, Cursor
  <2> QED
    BY <1>0, <1>4, <2>1, AbsentAssumption
       DEF CursorBound, Register, ensureRun, RegistrationAgrees, StoreTypeOK
<1>5. CASE ClockStep \/ UNCHANGED serialVars
  BY <1>2, <1>5 DEF ClockStep, Tick, serialVars
<1> QED
  BY <1>1, <1>2, <1>3, <1>4, <1>5 DEF SerialNext

\* The state and decision heads of every run are a function of the log and the
\* manifest: they are what replaying the reducer over the log yields.
THEOREM RunsReplayTheLog == SerialSpec => []HeadsReplayReducer
BY ReplayInit, ReplayStep, PTL DEF SerialSpec, ReplayInv

\* Every checkpoint agrees with the state head of its run.
THEOREM CheckpointsAreReplayed == SerialSpec => []CheckpointsMatchHead
BY ReplayInit, ReplayStep, PTL DEF SerialSpec, ReplayInv

-----------------------------------------------------------------------------
(* The output ledger.                                                      *)

\* What a commit appends to the ledger.
LEMMA LedgerGrows ==
    ASSUME StoreTypeOK, NEW m \in Manifests, ProcessNext(m)
    PROVE  LET outs == NextCommit(m).outputs
           IN  /\ Len(outputs) \in Nat /\ DOMAIN outputs = 1 .. Len(outputs)
               /\ Len(outs) \in Nat /\ DOMAIN outs = 1 .. Len(outs)
               /\ DOMAIN outputs' = 1 .. (Len(outputs) + Len(outs))
               /\ \A i \in 1 .. Len(outputs) : outputs'[i] = outputs[i]
               /\ \A i \in 1 .. Len(outs) : /\ outputs'[Len(outputs) + i] = outs[i]
                                            /\ outs[i] \in Output
                                            /\ outs[i].runId = m.runId
<1> DEFINE outs == NextCommit(m).outputs
<1>1. outputs \in Seq(Output) /\ outs \in Seq(OutputFor(m)) /\ outs \in Seq(Output)
  BY ProcessNextTyped DEF StoreTypeOK
<1>2. outputs' = outputs \o outs
  BY DEF ProcessNext, CommitWrites
<1> HIDE DEF outs
<1>3. \A i \in 1 .. Len(outs) : outs[i] \in OutputFor(m)
  BY <1>1
<1>4. \A i \in 1 .. Len(outs) : outs[i] \in Output /\ outs[i].runId = m.runId
  BY <1>3 DEF OutputFor
<1>5. /\ Len(outputs) \in Nat /\ DOMAIN outputs = 1 .. Len(outputs)
      /\ Len(outs) \in Nat /\ DOMAIN outs = 1 .. Len(outs)
      /\ outputs' \in Seq(Output) /\ Len(outputs') = Len(outputs) + Len(outs)
      /\ \A i \in 1 .. Len(outputs) : outputs'[i] = outputs[i]
      /\ \A i \in 1 .. Len(outs) : outputs'[Len(outputs) + i] = outs[i]
  BY <1>1, <1>2, ConcatProperties
<1>6. DOMAIN outputs' = 1 .. (Len(outputs) + Len(outs))
  BY <1>5
<1> QED
  BY <1>4, <1>5, <1>6 DEF outs

\* Nothing but a commit touches the ledger.
LEMMA LedgerUntouched ==
    ASSUME [SerialNext]_serialVars
    PROVE  \/ \E m \in Manifests : ProcessNext(m)
           \/ UNCHANGED <<outputs, dispatchable>>
BY DEF SerialNext, serialVars, CaptureDraft, ClockStep, Register

\* Every step keeps dedupe identities distinct.
LEMMA IntentsOnceStep ==
    ASSUME StoreTypeOK, IntentsEmittedOnce, [SerialNext]_serialVars
    PROVE  IntentsEmittedOnce'
<1>1. CASE UNCHANGED <<outputs, dispatchable>>
  BY <1>1 DEF IntentsEmittedOnce
<1>2. ASSUME NEW m \in Manifests, ProcessNext(m)
      PROVE  IntentsEmittedOnce'
  <2>1. PICK outs : outs = NextCommit(m).outputs
    OBVIOUS
  <2>2. PICK k \in Nat : k = Len(outputs)
    BY DEF StoreTypeOK
  <2>3. PICK n \in Nat : n = Len(outs)
    BY <1>2, <2>1, LedgerGrows
  <2>4. /\ DOMAIN outputs = 1 .. k /\ DOMAIN outs = 1 .. n /\ DOMAIN outputs' = 1 .. (k + n)
        /\ \A i \in 1 .. k : outputs'[i] = outputs[i]
        /\ \A i \in 1 .. n : outputs'[k + i] = outs[i]
    BY <1>2, <2>1, <2>2, <2>3, LedgerGrows
  <2>5. DistinctKeys(outs) /\ LedgerAdmits(outs)
    BY <1>2, <2>1 DEF ProcessNext
  <2> SUFFICES ASSUME NEW i \in 1 .. (k + n), NEW j \in 1 .. (k + n), i # j,
                      outputs'[i].dedupeKey # NoKey
               PROVE  computeOutputDedupeIdentity(outputs'[i]) # computeOutputDedupeIdentity(outputs'[j])
    BY <2>4 DEF IntentsEmittedOnce, computeOutputDedupeIdentity
  <2>6. CASE i \in 1 .. k /\ j \in 1 .. k
    BY <2>4, <2>6 DEF IntentsEmittedOnce
  <2>7. \A x \in 1 .. (k + n) : x \notin 1 .. k => x - k \in 1 .. n /\ outputs'[x] = outs[x - k]
    <3>1. ASSUME NEW x \in 1 .. (k + n), x \notin 1 .. k
          PROVE  x - k \in 1 .. n /\ outputs'[x] = outs[x - k]
      <4>1. x - k \in 1 .. n /\ x = k + (x - k)
        BY <3>1
      <4> QED
        BY <4>1, <2>4
    <3> QED
      BY <3>1
  <2>8. CASE i \notin 1 .. k /\ j \in 1 .. k
    BY <2>4, <2>5, <2>7, <2>8 DEF LedgerAdmits
  <2>9. CASE i \in 1 .. k /\ j \notin 1 .. k
    <3>1. /\ outs[j - k].dedupeKey # NoKey
             => computeOutputDedupeIdentity(outs[j - k]) # computeOutputDedupeIdentity(outputs[i])
          /\ outputs'[j] = outs[j - k] /\ outputs'[i] = outputs[i]
      BY <2>4, <2>5, <2>7, <2>9 DEF LedgerAdmits
    <3> QED
      BY <3>1 DEF computeOutputDedupeIdentity
  <2>10. CASE i \notin 1 .. k /\ j \notin 1 .. k
    <3>1. i - k # j - k
      BY <2>10
    <3>2. /\ i - k \in DOMAIN outs /\ j - k \in DOMAIN outs
          /\ outputs'[i] = outs[i - k] /\ outputs'[j] = outs[j - k]
      BY <2>4, <2>7, <2>10
    <3>3. outs[i - k].dedupeKey # NoKey
      BY <3>2
    <3>4. computeOutputDedupeIdentity(outs[i - k]) # computeOutputDedupeIdentity(outs[j - k])
      BY <2>5, <3>1, <3>2, <3>3 DEF DistinctKeys
    <3> QED
      BY <3>2, <3>4
  <2> QED
    BY <2>6, <2>8, <2>9, <2>10
<1> QED
  BY <1>1, <1>2, LedgerUntouched

\* A run emits a dedupe key at most once in each category.
THEOREM RunsEmitIntentsOnce == SerialSpec => []IntentsEmittedOnce
<1>1. SerialInit => IntentsEmittedOnce
  BY DEF SerialInit, InitStore, IntentsEmittedOnce
<1>2. StoreTypeOK /\ IntentsEmittedOnce /\ [SerialNext]_serialVars => IntentsEmittedOnce'
  BY IntentsOnceStep
<1> QED
  BY <1>1, <1>2, SerialTypeCorrect, PTL DEF SerialSpec

\* Outputs belong to registered runs, and registrations obey the effect policy.
RegisteredOutputs == \A n \in DOMAIN outputs : runs[outputs[n].runId] # None
PolicyHeld == \A r \in RunIds : runs[r] # None => assertRunEffectPolicy(runs[r])

EffectsInv == StoreTypeOK /\ RegisteredOutputs /\ PolicyHeld /\ EffectsGated

\* Nothing is queued initially.
LEMMA EffectsInit == SerialInit => EffectsInv
BY StoreTypeInit DEF SerialInit, InitStore, EffectsInv, RegisteredOutputs, PolicyHeld, EffectsGated

\* Registering a run changes nothing for the outputs that are there.
LEMMA EffectsRegister ==
    ASSUME EffectsInv, NEW m \in Manifests, Register(m)
    PROVE  RegisteredOutputs' /\ PolicyHeld' /\ EffectsGated'
<1>1. m \in Manifest /\ m.runId \in RunIds /\ m # None
  BY ManifestsAssumption, AbsentAssumption DEF Manifest
<1>2. /\ runs' = [runs EXCEPT ![m.runId] = m]
      /\ runs[m.runId] \in {None, m} /\ assertRunEffectPolicy(m)
      /\ UNCHANGED <<outputs, dispatchable>>
  BY DEF Register, ensureRun, validateRunRegistration, RegistrationAgrees
<1>3. runs \in [RunIds -> Manifest \cup {None}] /\ outputs \in Seq(Output)
  BY DEF EffectsInv, StoreTypeOK
<1>4. \A r \in RunIds : runs[r] # None => runs'[r] = runs[r]
  BY <1>1, <1>2, <1>3
<1>5. \A r \in RunIds : runs'[r] # None => assertRunEffectPolicy(runs'[r])
  BY <1>1, <1>2, <1>3 DEF EffectsInv, PolicyHeld
<1>6. \A n \in DOMAIN outputs : outputs[n].runId \in RunIds
  <2>1. \A n \in DOMAIN outputs : outputs[n] \in Output
    BY <1>3
  <2> QED
    BY <2>1 DEF Output
<1>7. \A n \in DOMAIN outputs : runs'[outputs[n].runId] = runs[outputs[n].runId]
  BY <1>4, <1>6 DEF EffectsInv, RegisteredOutputs
<1>8. RegisteredOutputs'
  BY <1>2, <1>7 DEF EffectsInv, RegisteredOutputs
<1>9. PolicyHeld'
  BY <1>5 DEF PolicyHeld, assertRunEffectPolicy
<1>10. EffectsGated'
  BY <1>2, <1>7 DEF EffectsInv, EffectsGated
<1> QED
  BY <1>8, <1>9, <1>10

\* A commit queues exactly the intents of a run with effects.
LEMMA EffectsCommit ==
    ASSUME EffectsInv, NEW m \in Manifests, ProcessNext(m)
    PROVE  RegisteredOutputs' /\ PolicyHeld' /\ EffectsGated'
<1>1. m \in Manifest /\ m.runId \in RunIds /\ m # None
  BY ManifestsAssumption, AbsentAssumption DEF Manifest
<1>2. StoreTypeOK
  BY DEF EffectsInv
<1>3. PICK outs : outs = NextCommit(m).outputs
  OBVIOUS
<1>4. PICK k \in Nat : k = Len(outputs)
  BY <1>2 DEF StoreTypeOK
<1>5. PICK n \in Nat : n = Len(outs)
  BY <1>2, <1>3, LedgerGrows
<1>6. /\ DOMAIN outputs = 1 .. k /\ DOMAIN outs = 1 .. n /\ DOMAIN outputs' = 1 .. (k + n)
      /\ \A i \in 1 .. k : outputs'[i] = outputs[i]
      /\ \A i \in 1 .. n : outputs'[k + i] = outs[i] /\ outs[i] \in Output /\ outs[i].runId = m.runId
  BY <1>2, <1>3, <1>4, <1>5, LedgerGrows
<1>7. /\ runs' = runs /\ runs[m.runId] = m
      /\ dispatchable' = dispatchable \cup
            {k + i : i \in {j \in 1 .. n : m.effectsAllowed /\ outs[j].category \in {"job", "outbox"}}}
  BY <1>3, <1>4, <1>6 DEF ProcessNext, CommitWrites
<1>8. \A x \in 1 .. (k + n) : x \notin 1 .. k => x - k \in 1 .. n /\ x = k + (x - k)
  OBVIOUS
<1>9. \A x \in 1 .. (k + n) : x \notin 1 .. k => outputs'[x] = outs[x - k] /\ outputs'[x].runId = m.runId
  BY <1>6, <1>8
<1>10. RegisteredOutputs'
  <2>1. ASSUME NEW x \in 1 .. (k + n)
        PROVE  runs[outputs'[x].runId] # None
    <3>1. CASE x \in 1 .. k
      BY <3>1, <1>6 DEF EffectsInv, RegisteredOutputs
    <3>2. CASE x \notin 1 .. k
      BY <3>2, <1>1, <1>7, <1>9
    <3> QED
      BY <3>1, <3>2
  <2> QED
    BY <2>1, <1>6, <1>7 DEF RegisteredOutputs
<1>11. PolicyHeld'
  BY <1>7 DEF EffectsInv, PolicyHeld
<1>12. EffectsGated'
  <2> DEFINE Queued(x) == /\ outputs'[x].category # "decision"
                          /\ runs[outputs'[x].runId] # None
                          /\ runs[outputs'[x].runId].kind = "live"
                          /\ runs[outputs'[x].runId].effectsAllowed
  <2>1. dispatchable = {x \in 1 .. k :
                          /\ outputs[x].category # "decision"
                          /\ runs[outputs[x].runId] # None
                          /\ runs[outputs[x].runId].kind = "live"
                          /\ runs[outputs[x].runId].effectsAllowed}
    BY <1>6 DEF EffectsInv, EffectsGated
  <2>2. ASSUME NEW x \in 1 .. k
        PROVE  x \in dispatchable' <=> Queued(x)
    <3>1. x \in dispatchable' <=> x \in dispatchable
      BY <1>7
    <3> QED
      BY <3>1, <2>1, <1>6
  <2>3. ASSUME NEW x \in 1 .. (k + n), x \notin 1 .. k
        PROVE  x \in dispatchable' <=> Queued(x)
    <3>1. x - k \in 1 .. n /\ x = k + (x - k) /\ outputs'[x] = outs[x - k] /\ outputs'[x].runId = m.runId
      BY <2>3, <1>8, <1>9
    <3>2. outs[x - k].category \in {"decision", "job", "outbox"}
      BY <3>1, <1>6 DEF Output, Categories
    <3>3. m.effectsAllowed => m.kind = "live"
      BY <1>1, <1>7 DEF EffectsInv, PolicyHeld, assertRunEffectPolicy
    <3>4. Queued(x) <=> outs[x - k].category \in {"job", "outbox"} /\ m.effectsAllowed
      BY <3>1, <3>2, <3>3, <1>1, <1>7
    <3>5. x \in dispatchable' <=> outs[x - k].category \in {"job", "outbox"} /\ m.effectsAllowed
      <4>1. x \notin dispatchable
        BY <2>1, <2>3
      <4>2. \A i \in 1 .. n : x = k + i => i = x - k
        OBVIOUS
      <4> QED
        BY <4>1, <4>2, <3>1, <1>7
    <3> QED
      BY <3>4, <3>5
  <2>4. \A x \in dispatchable' : x \in 1 .. (k + n)
    BY <2>1, <1>7
  <2> HIDE DEF Queued
  <2>5. dispatchable' = {x \in 1 .. (k + n) : Queued(x)}
    BY <2>2, <2>3, <2>4
  <2> QED
    BY <2>5, <1>6, <1>7 DEF EffectsGated, Queued
<1> QED
  BY <1>10, <1>11, <1>12

\* Every step keeps effects gated.
LEMMA EffectsStep == EffectsInv /\ [SerialNext]_serialVars => EffectsInv'
<1> SUFFICES ASSUME EffectsInv, [SerialNext]_serialVars
             PROVE  RegisteredOutputs' /\ PolicyHeld' /\ EffectsGated'
  BY StoreTypeStep DEF EffectsInv
<1>1. CASE UNCHANGED <<runs, outputs, dispatchable>>
  BY <1>1 DEF EffectsInv, RegisteredOutputs, PolicyHeld, EffectsGated
<1>2. ASSUME NEW m \in Manifests, Register(m) \/ ProcessNext(m)
      PROVE  RegisteredOutputs' /\ PolicyHeld' /\ EffectsGated'
  BY <1>2, EffectsRegister, EffectsCommit
<1> QED
  BY <1>1, <1>2 DEF SerialNext, serialVars, CaptureDraft, ClockStep

\* Exactly the jobs and outbox messages of live runs with effects are queued
\* for dispatch; no other kind of run can ever cause an external effect.
THEOREM OnlyLiveRunsDispatch == SerialSpec => []EffectsGated
BY EffectsInit, EffectsStep, PTL DEF SerialSpec, EffectsInv

-----------------------------------------------------------------------------
(* The ledger and the decision head.                                       *)

\* What every output of one event has in common.
OfEvent(e) == {o \in Output : /\ o.inputPosition = e.position
                              /\ o.inputEventHash = e.eventHash
                              /\ validateStoredOutputBody(o)}

\* What materialize makes of one list of a transition belongs to its event.
LEMMA ListOfEvent ==
    ASSUME NEW m \in Manifest, NEW e \in StoredEvent, NEW a \in AggregateIds,
           NEW category \in Categories, NEW S, NEW list \in Seq(S),
           S = IF category = "decision" THEN Bodies ELSE Intent
    PROVE  OutputsOf(m, e, a, category, list) \in Seq(OfEvent(e))
<1>1. OutputsOf(m, e, a, category, list) \in Seq(Output)
  <2>1. OutputsOf(m, e, a, category, list) \in Seq(OutputFor(m))
    BY DecisionsTyped, IntentsTyped DEF Categories
  <2> QED
    BY <2>1, SeqOfSubset DEF OutputFor
<1>2. Len(list) \in Nat /\ DOMAIN list = 1 .. Len(list)
  OBVIOUS
<1>3. DOMAIN OutputsOf(m, e, a, category, list) = 1 .. Len(list)
  BY <1>2 DEF OutputsOf
<1>4. ASSUME NEW i \in 1 .. Len(list)
      PROVE  OutputsOf(m, e, a, category, list)[i] \in OfEvent(e)
  <2>1. OutputsOf(m, e, a, category, list)[i] \in Output
    BY <1>1, <1>3
  <2>2. category # "decision" => list[i].dedupeKey # NoKey
    <3>1. list[i] \in S
      OBVIOUS
    <3> QED
      BY <3>1, AbsentAssumption DEF Intent
  <2>3. /\ OutputsOf(m, e, a, category, list)[i].inputPosition = e.position
        /\ OutputsOf(m, e, a, category, list)[i].inputEventHash = e.eventHash
        /\ OutputsOf(m, e, a, category, list)[i].category = category
        /\ OutputsOf(m, e, a, category, list)[i].dedupeKey =
              IF category = "decision" THEN NoKey ELSE list[i].dedupeKey
    BY <1>2 DEF OutputsOf
  <2> QED
    BY <2>1, <2>2, <2>3 DEF OfEvent, validateStoredOutputBody
<1>5. OutputsOf(m, e, a, category, list) \in [1 .. Len(list) -> OfEvent(e)]
  BY <1>2, <1>4 DEF OutputsOf
<1> QED
  BY <1>2, <1>5, FunctionIsSeq

\* All outputs of a transition belong to its event.
LEMMA TransitionOfEvent ==
    ASSUME NEW m \in Manifest, NEW e \in StoredEvent, NEW a \in AggregateIds, NEW t \in Transition
    PROVE  materialize(m, e, a, t) \in Seq(OfEvent(e))
<1>1. t.decisions \in Seq(Bodies) /\ t.jobs \in Seq(Intent) /\ t.outbox \in Seq(Intent)
  BY DEF Transition
<1>2. OutputsOf(m, e, a, "decision", t.decisions) \in Seq(OfEvent(e))
  BY <1>1, ListOfEvent DEF Categories
<1>3. OutputsOf(m, e, a, "job", t.jobs) \in Seq(OfEvent(e))
  BY <1>1, ListOfEvent DEF Categories
<1>4. OutputsOf(m, e, a, "outbox", t.outbox) \in Seq(OfEvent(e))
  BY <1>1, ListOfEvent DEF Categories
<1> QED
  BY <1>2, <1>3, <1>4, ConcatProperties DEF materialize

\* What a commit appends to the ledger and to the decision head.
LEMMA DecisionsCommitted ==
    ASSUME LogAndCursors, NEW m \in Manifests, ProcessNext(m)
    PROVE  LET outs == NextCommit(m).outputs
               n == loadCursor(m).processedPosition + 1
           IN  /\ outs \in Seq(OfEvent(log[n]))
               /\ NextCommit(m).cursor.decisionHead =
                    Append(loadCursor(m).decisionHead,
                           [eventHash |-> log[n].eventHash, outputs |-> semanticOutputs(outs)])
<1>0. StoreTypeOK /\ LogChained /\ CursorBound
  BY DEF LogAndCursors
<1>1. m \in Manifest /\ m.runId \in RunIds
  BY ManifestsAssumption DEF Manifest
<1> DEFINE e == NextEvent(m)
           a == Route(e)
           prior == loadAggregate(m, a)
           t == Apply(prior.state, e, m)
<1>2. e \in StoredEvent /\ e = log[loadCursor(m).processedPosition + 1]
  BY <1>0, ProcessNextTyped, NextCursor
<1>3. a \in AggregateIds /\ t \in Transition
  BY DEF ProcessNext, WellFormed
<1>4. prior.aggregateId \in AggregateIds
  BY <1>0, <1>1, <1>3, LoadsTyped DEF Checkpoint
<1>5. NextCommit(m) = BuildCommit(m, loadCursor(m), prior, e)
  BY DEF NextCommit
<1> HIDE DEF e, prior
<1>6. NextCommit(m).outputs = materialize(m, e, prior.aggregateId, t)
  BY <1>5 DEF BuildCommit
<1>7. NextCommit(m).outputs \in Seq(OfEvent(e))
  BY <1>1, <1>2, <1>3, <1>4, <1>6, TransitionOfEvent
<1>8. NextCommit(m).cursor.decisionHead =
        Append(loadCursor(m).decisionHead,
               [eventHash |-> e.eventHash, outputs |-> semanticOutputs(NextCommit(m).outputs)])
  BY <1>5 DEF BuildCommit, DecisionHeadStep
<1> QED
  BY <1>2, <1>7, <1>8

\* The decision head of a run, empty before its first commit.
DecisionHeadOf(r) == IF cursors[r] = None THEN <<>> ELSE cursors[r].decisionHead

\* The decision head has one entry per processed event.
LEMMA DecisionHeadLength ==
    ASSUME StoreTypeOK, CursorBound, HeadsReplayReducer, NEW m \in Manifest
    PROVE  /\ loadCursor(m).decisionHead = DecisionHeadOf(m.runId)
           /\ DecisionHeadOf(m.runId) \in Seq(DecisionStep)
           /\ Len(DecisionHeadOf(m.runId)) = loadCursor(m).processedPosition
           /\ loadCursor(m).processedPosition \in Nat
           /\ DOMAIN DecisionHeadOf(m.runId) = 1 .. loadCursor(m).processedPosition
<1>1. m.runId \in RunIds
  BY DEF Manifest
<1>2. loadCursor(m) \in Cursor
  BY LoadsTyped
<1>3. loadCursor(m).decisionHead \in Seq(DecisionStep) /\ loadCursor(m).processedPosition \in Nat
  BY <1>2 DEF Cursor
<1>4. loadCursor(m).decisionHead = DecisionHeadOf(m.runId)
  BY DEF loadCursor, createGenesisRunCursor, DecisionHeadOf
<1>5. Len(loadCursor(m).decisionHead) = loadCursor(m).processedPosition
  BY <1>1, <1>3 DEF loadCursor, createGenesisRunCursor, HeadsReplayReducer
<1> QED
  BY <1>3, <1>4, <1>5

\* The ledger matches the decision heads after a commit.
LEMMA LedgerCommit ==
    ASSUME ReplayInv, LedgerMatchesDecisions, NEW m \in Manifests, ProcessNext(m)
    PROVE  LedgerMatchesDecisions'
<1>0. StoreTypeOK /\ LogAndCursors /\ LogChained /\ CursorBound /\ HeadsReplayReducer
  BY DEF ReplayInv, LogAndCursors
<1>1. m \in Manifest /\ m.runId \in RunIds
  BY ManifestsAssumption DEF Manifest
<1>2. PICK outs : outs = NextCommit(m).outputs
  OBVIOUS
<1>3. PICK k \in Nat : k = Len(outputs)
  BY <1>0 DEF StoreTypeOK
<1>4. PICK n \in Nat : n = loadCursor(m).processedPosition
  BY <1>0, <1>1, DecisionHeadLength
<1>5. PICK s \in Nat : s = Len(outs)
  BY <1>0, <1>2, LedgerGrows
<1>6. /\ DOMAIN outputs = 1 .. k /\ DOMAIN outs = 1 .. s /\ DOMAIN outputs' = 1 .. (k + s)
      /\ Len(outputs') = k + s
      /\ \A i \in 1 .. k : outputs'[i] = outputs[i]
      /\ \A i \in 1 .. s : outputs'[k + i] = outs[i] /\ outs[i].runId = m.runId
  <2>1. outputs' \in Seq(Output)
    BY <1>0, StoreTypeStep DEF SerialNext, StoreTypeOK
  <2> QED
    BY <1>0, <1>2, <1>3, <1>5, <2>1, LedgerGrows
<1>7. \A i \in 1 .. s : outs[i].inputPosition = n + 1
  <2>1. outs \in Seq(OfEvent(log[n + 1])) /\ log[n + 1].position = n + 1
    BY <1>0, <1>2, <1>4, DecisionsCommitted, NextCursor
  <2>2. \A i \in 1 .. s : outs[i] \in OfEvent(log[n + 1])
    BY <1>5, <2>1
  <2> QED
    BY <2>1, <2>2 DEF OfEvent
<1>8. \A x \in 1 .. (k + s) : x \notin 1 .. k =>
        /\ x - k \in 1 .. s /\ outputs'[x] = outs[x - k]
        /\ outputs'[x].runId = m.runId /\ outputs'[x].inputPosition = n + 1
  <2>1. ASSUME NEW x \in 1 .. (k + s), x \notin 1 .. k
        PROVE  /\ x - k \in 1 .. s /\ outputs'[x] = outs[x - k]
               /\ outputs'[x].runId = m.runId /\ outputs'[x].inputPosition = n + 1
    <3>1. x - k \in 1 .. s /\ x = k + (x - k)
      BY <2>1
    <3>2. outputs'[k + (x - k)] = outs[x - k] /\ outs[x - k].runId = m.runId
      BY <1>6, <3>1
    <3> QED
      BY <1>7, <3>1, <3>2
  <2> QED
    BY <2>1
<1>9. \A x \in 1 .. k : outputs[x].inputPosition \in Nat
  <2>1. \A x \in 1 .. k : outputs[x] \in Output
    BY <1>0, <1>6 DEF StoreTypeOK
  <2> QED
    BY <2>1 DEF Output
<1>10. PICK decision : decision = [eventHash |-> log[n + 1].eventHash, outputs |-> semanticOutputs(outs)]
  OBVIOUS
<1>11. /\ DecisionHeadOf(m.runId)' = Append(DecisionHeadOf(m.runId), decision)
       /\ \A r \in RunIds : r # m.runId => DecisionHeadOf(r)' = DecisionHeadOf(r)
  <2>1. cursors' = [cursors EXCEPT ![m.runId] = NextCommit(m).cursor]
    BY DEF ProcessNext, CommitWrites
  <2>2. NextCommit(m).cursor # None
    BY <1>0, ProcessNextTyped, AbsentAssumption
  <2>3. NextCommit(m).cursor.decisionHead = Append(DecisionHeadOf(m.runId), decision)
    BY <1>0, <1>1, <1>2, <1>4, <1>10, DecisionsCommitted, DecisionHeadLength
  <2> QED
    BY <1>0, <1>1, <2>1, <2>2, <2>3 DEF DecisionHeadOf, StoreTypeOK
<1>12. PICK head \in Seq(DecisionStep) : head = DecisionHeadOf(m.runId) /\ Len(head) = n /\ DOMAIN head = 1 .. n
  BY <1>0, <1>1, <1>4, DecisionHeadLength
<1>13. decision \in DecisionStep
  <2>1. NextCommit(m).cursor \in Cursor
    BY <1>0, ProcessNextTyped
  <2>2. NextCommit(m).cursor.decisionHead \in Seq(DecisionStep)
    BY <2>1 DEF Cursor
  <2>3. NextCommit(m).cursor.decisionHead = Append(head, decision)
    BY <1>0, <1>1, <1>2, <1>4, <1>10, <1>12, DecisionsCommitted, DecisionHeadLength
  <2>4. Len(Append(head, decision)) = n + 1 /\ Append(head, decision)[n + 1] = decision
    BY <1>12
  <2> QED
    BY <2>2, <2>3, <2>4
<1>14. PICK head1 : head1 = Append(head, decision)
  OBVIOUS
<1>15. /\ DOMAIN head1 = 1 .. (n + 1) /\ head1[n + 1] = decision
       /\ \A i \in 1 .. n : head1[i] = head[i]
  BY <1>12, <1>13, <1>14
<1>16. ASSUME NEW r \in RunIds, NEW i \in Nat, NEW decided \in Seq(SemanticOutput),
              StretchMatches(r, i, decided), r # m.runId \/ i <= n
       PROVE  StretchMatches(r, i, decided)'
  <2>1. PICK j \in 0 .. k :
          /\ RowsOf(r, i) = (j + 1) .. (j + Len(decided))
          /\ \A x \in DOMAIN decided :
                decided[x] = [category |-> outputs[j + x].category, ordinal |-> outputs[j + x].ordinal,
                              body |-> outputs[j + x].body]
          /\ \A x \in 1 .. k : (outputs[x].runId = r /\ outputs[x].inputPosition < i) => x <= j
    BY <1>3, <1>6, <1>16 DEF StretchMatches
  <2>2. RowsOf(r, i)' = RowsOf(r, i)
    <3>1. RowsOf(r, i)' = {x \in 1 .. (k + s) : outputs'[x].runId = r /\ outputs'[x].inputPosition = i}
      BY <1>6 DEF RowsOf
    <3>2. RowsOf(r, i) = {x \in 1 .. k : outputs[x].runId = r /\ outputs[x].inputPosition = i}
      BY <1>6 DEF RowsOf
    <3>3. \A x \in 1 .. (k + s) : x \notin 1 .. k =>
            ~(outputs'[x].runId = r /\ outputs'[x].inputPosition = i)
      BY <1>8, <1>16
    <3>4. \A x \in 1 .. k : x \in 1 .. (k + s) /\ outputs'[x] = outputs[x]
      BY <1>6
    <3> QED
      BY <3>1, <3>2, <3>3, <3>4
  <2>3. \A x \in RowsOf(r, i) : outputs'[x] = outputs[x]
    BY <1>6 DEF RowsOf
  <2>4. \A x \in 1 .. (k + s) : (outputs'[x].runId = r /\ outputs'[x].inputPosition < i) => x <= j
    BY <1>6, <1>8, <1>16, <2>1
  <2>5. j \in 0 .. Len(outputs')
    BY <1>6, <2>1
  <2>6. ASSUME NEW x \in DOMAIN decided
        PROVE  decided[x] = [category |-> outputs'[j + x].category, ordinal |-> outputs'[j + x].ordinal,
                             body |-> outputs'[j + x].body]
    <3>1. x \in 1 .. Len(decided) /\ Len(decided) \in Nat
      OBVIOUS
    <3>2. j + x \in RowsOf(r, i)
      BY <2>1, <3>1
    <3> QED
      BY <2>1, <2>3, <3>2
  <2> QED
    BY <1>6, <2>1, <2>2, <2>4, <2>5, <2>6 DEF StretchMatches
<1>17. ASSUME NEW r \in RunIds
       PROVE  /\ \A i \in DOMAIN DecisionHeadOf(r) : DecisionHeadOf(r)[i].outputs \in Seq(SemanticOutput)
              /\ \A i \in DOMAIN DecisionHeadOf(r) : i \in Nat
              /\ \A i \in DOMAIN DecisionHeadOf(r) : StretchMatches(r, i, DecisionHeadOf(r)[i].outputs)
              /\ \A x \in 1 .. k : outputs[x].runId = r => outputs[x].inputPosition \in DOMAIN DecisionHeadOf(r)
  <2>1. DecisionHeadOf(r) \in Seq(DecisionStep)
    BY <1>0 DEF DecisionHeadOf, StoreTypeOK, Cursor
  <2>2. \A i \in DOMAIN DecisionHeadOf(r) : DecisionHeadOf(r)[i] \in DecisionStep /\ i \in Nat
    BY <2>1
  <2> QED
    BY <2>2, <1>6 DEF LedgerMatchesDecisions, DecisionHeadOf, DecisionStep
<1>18. \A x \in 1 .. k : outputs[x].runId = m.runId => outputs[x].inputPosition \in 1 .. n
  BY <1>1, <1>12, <1>17
<1>19. StretchMatches(m.runId, n + 1, semanticOutputs(outs))'
  <2>1. /\ DOMAIN semanticOutputs(outs) = 1 .. s /\ Len(semanticOutputs(outs)) = s
        /\ \A x \in 1 .. s : semanticOutputs(outs)[x] =
              [category |-> outs[x].category, ordinal |-> outs[x].ordinal, body |-> outs[x].body]
    BY <1>6 DEF semanticOutputs
  <2>2. RowsOf(m.runId, n + 1)' = (k + 1) .. (k + s)
    <3>1. RowsOf(m.runId, n + 1)' =
            {x \in 1 .. (k + s) : outputs'[x].runId = m.runId /\ outputs'[x].inputPosition = n + 1}
      BY <1>6 DEF RowsOf
    <3>2. \A x \in 1 .. k : ~(outputs'[x].runId = m.runId /\ outputs'[x].inputPosition = n + 1)
      BY <1>6, <1>18
    <3>3. \A x : x \in (k + 1) .. (k + s) <=> x \in 1 .. (k + s) /\ x \notin 1 .. k
      OBVIOUS
    <3> QED
      BY <1>8, <3>1, <3>2, <3>3
  <2>3. \A x \in 1 .. s :
          semanticOutputs(outs)[x] =
            [category |-> outputs'[k + x].category, ordinal |-> outputs'[k + x].ordinal,
             body |-> outputs'[k + x].body]
    BY <1>6, <2>1
  <2>4. \A x \in 1 .. (k + s) :
          (outputs'[x].runId = m.runId /\ outputs'[x].inputPosition < n + 1) => x <= k
    BY <1>8
  <2>5. k \in 0 .. Len(outputs')
    BY <1>6
  <2>6. semanticOutputs(outs)' = semanticOutputs(outs)
    BY DEF semanticOutputs
  <2> QED
    BY <1>6, <2>1, <2>2, <2>3, <2>4, <2>5, <2>6 DEF StretchMatches
<1>20. ASSUME NEW r \in RunIds
       PROVE  /\ \A i \in DOMAIN DecisionHeadOf(r)' : StretchMatches(r, i, DecisionHeadOf(r)[i].outputs)'
              /\ \A x \in 1 .. (k + s) : outputs'[x].runId = r => outputs'[x].inputPosition \in DOMAIN DecisionHeadOf(r)'
  <2>1. CASE r # m.runId
    <3>1. DecisionHeadOf(r)' = DecisionHeadOf(r)
      BY <1>11, <2>1
    <3>2. ASSUME NEW i \in DOMAIN DecisionHeadOf(r)
          PROVE  StretchMatches(r, i, DecisionHeadOf(r)[i].outputs)'
      <4>1. PICK decided \in Seq(SemanticOutput) : decided = DecisionHeadOf(r)[i].outputs
        BY <1>17, <3>2
      <4>2. StretchMatches(r, i, decided)'
        BY <1>16, <1>17, <2>1, <3>2, <4>1
      <4> QED
        BY <3>1, <4>1, <4>2
    <3>3. \A x \in 1 .. (k + s) : outputs'[x].runId = r => x \in 1 .. k
      BY <1>8, <2>1
    <3> QED
      BY <1>6, <1>17, <3>1, <3>2, <3>3
  <2>2. CASE r = m.runId
    <3>1. DecisionHeadOf(r)' = head1
      BY <1>11, <1>12, <1>14, <2>2
    <3>2. ASSUME NEW i \in 1 .. (n + 1)
          PROVE  StretchMatches(r, i, head1[i].outputs)'
      <4>1. CASE i = n + 1
        <5>1. head1[i].outputs = semanticOutputs(outs)
          BY <1>10, <1>15, <4>1
        <5> QED
          BY <1>19, <2>2, <4>1, <5>1 DEF StretchMatches
      <4>2. CASE i \in 1 .. n
        <5>1. PICK decided \in Seq(SemanticOutput) : decided = head[i].outputs
          BY <1>1, <1>12, <1>17, <4>2
        <5>2. StretchMatches(r, i, decided)
          BY <1>12, <1>17, <2>2, <4>2, <5>1
        <5>3. StretchMatches(r, i, decided)'
          BY <1>16, <4>2, <5>2
        <5> QED
          BY <1>15, <4>2, <5>1, <5>3 DEF StretchMatches
      <4> QED
        BY <4>1, <4>2
    <3>3. ASSUME NEW x \in 1 .. (k + s), outputs'[x].runId = r
          PROVE  outputs'[x].inputPosition \in 1 .. (n + 1)
      <4>1. CASE x \in 1 .. k
        BY <1>6, <1>18, <2>2, <3>3, <4>1
      <4>2. CASE x \notin 1 .. k
        BY <1>8, <3>3, <4>2
      <4> QED
        BY <4>1, <4>2
    <3> QED
      BY <1>15, <3>1, <3>2, <3>3 DEF StretchMatches
  <2> QED
    BY <2>1, <2>2
<1> QED
  BY <1>6, <1>20 DEF LedgerMatchesDecisions, DecisionHeadOf

\* What the ledger says of each row's event.
OutputsOfEvents ==
    \A n \in DOMAIN outputs :
        /\ outputs[n].inputPosition \in DOMAIN log
        /\ outputs[n] \in OfEvent(log[outputs[n].inputPosition])

\* A registration is stored under its own run id.
OwnRunIds == \A r \in RunIds : runs[r] # None => runs[r].runId = r

LedgerInv ==
    /\ ReplayInv /\ EffectsInv
    /\ LedgerMatchesDecisions
    /\ OutputsOfEvents /\ OwnRunIds

\* Nothing is in the ledger initially.
LEMMA LedgerInit == SerialInit => LedgerInv
<1> SUFFICES ASSUME SerialInit PROVE LedgerMatchesDecisions /\ OutputsOfEvents /\ OwnRunIds
  BY ReplayInit, EffectsInit DEF LedgerInv
<1>1. \A r \in RunIds : cursors[r] = None /\ runs[r] = None
  BY DEF SerialInit, InitStore
<1>2. outputs = <<>>
  BY DEF SerialInit, InitStore
<1> QED
  BY <1>1, <1>2 DEF LedgerMatchesDecisions, OutputsOfEvents, OwnRunIds

\* The rows that a commit adds are about its event, and so are the others.
LEMMA OutputsOfEventsCommit ==
    ASSUME LogAndCursors, OutputsOfEvents, NEW m \in Manifests, ProcessNext(m)
    PROVE  OutputsOfEvents'
<1>0. StoreTypeOK /\ LogChained /\ CursorBound
  BY DEF LogAndCursors
<1>1. PICK outs : outs = NextCommit(m).outputs
  OBVIOUS
<1>2. PICK k \in Nat : k = Len(outputs)
  BY <1>0 DEF StoreTypeOK
<1>3. PICK s \in Nat : s = Len(outs)
  BY <1>0, <1>1, LedgerGrows
<1>4. /\ DOMAIN outputs = 1 .. k /\ DOMAIN outputs' = 1 .. (k + s)
      /\ \A i \in 1 .. k : outputs'[i] = outputs[i]
      /\ \A i \in 1 .. s : outputs'[k + i] = outs[i]
  BY <1>0, <1>1, <1>2, <1>3, LedgerGrows
<1>5. PICK n \in DOMAIN log : n = loadCursor(m).processedPosition + 1
  BY <1>0, NextCursor, EventsTyped, StoreTypeIsLogType
<1>6. \A i \in 1 .. s : outs[i] \in OfEvent(log[n])
  <2>1. outs \in Seq(OfEvent(log[n]))
    BY <1>1, <1>5, DecisionsCommitted
  <2> QED
    BY <1>3, <2>1
<1>7. log[n].position = n /\ log' = log
  BY <1>0, <1>5, NextCursor DEF ProcessNext
<1>8. ASSUME NEW x \in 1 .. (k + s)
      PROVE  outputs'[x].inputPosition \in DOMAIN log /\ outputs'[x] \in OfEvent(log[outputs'[x].inputPosition])
  <2>1. CASE x \in 1 .. k
    BY <1>4, <2>1 DEF OutputsOfEvents
  <2>2. CASE x \notin 1 .. k
    <3>1. x - k \in 1 .. s /\ x = k + (x - k)
      BY <2>2
    <3>2. outputs'[k + (x - k)] = outs[x - k]
      BY <1>4, <3>1
    <3>3. outputs'[x] \in OfEvent(log[n])
      BY <1>6, <3>1, <3>2
    <3>4. outputs'[x].inputPosition = n
      BY <1>7, <3>3 DEF OfEvent
    <3> QED
      BY <3>3, <3>4
  <2> QED
    BY <2>1, <2>2
<1> QED
  BY <1>4, <1>7, <1>8 DEF OutputsOfEvents, OfEvent, validateStoredOutputBody

\* A step that leaves ledger and cursors alone leaves their agreement alone.
LEMMA LedgerStays ==
    ASSUME LedgerMatchesDecisions, OutputsOfEvents, UNCHANGED <<outputs, cursors>>,
           \A i \in DOMAIN log : i \in DOMAIN log' /\ log'[i] = log[i]
    PROVE  LedgerMatchesDecisions' /\ OutputsOfEvents'
<1>1. \A r, i : RowsOf(r, i)' = RowsOf(r, i)
  BY DEF RowsOf
<1>2. \A r, i, decided : StretchMatches(r, i, decided) => StretchMatches(r, i, decided)'
  BY <1>1 DEF StretchMatches
<1>3. LedgerMatchesDecisions'
  BY <1>2 DEF LedgerMatchesDecisions
<1>4. OutputsOfEvents'
  BY DEF OutputsOfEvents, OfEvent, validateStoredOutputBody
<1> QED
  BY <1>3, <1>4

\* Every step keeps the ledger true to the decision heads and to the log.
LEMMA LedgerStep == LedgerInv /\ [SerialNext]_serialVars => LedgerInv'
<1> SUFFICES ASSUME LedgerInv, [SerialNext]_serialVars
             PROVE  LedgerMatchesDecisions' /\ OutputsOfEvents' /\ OwnRunIds'
  BY ReplayStep, EffectsStep DEF LedgerInv
<1>0. ReplayInv /\ LogAndCursors /\ StoreTypeOK /\ LedgerMatchesDecisions /\ OutputsOfEvents /\ OwnRunIds
  BY DEF LedgerInv, ReplayInv, LogAndCursors
<1>1. ASSUME NEW m \in Manifests, ProcessNext(m)
      PROVE  LedgerMatchesDecisions' /\ OutputsOfEvents' /\ OwnRunIds'
  <2>1. runs' = runs
    BY <1>1 DEF ProcessNext, CommitWrites
  <2> QED
    BY <1>0, <1>1, <2>1, LedgerCommit, OutputsOfEventsCommit DEF OwnRunIds
<1>2. CASE UNCHANGED <<outputs, cursors, runs>> /\ \A i \in DOMAIN log : i \in DOMAIN log' /\ log'[i] = log[i]
  BY <1>0, <1>2, LedgerStays DEF OwnRunIds
<1>3. ASSUME NEW d \in Drafts, CaptureDraft(d)
      PROVE  UNCHANGED <<outputs, cursors, runs>> /\ \A i \in DOMAIN log : i \in DOMAIN log' /\ log'[i] = log[i]
  <2>1. Len(log') = Len(log) + 1 /\ \A i \in 1 .. Len(log) : log'[i] = log[i]
    BY <1>0, <1>3, CaptureAppends, StoreTypeIsLogType DEF CaptureDraft
  <2>2. DOMAIN log' = 1 .. Len(log')
    BY <1>0, <1>3, CaptureTyped DEF StoreTypeOK
  <2>3. DOMAIN log = 1 .. Len(log) /\ Len(log) \in Nat
    BY <1>0, EventsTyped, StoreTypeIsLogType
  <2> QED
    BY <1>3, <2>1, <2>2, <2>3 DEF CaptureDraft
<1>4. ASSUME NEW m \in Manifests, Register(m)
      PROVE  LedgerMatchesDecisions' /\ OutputsOfEvents' /\ OwnRunIds'
  <2>1. UNCHANGED <<outputs, cursors, log>> /\ runs' = [runs EXCEPT ![m.runId] = m]
    BY <1>4 DEF Register, ensureRun
  <2>2. OwnRunIds'
    BY <1>0, <2>1 DEF OwnRunIds, StoreTypeOK
  <2> QED
    BY <1>0, <2>1, <2>2, LedgerStays
<1>5. CASE ClockStep \/ UNCHANGED serialVars
  BY <1>2, <1>5 DEF ClockStep, Tick, serialVars
<1> QED
  BY <1>1, <1>2, <1>3, <1>4, <1>5 DEF SerialNext

\* For every run the ledger holds, event by event and in order, exactly the
\* outputs that its decision head hashed, and nothing else.
THEOREM LedgerTellsTheDecisions == SerialSpec => []LedgerMatchesDecisions
BY LedgerInit, LedgerStep, PTL DEF SerialSpec, LedgerInv

\* The invariant says that every audit read succeeds.
LEMMA RowsOfInv == LedgerInv => RowsReadable
<1> SUFFICES ASSUME LedgerInv PROVE RowsReadable
  OBVIOUS
<1>0. StoreTypeOK /\ CursorBound /\ CheckpointsMatchHead /\ OwnRunIds /\ OutputsOfEvents /\ RegisteredOutputs
  BY DEF LedgerInv, ReplayInv, LogAndCursors, EffectsInv
<1>1. \A r \in RunIds : runs[r] # None => RunRowReads(r)
  BY <1>0 DEF OwnRunIds, RunRowReads, StoreTypeOK
<1>2. \A r \in RunIds : cursors[r] # None => CursorRowReads(r) /\ runs[r] # None
  <2>1. \A r \in RunIds : cursors[r] # None => cursors[r] \in Cursor
    BY <1>0 DEF StoreTypeOK
  <2> QED
    BY <1>0, <2>1, AbsentAssumption DEF CursorRowReads, CursorBound, Cursor
<1>3. ASSUME NEW r \in RunIds, NEW a \in AggregateIds, aggregates[r][a] # None
      PROVE  AggregateRowReads(r, a)
  <2>1. aggregates[r][a] \in Checkpoint
    BY <1>0, <1>3 DEF StoreTypeOK
  <2> DEFINE steps == StepsOf(HeadOf(r), a)
  <2>2. /\ steps # {}
        /\ aggregates[r][a] = [aggregateId |-> a, version |-> Cardinality(steps),
                               lastInputPosition |-> Latest(steps), state |-> HeadOf(r)[Latest(steps)].state]
    BY <1>0, <1>3 DEF CheckpointsMatchHead, HeadOf
  <2>3. cursors[r] # None
    <3>1. StepsOf(<<>>, a) = {}
      BY DEF StepsOf
    <3> QED
      BY <2>2, <3>1 DEF HeadOf
  <2>4. HeadOf(r) \in Seq(StateStep)
    BY <1>0, <2>3 DEF HeadOf, StoreTypeOK, Cursor
  <2>5. Latest(steps) \in 1 .. Len(HeadOf(r))
    BY <2>2, <2>4, LatestIsStep
  <2>6. Latest(steps) > 0
    BY <2>4, <2>5
  <2>7. IsFiniteSet(steps)
    <3>1. Len(HeadOf(r)) \in Nat /\ DOMAIN HeadOf(r) = 1 .. Len(HeadOf(r))
      BY <2>4
    <3>2. steps \subseteq 1 .. Len(HeadOf(r))
      BY <3>1 DEF StepsOf
    <3>3. IsFiniteSet(1 .. Len(HeadOf(r)))
      BY <3>1, FS_Interval
    <3> QED
      BY <3>2, <3>3, FS_Subset
  <2>8. Cardinality(steps) > 0
    BY <2>2, <2>7, FS_EmptySet, FS_CardinalityType
  <2> HIDE DEF steps
  <2> QED
    BY <1>1, <1>2, <2>1, <2>2, <2>3, <2>6, <2>8 DEF AggregateRowReads
<1>4. ASSUME NEW n \in DOMAIN outputs
      PROVE  OutputRowReads(outputs[n])
  <2>1. outputs[n] \in Output
    BY <1>0 DEF StoreTypeOK
  <2>2. outputs[n].runId \in RunIds /\ runs[outputs[n].runId] # None
    BY <1>0, <2>1 DEF Output, RegisteredOutputs
  <2>3. outputs[n].inputPosition \in DOMAIN log /\ outputs[n] \in OfEvent(log[outputs[n].inputPosition])
    BY <1>0 DEF OutputsOfEvents
  <2> QED
    BY <1>1, <2>2, <2>3 DEF OutputRowReads, OfEvent, Persisted
<1> QED
  BY <1>1, <1>2, <1>3, <1>4 DEF RowsReadable

\* Every row that a commit admitted passes every later audit read.
THEOREM RowsStayReadable == SerialSpec => []RowsReadable
BY LedgerInit, LedgerStep, RowsOfInv, PTL DEF SerialSpec

-----------------------------------------------------------------------------
(* History.                                                                *)

\* A sequence is a prefix of itself and of what extends it.
LEMMA PrefixKept ==
    ASSUME NEW S, NEW old \in Seq(S), NEW new \in Seq(S), Len(old) <= Len(new),
           \A i \in 1 .. Len(old) : new[i] = old[i]
    PROVE  SubSeq(new, 1, Len(old)) = old
<1>1. /\ SubSeq(new, 1, Len(old)) \in Seq(S)
      /\ Len(SubSeq(new, 1, Len(old))) = Len(old)
      /\ \A i \in 1 .. Len(old) : SubSeq(new, 1, Len(old))[i] = old[i]
  OBVIOUS
<1> QED
  BY <1>1, SeqEqual

\* No step rewrites what is stored.
LEMMA HistoryStep == ReplayInv /\ [SerialNext]_serialVars => HistoryKept
<1> SUFFICES ASSUME ReplayInv, [SerialNext]_serialVars PROVE HistoryKept
  OBVIOUS
<1>0. StoreTypeOK /\ LogChained /\ CursorBound /\ HeadsReplayReducer
  BY DEF ReplayInv, LogAndCursors
<1>1. SubSeq(outputs, 1, Len(outputs)) = outputs
  BY <1>0, PrefixKept DEF StoreTypeOK
<1>2. \A r \in RunIds : cursors[r] # None =>
        /\ cursors[r].stateHead \in Seq(StateStep)
        /\ SubSeq(cursors[r].stateHead, 1, Len(cursors[r].stateHead)) = cursors[r].stateHead
  <2>1. \A r \in RunIds : cursors[r] # None => cursors[r].stateHead \in Seq(StateStep)
    BY <1>0 DEF StoreTypeOK, Cursor
  <2> QED
    BY <2>1, PrefixKept
<1>3. CASE UNCHANGED <<outputs, dispatchable, cursors>> /\ \A r \in RunIds : runs[r] # None => runs'[r] = runs[r]
  BY <1>1, <1>2, <1>3 DEF HistoryKept
<1>4. ASSUME NEW m \in Manifests, Register(m)
      PROVE  /\ UNCHANGED <<outputs, dispatchable, cursors>>
             /\ \A r \in RunIds : runs[r] # None => runs'[r] = runs[r]
  <2>1. m.runId \in RunIds
    BY ManifestsAssumption DEF Manifest
  <2> QED
    BY <1>0, <1>4, <2>1 DEF Register, ensureRun, RegistrationAgrees, StoreTypeOK
<1>5. ASSUME NEW m \in Manifests, ProcessNext(m)
      PROVE  HistoryKept
  <2>1. m \in Manifest /\ m.runId \in RunIds
    BY ManifestsAssumption DEF Manifest
  <2>2. /\ cursors' = [cursors EXCEPT ![m.runId] = NextCommit(m).cursor]
        /\ runs' = runs /\ dispatchable \subseteq dispatchable' /\ outputs' = outputs \o NextCommit(m).outputs
    BY <1>5 DEF ProcessNext, CommitWrites
  <2>3. SubSeq(outputs', 1, Len(outputs)) = outputs
    <3>1. outputs \in Seq(Output) /\ outputs' \in Seq(Output)
      BY <1>0, <1>5, StoreTypeStep DEF SerialNext, StoreTypeOK
    <3>2. NextCommit(m).outputs \in Seq(Output)
      BY <1>0, <1>5, ProcessNextTyped
    <3>3. Len(outputs) <= Len(outputs') /\ \A i \in 1 .. Len(outputs) : outputs'[i] = outputs[i]
      BY <2>2, <3>1, <3>2, ConcatProperties
    <3> QED
      BY <3>1, <3>3, PrefixKept
  <2>4. ASSUME NEW r \in RunIds, cursors[r] # None
        PROVE  /\ cursors'[r] # None
               /\ cursors'[r].processedPosition \in
                     {cursors[r].processedPosition, cursors[r].processedPosition + 1}
               /\ SubSeq(cursors'[r].stateHead, 1, Len(cursors[r].stateHead)) = cursors[r].stateHead
    <3>1. CASE r # m.runId
      BY <1>0, <1>2, <2>1, <2>2, <2>4, <3>1 DEF StoreTypeOK
    <3>2. CASE r = m.runId
      <4>1. cursors'[r] = NextCommit(m).cursor /\ loadCursor(m) = cursors[r]
        BY <1>0, <2>1, <2>2, <2>4, <3>2 DEF StoreTypeOK, loadCursor
      <4>2. NextCommit(m).cursor \in Cursor /\ NextCommit(m).cursor # None
        BY <1>0, <1>5, ProcessNextTyped, AbsentAssumption
      <4>3. NextCommit(m).cursor.processedPosition = cursors[r].processedPosition + 1
        BY <1>0, <1>5, <4>1, NextCursor
      <4>4. PICK step : NextCommit(m).cursor.stateHead = Append(cursors[r].stateHead, step)
        BY <4>1 DEF NextCommit, BuildCommit, StateHeadStep
      <4>5. cursors[r].stateHead \in Seq(StateStep) /\ NextCommit(m).cursor.stateHead \in Seq(StateStep)
        BY <1>2, <2>4, <4>2 DEF Cursor
      <4>6. /\ Len(cursors[r].stateHead) <= Len(NextCommit(m).cursor.stateHead)
            /\ \A i \in 1 .. Len(cursors[r].stateHead) :
                  NextCommit(m).cursor.stateHead[i] = cursors[r].stateHead[i]
        BY <4>4, <4>5
      <4>7. SubSeq(NextCommit(m).cursor.stateHead, 1, Len(cursors[r].stateHead)) = cursors[r].stateHead
        BY <4>5, <4>6, PrefixKept
      <4> QED
        BY <4>1, <4>2, <4>3, <4>7
    <3> QED
      BY <3>1, <3>2
  <2> QED
    BY <2>2, <2>3, <2>4 DEF HistoryKept
<1>6. CASE ClockStep \/ (\E d \in Drafts : CaptureDraft(d)) \/ UNCHANGED serialVars
  BY <1>3, <1>6 DEF ClockStep, CaptureDraft, serialVars
<1>7. CASE \E m \in Manifests : Register(m)
  BY <1>3, <1>4, <1>7
<1> QED
  BY <1>5, <1>6, <1>7 DEF SerialNext

\* Registrations and outputs are immutable, and cursors only extend.
THEOREM HistoryIsImmutable == SerialSpec => HistoryImmutable
<1>1. ReplayInv /\ [SerialNext]_serialVars => [HistoryKept]_serialVars
  BY HistoryStep
<1> QED
  BY <1>1, ReplayInit, ReplayStep, PTL DEF SerialSpec, HistoryImmutable

-----------------------------------------------------------------------------
(* The concurrent kernel.                                                 *)

\* What is true of one processor between its steps.
LocalAt(p) ==
    LET m == ManifestOf[p]
    IN  /\ pc[p] # "new" => runs[m.runId] = m
        /\ pc[p] \in {"new", "idle", "load"} => seen[p] = None
        /\ pc[p] \in {"load", "recheck", "verify", "reduce", "commit"} => arg[p] \in StoredEvent
        /\ pc[p] \in {"scan", "recheck", "verify", "reduce", "commit"} =>
              /\ seen[p] \in Cursor
              /\ seen[p].processedPosition <= loadCursor(m).processedPosition
              /\ seen[p].processedPosition = loadCursor(m).processedPosition
                    => seen[p] = loadCursor(m)
        /\ pc[p] \in {"verify", "reduce", "commit"} =>
              arg[p].position = seen[p].processedPosition + 1
        /\ pc[p] \in {"reduce", "commit"} =>
              /\ ExactPersistedEvent(arg[p])
              /\ Route(arg[p]) \in AggregateIds
        /\ pc[p] = "commit" =>
              /\ WellFormed(Apply(base[p].state, arg[p], m))
              /\ seen[p].processedPosition = loadCursor(m).processedPosition
                    => base[p] = loadAggregate(m, Route(arg[p]))

LocalInv == \A p \in Procs : LocalAt(p)

\* The inductive invariant.
KernelInv == TypeOK /\ LogAndCursors /\ LocalInv

-----------------------------------------------------------------------------
(* What a step of the store does to a processor that does not move.        *)

\* The manifest of a processor is typed.
LEMMA ManifestTyped ==
    ASSUME NEW p \in Procs
    PROVE  /\ ManifestOf[p] \in Manifests
           /\ ManifestOf[p] \in Manifest
           /\ ManifestOf[p].runId \in RunIds
BY ManifestOfAssumption, ManifestsAssumption DEF Manifest

\* The position of a run as any manifest with its run id would load it.
LEMMA SamePosition ==
    ASSUME NEW m1 \in Manifest, NEW m2 \in Manifest, m1.runId = m2.runId
    PROVE  loadCursor(m1).processedPosition = loadCursor(m2).processedPosition
BY DEF loadCursor, createGenesisRunCursor

\* A step of the store keeps registrations and the log's prefix, and either
\* leaves a run alone or moves its position.
LEMMA SerialStepEffect ==
    ASSUME LogAndCursors, [SerialNext]_serialVars, NEW m \in Manifest, runs[m.runId] = m
    PROVE  /\ runs'[m.runId] = m
           /\ \A i \in DOMAIN log : i \in DOMAIN log' /\ log'[i] = log[i]
           /\ loadCursor(m).processedPosition \in Nat
           /\ \/ /\ loadCursor(m)' = loadCursor(m)
                 /\ \A a \in AggregateIds : loadAggregate(m, a)' = loadAggregate(m, a)
              \/ loadCursor(m)'.processedPosition = loadCursor(m).processedPosition + 1
<1>0. StoreTypeOK /\ LogChained /\ CursorBound /\ m.runId \in RunIds /\ m # None
  BY AbsentAssumption DEF LogAndCursors, Manifest
<1>1. loadCursor(m).processedPosition \in Nat
  BY <1>0, LoadsTyped DEF Cursor
<1>2. DOMAIN log = 1 .. Len(log) /\ Len(log) \in Nat
  BY <1>0, EventsTyped, StoreTypeIsLogType
<1>3. CASE UNCHANGED serialVars
  BY <1>1, <1>3 DEF serialVars, loadCursor, loadAggregate
<1>4. CASE ClockStep
  BY <1>1, <1>4 DEF ClockStep, Tick, loadCursor, loadAggregate
<1>5. ASSUME NEW d \in Drafts, CaptureDraft(d)
      PROVE  /\ UNCHANGED <<runs, cursors, aggregates>>
             /\ \A i \in DOMAIN log : i \in DOMAIN log' /\ log'[i] = log[i]
  <2>1. Len(log') = Len(log) + 1 /\ \A i \in 1 .. Len(log) : log'[i] = log[i]
    BY <1>0, <1>5, CaptureAppends, StoreTypeIsLogType DEF CaptureDraft
  <2>2. DOMAIN log' = 1 .. Len(log')
    BY <1>0, <1>5, CaptureTyped DEF StoreTypeOK
  <2> QED
    BY <1>2, <1>5, <2>1, <2>2 DEF CaptureDraft
<1>6. ASSUME NEW m2 \in Manifests, Register(m2)
      PROVE  UNCHANGED <<log, cursors, aggregates>> /\ runs'[m.runId] = m
  BY <1>0, <1>6 DEF Register, ensureRun, RegistrationAgrees, StoreTypeOK
<1>7. ASSUME NEW m2 \in Manifests, ProcessNext(m2)
      PROVE  /\ UNCHANGED <<log, runs>>
             /\ \/ /\ loadCursor(m)' = loadCursor(m)
                   /\ \A a \in AggregateIds : loadAggregate(m, a)' = loadAggregate(m, a)
                \/ loadCursor(m)'.processedPosition = loadCursor(m).processedPosition + 1
  <2>1. /\ cursors' = [cursors EXCEPT ![m2.runId] = NextCommit(m2).cursor]
        /\ aggregates' = [aggregates EXCEPT ![m2.runId][NextCommit(m2).aggregate.aggregateId]
                                               = NextCommit(m2).aggregate]
        /\ UNCHANGED <<log, runs>>
    BY <1>7 DEF ProcessNext, CommitWrites
  <2>2. /\ m2 \in Manifest /\ m2.runId \in RunIds
        /\ NextCommit(m2).cursor \in Cursor /\ NextCommit(m2).cursor # None
        /\ NextCommit(m2).cursor.processedPosition = loadCursor(m2).processedPosition + 1
    BY <1>0, <1>7, NextCursor, ProcessNextTyped, AbsentAssumption
  <2>3. CASE m2.runId # m.runId
    <3>1. cursors'[m.runId] = cursors[m.runId] /\ aggregates'[m.runId] = aggregates[m.runId]
      BY <1>0, <2>1, <2>2, <2>3 DEF StoreTypeOK
    <3> QED
      BY <2>1, <3>1 DEF loadCursor, loadAggregate
  <2>4. CASE m2.runId = m.runId
    <3>1. cursors'[m.runId] = NextCommit(m2).cursor
      BY <1>0, <2>1, <2>2, <2>4 DEF StoreTypeOK
    <3>2. loadCursor(m)' = NextCommit(m2).cursor
      BY <2>2, <3>1 DEF loadCursor
    <3>3. loadCursor(m2).processedPosition = loadCursor(m).processedPosition
      BY <2>2, <2>4, SamePosition
    <3> QED
      BY <2>1, <2>2, <3>2, <3>3
  <2> QED
    BY <2>1, <2>3, <2>4
<1>8. ASSUME UNCHANGED <<cursors, aggregates>>
      PROVE  /\ loadCursor(m)' = loadCursor(m)
             /\ \A a \in AggregateIds : loadAggregate(m, a)' = loadAggregate(m, a)
  BY <1>8 DEF loadCursor, loadAggregate
<1>9. CASE \E d \in Drafts : CaptureDraft(d)
  BY <1>1, <1>5, <1>8, <1>9
<1>10. CASE \E m2 \in Manifests : Register(m2)
  BY <1>1, <1>6, <1>8, <1>10
<1>11. CASE \E m2 \in Manifests : ProcessNext(m2)
  BY <1>1, <1>7, <1>11
<1> QED
  BY <1>3, <1>4, <1>9, <1>10, <1>11 DEF SerialNext

\* The processor's own variables.
Still(p) ==
    /\ pc'[p] = pc[p] /\ arg'[p] = arg[p] /\ seen'[p] = seen[p]
    /\ base'[p] = base[p] /\ page'[p] = page[p] /\ more'[p] = more[p]

\* What is true of a processor survives a step of the store by anybody else.
LEMMA OthersUnaffected ==
    ASSUME TypeOK, LogAndCursors, NEW p \in Procs, LocalAt(p), [SerialNext]_serialVars, Still(p)
    PROVE  LocalAt(p)'
<1>1. PICK m \in Manifest : m = ManifestOf[p]
  BY ManifestTyped
<1>2. CASE pc[p] = "new"
  BY <1>2 DEF LocalAt, Still
<1>3. CASE pc[p] # "new"
  <2>1. runs[m.runId] = m
    BY <1>1, <1>3 DEF LocalAt
  <2>2. /\ runs'[m.runId] = m
        /\ \A i \in DOMAIN log : i \in DOMAIN log' /\ log'[i] = log[i]
        /\ loadCursor(m).processedPosition \in Nat
        /\ \/ /\ loadCursor(m)' = loadCursor(m)
              /\ \A a \in AggregateIds : loadAggregate(m, a)' = loadAggregate(m, a)
           \/ loadCursor(m)'.processedPosition = loadCursor(m).processedPosition + 1
    BY <2>1, SerialStepEffect
  <2>3. pc[p] \in {"reduce", "commit"} => ExactPersistedEvent(arg[p])'
    BY <2>2 DEF LocalAt, Still, ExactPersistedEvent, Persisted
  <2>4. ASSUME pc[p] \in {"scan", "recheck", "verify", "reduce", "commit"}
        PROVE  /\ seen'[p] \in Cursor
               /\ seen'[p].processedPosition <= loadCursor(m)'.processedPosition
               /\ seen'[p].processedPosition = loadCursor(m)'.processedPosition
                    => seen'[p] = loadCursor(m)' /\ seen[p].processedPosition = loadCursor(m).processedPosition
                       /\ \A a \in AggregateIds : loadAggregate(m, a)' = loadAggregate(m, a)
    <3>1. /\ seen[p] \in Cursor /\ seen'[p] = seen[p]
          /\ seen[p].processedPosition \in Nat
          /\ seen[p].processedPosition <= loadCursor(m).processedPosition
          /\ seen[p].processedPosition = loadCursor(m).processedPosition => seen[p] = loadCursor(m)
      BY <1>1, <2>4 DEF LocalAt, Still, Cursor
    <3> QED
      BY <3>1, <2>2
  <2>5. pc[p] = "commit" =>
          (seen'[p].processedPosition = loadCursor(m)'.processedPosition
             => base'[p] = loadAggregate(m, Route(arg[p]))')
    BY <1>1, <2>4 DEF LocalAt, Still, loadAggregate
  <2> QED
    BY <1>1, <2>2, <2>3, <2>4, <2>5 DEF LocalAt, Still
<1> QED
  BY <1>2, <1>3

-----------------------------------------------------------------------------
(* A processor's own step.                                                 *)

LocalTypes ==
    /\ pc \in [Procs -> PCs]
    /\ arg \in [Procs -> StoredEvent \cup {None}]
    /\ seen \in [Procs -> Cursor \cup {None}]
    /\ base \in [Procs -> Checkpoint \cup {None}]
    /\ page \in [Procs -> Seq(StoredEvent)]
    /\ more \in [Procs -> BOOLEAN]

\* The processor moved, soundly, and no other did.
Moved(p) ==
    /\ LocalTypes'
    /\ LocalAt(p)'
    /\ \A q \in Procs \ {p} : Still(q)

\* What an assignment of the locals of one processor does.
LEMMA LocalsAssign ==
    ASSUME LocalTypes, NEW p \in Procs,
           NEW pc1 \in PCs, NEW arg1 \in StoredEvent \cup {None},
           NEW seen1 \in Cursor \cup {None}, NEW base1 \in Checkpoint \cup {None},
           NEW page1 \in Seq(StoredEvent), NEW more1 \in BOOLEAN,
           Locals(p, pc1, arg1, seen1, base1, page1, more1)
    PROVE  /\ LocalTypes'
           /\ pc'[p] = pc1 /\ arg'[p] = arg1 /\ seen'[p] = seen1 /\ base'[p] = base1
           /\ \A q \in Procs \ {p} : Still(q)
BY DEF LocalTypes, Locals, Still

\* A call that ends leaves a processor with nothing but its registration.
LEMMA ThrowMoves ==
    ASSUME LocalTypes, NEW p \in Procs, Throw(p), runs'[ManifestOf[p].runId] = ManifestOf[p]
    PROVE  Moved(p)
<1>1. "idle" \in PCs /\ <<>> \in Seq(StoredEvent)
  BY DEF PCs
<1>2. /\ LocalTypes'
      /\ pc'[p] = "idle" /\ arg'[p] = None /\ seen'[p] = None /\ base'[p] = None
      /\ \A q \in Procs \ {p} : Still(q)
  BY <1>1, LocalsAssign DEF Throw
<1> QED
  BY <1>2 DEF Moved, LocalAt

\* process() resolves to the cursor that is stored, or to an older one.
LEMMA ReturnMoves ==
    ASSUME LocalTypes, NEW p \in Procs, NEW cursor \in Cursor, Return(p, cursor),
           runs'[ManifestOf[p].runId] = ManifestOf[p],
           cursor.processedPosition <= loadCursor(ManifestOf[p])'.processedPosition,
           cursor.processedPosition = loadCursor(ManifestOf[p])'.processedPosition
              => cursor = loadCursor(ManifestOf[p])'
    PROVE  Moved(p)
<1>0. /\ {"load", "scan", "idle"} \subseteq PCs /\ <<>> \in Seq(StoredEvent)
      /\ page[p] \in Seq(StoredEvent) /\ more[p] \in BOOLEAN
  BY DEF PCs, LocalTypes
<1>1. CASE page[p] # <<>>
  <2>1. Head(page[p]) \in StoredEvent /\ Tail(page[p]) \in Seq(StoredEvent)
    BY <1>0, <1>1
  <2>2. Locals(p, "load", Head(page[p]), None, None, Tail(page[p]), more[p])
    BY <1>1 DEF Return
  <2>3. /\ LocalTypes'
        /\ pc'[p] = "load" /\ arg'[p] = Head(page[p]) /\ seen'[p] = None
        /\ \A q \in Procs \ {p} : Still(q)
    BY <1>0, <2>1, <2>2 DEF Locals, LocalTypes, Still
  <2> QED
    BY <2>1, <2>3 DEF Moved, LocalAt
<1>2. CASE page[p] = <<>> /\ more[p]
  <2>1. Locals(p, "scan", None, cursor, None, <<>>, FALSE)
    BY <1>2 DEF Return
  <2>2. /\ LocalTypes'
        /\ pc'[p] = "scan" /\ seen'[p] = cursor
        /\ \A q \in Procs \ {p} : Still(q)
    BY <1>0, <2>1, LocalsAssign
  <2> QED
    BY <2>2 DEF Moved, LocalAt
<1>3. CASE page[p] = <<>> /\ ~more[p]
  <2>1. Throw(p)
    BY <1>3 DEF Return, Throw
  <2> QED
    BY <2>1, ThrowMoves
<1> QED
  BY <1>0, <1>1, <1>2, <1>3

\* The steps that only read.
LEMMA ReadsMove ==
    ASSUME KernelInv, NEW p \in Procs,
           UNCHANGED storeAndLog,
           \/ \E e \in {log[i] : i \in DOMAIN log} \cup ForeignEvents : CallProcess(p, e)
           \/ CallProcessAvailable(p) \/ ReadPage(p) \/ LoadCursor(p) \/ Recheck(p)
           \/ Verify(p) \/ Reduce(p) \/ Crash(p)
    PROVE  Moved(p)
<1>1. PICK m \in Manifest : m = ManifestOf[p]
  BY ManifestTyped
<1>2. /\ LocalTypes /\ StoreTypeOK /\ CursorBound /\ LocalAt(p)
      /\ m.runId \in RunIds
      /\ loadCursor(m) \in Cursor
      /\ arg[p] \in StoredEvent \cup {None} /\ seen[p] \in Cursor \cup {None}
      /\ base[p] \in Checkpoint \cup {None}
      /\ page[p] \in Seq(StoredEvent) /\ more[p] \in BOOLEAN
      /\ <<>> \in Seq(StoredEvent)
  BY LoadsTyped DEF KernelInv, LogAndCursors, LocalInv, TypeOK, LocalTypes, Manifest
<1>3. /\ runs' = runs /\ log' = log
      /\ loadCursor(m)' = loadCursor(m)
      /\ \A a \in AggregateIds : loadAggregate(m, a)' = loadAggregate(m, a)
  BY DEF storeAndLog, loadCursor, loadAggregate
<1>4. loadCursor(m).processedPosition \in Nat
  BY <1>2 DEF Cursor
<1>5. pc[p] # "new" => runs'[m.runId] = m
  BY <1>1, <1>2, <1>3 DEF LocalAt
<1>6. \A pc1 \in PCs \ {"new"} : pc[p] = pc1 /\ Throw(p) => Moved(p)
  BY <1>1, <1>2, <1>5, ThrowMoves
<1>7. ASSUME NEW e \in {log[i] : i \in DOMAIN log} \cup ForeignEvents, CallProcess(p, e)
      PROVE  Moved(p)
  <2>1. e \in StoredEvent
    BY <1>2, ForeignAssumption DEF StoreTypeOK
  <2>2. "load" \in PCs /\ pc[p] = "idle" /\ Locals(p, "load", e, None, None, <<>>, FALSE)
    BY <1>7 DEF CallProcess, PCs
  <2>3. /\ LocalTypes' /\ pc'[p] = "load" /\ arg'[p] = e /\ seen'[p] = None
        /\ \A q \in Procs \ {p} : Still(q)
    BY <1>2, <2>1, <2>2, LocalsAssign
  <2> QED
    BY <1>1, <1>5, <2>1, <2>2, <2>3 DEF Moved, LocalAt
<1>8. CASE CallProcessAvailable(p)
  <2>1. "scan" \in PCs /\ pc[p] = "idle" /\ Locals(p, "scan", None, loadCursor(m), None, <<>>, FALSE)
    BY <1>1, <1>8 DEF CallProcessAvailable, PCs
  <2>2. /\ LocalTypes' /\ pc'[p] = "scan" /\ seen'[p] = loadCursor(m)
        /\ \A q \in Procs \ {p} : Still(q)
    BY <1>2, <2>1, LocalsAssign
  <2> QED
    BY <1>1, <1>2, <1>3, <1>4, <1>5, <2>1, <2>2 DEF Moved, LocalAt
<1>9. CASE ReadPage(p)
  <2>1. pc[p] = "scan" /\ seen[p] \in Cursor /\ "scan" \in PCs
    BY <1>2, <1>9 DEF ReadPage, LocalAt, PCs
  <2>2. PICK events : events = PageAfter(seen[p].processedPosition, PageSize)
    OBVIOUS
  <2>3. events \in Seq(StoredEvent)
    <3>1. /\ log \in Seq(StoredEvent) /\ seen[p].processedPosition \in Nat
          /\ PageSize \in Nat
      BY <1>2, <2>1, PageSizeAssumption DEF StoreTypeOK, Cursor
    <3> DEFINE from == seen[p].processedPosition + 1
               to == IF seen[p].processedPosition + PageSize < Len(log)
                     THEN seen[p].processedPosition + PageSize ELSE Len(log)
    <3>2. from \in Nat /\ from >= 1 /\ to \in Nat /\ to <= Len(log) /\ Len(log) \in Nat
      BY <3>1
    <3>3. events = SubSeq(log, from, to)
      BY <2>2 DEF PageAfter
    <3> HIDE DEF from, to
    <3> QED
      BY <3>1, <3>2, <3>3
  <2>4. CASE events = <<>>
    BY <1>6, <1>9, <2>1, <2>2, <2>4 DEF ReadPage
  <2>5. CASE events # <<>>
    <3>1. Head(events) \in StoredEvent /\ Tail(events) \in Seq(StoredEvent)
      BY <2>3, <2>5
    <3>2. HasMoreAfter(seen[p].processedPosition, PageSize) \in BOOLEAN
      BY DEF HasMoreAfter
    <3>3. "load" \in PCs /\ Locals(p, "load", Head(events), None, None, Tail(events),
                                   HasMoreAfter(seen[p].processedPosition, PageSize))
      BY <1>9, <2>2, <2>5 DEF ReadPage, PCs
    <3>4. /\ LocalTypes' /\ pc'[p] = "load" /\ arg'[p] = Head(events) /\ seen'[p] = None
          /\ \A q \in Procs \ {p} : Still(q)
      BY <1>2, <3>1, <3>2, <3>3 DEF Locals, LocalTypes, Still
    <3> QED
      BY <1>1, <1>5, <2>1, <3>1, <3>4 DEF Moved, LocalAt
  <2> QED
    BY <2>4, <2>5
<1>10. CASE LoadCursor(p)
  <2>1. pc[p] = "load" /\ arg[p] \in StoredEvent /\ {"load", "recheck", "verify"} \subseteq PCs
    BY <1>2, <1>10 DEF LoadCursor, LocalAt, PCs
  <2>2. CASE Throw(p)
    BY <1>6, <2>1, <2>2
  <2>3. CASE Continue(p, "recheck", loadCursor(m), None)
    <3>1. /\ LocalTypes' /\ pc'[p] = "recheck" /\ arg'[p] = arg[p] /\ seen'[p] = loadCursor(m)
          /\ \A q \in Procs \ {p} : Still(q)
      BY <1>2, <2>1, <2>3 DEF Continue, Locals, LocalTypes, Still
    <3> QED
      BY <1>1, <1>2, <1>3, <1>4, <1>5, <2>1, <3>1 DEF Moved, LocalAt
  <2>4. CASE /\ Continue(p, "verify", loadCursor(m), None)
             /\ arg[p].position = loadCursor(m).processedPosition + 1
    <3>1. /\ LocalTypes' /\ pc'[p] = "verify" /\ arg'[p] = arg[p] /\ seen'[p] = loadCursor(m)
          /\ \A q \in Procs \ {p} : Still(q)
      BY <1>2, <2>1, <2>4 DEF Continue, Locals, LocalTypes, Still
    <3> QED
      BY <1>1, <1>2, <1>3, <1>4, <1>5, <2>1, <2>4, <3>1 DEF Moved, LocalAt
  <2> QED
    BY <1>1, <1>10, <2>2, <2>3, <2>4 DEF LoadCursor, verifyCursor
<1>11. CASE Recheck(p)
  <2>1. /\ pc[p] = "recheck" /\ "recheck" \in PCs /\ seen[p] \in Cursor
        /\ seen[p].processedPosition <= loadCursor(m).processedPosition
        /\ seen[p].processedPosition = loadCursor(m).processedPosition => seen[p] = loadCursor(m)
    BY <1>1, <1>2, <1>11 DEF Recheck, LocalAt, PCs
  <2>2. CASE Throw(p)
    BY <1>6, <2>1, <2>2
  <2>3. CASE Return(p, seen[p])
    BY <1>1, <1>2, <1>3, <1>5, <2>1, <2>3, ReturnMoves
  <2> QED
    BY <1>11, <2>2, <2>3 DEF Recheck
<1>12. CASE Verify(p)
  <2>1. /\ pc[p] = "verify" /\ {"verify", "reduce"} \subseteq PCs
        /\ seen[p] \in Cursor /\ arg[p] \in StoredEvent
    BY <1>2, <1>12 DEF Verify, LocalAt, PCs
  <2>2. CASE Throw(p)
    BY <1>6, <2>1, <2>2
  <2>3. CASE /\ ExactPersistedEvent(arg[p]) /\ Route(arg[p]) \in AggregateIds
             /\ Continue(p, "reduce", seen[p], None)
    <3>1. /\ LocalTypes' /\ pc'[p] = "reduce" /\ arg'[p] = arg[p] /\ seen'[p] = seen[p]
          /\ \A q \in Procs \ {p} : Still(q)
      BY <1>2, <2>1, <2>3 DEF Continue, Locals, LocalTypes, Still
    <3>2. ExactPersistedEvent(arg[p])'
      BY <1>3, <2>3, <3>1 DEF ExactPersistedEvent, Persisted
    <3> QED
      BY <1>1, <1>2, <1>3, <1>4, <1>5, <2>1, <2>3, <3>1, <3>2 DEF Moved, LocalAt
  <2> QED
    BY <1>12, <2>2, <2>3 DEF Verify
<1>13. CASE Reduce(p)
  <2>1. /\ pc[p] = "reduce" /\ {"reduce", "commit"} \subseteq PCs
        /\ seen[p] \in Cursor /\ arg[p] \in StoredEvent
        /\ ExactPersistedEvent(arg[p]) /\ Route(arg[p]) \in AggregateIds
    BY <1>2, <1>13 DEF Reduce, LocalAt, PCs
  <2>2. PICK prior : prior = loadAggregate(m, Route(arg[p]))
    OBVIOUS
  <2>3. CASE Throw(p)
    BY <1>6, <2>1, <2>3
  <2>4. CASE /\ verifyAggregate(prior)
             /\ WellFormed(Apply(prior.state, arg[p], m))
             /\ Continue(p, "commit", seen[p], prior)
    <3>1. prior \in Checkpoint
      <4>1. aggregates[m.runId][Route(arg[p])] \in Checkpoint \cup {None}
        BY <1>2, <2>1 DEF StoreTypeOK
      <4>2. prior = IF aggregates[m.runId][Route(arg[p])] = None
                    THEN aggregateGenesis(Route(arg[p]), m) ELSE aggregates[m.runId][Route(arg[p])]
        BY <2>2 DEF loadAggregate
      <4> QED
        BY <2>1, <2>4, <4>1, <4>2 DEF aggregateGenesis, Checkpoint, verifyAggregate
    <3>2. /\ LocalTypes' /\ pc'[p] = "commit" /\ arg'[p] = arg[p] /\ seen'[p] = seen[p]
          /\ base'[p] = prior
          /\ \A q \in Procs \ {p} : Still(q)
      BY <1>2, <2>1, <2>4, <3>1, LocalsAssign DEF Continue
    <3>3. ExactPersistedEvent(arg[p])'
      BY <1>3, <2>1, <3>2 DEF ExactPersistedEvent, Persisted
    <3>4. /\ arg[p].position = seen[p].processedPosition + 1
          /\ seen[p].processedPosition <= loadCursor(m).processedPosition
          /\ seen[p].processedPosition = loadCursor(m).processedPosition => seen[p] = loadCursor(m)
      BY <1>1, <1>2, <2>1 DEF LocalAt
    <3>5. loadAggregate(m, Route(arg[p]))' = prior
      BY <1>3, <2>1, <2>2, <3>2 DEF loadAggregate
    <3>6. LocalAt(p)'
      BY <1>1, <1>3, <1>4, <1>5, <2>1, <2>4, <3>2, <3>3, <3>4, <3>5 DEF LocalAt
    <3> QED
      BY <3>2, <3>6 DEF Moved
  <2> QED
    BY <1>1, <1>13, <2>2, <2>3, <2>4 DEF Reduce
<1>14. CASE Crash(p)
  <2>1. "new" \in PCs /\ Locals(p, "new", None, None, None, <<>>, FALSE)
    BY <1>14 DEF Crash, PCs
  <2>2. /\ LocalTypes' /\ pc'[p] = "new" /\ seen'[p] = None
        /\ \A q \in Procs \ {p} : Still(q)
    BY <1>2, <2>1, LocalsAssign
  <2> QED
    BY <2>2 DEF Moved, LocalAt
<1> QED
  BY <1>7, <1>8, <1>9, <1>10, <1>11, <1>12, <1>13, <1>14

-----------------------------------------------------------------------------
(* Commits and registrations.                                              *)

\* An accepted commit was computed from what is stored now: it is the
\* indivisible step of the abstract specification.
LEMMA CommitIsProcessNext ==
    ASSUME KernelInv, NEW p \in Procs, pc[p] = "commit",
           NEW m \in Manifests, m = ManifestOf[p],
           CommitAccepted(m, BuildCommit(m, seen[p], base[p], arg[p])),
           CommitWrites(m, BuildCommit(m, seen[p], base[p], arg[p])),
           UNCHANGED <<log, clock>>
    PROVE  ProcessNext(m) /\ NextCommit(m) = BuildCommit(m, seen[p], base[p], arg[p])
<1> DEFINE c == BuildCommit(m, seen[p], base[p], arg[p])
<1>1. LocalAt(p) /\ StoreTypeOK /\ m \in Manifest
  BY ManifestsAssumption DEF KernelInv, LocalInv, LogAndCursors
<1>2. /\ runs[m.runId] = m
      /\ arg[p].position = seen[p].processedPosition + 1
      /\ ExactPersistedEvent(arg[p]) /\ Route(arg[p]) \in AggregateIds
      /\ WellFormed(Apply(base[p].state, arg[p], m))
      /\ seen[p].processedPosition = loadCursor(m).processedPosition => seen[p] = loadCursor(m)
      /\ seen[p].processedPosition = loadCursor(m).processedPosition
            => base[p] = loadAggregate(m, Route(arg[p]))
  BY <1>1 DEF LocalAt
<1>3. c.expectedPosition = seen[p].processedPosition
  BY DEF BuildCommit
<1>4. /\ loadCursor(m).processedPosition = c.expectedPosition
      /\ DistinctKeys(c.outputs) /\ LedgerAdmits(c.outputs)
  BY <1>2 DEF CommitAccepted, verifyProcessingTransition, verifyProcessingCommit
<1>5. seen[p] = loadCursor(m) /\ base[p] = loadAggregate(m, Route(arg[p]))
  BY <1>2, <1>3, <1>4
<1>6. NextEvent(m) = arg[p] /\ loadCursor(m).processedPosition + 1 \in DOMAIN log
  BY <1>2, <1>5 DEF NextEvent, ExactPersistedEvent, Persisted
<1>7. loadCursor(m).processedPosition < Len(log)
  <2>1. loadCursor(m).processedPosition \in Nat
    BY <1>1, LoadsTyped DEF Cursor
  <2> QED
    BY <1>1, <1>6, <2>1, EventsTyped, StoreTypeIsLogType
<1>8. NextCommit(m) = c
  BY <1>5, <1>6 DEF NextCommit
<1> HIDE DEF c
<1>9. CommitWrites(m, c)
  BY DEF c
<1> QED
  BY <1>2, <1>4, <1>5, <1>6, <1>7, <1>8, <1>9 DEF ProcessNext, c

\* A commit, accepted or rejected, keeps what is true of its processor.
LEMMA CommitMoves ==
    ASSUME KernelInv, NEW p \in Procs, Commit(p)
    PROVE  Moved(p) /\ [SerialNext]_serialVars
<1>1. PICK m \in Manifests : m = ManifestOf[p]
  BY ManifestTyped
<1>2. PICK c : c = BuildCommit(m, seen[p], base[p], arg[p])
  OBVIOUS
<1>3. /\ LocalTypes /\ LocalAt(p) /\ pc[p] = "commit" /\ runs[m.runId] = m
      /\ m \in Manifest /\ m.runId \in RunIds
      /\ StoreTypeOK /\ LogChained /\ CursorBound
  BY <1>1, ManifestTyped
     DEF KernelInv, LogAndCursors, LocalInv, LocalAt, Commit, TypeOK, LocalTypes
<1>4. UNCHANGED <<log, clock>>
  BY DEF Commit
<1>5. CASE CommitAccepted(m, c) /\ CommitWrites(m, c) /\ Return(p, c.cursor)
  <2>1. ProcessNext(m) /\ NextCommit(m) = c
    BY <1>1, <1>2, <1>3, <1>4, <1>5, CommitIsProcessNext
  <2>2. c.cursor \in Cursor
    BY <1>3, <2>1, ProcessNextTyped
  <2>3. cursors' = [cursors EXCEPT ![m.runId] = c.cursor] /\ runs' = runs
    BY <1>5 DEF CommitWrites
  <2>4. cursors'[m.runId] = c.cursor /\ c.cursor # None
    BY <1>3, <2>2, <2>3, AbsentAssumption DEF StoreTypeOK
  <2>5. loadCursor(m)' = c.cursor
    BY <2>4 DEF loadCursor
  <2>6. c.cursor.processedPosition \in Nat
    BY <2>2 DEF Cursor
  <2>7. Moved(p)
    BY <1>1, <1>3, <1>5, <2>2, <2>3, <2>5, <2>6, ReturnMoves
  <2> QED
    BY <2>1, <2>7 DEF SerialNext
<1>6. CASE Throw(p) /\ UNCHANGED storeVars
  <2>1. runs' = runs
    BY <1>6 DEF storeVars
  <2>2. Moved(p)
    BY <1>1, <1>3, <1>6, <2>1, ThrowMoves
  <2> QED
    BY <1>4, <1>6, <2>2 DEF serialVars, storeVars
<1> QED
  BY <1>1, <1>2, <1>5, <1>6 DEF Commit

\* An initialization keeps what is true of its processor.
LEMMA InitializeMoves ==
    ASSUME KernelInv, NEW p \in Procs, Initialize(p)
    PROVE  Moved(p) /\ [SerialNext]_serialVars
<1>1. PICK m \in Manifests : m = ManifestOf[p]
  BY ManifestTyped
<1>2. LocalTypes /\ StoreTypeOK /\ m.runId \in RunIds
  BY <1>1, ManifestTyped DEF KernelInv, LogAndCursors, TypeOK, LocalTypes
<1>3. ensureRun(m) /\ Throw(p)
  BY <1>1 DEF Initialize, Throw
<1>4. runs'[m.runId] = m
  BY <1>2, <1>3 DEF ensureRun, StoreTypeOK
<1>5. Moved(p)
  BY <1>1, <1>2, <1>3, <1>4, ThrowMoves
<1>6. Register(m)
  BY <1>3 DEF Initialize, Register
<1> QED
  BY <1>5, <1>6 DEF SerialNext

-----------------------------------------------------------------------------
(* Every step.                                                             *)

\* A step of a processor is a step of the abstract specification or leaves the
\* store alone, and it keeps what is true of that processor.
LEMMA ProcessorStep ==
    ASSUME KernelInv, NEW p \in Procs,
           \/ Step(p)
           \/ \E e \in {log[i] : i \in DOMAIN log} \cup ForeignEvents : CallProcess(p, e)
           \/ Crash(p)
    PROVE  Moved(p) /\ [SerialNext]_serialVars /\ crashes' \in Nat
<1>0. crashes \in Nat
  BY DEF KernelInv, TypeOK
<1>1. CASE Initialize(p)
  BY <1>0, <1>1, InitializeMoves DEF Initialize
<1>2. CASE Commit(p)
  BY <1>0, <1>2, CommitMoves DEF Commit
<1>3. CASE \/ \E e \in {log[i] : i \in DOMAIN log} \cup ForeignEvents : CallProcess(p, e)
           \/ CallProcessAvailable(p) \/ ReadPage(p) \/ LoadCursor(p) \/ Recheck(p)
           \/ Verify(p) \/ Reduce(p) \/ Crash(p)
  <2>1. UNCHANGED storeAndLog /\ crashes' \in {crashes, crashes + 1}
    <3>1. CASE Crash(p)
      BY <3>1 DEF Crash
    <3>2. CASE CallProcessAvailable(p) \/ ReadPage(p) \/ LoadCursor(p)
      BY <3>2, Zenon DEF CallProcessAvailable, ReadPage, LoadCursor
    <3>3. CASE Recheck(p) \/ Verify(p) \/ Reduce(p)
      BY <3>3, Zenon DEF Recheck, Verify, Reduce
    <3>4. CASE \E e \in {log[i] : i \in DOMAIN log} \cup ForeignEvents : CallProcess(p, e)
      BY <3>4, Zenon DEF CallProcess
    <3> QED
      BY <1>3, <3>1, <3>2, <3>3, <3>4
  <2>2. Moved(p)
    BY <1>3, <2>1, ReadsMove
  <2> QED
    BY <1>0, <2>1, <2>2 DEF storeAndLog, serialVars
<1> QED
  BY <1>1, <1>2, <1>3 DEF Step

\* The environment acts on the log only, and stuttering on nothing.
LEMMA EnvironmentStep ==
    ASSUME KernelInv, Environment \/ UNCHANGED vars
    PROVE  /\ [SerialNext]_serialVars
           /\ LocalTypes' /\ crashes' \in Nat
           /\ \A p \in Procs : Still(p)
<1>1. [SerialNext]_serialVars
  BY DEF Environment, SerialNext, serialVars, vars
<1>2. UNCHANGED <<localVars, crashes>>
  BY DEF Environment, vars, localVars
<1> QED
  BY <1>1, <1>2 DEF KernelInv, TypeOK, LocalTypes, Still, localVars

\* Every step of the kernel is a step of the serial specification, or stutters.
LEMMA StepSimulates == KernelInv /\ [Next]_vars => [SerialNext]_serialVars
<1> SUFFICES ASSUME KernelInv, [Next]_vars PROVE [SerialNext]_serialVars
  OBVIOUS
<1>1. CASE Environment \/ UNCHANGED vars
  BY <1>1, EnvironmentStep
<1>2. ASSUME NEW p \in Procs,
             \/ Step(p)
             \/ \E e \in {log[i] : i \in DOMAIN log} \cup ForeignEvents : CallProcess(p, e)
             \/ Crash(p)
      PROVE  [SerialNext]_serialVars
  BY <1>2, ProcessorStep
<1> QED
  BY <1>1, <1>2 DEF Next

\* The inductive invariant survives every step.
LEMMA KernelInvStep == KernelInv /\ [Next]_vars => KernelInv'
<1> SUFFICES ASSUME KernelInv, [Next]_vars PROVE KernelInv'
  OBVIOUS
<1>1. TypeOK /\ LogAndCursors /\ \A p \in Procs : LocalAt(p)
  BY DEF KernelInv, LocalInv
<1>2. [SerialNext]_serialVars
  BY StepSimulates
<1>3. LogAndCursors'
  BY <1>1, <1>2, LogAndCursorsStep
<1>4. \A p \in Procs : Still(p) => LocalAt(p)'
  BY <1>1, <1>2, OthersUnaffected
<1>5. LocalTypes' /\ crashes' \in Nat /\ \A p \in Procs : LocalAt(p)'
  <2>1. CASE Environment \/ UNCHANGED vars
    BY <1>4, <2>1, EnvironmentStep
  <2>2. ASSUME NEW p \in Procs,
               \/ Step(p)
               \/ \E e \in {log[i] : i \in DOMAIN log} \cup ForeignEvents : CallProcess(p, e)
               \/ Crash(p)
        PROVE  LocalTypes' /\ crashes' \in Nat /\ \A q \in Procs : LocalAt(q)'
    <3>1. Moved(p) /\ crashes' \in Nat
      BY <2>2, ProcessorStep
    <3> QED
      BY <1>4, <3>1 DEF Moved
  <2> QED
    BY <2>1, <2>2 DEF Next
<1>6. TypeOK'
  BY <1>3, <1>5 DEF LogAndCursors, TypeOK, LocalTypes
<1> QED
  BY <1>3, <1>5, <1>6 DEF KernelInv, LocalInv

\* The inductive invariant holds initially.
LEMMA KernelInvInit == Init => KernelInv
<1> SUFFICES ASSUME Init PROVE KernelInv
  OBVIOUS
<1>1. LogAndCursors
  BY LogAndCursorsInit DEF Init
<1>2. LocalTypes /\ crashes \in Nat
  BY DEF Init, LocalTypes, PCs
<1>3. LocalInv
  BY DEF Init, LocalInv, LocalAt
<1> QED
  BY <1>1, <1>2, <1>3 DEF KernelInv, LogAndCursors, TypeOK, LocalTypes

-----------------------------------------------------------------------------
(* Results.                                                                *)

\* The inductive invariant holds in every reachable state.
LEMMA KernelInvariant == Spec => []KernelInv
BY KernelInvInit, KernelInvStep, PTL DEF Spec

\* Every variable of the kernel keeps its type, whatever processors crash,
\* compete or are handed.
THEOREM KernelTypeCorrect == Spec => []TypeOK
BY KernelInvariant, PTL DEF KernelInv

\* A stale cursor or checkpoint always differs from the stored one in position.
THEOREM StaleReadsAreVisible == Spec => []StaleReadsShow
<1>1. KernelInv => StaleReadsShow
  <2> SUFFICES ASSUME KernelInv, NEW p \in Procs
               PROVE  LET m == ManifestOf[p]
                      IN  /\ seen[p] # None =>
                                /\ seen[p].processedPosition <= loadCursor(m).processedPosition
                                /\ seen[p].processedPosition = loadCursor(m).processedPosition
                                      => seen[p] = loadCursor(m)
                          /\ pc[p] = "commit" =>
                                (seen[p].processedPosition = loadCursor(m).processedPosition
                                    => base[p] = loadAggregate(m, Route(arg[p])))
    BY DEF StaleReadsShow
  <2>1. LocalAt(p) /\ pc[p] \in PCs
    BY DEF KernelInv, LocalInv, TypeOK
  <2> QED
    BY <2>1 DEF LocalAt, PCs
<1> QED
  BY <1>1, KernelInvariant, PTL

\* Only the exact stored successor of the loaded cursor reaches the reducer.
THEOREM NothingForeignIsReduced == Spec => []OnlyStoredEventsReduced
<1>1. KernelInv => OnlyStoredEventsReduced
  BY DEF KernelInv, LocalInv, LocalAt, OnlyStoredEventsReduced, ExactPersistedEvent, Persisted
<1> QED
  BY <1>1, KernelInvariant, PTL

\* Concurrent processors implement the indivisible replay of the log: reads
\* that may be stale, crashes and rejected commits add no behaviour.
THEOREM KernelImplementsSerialReplay == Spec => SerialSpec
<1>1. Init => SerialInit
  BY DEF Init
<1> QED
  BY <1>1, StepSimulates, KernelInvariant, PTL DEF Spec, SerialSpec

\* Whatever the interleaving, the heads of a run are what replaying the log
\* through the reducer yields.
THEOREM KernelIsDeterministic == Spec => []HeadsReplayReducer
BY KernelImplementsSerialReplay, RunsReplayTheLog, PTL

\* Checkpoints never drift from the state heads.
THEOREM KernelCheckpointsAgree == Spec => []CheckpointsMatchHead
BY KernelImplementsSerialReplay, CheckpointsAreReplayed, PTL

\* Cursors stay bound to the log and to the registered manifest.
THEOREM KernelCursorsBound == Spec => []CursorBound
BY KernelImplementsSerialReplay, CursorsBoundToLog, PTL

\* Crashes, retries and competing processors never emit an intent twice.
THEOREM KernelEmitsOnce == Spec => []IntentsEmittedOnce
BY KernelImplementsSerialReplay, RunsEmitIntentsOnce, PTL

\* Only intents of live runs with effects can be dispatched, and all of them.
THEOREM KernelGatesEffects == Spec => []EffectsGated
BY KernelImplementsSerialReplay, OnlyLiveRunsDispatch, PTL

\* The ledger and the decision heads agree under every interleaving.
THEOREM KernelLedgerMatches == Spec => []LedgerMatchesDecisions
BY KernelImplementsSerialReplay, LedgerTellsTheDecisions, PTL

\* What competing and crashing processors store can always be read back.
THEOREM KernelRowsReadable == Spec => []RowsReadable
BY KernelImplementsSerialReplay, RowsStayReadable, PTL

\* No interleaving rewrites a registration, an output or a head.
THEOREM KernelHistoryImmutable == Spec => HistoryImmutable
BY KernelImplementsSerialReplay, HistoryIsImmutable, PTL

\* All of it together: any number of processors that compete, crash and retry
\* leave in every run exactly what a serial replay of the log leaves.
THEOREM KernelReplaysTheLog == Spec => []RunsReplay
BY KernelTypeCorrect, KernelIsDeterministic, KernelCheckpointsAgree, KernelEmitsOnce,
   KernelCursorsBound, KernelGatesEffects, KernelRowsReadable, PTL DEF RunsReplay

\* Reads across awaits are safe: stale ones show, foreign events never pass.
THEOREM KernelReadsAreSafe == Spec => []ReadsSafe
BY StaleReadsAreVisible, NothingForeignIsReduced, PTL DEF ReadsSafe

-----------------------------------------------------------------------------
(* Snapshots.                                                              *)

\* A bounded set of rows has a first page that leaves no gap below its last row.
LEMMA PageHasNoGap ==
    ASSUME NEW top \in Nat, NEW rows, rows \subseteq 1 .. top
    PROVE  /\ FirstRows(rows) \subseteq rows
           /\ \A n \in FirstRows(rows), k \in rows : k < n => k \in FirstRows(rows)
<1>1. ASSUME NEW n \in FirstRows(rows), NEW k \in rows, k < n
      PROVE  k \in FirstRows(rows)
  <2> DEFINE Below(x) == {j \in rows : j < x}
  <2>1. IsFiniteSet(rows)
    <3>1. IsFiniteSet(1 .. top)
      BY FS_Interval
    <3> QED
      BY <3>1, FS_Subset
  <2>2. Below(n) \subseteq rows /\ Below(k) \subseteq Below(n)
    <3>1. n \in rows /\ \A j \in rows : j \in Int
      BY <1>1 DEF FirstRows
    <3>2. \A j \in rows : j < k => j < n
      BY <1>1, <3>1
    <3> QED
      BY <3>2
  <2>3. /\ IsFiniteSet(Below(n)) /\ IsFiniteSet(Below(k))
        /\ Cardinality(Below(k)) <= Cardinality(Below(n))
    <3> HIDE DEF Below
    <3>1. IsFiniteSet(Below(n))
      BY <2>1, <2>2, FS_Subset
    <3> QED
      BY <2>2, <3>1, FS_Subset
  <2>4. Cardinality(Below(n)) < SnapshotPage
    BY <1>1 DEF FirstRows
  <2>5. Cardinality(Below(n)) \in Nat /\ Cardinality(Below(k)) \in Nat
    BY <2>3, FS_CardinalityType
  <2>6. Cardinality(Below(k)) < SnapshotPage
    BY <2>3, <2>4, <2>5, SnapshotPageAssumption
  <2> QED
    BY <1>1, <2>6 DEF FirstRows
<1> QED
  BY <1>1 DEF FirstRows

\* The first page is empty only when there is nothing to read.
LEMMA PageNotEmpty ==
    ASSUME NEW top \in Nat, NEW rows, rows \subseteq 1 .. top, FirstRows(rows) = {}
    PROVE  rows = {}
<1> SUFFICES ASSUME rows # {} PROVE FALSE
  OBVIOUS
<1> DEFINE Mirror == {top - y : y \in rows}
<1>1. \A y \in rows : y \in Int /\ top - y \in 0 .. top
  OBVIOUS
<1>0. Mirror \subseteq 0 .. top /\ Mirror # {}
  BY <1>1
<1> HIDE DEF Mirror
<1>2. PICK x \in Mirror : \A y \in Mirror : y <= x
  BY <1>0, LargestExists
<1>3. PICK least \in rows : x = top - least
  BY DEF Mirror
<1>4. ASSUME NEW k \in rows, k < least
      PROVE  FALSE
  <2>1. top - k <= top - least
    BY <1>2, <1>3 DEF Mirror
  <2> QED
    BY <1>1, <1>4, <2>1
<1>5. {k \in rows : k < least} = {}
  BY <1>4
<1>6. Cardinality({k \in rows : k < least}) < SnapshotPage
  BY <1>5, FS_EmptySet, SnapshotPageAssumption
<1> QED
  BY <1>3, <1>6 DEF FirstRows

\* The cursor after a page is the last row read, so that what was read is
\* exactly what lies at or below it.
LEMMA CursorFollows ==
    ASSUME NEW top \in Nat, NEW rows, NEW at \in Nat, rows \subseteq (at + 1) .. top, at <= top
    PROVE  /\ Following(FirstRows(rows), at) \in at .. top
           /\ \A k \in rows : k \in FirstRows(rows) <=> k <= Following(FirstRows(rows), at)
<1> DEFINE read == FirstRows(rows)
           next == Following(read, at)
<1>1. rows \subseteq 1 .. top /\ \A k \in rows : k \in (at + 1) .. top
  OBVIOUS
<1>2. read \subseteq rows /\ \A n \in read, k \in rows : k < n => k \in read
  BY <1>1, PageHasNoGap
<1> HIDE DEF read, next
<1> SUFFICES next \in at .. top /\ \A k \in rows : k \in read <=> k <= next
  BY DEF read, next
<1>3. CASE read = {}
  <2>1. next = at
    BY <1>3 DEF Following, next
  <2>2. rows = {}
    BY <1>1, <1>3, PageNotEmpty DEF read
  <2> QED
    BY <2>1, <2>2
<1>4. CASE read # {}
  <2>1. \E x \in read : \A y \in read : y <= x
    <3>1. read \subseteq 0 .. top
      BY <1>1, <1>2
    <3> QED
      BY <1>4, <3>1, LargestExists
  <2>2. next \in read /\ \A y \in read : y <= next
    BY <1>4, <2>1 DEF Following, next
  <2> QED
    BY <1>1, <1>2, <2>2
<1> QED
  BY <1>3, <1>4

\* Every processed event has its aggregate, stored and reduced as far as it.
LEMMA CheckpointReaches ==
    ASSUME ReplayInv, NEW m \in Manifest, runs[m.runId] = m
    PROVE  /\ \A a \in AggregateIds : aggregates[m.runId][a] # None => aggregates[m.runId][a].aggregateId = a
           /\ \A i \in 1 .. loadCursor(m).processedPosition :
                 /\ Route(log[i]) \in AggregateIds
                 /\ aggregates[m.runId][Route(log[i])] # None
                 /\ aggregates[m.runId][Route(log[i])].lastInputPosition >= i
<1>0. StoreTypeOK /\ HeadsReplayReducer /\ CheckpointsMatchHead /\ m.runId \in RunIds
  BY DEF ReplayInv, LogAndCursors, Manifest
<1>1. PICK head \in Seq(StateStep) :
        /\ head = HeadOf(m.runId) /\ loadCursor(m).stateHead = head
        /\ Len(head) = loadCursor(m).processedPosition
        /\ \A i \in 1 .. Len(head) : ReplaysAt(m, head, loadCursor(m).decisionHead, i)
  BY <1>0, LoadedHeads
<1>2. \A a \in AggregateIds :
        aggregates[m.runId][a] =
          IF StepsOf(head, a) = {} THEN None
          ELSE [aggregateId |-> a, version |-> Cardinality(StepsOf(head, a)),
                lastInputPosition |-> Latest(StepsOf(head, a)),
                state |-> head[Latest(StepsOf(head, a))].state]
  BY <1>0, <1>1 DEF CheckpointsMatchHead, HeadOf
<1>3. ASSUME NEW i \in 1 .. Len(head)
      PROVE  /\ Route(log[i]) \in AggregateIds
             /\ aggregates[m.runId][Route(log[i])] # None
             /\ aggregates[m.runId][Route(log[i])].lastInputPosition >= i
  <2>1. head[i] \in StateStep /\ head[i].aggregateId = Route(log[i])
    <3>1. head[i] \in StateStep /\ ReplaysAt(m, head, loadCursor(m).decisionHead, i)
      BY <1>1, <1>3
    <3> QED
      BY <3>1 DEF ReplaysAt
  <2>2. PICK a \in AggregateIds : a = Route(log[i])
    BY <2>1 DEF StateStep
  <2>3. i \in StepsOf(head, a)
    BY <1>3, <2>1, <2>2 DEF StepsOf
  <2>4. Latest(StepsOf(head, a)) \in 1 .. Len(head) /\ i <= Latest(StepsOf(head, a))
    <3>1. Len(head) \in Nat /\ DOMAIN head = 1 .. Len(head)
      OBVIOUS
    <3>2. StepsOf(head, a) \subseteq 0 .. Len(head) /\ StepsOf(head, a) # {}
      BY <2>3, <3>1 DEF StepsOf
    <3>3. \E x \in StepsOf(head, a) : \A y \in StepsOf(head, a) : y <= x
      BY <3>1, <3>2, LargestExists
    <3> QED
      BY <2>3, <3>2, <3>3, LatestIsStep DEF Latest
  <2>5. aggregates[m.runId][a].lastInputPosition = Latest(StepsOf(head, a))
    <3>1. StepsOf(head, a) # {}
      BY <2>3
    <3> DEFINE steps == StepsOf(head, a)
    <3>2. aggregates[m.runId][a] =
            [aggregateId |-> a, version |-> Cardinality(steps),
             lastInputPosition |-> Latest(steps), state |-> head[Latest(steps)].state]
      BY <1>2, <3>1, Zenon
    <3> HIDE DEF steps
    <3>3. aggregates[m.runId][a].lastInputPosition = Latest(steps)
      BY <3>2
    <3> QED
      BY <3>3 DEF steps
  <2>6. aggregates[m.runId][a] # None
    <3>1. loadAggregate(m, a).version = Cardinality(StepsOf(head, a))
      BY <1>0, <1>1, PriorIsReplayed
    <3>2. IsFiniteSet(StepsOf(head, a))
      <4>1. Len(head) \in Nat /\ DOMAIN head = 1 .. Len(head)
        OBVIOUS
      <4>2. StepsOf(head, a) \subseteq 1 .. Len(head) /\ IsFiniteSet(1 .. Len(head))
        BY <4>1, FS_Interval DEF StepsOf
      <4> QED
        BY <4>2, FS_Subset
    <3>3. Cardinality(StepsOf(head, a)) # 0
      BY <2>3, <3>2, FS_EmptySet
    <3> QED
      BY <3>1, <3>3 DEF loadAggregate, aggregateGenesis
  <2> QED
    BY <2>2, <2>4, <2>5, <2>6
<1>4. ASSUME NEW a \in AggregateIds, aggregates[m.runId][a] # None
      PROVE  aggregates[m.runId][a].aggregateId = a
  <2> DEFINE steps == StepsOf(head, a)
  <2>1. aggregates[m.runId][a] =
          [aggregateId |-> a, version |-> Cardinality(steps),
           lastInputPosition |-> Latest(steps), state |-> head[Latest(steps)].state]
    BY <1>2, <1>4, Zenon
  <2> HIDE DEF steps
  <2> QED
    BY <2>1
<1> QED
  BY <1>1, <1>3, <1>4

\* The rows that a step adds for a run are of an event after its cursor.
LEMMA NewRowsLater ==
    ASSUME LedgerInv, [SerialNext]_serialVars, NEW m \in Manifest
    PROVE  /\ DOMAIN outputs \subseteq DOMAIN outputs'
           /\ \A n \in DOMAIN outputs : outputs'[n] = outputs[n]
           /\ \A n \in DOMAIN outputs' : n \notin DOMAIN outputs /\ outputs'[n].runId = m.runId
                 => outputs'[n].inputPosition > loadCursor(m).processedPosition
<1>0. LogAndCursors /\ StoreTypeOK /\ LogChained /\ CursorBound
  BY DEF LedgerInv, ReplayInv, LogAndCursors
<1>1. CASE UNCHANGED <<outputs, dispatchable>>
  BY <1>1
<1>2. ASSUME NEW m2 \in Manifests, ProcessNext(m2)
      PROVE  /\ DOMAIN outputs \subseteq DOMAIN outputs'
             /\ \A n \in DOMAIN outputs : outputs'[n] = outputs[n]
             /\ \A n \in DOMAIN outputs' : n \notin DOMAIN outputs /\ outputs'[n].runId = m.runId
                   => outputs'[n].inputPosition > loadCursor(m).processedPosition
  <2>1. PICK outs : outs = NextCommit(m2).outputs
    OBVIOUS
  <2>2. PICK k \in Nat : k = Len(outputs)
    BY <1>0 DEF StoreTypeOK
  <2>3. PICK s \in Nat : s = Len(outs)
    BY <1>0, <1>2, <2>1, LedgerGrows
  <2>4. /\ DOMAIN outputs = 1 .. k /\ DOMAIN outputs' = 1 .. (k + s)
        /\ \A i \in 1 .. k : outputs'[i] = outputs[i]
        /\ \A i \in 1 .. s : outputs'[k + i] = outs[i] /\ outs[i].runId = m2.runId
    BY <1>0, <1>2, <2>1, <2>2, <2>3, LedgerGrows
  <2>5. PICK n \in Nat : n = loadCursor(m2).processedPosition /\ log[n + 1].position = n + 1
    <3>1. m2 \in Manifest
      BY ManifestsAssumption
    <3>2. loadCursor(m2).processedPosition \in Nat
      BY <1>0, <3>1, LoadsTyped DEF Cursor
    <3> QED
      BY <1>0, <1>2, <3>2, NextCursor
  <2>6. \A i \in 1 .. s : outs[i].inputPosition = n + 1
    <3>1. outs \in Seq(OfEvent(log[n + 1]))
      BY <1>0, <1>2, <2>1, <2>5, DecisionsCommitted
    <3>2. \A i \in 1 .. s : outs[i] \in OfEvent(log[n + 1])
      BY <2>3, <3>1
    <3> QED
      BY <2>5, <3>2 DEF OfEvent
  <2>7. m2.runId = m.runId => loadCursor(m).processedPosition = n
    BY <2>5, SamePosition, ManifestsAssumption
  <2>8. ASSUME NEW x \in 1 .. (k + s), x \notin 1 .. k, outputs'[x].runId = m.runId
        PROVE  outputs'[x].inputPosition > loadCursor(m).processedPosition
    <3>1. x - k \in 1 .. s /\ x = k + (x - k)
      BY <2>8
    <3>2. outputs'[k + (x - k)] = outs[x - k] /\ outs[x - k].runId = m2.runId
      BY <2>4, <3>1
    <3> QED
      BY <2>6, <2>7, <2>8, <3>1, <3>2
  <2>9. 1 .. k \subseteq 1 .. (k + s)
    OBVIOUS
  <2> QED
    BY <2>4, <2>8, <2>9
<1> QED
  BY <1>1, <1>2, LedgerUntouched

\* The outputs of the run up to one ledger sequence.
RowsUpTo(n) == {Stored(k) : k \in {j \in DOMAIN outputs : outputs[j].runId = RunRead /\ j <= n}}

\* The collected outputs are those of the first n events, and of these events
\* the aggregates in the first places of the order were collected, each once.
Collected(n, place) ==
    /\ n \in reading.cursor.processedPosition .. loadCursor(ManifestOf[Reader]).processedPosition
    /\ reading.outputs = OutputsUpTo(n)
    /\ \A i \in 1 .. n, q \in DOMAIN AggregateOrder :
          AggregateOrder[q] = Route(log[i]) /\ q <= place => ReadOnce(Route(log[i]), i)

Reading == [stage : {"idle", "outputs", "aggregates", "done"}, cursor : Cursor \cup {None},
            outputs : SUBSET [sequence : Nat, output : Output], outputCursor : Nat,
            aggregates : SUBSET Checkpoint, aggregateCursor : 0 .. Len(AggregateOrder)]

\* What is true of a call between its reads.
CallAt ==
    /\ reading \in Reading
    /\ reading.stage # "idle" =>
          /\ pc[Reader] # "new"
          /\ reading.cursor \in Cursor
          /\ reading.cursor.processedPosition <= loadCursor(ManifestOf[Reader]).processedPosition
    /\ reading.stage = "outputs" =>
          /\ reading.outputCursor <= Len(outputs)
          /\ reading.outputs = RowsUpTo(reading.outputCursor)
          /\ reading.aggregates = {} /\ reading.aggregateCursor = 0
    /\ reading.stage = "aggregates" =>
          /\ \E n \in Nat : Collected(n, reading.aggregateCursor)
          /\ \A c \in reading.aggregates : \E q \in DOMAIN AggregateOrder :
                c.aggregateId = AggregateOrder[q] /\ q <= reading.aggregateCursor
    /\ reading.stage = "done" => \E n \in Nat : Collected(n, Len(AggregateOrder))

\* The inductive invariant of the processors and of a call beside them.
SnapshotInv == KernelInv /\ LedgerInv /\ CallAt

\* A store that the reader's run has been registered in, as one manifest m.
LEMMA ReaderTyped ==
    ASSUME SnapshotInv
    PROVE  \E m \in Manifest :
             /\ ManifestOf[Reader] = m /\ RunRead = m.runId /\ m.runId \in RunIds
             /\ loadCursor(m) \in Cursor /\ loadCursor(m).processedPosition \in Nat
             /\ pc[Reader] # "new" => runs[m.runId] = m
             /\ Len(outputs) \in Nat /\ DOMAIN outputs = 1 .. Len(outputs)
             /\ Len(AggregateOrder) \in Nat /\ DOMAIN AggregateOrder = 1 .. Len(AggregateOrder)
<1>1. ManifestOf[Reader] \in Manifest /\ ManifestOf[Reader].runId \in RunIds
  BY ReaderAssumption, ManifestTyped
<1>2. StoreTypeOK /\ LocalAt(Reader)
  BY ReaderAssumption DEF SnapshotInv, KernelInv, LocalInv, LogAndCursors
<1>3. loadCursor(ManifestOf[Reader]) \in Cursor
  BY <1>1, <1>2, LoadsTyped
<1>4. Len(outputs) \in Nat /\ DOMAIN outputs = 1 .. Len(outputs)
  BY <1>2 DEF StoreTypeOK
<1>5. Len(AggregateOrder) \in Nat /\ DOMAIN AggregateOrder = 1 .. Len(AggregateOrder)
  BY OrderAssumption
<1> QED
  BY <1>1, <1>2, <1>3, <1>4, <1>5 DEF LocalAt, RunRead, Cursor

\* A step of the processors does not change what a running call has collected.
LEMMA CallUndisturbed ==
    ASSUME SnapshotInv, [SerialNext]_serialVars, reading' = reading, reading.stage # "idle",
           pc'[Reader] # "new"
    PROVE  CallAt'
<1> PICK m \in Manifest :
       /\ ManifestOf[Reader] = m /\ RunRead = m.runId /\ m.runId \in RunIds
       /\ loadCursor(m) \in Cursor /\ loadCursor(m).processedPosition \in Nat
       /\ pc[Reader] # "new" => runs[m.runId] = m
       /\ Len(outputs) \in Nat /\ DOMAIN outputs = 1 .. Len(outputs)
       /\ Len(AggregateOrder) \in Nat /\ DOMAIN AggregateOrder = 1 .. Len(AggregateOrder)
  BY ReaderTyped
<1>1. LogAndCursors /\ LogAndCursors' /\ LedgerInv /\ CallAt
  BY LogAndCursorsStep DEF SnapshotInv, KernelInv
<1>2. runs[m.runId] = m /\ reading.cursor \in Cursor
      /\ reading.cursor.processedPosition <= loadCursor(m).processedPosition
  BY <1>1 DEF CallAt
<1>3. /\ \A i \in DOMAIN log : i \in DOMAIN log' /\ log'[i] = log[i]
      /\ loadCursor(m)'.processedPosition \in Nat
      /\ loadCursor(m).processedPosition <= loadCursor(m)'.processedPosition
  <2>1. /\ \A i \in DOMAIN log : i \in DOMAIN log' /\ log'[i] = log[i]
        /\ \/ loadCursor(m)' = loadCursor(m)
           \/ loadCursor(m)'.processedPosition = loadCursor(m).processedPosition + 1
    BY <1>1, <1>2, SerialStepEffect
  <2> QED
    BY <2>1
<1>4. /\ DOMAIN outputs \subseteq DOMAIN outputs'
      /\ \A n \in DOMAIN outputs : outputs'[n] = outputs[n]
      /\ \A n \in DOMAIN outputs' : n \notin DOMAIN outputs /\ outputs'[n].runId = m.runId
            => outputs'[n].inputPosition > loadCursor(m).processedPosition
  BY <1>1, NewRowsLater
<1>5. \A i \in 1 .. loadCursor(m).processedPosition : i \in DOMAIN log
  <2>1. DOMAIN log = 1 .. Len(log) /\ Len(log) \in Nat
    BY <1>1, EventsTyped, StoreTypeIsLogType DEF LogAndCursors
  <2>2. loadCursor(m).processedPosition <= Len(log)
    BY <1>1, <1>2, LoadedCursorBound DEF LogAndCursors
  <2> QED
    BY <2>1, <2>2
<1>6. Len(outputs) <= Len(outputs') /\ Len(outputs') \in Nat /\ DOMAIN outputs' = 1 .. Len(outputs')
  <2>1. Len(outputs') \in Nat /\ DOMAIN outputs' = 1 .. Len(outputs')
    BY <1>1 DEF LogAndCursors, StoreTypeOK
  <2> QED
    BY <1>4, <2>1
<1>7. ASSUME NEW x \in Nat, x <= Len(outputs)
      PROVE  RowsUpTo(x)' = RowsUpTo(x)
  <2>1. {j \in DOMAIN outputs' : outputs'[j].runId = m.runId /\ j <= x}
          = {j \in DOMAIN outputs : outputs[j].runId = m.runId /\ j <= x}
    BY <1>4, <1>6, <1>7
  <2>2. RunRead' = m.runId
    BY DEF RunRead
  <2> QED
    BY <1>4, <2>1, <2>2 DEF RowsUpTo, Stored
<1>8. ASSUME NEW n \in Nat, NEW place \in Nat, Collected(n, place)
      PROVE  Collected(n, place)'
  <2>1. n <= loadCursor(m).processedPosition
    BY <1>8 DEF Collected
  <2>2. {j \in DOMAIN outputs' : outputs'[j].runId = m.runId /\ outputs'[j].inputPosition <= n}
          = {j \in DOMAIN outputs : outputs[j].runId = m.runId /\ outputs[j].inputPosition <= n}
    <3>0. \A j \in DOMAIN outputs' : outputs'[j] \in Output
      BY <1>1, <1>6 DEF LogAndCursors, StoreTypeOK
    <3>1. \A j \in DOMAIN outputs' : outputs'[j].inputPosition \in Nat
      BY <3>0 DEF Output
    <3> QED
      BY <1>4, <2>1, <3>1
  <2>3. OutputsUpTo(n)' = OutputsUpTo(n)
    <3>1. RunRead' = m.runId
      BY DEF RunRead
    <3> QED
      BY <1>4, <2>2, <3>1 DEF OutputsUpTo, Stored
  <2>4. \A i \in 1 .. n : log'[i] = log[i]
    BY <1>3, <1>5, <2>1
  <2>5. n \in reading.cursor.processedPosition .. loadCursor(m)'.processedPosition
    BY <1>2, <1>3, <1>8 DEF Collected, Cursor
  <2>6. \A i \in 1 .. n : \A a : ReadOnce(a, i)' <=> ReadOnce(a, i)
    BY DEF ReadOnce
  <2>7. (\A i \in 1 .. n, q \in DOMAIN AggregateOrder :
           AggregateOrder[q] = Route(log[i]) /\ q <= place => ReadOnce(Route(log[i]), i))'
    BY <1>8, <2>4, <2>6 DEF Collected
  <2> QED
    BY <1>8, <2>3, <2>5, <2>7 DEF Collected
<1>9. reading \in Reading /\ reading.outputCursor \in Nat /\ reading.aggregateCursor \in Nat
  BY <1>1 DEF CallAt, Reading
<1>10. /\ reading.stage = "aggregates" => \E n \in Nat : Collected(n, reading.aggregateCursor)'
       /\ reading.stage = "done" => \E n \in Nat : Collected(n, Len(AggregateOrder))'
  BY <1>1, <1>8, <1>9 DEF CallAt
<1>11. /\ reading'.cursor \in Cursor
       /\ reading'.cursor.processedPosition <= loadCursor(ManifestOf[Reader])'.processedPosition
  BY <1>2, <1>3 DEF Cursor
<1>12. reading.stage = "outputs" =>
          (/\ reading.outputCursor <= Len(outputs)
           /\ reading.outputs = RowsUpTo(reading.outputCursor)
           /\ reading.aggregates = {} /\ reading.aggregateCursor = 0)'
  <2> SUFFICES ASSUME reading.stage = "outputs"
               PROVE  (/\ reading.outputCursor <= Len(outputs)
                       /\ reading.outputs = RowsUpTo(reading.outputCursor)
                       /\ reading.aggregates = {} /\ reading.aggregateCursor = 0)'
    OBVIOUS
  <2>1. PICK x \in Nat : x = reading.outputCursor
    BY <1>9
  <2>2. x <= Len(outputs) /\ reading.outputs = RowsUpTo(x)
        /\ reading.aggregates = {} /\ reading.aggregateCursor = 0
    BY <1>1, <2>1 DEF CallAt
  <2>3. RowsUpTo(x)' = RowsUpTo(x)
    BY <1>7, <2>2
  <2>4. (reading.outputCursor <= Len(outputs))'
    BY <1>6, <2>1, <2>2
  <2>5. reading' = reading /\ reading'.outputCursor = x
    BY <2>1
  <2>6. (RowsUpTo(reading.outputCursor) = RowsUpTo(x))'
    BY <2>5, Zenon DEF RowsUpTo
  <2>7. (reading.outputs = RowsUpTo(reading.outputCursor))'
    BY <2>2, <2>3, <2>5, <2>6
  <2> QED
    BY <2>2, <2>4, <2>5, <2>7
<1>13. reading.stage = "aggregates" =>
          \A c \in reading'.aggregates : \E q \in DOMAIN AggregateOrder :
                c.aggregateId = AggregateOrder[q] /\ q <= reading'.aggregateCursor
  BY <1>1 DEF CallAt
<1> QED
  BY <1>9, <1>10, <1>11, <1>12, <1>13 DEF CallAt

\* The store beside a read does not move.
LEMMA ReadChangesNothing ==
    ASSUME UNCHANGED vars
    PROVE  /\ RunRead' = RunRead /\ loadCursor(ManifestOf[Reader])' = loadCursor(ManifestOf[Reader])
           /\ \A n : RowsUpTo(n)' = RowsUpTo(n) /\ OutputsUpTo(n)' = OutputsUpTo(n)
           /\ pc' = pc /\ log' = log /\ outputs' = outputs /\ aggregates' = aggregates
BY DEF vars, RunRead, loadCursor, RowsUpTo, OutputsUpTo, Stored

\* A call that starts has collected nothing.
LEMMA BeginCollects ==
    ASSUME SnapshotInv, SnapshotBegin, UNCHANGED vars
    PROVE  CallAt'
<1> PICK m \in Manifest :
       /\ ManifestOf[Reader] = m /\ RunRead = m.runId /\ m.runId \in RunIds
       /\ loadCursor(m) \in Cursor /\ loadCursor(m).processedPosition \in Nat
       /\ pc[Reader] # "new" => runs[m.runId] = m
       /\ Len(outputs) \in Nat /\ DOMAIN outputs = 1 .. Len(outputs)
       /\ Len(AggregateOrder) \in Nat /\ DOMAIN AggregateOrder = 1 .. Len(AggregateOrder)
  BY ReaderTyped
<1>1. reading' = [stage |-> "outputs", cursor |-> loadCursor(m), outputs |-> {}, outputCursor |-> 0,
                  aggregates |-> {}, aggregateCursor |-> 0]
  BY DEF SnapshotBegin, NotReading
<1>2. reading' \in Reading
  BY <1>1 DEF Reading
<1>3. RowsUpTo(0)' = {}
  <2>1. {j \in DOMAIN outputs : outputs[j].runId = RunRead /\ j <= 0} = {}
    OBVIOUS
  <2>2. RowsUpTo(0) = {}
    BY <2>1 DEF RowsUpTo
  <2> QED
    BY <2>2, ReadChangesNothing
<1>4. (RowsUpTo(reading.outputCursor) = RowsUpTo(0))'
  BY <1>1 DEF RowsUpTo
<1>5. pc'[Reader] # "new" /\ loadCursor(ManifestOf[Reader])' = loadCursor(m)
  BY ReadChangesNothing DEF SnapshotBegin
<1>6. outputs' = outputs
  BY DEF vars
<1> QED
  BY <1>1, <1>2, <1>3, <1>4, <1>5, <1>6 DEF CallAt

\* A page of outputs extends what was collected without a gap; the last page
\* makes it everything that the processed events emitted.
LEMMA OutputsCollected ==
    ASSUME SnapshotInv, SnapshotOutputs, UNCHANGED vars
    PROVE  CallAt'
<1> PICK m \in Manifest :
       /\ ManifestOf[Reader] = m /\ RunRead = m.runId /\ m.runId \in RunIds
       /\ loadCursor(m) \in Cursor /\ loadCursor(m).processedPosition \in Nat
       /\ pc[Reader] # "new" => runs[m.runId] = m
       /\ Len(outputs) \in Nat /\ DOMAIN outputs = 1 .. Len(outputs)
       /\ Len(AggregateOrder) \in Nat /\ DOMAIN AggregateOrder = 1 .. Len(AggregateOrder)
  BY ReaderTyped
<1> DEFINE rows == {n \in DOMAIN outputs : n > reading.outputCursor /\ outputs[n].runId = RunRead}
           first == FirstRows(rows)
           next == Following(first, reading.outputCursor)
<1>0. CallAt /\ reading \in Reading /\ reading.stage = "outputs" /\ reading.outputCursor \in Nat
  BY DEF SnapshotInv, CallAt, SnapshotOutputs, Reading
<1>1. /\ reading.outputCursor <= Len(outputs) /\ reading.outputs = RowsUpTo(reading.outputCursor)
      /\ reading.aggregates = {} /\ reading.aggregateCursor = 0
      /\ pc[Reader] # "new" /\ reading.cursor \in Cursor
      /\ reading.cursor.processedPosition <= loadCursor(m).processedPosition
  BY <1>0 DEF CallAt
<1>2. /\ next \in reading.outputCursor .. Len(outputs)
      /\ \A k \in rows : k \in first <=> k <= next
      /\ first \subseteq rows
  <2>1. rows \subseteq (reading.outputCursor + 1) .. Len(outputs)
    BY <1>0
  <2>2. first \subseteq rows
    BY DEF FirstRows
  <2> QED
    BY <1>0, <1>1, <2>1, <2>2, CursorFollows
<1>3. CASE reading' = NotReading
  BY <1>3 DEF NotReading, CallAt, Reading
<1>4. CASE reading' = [reading EXCEPT
                         !.outputs = @ \cup {Stored(n) : n \in first},
                         !.outputCursor = next,
                         !.stage = IF rows # first THEN "outputs" ELSE "aggregates"]
  <2> HIDE DEF next, first, rows
  <2>1. /\ reading'.cursor = reading.cursor
        /\ reading'.outputs = reading.outputs \cup {Stored(n) : n \in first}
        /\ reading'.outputCursor = next
        /\ reading'.aggregates = {} /\ reading'.aggregateCursor = 0
        /\ reading'.stage = IF rows # first THEN "outputs" ELSE "aggregates"
    BY <1>0, <1>1, <1>4 DEF Reading
  <2>2. reading'.outputs = RowsUpTo(next)
    <3>1. \A j \in 1 .. Len(outputs) : outputs[j].runId = RunRead =>
             (j <= next <=> j <= reading.outputCursor \/ j \in first)
      BY <1>0, <1>1, <1>2 DEF rows
    <3>2. first \subseteq 1 .. Len(outputs) /\ \A j \in first : outputs[j].runId = RunRead
      BY <1>2 DEF rows
    <3>3. {j \in DOMAIN outputs : outputs[j].runId = RunRead /\ j <= next}
            = {j \in DOMAIN outputs : outputs[j].runId = RunRead /\ j <= reading.outputCursor} \cup first
      BY <3>1, <3>2
    <3> QED
      BY <1>1, <2>1, <3>3 DEF RowsUpTo
  <2>3. next \in Nat /\ next <= Len(outputs)
    BY <1>0, <1>1, <1>2
  <2>4. reading' \in Reading
    <3>1. {Stored(n) : n \in first} \subseteq [sequence : Nat, output : Output]
      <4>1. \A n \in first : n \in DOMAIN outputs /\ n \in Nat /\ outputs[n] \in Output
        BY <1>2 DEF rows, SnapshotInv, KernelInv, LogAndCursors, StoreTypeOK
      <4> QED
        BY <4>1 DEF Stored
    <3> QED
      BY <1>0, <1>1, <1>4, <2>3, <3>1 DEF Reading
  <2>5. /\ pc'[Reader] # "new" /\ reading'.cursor \in Cursor
        /\ reading'.cursor.processedPosition <= loadCursor(ManifestOf[Reader])'.processedPosition
    BY <1>1, <2>1, ReadChangesNothing
  <2>6. CASE rows # first
    <3>1. (reading.outputs = RowsUpTo(reading.outputCursor))'
      <4>1. PICK x : x = next
        OBVIOUS
      <4>2. (RowsUpTo(reading.outputCursor) = RowsUpTo(x))'
        <5>1. x = reading'.outputCursor
          BY <2>1, <4>1
        <5> QED
          BY <5>1 DEF RowsUpTo
      <4>3. RowsUpTo(x)' = RowsUpTo(x)
        BY ReadChangesNothing
      <4> QED
        BY <2>2, <4>1, <4>2, <4>3
    <3> QED
      BY <2>1, <2>3, <2>4, <2>5, <2>6, <3>1, ReadChangesNothing DEF CallAt
  <2>7. CASE rows = first
    <3>1. PICK n \in Nat : n = loadCursor(m).processedPosition
      OBVIOUS
    <3>2. \A j \in DOMAIN outputs : outputs[j].runId = RunRead =>
             j <= next /\ outputs[j].inputPosition <= n
      <4>1. ASSUME NEW j \in DOMAIN outputs, outputs[j].runId = RunRead
            PROVE  j <= next
        BY <1>0, <1>1, <1>2, <2>7, <4>1 DEF rows
      <4>2. ASSUME NEW j \in DOMAIN outputs, outputs[j].runId = RunRead
            PROVE  outputs[j].inputPosition <= n
        <5>1. LedgerMatchesDecisions /\ StoreTypeOK /\ HeadsReplayReducer
          BY DEF SnapshotInv, LedgerInv, ReplayInv, LogAndCursors
        <5>2. loadCursor(m).decisionHead \in Seq(DecisionStep) /\ Len(loadCursor(m).decisionHead) = n
          BY <1>1, <3>1, <5>1, LoadedHeads
        <5>3. loadCursor(m).decisionHead =
                IF cursors[m.runId] = None THEN <<>> ELSE cursors[m.runId].decisionHead
          BY DEF loadCursor, createGenesisRunCursor
        <5>4. outputs[j].inputPosition \in DOMAIN loadCursor(m).decisionHead
          BY <4>2, <5>1, <5>3 DEF LedgerMatchesDecisions
        <5> QED
          BY <5>2, <5>4
      <4> QED
        BY <4>1, <4>2
    <3>3. RowsUpTo(next) = OutputsUpTo(n)
      BY <3>2 DEF RowsUpTo, OutputsUpTo
    <3>4. n \in reading'.cursor.processedPosition .. loadCursor(ManifestOf[Reader])'.processedPosition
      BY <1>1, <2>1, <3>1, ReadChangesNothing DEF Cursor
    <3>5. reading'.outputs = OutputsUpTo(n)'
      BY <2>2, <3>3, ReadChangesNothing
    <3>6. \A q \in DOMAIN AggregateOrder : ~ (q <= 0)
      OBVIOUS
    <3>7. Collected(n, reading.aggregateCursor)'
      BY <2>1, <3>4, <3>5, <3>6 DEF Collected
    <3> QED
      BY <2>1, <2>4, <2>5, <2>7, <3>7 DEF CallAt
  <2> QED
    BY <2>6, <2>7
<1> QED
  BY <1>3, <1>4 DEF SnapshotOutputs, readOutputsAfter, PageOf

\* A page of checkpoints adds the aggregates of the next places, none of them
\* a second time; the last page makes it all that the processed events touched.
LEMMA AggregatesCollected ==
    ASSUME SnapshotInv, SnapshotAggregates, UNCHANGED vars
    PROVE  CallAt'
<1> PICK m \in Manifest :
       /\ ManifestOf[Reader] = m /\ RunRead = m.runId /\ m.runId \in RunIds
       /\ loadCursor(m) \in Cursor /\ loadCursor(m).processedPosition \in Nat
       /\ pc[Reader] # "new" => runs[m.runId] = m
       /\ Len(outputs) \in Nat /\ DOMAIN outputs = 1 .. Len(outputs)
       /\ Len(AggregateOrder) \in Nat /\ DOMAIN AggregateOrder = 1 .. Len(AggregateOrder)
  BY ReaderTyped
<1> DEFINE stored(q) == aggregates[RunRead][AggregateOrder[q]]
           rows == {q \in DOMAIN AggregateOrder : q > reading.aggregateCursor /\ stored(q) # None}
           first == FirstRows(rows)
           next == Following(first, reading.aggregateCursor)
<1>0. /\ CallAt /\ reading \in Reading /\ reading.stage = "aggregates"
      /\ reading.aggregateCursor \in Nat /\ reading.aggregateCursor <= Len(AggregateOrder)
  BY DEF SnapshotInv, CallAt, SnapshotAggregates, Reading
<1>1. /\ pc[Reader] # "new" /\ reading.cursor \in Cursor
      /\ reading.cursor.processedPosition <= loadCursor(m).processedPosition
      /\ runs[m.runId] = m
      /\ \A c \in reading.aggregates : \E q \in DOMAIN AggregateOrder :
            c.aggregateId = AggregateOrder[q] /\ q <= reading.aggregateCursor
  BY <1>0 DEF CallAt
<1>2. PICK n \in Nat : Collected(n, reading.aggregateCursor)
  BY <1>0 DEF CallAt
<1>3. /\ next \in reading.aggregateCursor .. Len(AggregateOrder)
      /\ \A q \in rows : q \in first <=> q <= next
      /\ first \subseteq rows
  <2>1. rows \subseteq (reading.aggregateCursor + 1) .. Len(AggregateOrder)
    BY <1>0
  <2>2. first \subseteq rows
    BY DEF FirstRows
  <2> QED
    BY <1>0, <2>1, <2>2, CursorFollows
<1>4. ReplayInv
  BY DEF SnapshotInv, LedgerInv
<1>5. \A q \in DOMAIN AggregateOrder :
        /\ AggregateOrder[q] \in AggregateIds
        /\ stored(q) # None => stored(q) \in Checkpoint /\ stored(q).aggregateId = AggregateOrder[q]
  <2>1. \A q \in DOMAIN AggregateOrder : AggregateOrder[q] \in AggregateIds
    BY OrderAssumption
  <2>2. \A a \in AggregateIds : aggregates[m.runId][a] \in Checkpoint \cup {None}
    BY <1>4 DEF ReplayInv, LogAndCursors, StoreTypeOK
  <2> QED
    BY <1>1, <1>4, <2>1, <2>2, CheckpointReaches
<1>6. CASE reading' = NotReading
  BY <1>6 DEF NotReading, CallAt, Reading
<1>7. CASE reading' = [reading EXCEPT
                         !.aggregates = @ \cup {stored(q) : q \in first},
                         !.aggregateCursor = next,
                         !.stage = IF rows # first THEN "aggregates" ELSE "done"]
  <2>0. /\ \A q \in rows : q \in DOMAIN AggregateOrder /\ q > reading.aggregateCursor /\ stored(q) # None
        /\ \A q \in DOMAIN AggregateOrder : q > reading.aggregateCursor /\ stored(q) # None => q \in rows
    OBVIOUS
  <2> HIDE DEF next, first, rows, stored
  <2>1. /\ reading'.cursor = reading.cursor
        /\ reading'.outputs = reading.outputs
        /\ reading'.aggregates = reading.aggregates \cup {stored(q) : q \in first}
        /\ reading'.aggregateCursor = next
        /\ reading'.stage = IF rows # first THEN "aggregates" ELSE "done"
    BY <1>0, <1>7 DEF Reading
  <2>2. \A q \in first : /\ q \in DOMAIN AggregateOrder /\ q > reading.aggregateCursor /\ q <= next
                         /\ stored(q) \in Checkpoint /\ stored(q).aggregateId = AggregateOrder[q]
    BY <1>3, <1>5, <2>0
  <2>3. reading' \in Reading
    <3>1. {stored(q) : q \in first} \subseteq Checkpoint
      BY <2>2
    <3>2. next \in 0 .. Len(AggregateOrder)
      BY <1>0, <1>3
    <3> QED
      BY <1>0, <1>7, <3>1, <3>2 DEF Reading
  <2>4. /\ pc'[Reader] # "new" /\ reading'.cursor \in Cursor
        /\ reading'.cursor.processedPosition <= loadCursor(ManifestOf[Reader])'.processedPosition
    BY <1>1, <2>1, ReadChangesNothing
  <2>5. \A c \in reading'.aggregates : \E q \in DOMAIN AggregateOrder :
           c.aggregateId = AggregateOrder[q] /\ q <= next
    <3>1. ASSUME NEW c \in reading.aggregates
          PROVE  \E q \in DOMAIN AggregateOrder : c.aggregateId = AggregateOrder[q] /\ q <= next
      <4>1. PICK q \in DOMAIN AggregateOrder :
              c.aggregateId = AggregateOrder[q] /\ q <= reading.aggregateCursor
        BY <1>1, <3>1
      <4>2. q <= next
        BY <1>0, <1>3, <4>1
      <4> QED
        BY <4>1, <4>2
    <3> QED
      BY <2>1, <2>2, <3>1
  \* One place: read before, read now, or not reached.
  <2>6. ASSUME NEW i \in 1 .. n, NEW q \in DOMAIN AggregateOrder,
               AggregateOrder[q] = Route(log[i]), q <= next \/ rows = first
        PROVE  ReadOnce(AggregateOrder[q], i)'
    <3>0. /\ stored(q) # None /\ stored(q).lastInputPosition >= i
          /\ stored(q).aggregateId = AggregateOrder[q]
      <4>1. i \in 1 .. loadCursor(m).processedPosition
        BY <1>2 DEF Collected
      <4>2. aggregates[m.runId][Route(log[i])] # None
            /\ aggregates[m.runId][Route(log[i])].lastInputPosition >= i
        BY <1>1, <1>4, <4>1, CheckpointReaches
      <4> QED
        BY <1>5, <2>6, <4>2 DEF stored
    <3>1. \A d \in reading.aggregates : d.aggregateId = AggregateOrder[q] => q <= reading.aggregateCursor
      BY <1>1, OrderAssumption
    <3>2. \A x \in first : stored(x).aggregateId = AggregateOrder[q] => x = q
      BY <2>2, OrderAssumption
    <3>3. CASE q <= reading.aggregateCursor
      <4>1. ReadOnce(Route(log[i]), i)
        BY <1>2, <2>6, <3>3 DEF Collected
      <4>2. PICK c \in reading.aggregates :
              /\ c.aggregateId = AggregateOrder[q] /\ c.lastInputPosition >= i
              /\ \A d \in reading.aggregates : d.aggregateId = AggregateOrder[q] => d = c
        BY <2>6, <4>1 DEF ReadOnce
      <4>3. \A x \in first : stored(x).aggregateId # AggregateOrder[q]
        BY <1>0, <2>2, <3>2, <3>3
      <4>4. c \in reading'.aggregates
            /\ \A d \in reading'.aggregates : d.aggregateId = AggregateOrder[q] => d = c
        BY <2>1, <4>2, <4>3
      <4> QED
        BY <4>2, <4>4 DEF ReadOnce
    <3>4. CASE ~ (q <= reading.aggregateCursor)
      <4>1. q \in first
        BY <1>0, <1>3, <2>0, <2>6, <3>0, <3>4
      <4>2. stored(q) \in reading'.aggregates
        BY <2>1, <4>1
      <4>3. ASSUME NEW d \in reading'.aggregates, d.aggregateId = AggregateOrder[q]
            PROVE  d = stored(q)
        BY <2>1, <3>1, <3>2, <3>4, <4>3
      <4>4. PICK c : c = stored(q)
        OBVIOUS
      <4> QED
        BY <3>0, <4>2, <4>3, <4>4 DEF ReadOnce
    <3> QED
      BY <3>3, <3>4
  <2>7. \A place : (\A q \in DOMAIN AggregateOrder : q <= place => q <= next \/ rows = first)
                      => Collected(n, place)'
    <3> SUFFICES ASSUME NEW place, \A q \in DOMAIN AggregateOrder : q <= place => q <= next \/ rows = first
                 PROVE  Collected(n, place)'
      OBVIOUS
    <3>1. (n \in reading.cursor.processedPosition .. loadCursor(ManifestOf[Reader]).processedPosition)'
      BY <1>2, <2>1, ReadChangesNothing DEF Collected
    <3>2. reading'.outputs = OutputsUpTo(n)'
      BY <1>2, <2>1, ReadChangesNothing DEF Collected
    <3>3. (\A i \in 1 .. n, q \in DOMAIN AggregateOrder :
             AggregateOrder[q] = Route(log[i]) /\ q <= place => ReadOnce(AggregateOrder[q], i))'
      BY <2>6, ReadChangesNothing
    <3>4. (\A i \in 1 .. n, q \in DOMAIN AggregateOrder :
             AggregateOrder[q] = Route(log[i]) /\ q <= place => ReadOnce(Route(log[i]), i))'
      BY <3>3, Zenon
    <3> QED
      BY <3>1, <3>2, <3>4 DEF Collected
  <2>8. CASE rows # first
    <3>1. PICK x : x = next
      OBVIOUS
    <3>2. Collected(n, x)'
      BY <2>7, <3>1
    <3>3. Collected(n, reading.aggregateCursor)'
      BY <2>1, <3>1, <3>2 DEF Collected
    <3> QED
      BY <2>1, <2>3, <2>4, <2>5, <2>8, <3>3 DEF CallAt
  <2>9. CASE rows = first
    <3>1. Collected(n, Len(AggregateOrder))'
      BY <2>7, <2>9
    <3> QED
      BY <2>1, <2>3, <2>4, <2>9, <3>1 DEF CallAt
  <2> QED
    BY <2>8, <2>9
<1> QED
  BY <1>6, <1>7 DEF SnapshotAggregates, readAggregatesAfter, PageOf

\* A step of the specification is a step of the processors or changes no store.
LEMMA SnapshotStepKernel ==
    ASSUME [SnapshotNext]_snapshotVars
    PROVE  [Next]_vars
BY DEF SnapshotNext, snapshotVars

\* The invariant survives every step.
LEMMA SnapshotInvStep == SnapshotInv /\ [SnapshotNext]_snapshotVars => SnapshotInv'
<1> SUFFICES ASSUME SnapshotInv, [SnapshotNext]_snapshotVars PROVE SnapshotInv'
  OBVIOUS
<1>1. KernelInv /\ LedgerInv /\ CallAt /\ [Next]_vars
  BY SnapshotStepKernel DEF SnapshotInv
<1>2. [SerialNext]_serialVars
  BY <1>1, StepSimulates
<1>3. KernelInv' /\ LedgerInv'
  BY <1>1, <1>2, KernelInvStep, LedgerStep
<1>4. ASSUME NotReading = reading'
      PROVE  CallAt'
  <2>1. Len(AggregateOrder) \in Nat
    BY OrderAssumption
  <2> QED
    BY <1>4, <2>1 DEF NotReading, CallAt, Reading
<1>5. ASSUME reading' = reading, pc'[Reader] # "new" \/ pc' = pc
      PROVE  CallAt'
  <2>1. CASE reading.stage = "idle"
    BY <1>1, <1>5, <2>1 DEF CallAt
  <2>2. CASE reading.stage # "idle"
    BY <1>1, <1>2, <1>5, <2>2, CallUndisturbed DEF CallAt
  <2> QED
    BY <2>1, <2>2
<1>6. CallAt'
  <2>1. CASE Next /\ reading' = IF pc'[Reader] = "new" THEN NotReading ELSE reading
    BY <1>4, <1>5, <2>1
  <2>2. CASE SnapshotStep /\ UNCHANGED vars
    BY <2>2, BeginCollects, OutputsCollected, AggregatesCollected DEF SnapshotStep
  <2>3. CASE UNCHANGED snapshotVars
    BY <1>5, <2>3 DEF snapshotVars, vars
  <2> QED
    BY <2>1, <2>2, <2>3 DEF SnapshotNext
<1> QED
  BY <1>3, <1>6 DEF SnapshotInv

\* What snapshot returns is one ordered picture of the run, for any number of
\* processors that go on working, whatever its pages cut and whatever crashes.
THEOREM SnapshotsAreOrdered == SnapshotSpec => []SnapshotOrdered
<1>1. SnapshotInit => SnapshotInv
  <2> SUFFICES ASSUME SnapshotInit PROVE SnapshotInv
    OBVIOUS
  <2>1. KernelInv /\ LedgerInv
    BY KernelInvInit, LedgerInit DEF SnapshotInit, Init
  <2>2. CallAt
    <3>1. Len(AggregateOrder) \in Nat
      BY OrderAssumption
    <3> QED
      BY <3>1 DEF SnapshotInit, NotReading, CallAt, Reading
  <2> QED
    BY <2>1, <2>2 DEF SnapshotInv
<1>2. SnapshotInv => SnapshotOrdered
  <2> SUFFICES ASSUME SnapshotInv, reading.stage = "done"
               PROVE  \E n \in reading.cursor.processedPosition
                             .. loadCursor(ManifestOf[Reader]).processedPosition :
                        /\ reading.outputs = OutputsUpTo(n)
                        /\ \A i \in 1 .. n : ReadOnce(Route(log[i]), i)
    BY DEF SnapshotOrdered
  <2> PICK m \in Manifest :
         /\ ManifestOf[Reader] = m /\ RunRead = m.runId /\ m.runId \in RunIds
         /\ loadCursor(m) \in Cursor /\ loadCursor(m).processedPosition \in Nat
         /\ pc[Reader] # "new" => runs[m.runId] = m
         /\ Len(outputs) \in Nat /\ DOMAIN outputs = 1 .. Len(outputs)
         /\ Len(AggregateOrder) \in Nat /\ DOMAIN AggregateOrder = 1 .. Len(AggregateOrder)
    BY ReaderTyped
  <2>1. PICK n \in Nat : Collected(n, Len(AggregateOrder))
    BY DEF SnapshotInv, CallAt
  <2>2. runs[m.runId] = m /\ ReplayInv
    BY DEF SnapshotInv, CallAt, LedgerInv
  <2>3. ASSUME NEW i \in 1 .. n
        PROVE  ReadOnce(Route(log[i]), i)
    <3>1. i \in 1 .. loadCursor(m).processedPosition
      BY <2>1 DEF Collected
    <3>2. Route(log[i]) \in AggregateIds
      BY <2>2, <3>1, CheckpointReaches
    <3>3. PICK q \in DOMAIN AggregateOrder : AggregateOrder[q] = Route(log[i])
      BY <3>2, OrderAssumption
    <3> QED
      BY <2>1, <3>3 DEF Collected
  <2> QED
    BY <2>1, <2>3 DEF Collected
<1> QED
  BY <1>1, <1>2, SnapshotInvStep, PTL DEF SnapshotSpec

=============================================================================
