---------------------------- MODULE StreamProofs ----------------------------
(***************************************************************************)
(* Proofs about any stream of events on one earnings cluster: the state    *)
(* stays one that parseState accepts, its pending timers stay alive, no    *)
(* intent is asked for twice, every source is analysed, and what an        *)
(* analysis was asked about stays frozen.                                  *)
(*                                                                         *)
(* The first half says what the reducer may return for any state and       *)
(* event: a transition is quiet, or it opens the cluster, takes a source,  *)
(* answers a timer or moves one branch.  The second half never looks into  *)
(* the reducer: its invariant accounts for every intent of the ledger by a *)
(* part of the state.                                                      *)
(*                                                                         *)
(* The last part is about the analysis loop, which feeds the reducer such  *)
(* a stream through the delivery table, the workers and the queue: nothing *)
(* that the cluster waits for is lost on the way.                          *)
(***************************************************************************)
EXTENDS ClusterStream, AnalysisLoop, FiniteSetTheorems, TLAPS

-----------------------------------------------------------------------------
(* Parts of a cluster.                                                     *)

LEMMA KindFacts ==
    /\ ReleaseKinds \subseteq SourceKinds
    /\ \A kind : phaseFor(kind) \in Phases /\ phaseFor(kind) # "first_source"
    /\ "first_source" \in Phases /\ "source_confirmation" \in Phases
    /\ "mirror" \in TimerTypes /\ "lifecycle" \in TimerTypes
  BY DEF ReleaseKinds, SourceKinds, phaseFor, Phases, TimerTypes

LEMMA KeyTypes ==
    /\ \A t \in TimerTypes : TimerKey(t) \in TimerKeys
    /\ \A t \in TimerTypes, n \in Nat : RecoveryKey(t, n) \in TimerKeys
    /\ \A p \in Phases, i \in Seq(Nat) : BranchKey(p, i) \in BranchKeys
  BY DEF TimerKey, RecoveryKey, BranchKey, TimerKeys, BranchKeys

LEMMA ClusterFields ==
    ASSUME NEW c \in Cluster
    PROVE  /\ c.status \in {"open", "finalized"} /\ c.lifecycleEndsAtMs \in Nat
           /\ c.sources \in Seq(Source) /\ Len(c.sources) \in Nat
           /\ DOMAIN c.sources = 1 .. Len(c.sources)
           /\ c.branches \in Seq(Branch) /\ Len(c.branches) \in Nat
           /\ DOMAIN c.branches = 1 .. Len(c.branches)
           /\ \A i \in DOMAIN c.branches : c.branches[i] \in Branch
           /\ \A i \in DOMAIN c.sources : c.sources[i] \in Source
           /\ c.timers \in [TimerTypes -> Timer]
           /\ c # Null
  BY ReducerAssumption DEF Cluster

LEMMA InputsType ==
    ASSUME NEW sources \in Seq(Source)
    PROVE  /\ analysisInputs(sources) \in Seq(Nat)
           /\ Len(analysisInputs(sources)) = Len(sources)
           /\ \A k \in 1 .. Len(sources) : analysisInputs(sources)[k] = sources[k].eventId
<1>1. DOMAIN sources = 1 .. Len(sources) /\ Len(sources) \in Nat
  OBVIOUS
<1>2. ASSUME NEW k \in 1 .. Len(sources)
      PROVE  sources[k].eventId \in Nat
  <2>1. sources[k] \in Source
    BY <1>1
  <2> QED BY <2>1 DEF Source
<1> QED BY <1>1, <1>2 DEF analysisInputs

LEMMA DraftFields ==
    ASSUME NEW sources \in Seq(Source), NEW p \in Phases
    PROVE  LET b == analysisDraft(sources, p)
           IN  /\ b \in Branch /\ b.phase = p /\ b.inputs = analysisInputs(sources)
               /\ b.jobId = BranchKey(p, analysisInputs(sources)) /\ b.status = "pending"
               /\ b.expectedFencingToken = 0 /\ b.expectedAttempt = 0
<1>1. analysisInputs(sources) \in Seq(Nat)
  BY InputsType
<1>2. BranchKey(p, analysisInputs(sources)) \in BranchKeys
  BY <1>1, KeyTypes
<1> QED BY <1>1, <1>2 DEF analysisDraft, Branch

-----------------------------------------------------------------------------
(* The updates of a cluster.                                               *)

LEMMA WithSourceFields ==
    ASSUME NEW c \in Cluster, NEW source \in Source
    PROVE  LET d == WithSource(c, source)
           IN  /\ d \in Cluster /\ d.sources = Append(c.sources, source) /\ d.branches = c.branches
               /\ d.timers = c.timers /\ d.status = c.status
               /\ d.lifecycleEndsAtMs = c.lifecycleEndsAtMs
<1>1. Append(c.sources, source) \in Seq(Source)
  BY ClusterFields
<1> QED BY <1>1 DEF WithSource, Cluster

LEMMA WithBranchFields ==
    ASSUME NEW c \in Cluster, NEW b \in Branch
    PROVE  LET d == WithBranch(c, b)
           IN  /\ d \in Cluster /\ d.branches = Append(c.branches, b) /\ d.sources = c.sources
               /\ d.timers = c.timers /\ d.status = c.status
               /\ d.lifecycleEndsAtMs = c.lifecycleEndsAtMs
<1>1. Append(c.branches, b) \in Seq(Branch)
  BY ClusterFields
<1> QED BY <1>1 DEF WithBranch, Cluster

LEMMA FiredFields ==
    ASSUME NEW c \in Cluster, NEW t \in TimerTypes
    PROVE  LET d == Fired(c, t)
           IN  /\ d \in Cluster /\ d.branches = c.branches /\ d.sources = c.sources
               /\ d.status = c.status /\ d.lifecycleEndsAtMs = c.lifecycleEndsAtMs
               /\ d.timers[t].status = "fired"
               /\ \A u \in TimerTypes : d.timers[u].jobId = c.timers[u].jobId /\ d.timers[u].due = c.timers[u].due
               /\ \A u \in TimerTypes \ {t} : d.timers[u] = c.timers[u]
<1> DEFINE row == [c.timers[t] EXCEPT !.status = "fired"]
           timers == [c.timers EXCEPT ![t] = row]
<1>1. c.timers \in [TimerTypes -> Timer]
  BY ClusterFields
<1>2. row \in Timer /\ row.jobId = c.timers[t].jobId /\ row.due = c.timers[t].due /\ row.status = "fired"
  BY <1>1 DEF Timer
<1> HIDE DEF row
<1>3. /\ timers \in [TimerTypes -> Timer] /\ timers[t] = row
      /\ \A u \in TimerTypes \ {t} : timers[u] = c.timers[u]
  BY <1>1, <1>2
<1>4. Fired(c, t) = [c EXCEPT !.timers = timers]
  BY DEF Fired, row, Cluster
<1> HIDE DEF timers
<1>5. /\ Fired(c, t) \in Cluster /\ Fired(c, t).branches = c.branches /\ Fired(c, t).sources = c.sources
      /\ Fired(c, t).status = c.status /\ Fired(c, t).lifecycleEndsAtMs = c.lifecycleEndsAtMs
      /\ Fired(c, t).timers = timers
  BY <1>3, <1>4 DEF Cluster
<1> QED BY <1>2, <1>3, <1>5

LEMMA RescheduledFields ==
    ASSUME NEW c \in Cluster, NEW t \in TimerTypes, NEW key \in TimerKeys
    PROVE  LET d == Rescheduled(c, t, key)
           IN  /\ d \in Cluster /\ d.branches = c.branches /\ d.sources = c.sources
               /\ d.status = c.status /\ d.lifecycleEndsAtMs = c.lifecycleEndsAtMs
               /\ d.timers[t].jobId = key
               /\ \A u \in TimerTypes : d.timers[u].status = c.timers[u].status /\ d.timers[u].due = c.timers[u].due
               /\ \A u \in TimerTypes \ {t} : d.timers[u] = c.timers[u]
<1> DEFINE row == [c.timers[t] EXCEPT !.jobId = key]
           timers == [c.timers EXCEPT ![t] = row]
<1>1. c.timers \in [TimerTypes -> Timer]
  BY ClusterFields
<1>2. row \in Timer /\ row.jobId = key /\ row.due = c.timers[t].due /\ row.status = c.timers[t].status
  BY <1>1 DEF Timer
<1> HIDE DEF row
<1>3. /\ timers \in [TimerTypes -> Timer] /\ timers[t] = row
      /\ \A u \in TimerTypes \ {t} : timers[u] = c.timers[u]
  BY <1>1, <1>2
<1>4. Rescheduled(c, t, key) = [c EXCEPT !.timers = timers]
  BY DEF Rescheduled, row, Cluster
<1> HIDE DEF timers
<1>5. /\ Rescheduled(c, t, key) \in Cluster /\ Rescheduled(c, t, key).branches = c.branches
      /\ Rescheduled(c, t, key).sources = c.sources /\ Rescheduled(c, t, key).status = c.status
      /\ Rescheduled(c, t, key).lifecycleEndsAtMs = c.lifecycleEndsAtMs
      /\ Rescheduled(c, t, key).timers = timers
  BY <1>3, <1>4 DEF Cluster
<1> QED BY <1>2, <1>3, <1>5

LEMMA FinalizedFields ==
    ASSUME NEW c \in Cluster, NEW nowMs \in Nat
    PROVE  LET d == Finalized(c, nowMs)
           IN  /\ d \in Cluster /\ d.branches = c.branches /\ d.sources = c.sources
               /\ d.timers = c.timers /\ d.lifecycleEndsAtMs = c.lifecycleEndsAtMs
               /\ d.status = "finalized"
  BY DEF Finalized, Cluster

(* One branch of a cluster becomes b.                                      *)
BranchIs(c, d, i, b) ==
    /\ d \in Cluster /\ d.sources = c.sources /\ d.timers = c.timers /\ d.status = c.status
    /\ d.lifecycleEndsAtMs = c.lifecycleEndsAtMs
    /\ DOMAIN d.branches = DOMAIN c.branches /\ d.branches[i] = b
    /\ \A j \in DOMAIN c.branches \ {i} : d.branches[j] = c.branches[j]

LEMMA BranchSet ==
    ASSUME NEW c \in Cluster, NEW i \in DOMAIN c.branches, NEW b \in Branch
    PROVE  BranchIs(c, [c EXCEPT !.branches = [c.branches EXCEPT ![i] = b]], i, b)
<1> DEFINE branches == [c.branches EXCEPT ![i] = b]
<1>1. c.branches \in Seq(Branch)
  BY ClusterFields
<1>2. /\ branches \in Seq(Branch) /\ DOMAIN branches = DOMAIN c.branches /\ branches[i] = b
      /\ \A j \in DOMAIN c.branches \ {i} : branches[j] = c.branches[j]
  BY <1>1
<1> HIDE DEF branches
<1> QED BY <1>2 DEF BranchIs, Cluster, branches

LEMMA ExpectingFields ==
    ASSUME NEW c \in Cluster, NEW i \in DOMAIN c.branches, NEW e, e.attempt \in Nat, e.fencingToken \in Nat
    PROVE  LET b == [c.branches[i] EXCEPT !.expectedAttempt = e.attempt, !.expectedFencingToken = e.fencingToken]
           IN  b \in Branch /\ BranchIs(c, Expecting(c, i, e), i, b)
<1> DEFINE b == [c.branches[i] EXCEPT !.expectedAttempt = e.attempt, !.expectedFencingToken = e.fencingToken]
<1>1. b \in Branch
  <2>1. c.branches[i] \in Branch
    BY ClusterFields
  <2> QED BY <2>1 DEF Branch
<1>2. Expecting(c, i, e) = [c EXCEPT !.branches = [c.branches EXCEPT ![i] = b]]
  BY ClusterFields DEF Expecting, Cluster
<1> HIDE DEF b
<1> QED BY <1>1, <1>2, BranchSet DEF b

LEMMA WithResultFields ==
    ASSUME NEW c \in Cluster, NEW i \in DOMAIN c.branches, NEW e, e.eventId \in Nat,
           NEW status \in {"succeeded", "failed"}
    PROVE  LET b == [c.branches[i] EXCEPT !.status = status, !.resultEventId = e.eventId]
           IN  b \in Branch /\ BranchIs(c, WithResult(c, i, e, status), i, b)
<1> DEFINE b == [c.branches[i] EXCEPT !.status = status, !.resultEventId = e.eventId]
<1>1. b \in Branch
  <2>1. c.branches[i] \in Branch
    BY ClusterFields
  <2>2. status \in {"pending", "succeeded", "failed"}
    OBVIOUS
  <2> QED BY <2>1, <2>2 DEF Branch
<1>2. WithResult(c, i, e, status) = [c EXCEPT !.branches = [c.branches EXCEPT ![i] = b]]
  BY ClusterFields DEF WithResult, Cluster
<1> HIDE DEF b
<1> QED BY <1>1, <1>2, BranchSet DEF b

-----------------------------------------------------------------------------
(* The size of a state.                                                    *)

(* A branch of a cluster references finitely many sources.                 *)
LEMMA InputsOf ==
    ASSUME NEW branches \in Seq(Branch), NEW i \in DOMAIN branches
    PROVE  branches[i].inputs \in Seq(Nat) /\ Len(branches[i].inputs) \in Nat
           /\ DOMAIN branches[i].inputs = 1 .. Len(branches[i].inputs)
<1>1. branches[i] \in Branch
  OBVIOUS
<1>2. branches[i].inputs \in Seq(Nat)
  BY <1>1 DEF Branch
<1> QED BY <1>2

LEMMA ReferencesFinite ==
    ASSUME NEW branches \in Seq(Branch)
    PROVE  IsFiniteSet(References(branches)) /\ Cardinality(References(branches)) \in Nat
<1> DEFINE Of(i) == {i} \X DOMAIN branches[i].inputs
           F == {Of(i) : i \in DOMAIN branches}
<1>1. IsFiniteSet(DOMAIN branches)
  <2>1. DOMAIN branches = 1 .. Len(branches) /\ Len(branches) \in Int
    OBVIOUS
  <2> QED BY <2>1, FS_Interval
<1>2. \A T \in F : IsFiniteSet(T)
  <2> SUFFICES ASSUME NEW i \in DOMAIN branches PROVE IsFiniteSet(Of(i))
    OBVIOUS
  <2>1. Len(branches[i].inputs) \in Int /\ DOMAIN branches[i].inputs = 1 .. Len(branches[i].inputs)
    BY InputsOf
  <2>2. IsFiniteSet({i})
    BY FS_Singleton
  <2>3. IsFiniteSet(DOMAIN branches[i].inputs)
    BY <2>1, FS_Interval
  <2> QED BY <2>2, <2>3, FS_Product
<1>3. IsFiniteSet(F)
  <2> DEFINE f == [i \in DOMAIN branches |-> Of(i)]
  <2>1. f \in Surjection(DOMAIN branches, F)
    BY DEF Surjection
  <2> HIDE DEF f, F
  <2> QED BY <1>1, <2>1, FS_Surjection
<1>4. IsFiniteSet(UNION F)
  <2> HIDE DEF F
  <2> QED BY <1>2, <1>3, FS_UNION
<1>5. IsFiniteSet(References(branches))
  BY <1>4 DEF References
<1> QED BY <1>5, FS_CardinalityType

(* Another branch adds its inputs.                                         *)
LEMMA ReferencesGrow ==
    ASSUME NEW branches \in Seq(Branch), NEW b \in Branch
    PROVE  Cardinality(References(Append(branches, b)))
             = Cardinality(References(branches)) + Len(b.inputs)
<1> DEFINE n == Len(branches)
           more == Append(branches, b)
           added == {n + 1} \X DOMAIN b.inputs
<1>1. n \in Nat /\ DOMAIN branches = 1 .. n
  OBVIOUS
<1>2. DOMAIN more = 1 .. (n + 1) /\ more[n + 1] = b /\ \A i \in 1 .. n : more[i] = branches[i]
  OBVIOUS
<1>3. b.inputs \in Seq(Nat) /\ Len(b.inputs) \in Nat /\ DOMAIN b.inputs = 1 .. Len(b.inputs)
  <2>1. b.inputs \in Seq(Nat)
    BY DEF Branch
  <2> QED BY <2>1
<1> HIDE DEF n, more
<1>4. References(more) = References(branches) \cup added
  <2>1. ASSUME NEW x \in References(more) PROVE x \in References(branches) \cup added
    <3>1. PICK i \in 1 .. (n + 1) : x \in {i} \X DOMAIN more[i].inputs
      BY <1>2 DEF References
    <3>2. CASE i = n + 1
      BY <3>1, <3>2, <1>2
    <3>3. CASE i # n + 1
      <4>1. i \in 1 .. n
        BY <3>3, <1>1
      <4>2. x \in {i} \X DOMAIN branches[i].inputs
        BY <3>1, <4>1, <1>2
      <4> QED BY <4>1, <4>2, <1>1 DEF References
    <3> QED BY <3>2, <3>3
  <2>2. ASSUME NEW x \in References(branches) PROVE x \in References(more)
    <3>1. PICK i \in 1 .. n : x \in {i} \X DOMAIN branches[i].inputs
      BY <1>1 DEF References
    <3>2. i \in 1 .. (n + 1) /\ more[i] = branches[i]
      BY <1>1, <1>2
    <3> QED BY <3>1, <3>2, <1>2 DEF References
  <2>3. ASSUME NEW x \in added PROVE x \in References(more)
    <3>1. n + 1 \in DOMAIN more /\ more[n + 1] = b
      BY <1>1, <1>2
    <3> QED BY <3>1 DEF References
  <2> QED BY <2>1, <2>2, <2>3
<1>5. References(branches) \cap added = {}
  <2> SUFFICES ASSUME NEW x \in References(branches), x \in added PROVE FALSE
    OBVIOUS
  <2>1. PICK i \in 1 .. n : x \in {i} \X DOMAIN branches[i].inputs
    BY <1>1 DEF References
  <2>2. x[1] = i /\ x[1] = n + 1
    BY <2>1
  <2> QED BY <2>2, <1>1
<1>6. IsFiniteSet(added) /\ Cardinality(added) = Len(b.inputs)
  <2>1. IsFiniteSet({n + 1}) /\ Cardinality({n + 1}) = 1
    BY FS_Singleton
  <2>2. IsFiniteSet(DOMAIN b.inputs) /\ Cardinality(DOMAIN b.inputs) = Len(b.inputs)
    BY <1>3, FS_Interval
  <2>3. IsFiniteSet(added) /\ Cardinality(added) = Cardinality({n + 1}) * Cardinality(DOMAIN b.inputs)
    BY <2>1, <2>2, FS_Product
  <2> QED BY <2>1, <2>2, <2>3, <1>3
<1>7. IsFiniteSet(References(branches)) /\ Cardinality(References(branches)) \in Nat
  BY ReferencesFinite
<1> HIDE DEF added
<1>8. /\ Cardinality(References(branches) \cup added)
           = Cardinality(References(branches)) + Cardinality(added) - Cardinality(References(branches) \cap added)
  BY <1>6, <1>7, FS_Union
<1>9. Cardinality(References(branches) \cap added) = 0
  BY <1>5, FS_EmptySet
<1> QED BY <1>3, <1>4, <1>6, <1>7, <1>8, <1>9 DEF more

(* The size counts sources and references, and nothing else.               *)
LEMMA SizeIs ==
    ASSUME NEW s, s.cluster \in Cluster
    PROVE  /\ SizeOf(s) = Len(s.cluster.sources) + Cardinality(References(s.cluster.branches))
           /\ SizeOf(s) \in Nat
<1>1. s.cluster # Null /\ Len(s.cluster.sources) \in Nat /\ s.cluster.branches \in Seq(Branch)
  BY ClusterFields
<1>2. Cardinality(References(s.cluster.branches)) \in Nat
  BY <1>1, ReferencesFinite
<1> QED BY <1>1, <1>2 DEF SizeOf

(* Branches with the same inputs are of the same size.                     *)
LEMMA SameReferences ==
    ASSUME NEW a, NEW b, DOMAIN a = DOMAIN b, \A i \in DOMAIN a : a[i].inputs = b[i].inputs
    PROVE  References(a) = References(b)
  BY DEF References

-----------------------------------------------------------------------------
(* Transitions: a quiet one leaves the cluster alone and asks for nothing, *)
(* any other one moves to cluster c and asks for jobs and outbox.          *)

Quiet(s, t) ==
    t.state \in State /\ t.state.cluster = s.cluster /\ t.jobs = <<>> /\ t.outbox = <<>>

Moves(t, c, jobs, outbox) ==
    /\ t.state \in State /\ t.state.cluster = c /\ t.jobs = jobs /\ t.outbox = outbox
    /\ SizeOf(t.state) <= MaxStateSize

LEMMA StateFields ==
    ASSUME NEW s \in State
    PROVE  s.cluster \in Cluster \cup {Null} /\ s.rejectionCount \in Nat
  BY DEF State

LEMMA StateSet ==
    ASSUME NEW s \in State, NEW c \in Cluster
    PROVE  [s EXCEPT !.cluster = c] \in State /\ [s EXCEPT !.cluster = c].cluster = c
  BY DEF State

LEMMA EffectFields ==
    ASSUME NEW s, NEW decisions, NEW jobs, NEW outbox
    PROVE  LET t == Effects(s, decisions, jobs, outbox)
           IN  t.state = s /\ t.jobs = jobs /\ t.outbox = outbox
  BY DEF Effects

LEMMA QuietOnes ==
    ASSUME NEW s \in State
    PROVE  /\ Quiet(s, rejected(s)) /\ Quiet(s, rejectedWithoutStateChange(s))
           /\ \A d : Quiet(s, noEffects(s, d))
<1>1. \A d : Quiet(s, noEffects(s, d))
  BY EffectFields DEF noEffects, Quiet
<1>2. Quiet(s, rejectedWithoutStateChange(s))
  BY <1>1 DEF rejectedWithoutStateChange
<1>3. Quiet(s, rejected(s))
  <2> DEFINE r == [s EXCEPT !.rejectionCount = @ + 1]
  <2>1. s.rejectionCount + 1 \in Nat
    BY StateFields
  <2>2. r \in State /\ r.cluster = s.cluster
    BY <2>1 DEF State
  <2> HIDE DEF r
  <2>3. Quiet(s, noEffects(r, "kernel.event.rejected"))
    BY <2>2, EffectFields DEF noEffects, Quiet
  <2> QED BY <2>3 DEF rejected, rejectedWithoutStateChange, r
<1> QED BY <1>1, <1>2, <1>3

(* What the size limit makes of a transition.                              *)
LEMMA ProjectedQuiet ==
    ASSUME NEW s \in State, NEW u, Quiet(s, u)
    PROVE  Quiet(s, projectedTransition(s, u))
  BY QuietOnes DEF projectedTransition

LEMMA ProjectedMove ==
    ASSUME NEW s \in State, NEW c \in Cluster, NEW jobs, NEW outbox, NEW u,
           u.state = [s EXCEPT !.cluster = c], u.jobs = jobs, u.outbox = outbox
    PROVE  LET t == projectedTransition(s, u)
           IN  \/ Moves(t, c, jobs, outbox)
               \/ Quiet(s, t) /\ ~(SizeOf(u.state) <= MaxStateSize)
<1>1. u.state \in State /\ u.state.cluster = c
  BY StateSet
<1>2. CASE SizeOf(u.state) <= MaxStateSize
  BY <1>1, <1>2 DEF projectedTransition, Moves
<1>3. CASE ~(SizeOf(u.state) <= MaxStateSize)
  BY <1>3, QuietOnes DEF projectedTransition
<1> QED BY <1>2, <1>3

-----------------------------------------------------------------------------
(* A source.                                                               *)

SourceOf(e) == [eventId |-> e.eventId, kind |-> e.kind, artifact |-> e.artifact]

Opening(e) ==
    <<Job(TimerKey("mirror"), e.at + mirrorDebounceMs),
      Job(TimerKey("lifecycle"), e.at + lifecycleMs),
      Job(BranchKey("first_source", <<e.eventId>>), e.at)>>

JoinBranch(c, e) == analysisDraft(Append(c.sources, SourceOf(e)), phaseFor(e.kind))

LEMMA SourceFields ==
    ASSUME NEW e, e.eventId \in Nat, e.kind \in SourceKinds, e.artifact \in Artifacts
    PROVE  /\ SourceOf(e) \in Source /\ SourceOf(e).eventId = e.eventId
           /\ SourceOf(e).kind = e.kind /\ SourceOf(e).artifact = e.artifact
  BY DEF SourceOf, Source

LEMMA NewClusterFields ==
    ASSUME NEW e, NEW source \in Source, e.at \in Nat
    PROVE  LET c == newCluster(e, source)
           IN  /\ c \in Cluster /\ c.sources = <<source>>
               /\ c.branches = <<analysisDraft(<<source>>, "first_source")>>
               /\ \A t \in TimerTypes : c.timers[t].jobId = TimerKey(t)
<1> DEFINE b == analysisDraft(<<source>>, "first_source")
           m == firstTimer("mirror", e.at + mirrorDebounceMs)
           l == firstTimer("lifecycle", e.at + lifecycleMs)
           timers == [mirror |-> m, lifecycle |-> l]
<1>1. e.at + mirrorDebounceMs \in Nat /\ e.at + lifecycleMs \in Nat
  BY ReducerAssumption
<1>2. <<source>> \in Seq(Source) /\ b \in Branch
  <2>1. <<source>> \in Seq(Source)
    OBVIOUS
  <2>2. "first_source" \in Phases
    BY KindFacts
  <2> QED BY <2>1, <2>2, DraftFields
<1>3. m \in Timer /\ m.jobId = TimerKey("mirror")
  BY <1>1, KeyTypes, KindFacts DEF firstTimer, Timer
<1>4. l \in Timer /\ l.jobId = TimerKey("lifecycle")
  BY <1>1, KeyTypes, KindFacts DEF firstTimer, Timer
<1> HIDE DEF m, l, b
<1>5. timers["mirror"] = m /\ timers["lifecycle"] = l /\ timers \in [{"mirror", "lifecycle"} -> Timer]
  BY <1>3, <1>4
<1>6. timers \in [TimerTypes -> Timer] /\ \A t \in TimerTypes : timers[t].jobId = TimerKey(t)
  BY <1>3, <1>4, <1>5 DEF TimerTypes
<1> HIDE DEF timers
<1>7. <<b>> \in Seq(Branch)
  BY <1>2
<1>8. newCluster(e, source) =
        [status |-> "open", lifecycleEndsAtMs |-> e.at + lifecycleMs, finalizedAtMs |-> Null,
         sources |-> <<source>>, branches |-> <<b>>, timers |-> timers]
  BY DEF newCluster, b, timers, m, l
<1> QED BY <1>1, <1>2, <1>6, <1>7, <1>8 DEF Cluster, b

(* A source opens the cluster, ...                                         *)
Opens(s, e) ==
    /\ s.cluster = Null
    /\ Moves(apply(s, e), newCluster(e, SourceOf(e)), Opening(e), <<Job(<<"first-source">>, 0)>>)

(* ... joins it without an analysis of its own, ...                        *)
Joins(s, e) ==
    /\ s.cluster \in Cluster /\ ~Closed(s.cluster, e.at) /\ Len(s.cluster.sources) < maxSourcesPerCluster
    /\ \/ SameArtifact(s.cluster, SourceOf(e))
       \/ Debounced(s.cluster, SourceOf(e), e.at)
       \/ \E i \in DOMAIN s.cluster.branches : s.cluster.branches[i].jobId = JoinBranch(s.cluster, e).jobId
    /\ Moves(apply(s, e), WithSource(s.cluster, SourceOf(e)), <<>>, <<>>)

(* ... or joins it with one.                                               *)
JoinsAnalysed(s, e) ==
    /\ s.cluster \in Cluster /\ ~Closed(s.cluster, e.at) /\ Len(s.cluster.sources) < maxSourcesPerCluster
    /\ Len(s.cluster.branches) < maxAnalysisBranches
    /\ \A i \in DOMAIN s.cluster.branches : s.cluster.branches[i].jobId # JoinBranch(s.cluster, e).jobId
    /\ Moves(apply(s, e), WithBranch(WithSource(s.cluster, SourceOf(e)), JoinBranch(s.cluster, e)),
             <<Job(JoinBranch(s.cluster, e).jobId, e.at)>>, <<>>)

LEMMA JoinFields ==
    ASSUME NEW c \in Cluster, NEW e, SourceOf(e) \in Source
    PROVE  /\ Append(c.sources, SourceOf(e)) \in Seq(Source) /\ JoinBranch(c, e) \in Branch
           /\ WithSource(c, SourceOf(e)) \in Cluster
           /\ WithBranch(WithSource(c, SourceOf(e)), JoinBranch(c, e)) \in Cluster
<1>1. Append(c.sources, SourceOf(e)) \in Seq(Source) /\ WithSource(c, SourceOf(e)) \in Cluster
  BY ClusterFields, WithSourceFields
<1>2. JoinBranch(c, e) \in Branch
  <2>1. phaseFor(e.kind) \in Phases
    BY KindFacts
  <2> QED BY <1>1, <2>1, DraftFields DEF JoinBranch
<1> QED BY <1>1, <1>2, WithBranchFields

LEMMA SourceApplied ==
    ASSUME NEW s \in State, NEW e, e.type = "source", e.eventId \in Nat, e.at \in Nat,
           e.kind \in SourceKinds, e.artifact \in Artifacts
    PROVE  Quiet(s, apply(s, e)) \/ Opens(s, e) \/ Joins(s, e) \/ JoinsAnalysed(s, e)
<1> DEFINE u == sourceObserved(s, e)
           c == s.cluster
           src == SourceOf(e)
<1>1. apply(s, e) = projectedTransition(s, u)
  BY DEF apply
<1>2. src \in Source
  BY SourceFields
<1>3. CASE Quiet(s, u)
  BY <1>1, <1>3, ProjectedQuiet
<1>4. CASE c = Null /\ ~Quiet(s, u)
  <2>1. u = openCluster(s, e, src) /\ openCluster(s, e, src) # rejected(s)
    BY <1>4, QuietOnes DEF sourceObserved, SourceOf
  <2>2. u = Effects([s EXCEPT !.cluster = newCluster(e, src)], <<"first-source-ready">>,
                    Opening(e), <<Job(<<"first-source">>, 0)>>)
    BY <2>1, <1>2, SourceFields DEF openCluster, Opening
  <2>3. newCluster(e, src) \in Cluster
    BY <1>2, NewClusterFields
  <2>4. u.state = [s EXCEPT !.cluster = newCluster(e, src)] /\ u.jobs = Opening(e)
        /\ u.outbox = <<Job(<<"first-source">>, 0)>>
    BY <2>2, EffectFields
  <2> HIDE DEF u
  <2>5. \/ Moves(projectedTransition(s, u), newCluster(e, src), Opening(e), <<Job(<<"first-source">>, 0)>>)
        \/ Quiet(s, projectedTransition(s, u))
    BY <2>3, <2>4, ProjectedMove
  <2> QED BY <1>1, <1>4, <2>5 DEF Opens
<1>5. CASE c # Null /\ ~Quiet(s, u)
  <2> DEFINE d == WithSource(c, src)
             joined == [s EXCEPT !.cluster = d]
             b == JoinBranch(c, e)
             more == WithBranch(d, b)
  <2>1. u = joinCluster(s, e, src)
    BY <1>5, QuietOnes DEF sourceObserved, SourceOf
  <2>2. c \in Cluster
    BY <1>5, StateFields
  <2>3. d \in Cluster /\ more \in Cluster /\ d.sources = Append(c.sources, src)
    BY <1>2, <2>2, JoinFields, WithSourceFields
  <2>4. joined.cluster = d /\ [joined EXCEPT !.cluster = WithBranch(@, b)] = [s EXCEPT !.cluster = more]
    BY <2>3 DEF State
  <2>5. analysisDraft(joined.cluster.sources, phaseFor(src.kind)) = b
    BY <2>3, <2>4, SourceFields DEF JoinBranch
  <2>6. /\ ~Closed(c, e.at) /\ ~(Len(c.sources) >= maxSourcesPerCluster)
        /\ \/ /\ \/ SameArtifact(c, src) \/ Debounced(c, src, e.at)
                 \/ \E i \in DOMAIN c.branches : c.branches[i].jobId = b.jobId
              /\ \E x : u = noEffects(joined, x)
           \/ /\ ~(Len(c.branches) >= maxAnalysisBranches)
              /\ ~\E i \in DOMAIN c.branches : c.branches[i].jobId = b.jobId
              /\ u = Effects([joined EXCEPT !.cluster = WithBranch(@, b)], <<"joined">>,
                             <<Job(b.jobId, e.at)>>, <<>>)
    <3> HIDE DEF b, joined, d
    <3>1. u = IF Closed(c, e.at) THEN noEffects(s, "after-lifecycle")
              ELSE IF Len(c.sources) >= maxSourcesPerCluster THEN rejectedWithoutStateChange(s)
              ELSE IF SameArtifact(c, src) THEN noEffects(joined, "mirror-duplicate")
              ELSE IF Debounced(c, src, e.at) THEN noEffects(joined, "mirror-debounced")
              ELSE IF Len(c.branches) >= maxAnalysisBranches THEN rejectedWithoutStateChange(s)
              ELSE IF \E i \in DOMAIN c.branches : c.branches[i].jobId = b.jobId
                   THEN noEffects(joined, "analysis-branch-duplicate")
              ELSE Effects([joined EXCEPT !.cluster = WithBranch(@, b)], <<"joined">>,
                           <<Job(b.jobId, e.at)>>, <<>>)
      BY <2>1, <2>5 DEF joinCluster, joined, d
    <3> HIDE DEF u
    <3> QED BY <3>1, <1>5, QuietOnes
  <2>7. /\ Len(c.sources) \in Nat /\ Len(c.branches) \in Nat
        /\ maxSourcesPerCluster \in Nat /\ maxAnalysisBranches \in Nat
    BY <2>2, ClusterFields, ReducerAssumption
  <2>8. Len(c.sources) < maxSourcesPerCluster
    BY <2>6, <2>7
  <2>9. CASE \E x : u = noEffects(joined, x)
    <3>1. u.state = [s EXCEPT !.cluster = d] /\ u.jobs = <<>> /\ u.outbox = <<>>
      BY <2>9, EffectFields DEF noEffects
    <3> HIDE DEF u, d, joined, b, more
    <3>2. Moves(projectedTransition(s, u), d, <<>>, <<>>) \/ Quiet(s, projectedTransition(s, u))
      BY <2>3, <3>1, ProjectedMove
    <3>3. CASE Quiet(s, projectedTransition(s, u))
      BY <3>3, <1>1
    <3>4. CASE \/ SameArtifact(c, src) \/ Debounced(c, src, e.at)
               \/ \E i \in DOMAIN c.branches : c.branches[i].jobId = b.jobId
      BY <3>2, <3>4, <1>1, <2>2, <2>6, <2>8 DEF Joins, d, b
    <3>5. CASE u = Effects([joined EXCEPT !.cluster = WithBranch(@, b)], <<"joined">>,
                           <<Job(b.jobId, e.at)>>, <<>>)
      <4>1. u.jobs = <<Job(b.jobId, e.at)>>
        BY <3>5, EffectFields
      <4>2. <<Job(b.jobId, e.at)>> # <<>>
        OBVIOUS
      <4> QED BY <3>1, <4>1, <4>2
    <3> QED BY <2>6, <3>4, <3>5
  <2>10. CASE /\ ~(Len(c.branches) >= maxAnalysisBranches)
              /\ ~\E i \in DOMAIN c.branches : c.branches[i].jobId = b.jobId
              /\ u = Effects([joined EXCEPT !.cluster = WithBranch(@, b)], <<"joined">>,
                             <<Job(b.jobId, e.at)>>, <<>>)
    <3>1. u.state = [s EXCEPT !.cluster = more] /\ u.jobs = <<Job(b.jobId, e.at)>> /\ u.outbox = <<>>
      BY <2>4, <2>10, EffectFields
    <3> HIDE DEF u, d, joined, b, more
    <3>2. \/ Moves(projectedTransition(s, u), more, <<Job(b.jobId, e.at)>>, <<>>)
          \/ Quiet(s, projectedTransition(s, u))
      BY <2>3, <3>1, ProjectedMove
    <3>3. Len(c.branches) < maxAnalysisBranches
      BY <2>7, <2>10
    <3> QED BY <3>2, <3>3, <2>10, <1>1, <2>2, <2>6, <2>8 DEF JoinsAnalysed, more, d, b
  <2> QED BY <2>6, <2>9, <2>10
<1> QED BY <1>3, <1>4, <1>5

-----------------------------------------------------------------------------
(* A timer's firing.                                                       *)

(* The event is about the current job of a timer that has not fired.       *)
Current(c, e) ==
    /\ c.timers[e.timerType].jobId = e.jobId /\ c.timers[e.timerType].due = e.due
    /\ c.timers[e.timerType].status = "pending"

BatchBranch(c) == analysisDraft(c.sources, "source_confirmation")

(* The job is replaced, ...                                                *)
Replaces(s, e) ==
    LET key == RecoveryKey(e.timerType, e.eventId)
    IN  Moves(apply(s, e), Rescheduled(s.cluster, e.timerType, key),
              <<Job(key, s.cluster.timers[e.timerType].due)>>, <<>>)

(* ... the mirror window closes, without an analysis ...                   *)
Closes(s, e) ==
    /\ e.timerType = "mirror"
    /\ \/ \E i \in DOMAIN s.cluster.branches : s.cluster.branches[i].inputs = analysisInputs(s.cluster.sources)
       \/ Len(s.cluster.branches) >= maxAnalysisBranches
       \/ SizeOf(s) + Len(s.cluster.sources) > MaxStateSize
    /\ Moves(apply(s, e), Fired(s.cluster, "mirror"), <<>>, <<>>)

(* ... or with one, ...                                                    *)
ClosesAnalysed(s, e) ==
    /\ e.timerType = "mirror"
    /\ \A i \in DOMAIN s.cluster.branches : s.cluster.branches[i].inputs # analysisInputs(s.cluster.sources)
    /\ Len(s.cluster.branches) < maxAnalysisBranches
    /\ Moves(apply(s, e), WithBranch(Fired(s.cluster, "mirror"), BatchBranch(s.cluster)),
             <<Job(BatchBranch(s.cluster).jobId, e.at)>>, <<>>)

(* ... or the lifecycle ends.                                              *)
Finishes(s, e) ==
    /\ e.timerType = "lifecycle"
    /\ Moves(apply(s, e), Finalized(Fired(s.cluster, "lifecycle"), e.at), <<>>, <<>>)

(* The size does not depend on timers.                                     *)
LEMMA SizeKept ==
    ASSUME NEW s \in State, s.cluster \in Cluster, NEW d \in Cluster,
           d.sources = s.cluster.sources, d.branches = s.cluster.branches
    PROVE  SizeOf([s EXCEPT !.cluster = d]) = SizeOf(s)
<1>1. [s EXCEPT !.cluster = d].cluster = d
  BY StateSet
<1> HIDE DEF State
<1>2. /\ SizeOf([s EXCEPT !.cluster = d]) = Len(d.sources) + Cardinality(References(d.branches))
      /\ SizeOf(s) = Len(s.cluster.sources) + Cardinality(References(s.cluster.branches))
  BY <1>1, SizeIs
<1> QED BY <1>2

LEMMA BatchFields ==
    ASSUME NEW c \in Cluster
    PROVE  /\ BatchBranch(c) \in Branch /\ BatchBranch(c).inputs = analysisInputs(c.sources)
           /\ BatchBranch(c).jobId = BranchKey("source_confirmation", analysisInputs(c.sources))
           /\ Len(analysisInputs(c.sources)) = Len(c.sources)
<1>1. c.sources \in Seq(Source)
  BY ClusterFields
<1>2. "source_confirmation" \in Phases
  BY KindFacts
<1> QED BY <1>1, <1>2, DraftFields, InputsType DEF BatchBranch

LEMMA TimerApplied ==
    ASSUME NEW s \in State, NEW e, e.type = "timer", e.eventId \in Nat, e.at \in Nat,
           e.timerType \in TimerTypes, s.cluster # Null => SizeOf(s) <= MaxStateSize
    PROVE  \/ Quiet(s, apply(s, e)) /\ (s.cluster # Null => ~Current(s.cluster, e))
           \/ /\ s.cluster \in Cluster /\ Current(s.cluster, e)
              /\ Replaces(s, e) \/ Closes(s, e) \/ ClosesAnalysed(s, e) \/ Finishes(s, e)
<1> DEFINE u == timerFired(s, e)
           c == s.cluster
           T == e.timerType
           fired == [s EXCEPT !.cluster = Fired(c, T)]
<1>1. apply(s, e) = projectedTransition(s, u)
  BY DEF apply
<1>2. CASE c = Null
  <2>1. u = rejected(s)
    BY <1>2 DEF timerFired
  <2> QED BY <1>1, <1>2, <2>1, QuietOnes, ProjectedQuiet
<1>3. CASE c # Null /\ ~Current(c, e)
  <2>1. c \in Cluster
    BY <1>3, StateFields
  <2>2. c.timers[T] \in Timer
    BY <2>1, ClusterFields
  <2>3. c.timers[T].status \in {"pending", "fired"}
    BY <2>2 DEF Timer
  <2>4. u = noEffects(s, "stale") \/ u = noEffects(s, "duplicate")
    BY <1>3, <2>3 DEF timerFired, Current
  <2> QED BY <1>1, <1>3, <2>4, QuietOnes, ProjectedQuiet
<1>4. CASE c # Null /\ Current(c, e)
  <2>1. c \in Cluster /\ SizeOf(s) <= MaxStateSize
    BY <1>4, StateFields
  <2>2. c.timers[T] \in Timer
    BY <2>1, ClusterFields
  <2>3. c.timers[T].due \in Nat
    BY <2>2 DEF Timer
  <2>4. u = IF e.at < c.timers[T].due THEN earlyTimer(s, e)
            ELSE IF T = "mirror" THEN mirrorFired(fired, e)
            ELSE noEffects([fired EXCEPT !.cluster = Finalized(@, e.at)], "finalized")
    BY <1>4 DEF timerFired, Current
  <2>5. CASE e.at < c.timers[T].due
    <3> DEFINE key == RecoveryKey(T, e.eventId)
               d == Rescheduled(c, T, key)
               jobs == <<Job(key, c.timers[T].due)>>
    <3>1. u.state = [s EXCEPT !.cluster = d] /\ u.jobs = jobs /\ u.outbox = <<>>
      BY <2>4, <2>5, EffectFields DEF earlyTimer
    <3>2. d \in Cluster /\ d.sources = c.sources /\ d.branches = c.branches
      BY <2>1, KeyTypes, RescheduledFields
    <3> HIDE DEF u, d, jobs
    <3>3. SizeOf(u.state) <= MaxStateSize
      BY <2>1, <3>1, <3>2, SizeKept
    <3>4. Moves(projectedTransition(s, u), d, jobs, <<>>)
      BY <3>1, <3>2, <3>3, ProjectedMove
    <3> QED BY <1>1, <1>4, <2>1, <3>4 DEF Replaces, d, jobs
  <2>6. Fired(c, T) \in Cluster /\ Fired(c, T).sources = c.sources /\ Fired(c, T).branches = c.branches
    BY <2>1, FiredFields
  <2>7. fired \in State /\ fired.cluster = Fired(c, T)
    BY <2>6, StateSet
  <2>8. SizeOf(fired) = SizeOf(s)
    BY <2>1, <2>6, SizeKept
  <2>9. CASE ~(e.at < c.timers[T].due) /\ T = "mirror"
    <3> DEFINE b == BatchBranch(c)
               d == WithBranch(Fired(c, T), b)
               next == [fired EXCEPT !.cluster = WithBranch(@, b)]
               represented == \E i \in DOMAIN c.branches : c.branches[i].inputs = analysisInputs(c.sources)
    <3>1. b \in Branch /\ b.inputs = analysisInputs(c.sources) /\ Len(b.inputs) = Len(c.sources)
      BY <2>1, BatchFields
    <3>2. d \in Cluster /\ d.sources = c.sources /\ d.branches = Append(c.branches, b)
      BY <2>6, <3>1, WithBranchFields
    <3>3. next = [s EXCEPT !.cluster = d] /\ next.cluster = d
      BY <2>6, <2>7, <3>2 DEF State
    <3>4. SizeOf(next) = SizeOf(s) + Len(c.sources) /\ SizeOf(next) \in Nat
      <4>1. c.branches \in Seq(Branch) /\ Len(c.sources) \in Nat
        BY <2>1, ClusterFields
      <4>2. Cardinality(References(d.branches)) = Cardinality(References(c.branches)) + Len(c.sources)
        BY <3>1, <3>2, <4>1, ReferencesGrow
      <4> HIDE DEF next, d, b
      <4>3. /\ SizeOf(s) = Len(c.sources) + Cardinality(References(c.branches))
            /\ SizeOf(next) = Len(c.sources) + Cardinality(References(d.branches)) /\ SizeOf(next) \in Nat
        BY <2>1, <3>2, <3>3, SizeIs
      <4>4. Cardinality(References(c.branches)) \in Nat
        BY <4>1, ReferencesFinite
      <4> QED BY <4>1, <4>2, <4>3, <4>4
    <3>5. u = IF represented THEN noEffects(fired, "mirror-window-complete")
              ELSE IF Len(c.branches) >= maxAnalysisBranches \/ SizeOf(next) > MaxStateSize
                   THEN Effects(fired, <<"mirror-window-complete", "capacity-exhausted">>, <<>>, <<>>)
              ELSE Effects(next, <<"mirror-window-complete", "debounce-batch-ready">>,
                           <<Job(b.jobId, e.at)>>, <<>>)
      <4>1. u = mirrorFired(fired, e)
        BY <2>4, <2>9
      <4>2. /\ analysisDraft(fired.cluster.sources, "source_confirmation") = b
            /\ fired.cluster.branches = c.branches
        BY <2>6, <2>7 DEF BatchBranch
      <4> HIDE DEF fired, u
      <4> QED BY <4>1, <4>2, <3>1 DEF mirrorFired
    <3>6. CASE represented \/ Len(c.branches) >= maxAnalysisBranches \/ SizeOf(next) > MaxStateSize
      <4>1. u.state = fired /\ u.jobs = <<>> /\ u.outbox = <<>>
        BY <3>5, <3>6, EffectFields DEF noEffects
      <4>2. represented \/ Len(c.branches) >= maxAnalysisBranches \/ SizeOf(s) + Len(c.sources) > MaxStateSize
        BY <3>4, <3>6
      <4> HIDE DEF u, represented
      <4>3. SizeOf(u.state) <= MaxStateSize
        BY <2>1, <2>8, <4>1
      <4>4. Moves(projectedTransition(s, u), Fired(c, T), <<>>, <<>>)
        BY <2>6, <4>1, <4>3, ProjectedMove
      <4> QED BY <1>1, <1>4, <2>1, <2>9, <4>2, <4>4 DEF Closes, represented
    <3>7. CASE ~(represented \/ Len(c.branches) >= maxAnalysisBranches \/ SizeOf(next) > MaxStateSize)
      <4>1. u.state = next /\ u.jobs = <<Job(b.jobId, e.at)>> /\ u.outbox = <<>>
        BY <3>5, <3>7, EffectFields
      <4>2. SizeOf(next) <= MaxStateSize /\ Len(c.branches) < maxAnalysisBranches
        BY <2>1, <3>4, <3>7, ClusterFields, ReducerAssumption
      <4>3. \A i \in DOMAIN c.branches : c.branches[i].inputs # analysisInputs(c.sources)
        BY <3>7
      <4> HIDE DEF u, next, d, b
      <4>4. Moves(projectedTransition(s, u), d, <<Job(b.jobId, e.at)>>, <<>>)
        BY <3>2, <3>3, <4>1, <4>2, ProjectedMove
      <4> QED BY <1>1, <1>4, <2>1, <2>9, <4>2, <4>3, <4>4 DEF ClosesAnalysed, d, b
    <3> QED BY <3>6, <3>7
  <2>10. CASE ~(e.at < c.timers[T].due) /\ T # "mirror"
    <3> DEFINE d == Finalized(Fired(c, T), e.at)
    <3>1. T = "lifecycle"
      BY <2>10 DEF TimerTypes
    <3>2. d \in Cluster /\ d.sources = c.sources /\ d.branches = c.branches
      BY <2>6, FinalizedFields
    <3>3. [fired EXCEPT !.cluster = Finalized(@, e.at)] = [s EXCEPT !.cluster = d]
      BY <2>6, <2>7 DEF State
    <3>4. u.state = [s EXCEPT !.cluster = d] /\ u.jobs = <<>> /\ u.outbox = <<>>
      BY <2>4, <2>10, <3>3, EffectFields DEF noEffects
    <3> HIDE DEF u, d
    <3>5. SizeOf(u.state) <= MaxStateSize
      BY <2>1, <3>2, <3>4, SizeKept
    <3>6. Moves(projectedTransition(s, u), d, <<>>, <<>>)
      BY <3>2, <3>4, <3>5, ProjectedMove
    <3> QED BY <1>1, <1>4, <2>1, <3>1, <3>6 DEF Finishes, d
  <2> QED BY <2>5, <2>9, <2>10
<1> QED BY <1>2, <1>3, <1>4

-----------------------------------------------------------------------------
(* A worker's report on the job of a pending branch i: a lease, ...        *)

Leases(s, e, i) ==
    /\ s.cluster.branches[i].jobId = e.jobId /\ s.cluster.branches[i].status = "pending"
    /\ Supersedes(s.cluster.branches[i], e)
    /\ Moves(apply(s, e), Expecting(s.cluster, i, e), <<>>, <<>>)

(* ... or an outcome.                                                      *)
Settles(s, e, i, status, outbox) ==
    /\ s.cluster.branches[i].jobId = e.jobId /\ s.cluster.branches[i].status = "pending"
    /\ FromLatestLease(s.cluster.branches[i], e)
    /\ Moves(apply(s, e), WithResult(s.cluster, i, e, status), <<>>, outbox)

Completion(e) == <<Job(<<"analysis-completed", e.jobId>>, 0)>>

(* The branch of a report is a branch with its job id.                     *)
LEMMA RequestedIs ==
    ASSUME NEW s \in State, NEW e, Requested(s, e) # {}
    PROVE  LET i == CHOOSE i \in Requested(s, e) : TRUE
           IN  /\ s.cluster \in Cluster /\ i \in DOMAIN s.cluster.branches
               /\ s.cluster.branches[i].jobId = e.jobId
               /\ RequestedBranch(s, e) = s.cluster.branches[i]
<1>1. s.cluster # Null
  BY DEF Requested
<1>2. s.cluster \in Cluster
  BY <1>1, StateFields
<1>3. (CHOOSE i \in Requested(s, e) : TRUE) \in Requested(s, e)
  OBVIOUS
<1> QED BY <1>1, <1>2, <1>3 DEF Requested, RequestedBranch

LEMMA LeaseApplied ==
    ASSUME NEW s \in State, NEW e, e.type = "leased", e.attempt \in Nat, e.fencingToken \in Nat
    PROVE  \/ Quiet(s, apply(s, e))
           \/ s.cluster \in Cluster /\ \E i \in DOMAIN s.cluster.branches : Leases(s, e, i)
<1> DEFINE u == jobLeased(s, e)
           c == s.cluster
           i == CHOOSE j \in Requested(s, e) : TRUE
           d == Expecting(c, i, e)
<1>1. apply(s, e) = projectedTransition(s, u)
  BY DEF apply
<1>2. CASE Quiet(s, u)
  BY <1>1, <1>2, ProjectedQuiet
<1>3. CASE ~Quiet(s, u)
  <2>1. /\ Requested(s, e) # {} /\ RequestedBranch(s, e).status = "pending"
        /\ Supersedes(RequestedBranch(s, e), e)
        /\ u = noEffects([s EXCEPT !.cluster = d], "leased")
    BY <1>3, QuietOnes DEF jobLeased
  <2>2. c \in Cluster /\ i \in DOMAIN c.branches /\ c.branches[i].jobId = e.jobId
        /\ RequestedBranch(s, e) = c.branches[i]
    BY <2>1, RequestedIs
  <2> HIDE DEF i
  <2>3. d \in Cluster
    BY <2>2, ExpectingFields DEF BranchIs
  <2>4. u.state = [s EXCEPT !.cluster = d] /\ u.jobs = <<>> /\ u.outbox = <<>>
    BY <2>1, EffectFields DEF noEffects
  <2> HIDE DEF u, d
  <2>5. Moves(projectedTransition(s, u), d, <<>>, <<>>) \/ Quiet(s, projectedTransition(s, u))
    BY <2>3, <2>4, ProjectedMove
  <2> QED BY <1>1, <2>1, <2>2, <2>5 DEF Leases, d
<1> QED BY <1>2, <1>3

LEMMA OutcomeApplied ==
    ASSUME NEW s \in State, NEW e, e.type \in {"succeeded", "failed"}, e.eventId \in Nat
    PROVE  \/ Quiet(s, apply(s, e))
           \/ /\ s.cluster \in Cluster
              /\ \E i \in DOMAIN s.cluster.branches :
                    Settles(s, e, i, "succeeded", Completion(e)) \/ Settles(s, e, i, "failed", <<>>)
<1> DEFINE u == IF e.type = "succeeded" THEN jobSucceeded(s, e) ELSE jobFailed(s, e)
           c == s.cluster
           i == CHOOSE j \in Requested(s, e) : TRUE
           d(status) == WithResult(c, i, e, status)
<1>1. apply(s, e) = projectedTransition(s, u)
  BY DEF apply
<1>2. CASE Quiet(s, u)
  BY <1>1, <1>2, ProjectedQuiet
<1>3. CASE ~Quiet(s, u)
  <2>1. /\ Requested(s, e) # {} /\ RequestedBranch(s, e).status = "pending"
        /\ FromLatestLease(RequestedBranch(s, e), e)
        /\ \/ u = Effects(Settled(s, e, "succeeded"), <<"analysis-succeeded">>, <<>>, Completion(e))
           \/ u = noEffects(Settled(s, e, "failed"), "analysis-failed")
    BY <1>3, QuietOnes DEF jobSucceeded, jobFailed, jobSettled, Completion
  <2>2. c \in Cluster /\ i \in DOMAIN c.branches /\ c.branches[i].jobId = e.jobId
        /\ RequestedBranch(s, e) = c.branches[i]
    BY <2>1, RequestedIs
  <2>3. \A status : Settled(s, e, status) = [s EXCEPT !.cluster = d(status)]
    BY DEF Settled
  <2> HIDE DEF i
  <2>4. d("succeeded") \in Cluster /\ d("failed") \in Cluster
    BY <2>2, WithResultFields DEF BranchIs
  <2>5. \/ u.state = [s EXCEPT !.cluster = d("succeeded")] /\ u.jobs = <<>> /\ u.outbox = Completion(e)
        \/ u.state = [s EXCEPT !.cluster = d("failed")] /\ u.jobs = <<>> /\ u.outbox = <<>>
    BY <2>1, <2>3, EffectFields DEF noEffects
  <2> HIDE DEF u, d
  <2>6. \/ Moves(projectedTransition(s, u), d("succeeded"), <<>>, Completion(e))
        \/ Moves(projectedTransition(s, u), d("failed"), <<>>, <<>>)
        \/ Quiet(s, projectedTransition(s, u))
    BY <2>4, <2>5, ProjectedMove
  <2> QED BY <1>1, <2>1, <2>2, <2>6 DEF Settles, d
<1> QED BY <1>2, <1>3

-----------------------------------------------------------------------------
(* The inductive invariant, for a cluster c after n events, a ledger l and *)
(* the set sp of timer jobs that were fired.                               *)

IntentKeys ==
    TimerKeys \cup BranchKeys \cup {<<"first-source">>} \cup ({"analysis-completed"} \X BranchKeys)

(* A branch is named after its phase and its inputs, the first sources.    *)
Named(c, b) ==
    /\ b.jobId = BranchKey(b.phase, b.inputs)
    /\ Len(b.inputs) \in 1 .. Len(c.sources)
    /\ \A k \in DOMAIN b.inputs : b.inputs[k] = c.sources[k].eventId

WellFormed(c, n) ==
    /\ Len(c.sources) \in 1 .. maxSourcesPerCluster
    /\ Len(c.branches) \in 1 .. maxAnalysisBranches
    /\ \A i \in DOMAIN c.sources : c.sources[i].eventId <= n
    /\ \A i, j \in DOMAIN c.sources : i # j => c.sources[i].eventId # c.sources[j].eventId
    /\ \A i, j \in DOMAIN c.branches : i # j => c.branches[i].jobId # c.branches[j].jobId
    /\ \A i \in DOMAIN c.branches : Named(c, c.branches[i])
    /\ \A t \in TimerTypes : c.timers[t].jobId[2] = t

(* An intent that was asked for has left its trace in the cluster.         *)
Accounted(c, n, key) ==
    \/ \E t \in TimerTypes : key = TimerKey(t)
    \/ \E t \in TimerTypes, m \in 1 .. n : key = RecoveryKey(t, m)
    \/ \E i \in DOMAIN c.branches : key = c.branches[i].jobId
    \/ key = <<"first-source">>
    \/ \E i \in DOMAIN c.branches :
          c.branches[i].status # "pending" /\ key = <<"analysis-completed", c.branches[i].jobId>>

In(key, l) == \E i \in DOMAIN l : l[i] = key

Alive(c, l, sp) ==
    \A t \in TimerTypes :
        c.timers[t].status = "pending" => c.timers[t].jobId \notin sp /\ In(c.timers[t].jobId, l)

(* The source j is an input of an analysis, or waits for the window's end. *)
Covered(c, j) ==
    \/ \E b \in DOMAIN c.branches : j \in DOMAIN c.branches[b].inputs
    \/ c.timers["mirror"].status = "pending" /\ c.sources[j].kind \in ReleaseKinds

Represented(c, i) ==
    \E j \in DOMAIN c.sources : c.sources[j].artifact = c.sources[i].artifact /\ Covered(c, j)

Full(c, size) == Len(c.branches) >= maxAnalysisBranches \/ size + Len(c.sources) > MaxStateSize

Analysed(c, size) == \A i \in DOMAIN c.sources : Represented(c, i) \/ Full(c, size)

Booked(l, sp) ==
    /\ \A i, j \in DOMAIN l : i # j => l[i] # l[j]
    /\ \A key \in sp : In(key, l)

Running(s, n, l, sp) ==
    /\ WellFormed(s.cluster, n)
    /\ SizeOf(s) <= MaxStateSize
    /\ \A i \in DOMAIN l : Accounted(s.cluster, n, l[i])
    /\ Alive(s.cluster, l, sp)
    /\ Analysed(s.cluster, SizeOf(s))

-----------------------------------------------------------------------------
(* Keys of different intents are different.                                *)

LEMMA KeyShapes ==
    /\ \A t : TimerKey(t)[1] = "timer" /\ TimerKey(t)[2] = t /\ Len(TimerKey(t)) = 2
    /\ \A t, n : /\ RecoveryKey(t, n)[1] = "timer" /\ RecoveryKey(t, n)[2] = t
                 /\ RecoveryKey(t, n)[4] = n /\ Len(RecoveryKey(t, n)) = 4
    /\ \A p, i : BranchKey(p, i)[1] = "analysis" /\ BranchKey(p, i)[2] = p /\ BranchKey(p, i)[3] = i
    /\ <<"first-source">>[1] = "first-source"
    /\ \A k : <<"analysis-completed", k>>[1] = "analysis-completed" /\ <<"analysis-completed", k>>[2] = k
  BY DEF TimerKey, RecoveryKey, BranchKey

LEMMA BranchTag ==
    ASSUME NEW c \in Cluster, NEW n, WellFormed(c, n), NEW i \in DOMAIN c.branches
    PROVE  c.branches[i].jobId[1] = "analysis"
  BY KeyShapes DEF WellFormed, Named

(* Which part of the cluster accounts for a key.                           *)
LEMMA AccountedFor ==
    ASSUME NEW c \in Cluster, NEW n \in Nat, WellFormed(c, n), NEW key, Accounted(c, n, key)
    PROVE  /\ key[1] = "analysis" => \E i \in DOMAIN c.branches : key = c.branches[i].jobId
           /\ \A t, m : key = RecoveryKey(t, m) => m \in 1 .. n
           /\ \A k : key = <<"analysis-completed", k>> =>
                 \E i \in DOMAIN c.branches : c.branches[i].status # "pending" /\ k = c.branches[i].jobId
<1>1. CASE \E t \in TimerTypes : key = TimerKey(t)
  <2>1. key[1] = "timer" /\ Len(key) = 2
    BY <1>1, KeyShapes
  <2> QED BY <2>1, KeyShapes
<1>2. CASE \E t \in TimerTypes, m \in 1 .. n : key = RecoveryKey(t, m)
  <2>1. key[1] = "timer" /\ key[4] \in 1 .. n
    BY <1>2, KeyShapes
  <2> QED BY <2>1, KeyShapes
<1>3. CASE \E i \in DOMAIN c.branches : key = c.branches[i].jobId
  <2>1. key[1] = "analysis"
    BY <1>3, BranchTag
  <2> QED BY <1>3, <2>1, KeyShapes
<1>4. CASE key = <<"first-source">>
  <2>1. key[1] = "first-source"
    BY <1>4, KeyShapes
  <2> QED BY <2>1, KeyShapes
<1>5. CASE \E i \in DOMAIN c.branches :
              c.branches[i].status # "pending" /\ key = <<"analysis-completed", c.branches[i].jobId>>
  <2>1. key[1] = "analysis-completed"
    BY <1>5, KeyShapes
  <2>2. PICK i \in DOMAIN c.branches :
              c.branches[i].status # "pending" /\ key = <<"analysis-completed", c.branches[i].jobId>>
    BY <1>5
  <2>3. key[2] = c.branches[i].jobId
    BY <2>2, KeyShapes
  <2>4. ASSUME NEW k, key = <<"analysis-completed", k>> PROVE k = c.branches[i].jobId
    BY <2>3, <2>4, KeyShapes
  <2> QED BY <2>1, <2>2, <2>4, KeyShapes
<1> QED BY <1>1, <1>2, <1>3, <1>4, <1>5 DEF Accounted

-----------------------------------------------------------------------------
(* The ledger.                                                             *)

LEMMA Asks ==
    /\ KeysOf(<<>>) = <<>>
    /\ \A key, due : KeysOf(<<Job(key, due)>>) = <<key>>
<1>1. KeysOf(<<>>) = <<>>
  BY DEF KeysOf
<1>2. ASSUME NEW key, NEW due PROVE KeysOf(<<Job(key, due)>>) = <<key>>
  BY DEF KeysOf, Job
<1> QED BY <1>1, <1>2

LEMMA LedgerSame ==
    ASSUME NEW l \in Seq(IntentKeys)
    PROVE  l \o <<>> \o <<>> = l
  OBVIOUS

LEMMA LedgerMore ==
    ASSUME NEW l \in Seq(IntentKeys), NEW key \in IntentKeys
    PROVE  l \o <<key>> \o <<>> = Append(l, key) /\ l \o <<>> \o <<key>> = Append(l, key)
  OBVIOUS

(* A key that is not in the ledger may be added.                           *)
LEMMA BookedMore ==
    ASSUME NEW l \in Seq(IntentKeys), NEW sp, Booked(l, sp), NEW key \in IntentKeys, ~In(key, l)
    PROVE  /\ Append(l, key) \in Seq(IntentKeys) /\ Booked(Append(l, key), sp)
           /\ \A k : In(k, Append(l, key)) <=> In(k, l) \/ k = key
<1> DEFINE m == Append(l, key)
<1>1. /\ m \in Seq(IntentKeys) /\ Len(l) \in Nat /\ DOMAIN l = 1 .. Len(l) /\ DOMAIN m = 1 .. (Len(l) + 1)
      /\ m[Len(l) + 1] = key /\ \A i \in DOMAIN l : m[i] = l[i]
  OBVIOUS
<1> HIDE DEF m
<1>2. ASSUME NEW k PROVE In(k, m) <=> In(k, l) \/ k = key
  <2>1. ASSUME In(k, m) PROVE In(k, l) \/ k = key
    <3>1. PICK i \in DOMAIN m : m[i] = k
      BY <2>1 DEF In
    <3>2. CASE i = Len(l) + 1
      BY <3>1, <3>2, <1>1
    <3>3. CASE i # Len(l) + 1
      <4>1. i \in DOMAIN l
        BY <3>3, <1>1
      <4> QED BY <3>1, <4>1, <1>1 DEF In
    <3> QED BY <3>2, <3>3
  <2>2. ASSUME In(k, l) PROVE In(k, m)
    <3>1. PICK i \in DOMAIN l : l[i] = k
      BY <2>2 DEF In
    <3>2. i \in DOMAIN m /\ m[i] = k
      BY <3>1, <1>1
    <3> QED BY <3>2 DEF In
  <2>3. In(key, m)
    <3>1. Len(l) + 1 \in DOMAIN m
      BY <1>1
    <3> QED BY <3>1, <1>1 DEF In
  <2> QED BY <2>1, <2>2, <2>3
<1>3. ASSUME NEW i \in DOMAIN m, NEW j \in DOMAIN m, i # j PROVE m[i] # m[j]
  <2>1. CASE i \in DOMAIN l /\ j \in DOMAIN l
    BY <1>1, <1>3, <2>1 DEF Booked
  <2>2. CASE i \notin DOMAIN l
    <3>1. i = Len(l) + 1 /\ j \in DOMAIN l
      BY <1>1, <1>3, <2>2
    <3> QED BY <3>1, <1>1 DEF In
  <2>3. CASE j \notin DOMAIN l
    <3>1. j = Len(l) + 1 /\ i \in DOMAIN l
      BY <1>1, <1>3, <2>3
    <3> QED BY <3>1, <1>1 DEF In
  <2> QED BY <2>1, <2>2, <2>3
<1>4. Booked(m, sp)
  BY <1>2, <1>3 DEF Booked
<1> QED BY <1>1, <1>2, <1>4 DEF m

-----------------------------------------------------------------------------
(* What each kind of step keeps of the cluster.                            *)

(* Sources and branches that were there keep what the invariant reads.     *)
Keeps(c, d) ==
    /\ d \in Cluster /\ d.sources = c.sources
    /\ DOMAIN d.branches = DOMAIN c.branches
    /\ \A i \in DOMAIN c.branches :
          /\ d.branches[i].jobId = c.branches[i].jobId /\ d.branches[i].phase = c.branches[i].phase
          /\ d.branches[i].inputs = c.branches[i].inputs
          /\ c.branches[i].status # "pending" => d.branches[i].status # "pending"
    /\ \A t \in TimerTypes : d.timers[t].jobId[2] = t

LEMMA KeepsWellFormed ==
    ASSUME NEW c \in Cluster, NEW d, Keeps(c, d), NEW n \in Nat, WellFormed(c, n)
    PROVE  WellFormed(d, n + 1)
<1>1. Len(d.branches) = Len(c.branches)
  <2>1. d.branches \in Seq(Branch) /\ c.branches \in Seq(Branch)
    BY ClusterFields DEF Keeps
  <2> QED BY <2>1 DEF Keeps
<1>2. \A i \in DOMAIN d.branches : Named(d, d.branches[i])
  BY DEF Keeps, WellFormed, Named
<1>3. ASSUME NEW i \in DOMAIN d.sources PROVE d.sources[i].eventId <= n + 1
  <2>1. c.sources[i] \in Source
    BY ClusterFields DEF Keeps
  <2>2. c.sources[i].eventId \in Nat
    BY <2>1 DEF Source
  <2> QED BY <2>2 DEF Keeps, WellFormed
<1> QED BY <1>1, <1>2, <1>3 DEF Keeps, WellFormed

LEMMA SourceWellFormed ==
    ASSUME NEW c \in Cluster, NEW source \in Source, NEW n \in Nat, WellFormed(c, n),
           source.eventId = n + 1, Len(c.sources) < maxSourcesPerCluster
    PROVE  WellFormed(WithSource(c, source), n + 1)
<1> DEFINE d == WithSource(c, source)
           m == Len(c.sources)
<1>1. d.sources = Append(c.sources, source) /\ d.branches = c.branches /\ d.timers = c.timers
  BY WithSourceFields
<1>2. m \in Nat /\ c.sources \in Seq(Source) /\ DOMAIN c.sources = 1 .. m
  BY ClusterFields
<1>3. /\ Len(d.sources) = m + 1 /\ DOMAIN d.sources = 1 .. (m + 1) /\ d.sources[m + 1] = source
      /\ \A i \in 1 .. m : d.sources[i] = c.sources[i]
  BY <1>1, <1>2
<1> HIDE DEF d, m
<1>4. \A i \in 1 .. m : c.sources[i].eventId \in Nat /\ c.sources[i].eventId <= n
  <2> SUFFICES ASSUME NEW i \in 1 .. m PROVE c.sources[i].eventId \in Nat /\ c.sources[i].eventId <= n
    OBVIOUS
  <2>1. c.sources[i] \in Source
    BY <1>2
  <2> QED BY <1>2, <2>1 DEF WellFormed, Source
<1>5. \A i \in 1 .. (m + 1) : i \in 1 .. m \/ i = m + 1
  BY <1>2
<1>6. \A i \in DOMAIN d.sources : d.sources[i].eventId <= n + 1
  BY <1>3, <1>4, <1>5
<1>7. ASSUME NEW i \in DOMAIN d.sources, NEW j \in DOMAIN d.sources, i # j
      PROVE  d.sources[i].eventId # d.sources[j].eventId
  <2>1. CASE i \in 1 .. m /\ j \in 1 .. m
    BY <2>1, <1>2, <1>3, <1>7 DEF WellFormed
  <2>2. CASE i = m + 1 /\ j \in 1 .. m
    BY <2>2, <1>3, <1>4
  <2>3. CASE j = m + 1 /\ i \in 1 .. m
    BY <2>3, <1>3, <1>4
  <2> QED BY <2>1, <2>2, <2>3, <1>3, <1>5, <1>7
<1>8. ASSUME NEW i \in DOMAIN d.branches PROVE Named(d, d.branches[i])
  <2> DEFINE b == d.branches[i]
  <2>1. Named(c, b) /\ DOMAIN b.inputs = 1 .. Len(b.inputs)
    <3>1. c.branches \in Seq(Branch)
      BY ClusterFields
    <3> QED BY <1>1, <3>1, InputsOf DEF WellFormed
  <2> HIDE DEF b
  <2>2. Len(b.inputs) \in 1 .. m /\ Len(b.inputs) \in 1 .. (m + 1)
    BY <2>1, <1>2 DEF Named, m
  <2>3. ASSUME NEW k \in DOMAIN b.inputs PROVE b.inputs[k] = d.sources[k].eventId
    <3>1. k \in 1 .. m
      BY <1>2, <2>1, <2>2
    <3> QED BY <2>1, <3>1, <1>3 DEF Named
  <2>4. Named(d, b)
    BY <2>1, <2>2, <2>3, <1>3 DEF Named
  <2> QED BY <2>4 DEF b
<1>9. m + 1 \in 1 .. maxSourcesPerCluster
  BY <1>2, ReducerAssumption DEF m
<1>10. WellFormed(d, n + 1)
  BY <1>1, <1>3, <1>6, <1>7, <1>8, <1>9 DEF WellFormed
<1> QED BY <1>10 DEF d

LEMMA BranchWellFormed ==
    ASSUME NEW c \in Cluster, NEW p \in Phases, NEW n \in Nat, WellFormed(c, n),
           Len(c.branches) < maxAnalysisBranches,
           \A i \in DOMAIN c.branches : c.branches[i].jobId # analysisDraft(c.sources, p).jobId
    PROVE  WellFormed(WithBranch(c, analysisDraft(c.sources, p)), n)
<1> DEFINE b == analysisDraft(c.sources, p)
           d == WithBranch(c, b)
           m == Len(c.branches)
<1>1. m \in Nat /\ c.branches \in Seq(Branch) /\ DOMAIN c.branches = 1 .. m /\ c.sources \in Seq(Source)
  BY ClusterFields
<1>2. /\ b \in Branch /\ b.phase = p /\ b.inputs = analysisInputs(c.sources)
      /\ b.jobId = BranchKey(p, analysisInputs(c.sources))
  BY <1>1, DraftFields
<1>3. \A i \in DOMAIN c.branches : c.branches[i].jobId # b.jobId
  OBVIOUS
<1> HIDE DEF b
<1>4. d.branches = Append(c.branches, b) /\ d.sources = c.sources /\ d.timers = c.timers
  BY <1>2, WithBranchFields
<1>5. /\ Len(d.branches) = m + 1 /\ DOMAIN d.branches = 1 .. (m + 1) /\ d.branches[m + 1] = b
      /\ \A i \in 1 .. m : d.branches[i] = c.branches[i]
  BY <1>1, <1>2, <1>4
<1> HIDE DEF d, m
<1>6. \A i \in 1 .. (m + 1) : i \in 1 .. m \/ i = m + 1
  BY <1>1
<1>7. ASSUME NEW i \in DOMAIN d.branches, NEW j \in DOMAIN d.branches, i # j
      PROVE  d.branches[i].jobId # d.branches[j].jobId
  <2>1. CASE i \in 1 .. m /\ j \in 1 .. m
    BY <2>1, <1>1, <1>5, <1>7 DEF WellFormed
  <2>2. CASE i = m + 1 /\ j \in 1 .. m
    BY <2>2, <1>1, <1>3, <1>5
  <2>3. CASE j = m + 1 /\ i \in 1 .. m
    BY <2>3, <1>1, <1>3, <1>5
  <2> QED BY <2>1, <2>2, <2>3, <1>5, <1>6, <1>7
<1>8. Named(c, b)
  <2>1. Len(b.inputs) = Len(c.sources) /\ DOMAIN b.inputs = 1 .. Len(c.sources)
        /\ \A k \in 1 .. Len(c.sources) : b.inputs[k] = c.sources[k].eventId
    BY <1>1, <1>2, InputsType
  <2>2. Len(c.sources) \in 1 .. Len(c.sources)
    BY ClusterFields DEF WellFormed
  <2> QED BY <2>1, <2>2, <1>2 DEF Named
<1>9. \A i \in DOMAIN d.branches : Named(d, d.branches[i])
  <2>1. \A x : Named(c, x) => Named(d, x)
    BY <1>4 DEF Named
  <2> QED BY <2>1, <1>1, <1>5, <1>6, <1>8 DEF WellFormed
<1>10. m + 1 \in 1 .. maxAnalysisBranches
  BY <1>1, ReducerAssumption DEF m
<1>11. WellFormed(d, n)
  BY <1>4, <1>5, <1>7, <1>9, <1>10 DEF WellFormed
<1> QED BY <1>11 DEF d, b

-----------------------------------------------------------------------------
(* What accounts for an intent is never taken back.                        *)

Traces(c, d) ==
    \A i \in DOMAIN c.branches :
        /\ i \in DOMAIN d.branches /\ d.branches[i].jobId = c.branches[i].jobId
        /\ c.branches[i].status # "pending" => d.branches[i].status # "pending"

LEMMA AccountedStays ==
    ASSUME NEW c, NEW d, Traces(c, d), NEW n \in Nat, NEW key, Accounted(c, n, key)
    PROVE  Accounted(d, n + 1, key)
<1>1. \A m \in 1 .. n : m \in 1 .. (n + 1)
  OBVIOUS
<1> QED BY <1>1 DEF Accounted, Traces

LEMMA KeepsTraces ==
    ASSUME NEW c, NEW d, Keeps(c, d)
    PROVE  Traces(c, d)
  BY DEF Keeps, Traces

(* The cluster d has the branches of c, and b.                             *)
Gains(c, d, b) ==
    /\ \E i \in DOMAIN d.branches : d.branches[i] = b
    /\ \A i \in DOMAIN c.branches : i \in DOMAIN d.branches /\ d.branches[i] = c.branches[i]

LEMMA BranchTraces ==
    ASSUME NEW c \in Cluster, NEW d, NEW b, d.branches = Append(c.branches, b)
    PROVE  Traces(c, d) /\ Gains(c, d, b)
<1>1. Len(c.branches) \in Nat /\ DOMAIN c.branches = 1 .. Len(c.branches) /\ c.branches \in Seq(Branch)
  BY ClusterFields
<1>2. /\ DOMAIN d.branches = 1 .. (Len(c.branches) + 1) /\ d.branches[Len(c.branches) + 1] = b
      /\ \A i \in 1 .. Len(c.branches) : d.branches[i] = c.branches[i]
  BY <1>1
<1>3. Len(c.branches) + 1 \in DOMAIN d.branches /\ DOMAIN c.branches \subseteq DOMAIN d.branches
  BY <1>1, <1>2
<1> QED BY <1>1, <1>2, <1>3 DEF Traces, Gains

-----------------------------------------------------------------------------
(* Every source is analysed.                                               *)

LEMMA KeepsAnalysed ==
    ASSUME NEW c, NEW d, Keeps(c, d), NEW size, Analysed(c, size), c \in Cluster,
           d.timers["mirror"].status = c.timers["mirror"].status
    PROVE  Analysed(d, size)
<1>1. Len(d.branches) = Len(c.branches)
  <2>1. d.branches \in Seq(Branch) /\ c.branches \in Seq(Branch)
    BY ClusterFields DEF Keeps
  <2> QED BY <2>1 DEF Keeps
<1>2. \A j : Covered(c, j) => Covered(d, j)
  BY DEF Keeps, Covered
<1> QED BY <1>1, <1>2 DEF Analysed, Represented, Full, Keeps

(* An analysis of all sources leaves nothing to do.                        *)
LEMMA AllAnalysed ==
    ASSUME NEW d \in Cluster, NEW size, NEW b \in DOMAIN d.branches,
           Len(d.branches[b].inputs) = Len(d.sources)
    PROVE  Analysed(d, size)
<1>1. d.branches \in Seq(Branch) /\ DOMAIN d.sources = 1 .. Len(d.sources)
  BY ClusterFields
<1>2. DOMAIN d.branches[b].inputs = DOMAIN d.sources
  BY <1>1, InputsOf
<1> QED BY <1>2 DEF Analysed, Represented, Covered

(* A source joins that is covered, or that mirrors one that was there.     *)
LEMMA SourceAnalysed ==
    ASSUME NEW c \in Cluster, NEW source \in Source, NEW size \in Nat, Analysed(c, size),
           LET d == WithSource(c, source)
           IN  SameArtifact(c, source) \/ Covered(d, Len(c.sources) + 1)
    PROVE  Analysed(WithSource(c, source), size + 1)
<1> DEFINE d == WithSource(c, source)
           m == Len(c.sources)
<1>1. d.sources = Append(c.sources, source) /\ d.branches = c.branches /\ d.timers = c.timers
  BY WithSourceFields
<1>2. m \in Nat /\ c.sources \in Seq(Source) /\ DOMAIN c.sources = 1 .. m
  BY ClusterFields
<1>3. /\ Len(d.sources) = m + 1 /\ DOMAIN d.sources = 1 .. (m + 1) /\ d.sources[m + 1] = source
      /\ \A i \in 1 .. m : i \in 1 .. (m + 1) /\ d.sources[i] = c.sources[i]
  BY <1>1, <1>2
<1>4. SameArtifact(c, source) \/ Covered(d, m + 1)
  OBVIOUS
<1> HIDE DEF d, m
<1>5. Full(c, size) => Full(d, size + 1)
  <2>1. MaxStateSize \in Nat
    BY ReducerAssumption
  <2>2. size + m > MaxStateSize => (size + 1) + (m + 1) > MaxStateSize
    BY <1>2, <2>1
  <2>3. Full(c, size) <=> Len(c.branches) >= maxAnalysisBranches \/ size + m > MaxStateSize
    BY DEF Full, m
  <2>4. Full(d, size + 1) <=>
          Len(c.branches) >= maxAnalysisBranches \/ (size + 1) + (m + 1) > MaxStateSize
    BY <1>1, <1>3 DEF Full
  <2> QED BY <2>2, <2>3, <2>4
<1>6. \A j \in 1 .. m : Covered(c, j) => Covered(d, j)
  BY <1>1, <1>3 DEF Covered
<1>7. ASSUME NEW i \in 1 .. m, NEW k \in 1 .. (m + 1), d.sources[k].artifact = d.sources[i].artifact
      PROVE  Represented(d, k) \/ Full(d, size + 1)
  <2>1. CASE Full(c, size)
    BY <1>5, <2>1
  <2>2. CASE Represented(c, i)
    <3>1. PICK j \in 1 .. m : c.sources[j].artifact = c.sources[i].artifact /\ Covered(c, j)
      BY <1>2, <2>2 DEF Represented
    <3>2. j \in DOMAIN d.sources /\ d.sources[j].artifact = d.sources[k].artifact /\ Covered(d, j)
      BY <1>3, <1>6, <1>7, <3>1
    <3> QED BY <3>2 DEF Represented
  <2> QED BY <1>2, <2>1, <2>2 DEF Analysed
<1>8. Represented(d, m + 1) \/ Full(d, size + 1)
  <2>1. m + 1 \in 1 .. (m + 1)
    BY <1>2
  <2>2. CASE Covered(d, m + 1)
    BY <1>3, <2>1, <2>2 DEF Represented
  <2>3. CASE SameArtifact(c, source)
    <3>1. PICK i \in 1 .. m : c.sources[i].artifact = source.artifact
      BY <1>2, <2>3 DEF SameArtifact
    <3>2. d.sources[m + 1].artifact = d.sources[i].artifact
      BY <1>3, <3>1
    <3> QED BY <1>7, <2>1, <3>2
  <2> QED BY <1>4, <2>2, <2>3
<1>9. ASSUME NEW i \in 1 .. (m + 1) PROVE Represented(d, i) \/ Full(d, size + 1)
  <2>1. CASE i \in 1 .. m
    BY <1>3, <1>7, <2>1
  <2>2. CASE i = m + 1
    BY <1>8, <2>2
  <2> QED BY <1>2, <2>1, <2>2
<1>10. Analysed(d, size + 1)
  BY <1>3, <1>9 DEF Analysed
<1> QED BY <1>10 DEF d

-----------------------------------------------------------------------------
(* Timers that have not fired stay alive.                                  *)

LEMMA AliveKept ==
    ASSUME NEW c, NEW d, NEW l, NEW k, NEW sp, Alive(c, l, sp), d.timers = c.timers,
           \A key : In(key, l) => In(key, k)
    PROVE  Alive(d, k, sp)
  BY DEF Alive

(* A firing of key spends it; it touches no timer but its own.             *)
LEMMA AliveFired ==
    ASSUME NEW c, NEW d, NEW l, NEW k, NEW sp, NEW n, Alive(c, l, sp), WellFormed(c, n),
           \A key : In(key, l) => In(key, k),
           NEW T \in TimerTypes, NEW key, key[2] = T,
           \A t \in TimerTypes \ {T} : d.timers[t] = c.timers[t],
           d.timers[T].status = "pending" =>
              d.timers[T].jobId \notin sp \cup {key} /\ In(d.timers[T].jobId, k)
    PROVE  Alive(d, k, sp \cup {key})
<1> SUFFICES ASSUME NEW t \in TimerTypes, d.timers[t].status = "pending"
             PROVE  d.timers[t].jobId \notin sp \cup {key} /\ In(d.timers[t].jobId, k)
  BY DEF Alive
<1>1. CASE t = T
  BY <1>1
<1>2. CASE t # T
  <2>1. d.timers[t] = c.timers[t]
    BY <1>2
  <2>2. c.timers[t].jobId # key
    BY <1>2 DEF WellFormed
  <2> QED BY <2>1, <2>2 DEF Alive
<1> QED BY <1>1, <1>2

-----------------------------------------------------------------------------
(* The invariant of a state s after n events, and the ledger after t.      *)

Inv(s, n, l, sp) ==
    /\ s \in State /\ n \in Nat /\ l \in Seq(IntentKeys)
    /\ Booked(l, sp)
    /\ s.cluster # Null => Running(s, n, l, sp)
    /\ s.cluster = Null => l = <<>>

StreamInv == at \in Nat /\ Inv(state, events, ledger, spent)

After(l, t) == l \o KeysOf(t.jobs) \o KeysOf(t.outbox)

LEMMA AfterIs ==
    ASSUME NEW l \in Seq(IntentKeys), NEW t
    PROVE  /\ t.jobs = <<>> /\ t.outbox = <<>> => After(l, t) = l
           /\ \A key \in IntentKeys : \A due :
                 \/ t.jobs = <<Job(key, due)>> /\ t.outbox = <<>>
                 \/ t.jobs = <<>> /\ t.outbox = <<Job(key, due)>>
                 => After(l, t) = Append(l, key)
<1>1. ASSUME t.jobs = <<>>, t.outbox = <<>> PROVE After(l, t) = l
  BY <1>1, Asks, LedgerSame DEF After
<1>2. ASSUME NEW key \in IntentKeys, NEW due, t.jobs = <<Job(key, due)>>, t.outbox = <<>>
      PROVE  After(l, t) = Append(l, key)
  <2>1. KeysOf(t.jobs) = <<key>> /\ KeysOf(t.outbox) = <<>>
    BY <1>2, Asks
  <2> QED BY <2>1, LedgerMore DEF After
<1>3. ASSUME NEW key \in IntentKeys, NEW due, t.jobs = <<>>, t.outbox = <<Job(key, due)>>
      PROVE  After(l, t) = Append(l, key)
  <2>1. KeysOf(t.jobs) = <<>> /\ KeysOf(t.outbox) = <<key>>
    BY <1>3, Asks
  <2> QED BY <2>1, LedgerMore DEF After
<1> QED BY <1>1, <1>2, <1>3

LEMMA SizeOfCluster ==
    ASSUME NEW s, NEW u, u.cluster = s.cluster
    PROVE  SizeOf(u) = SizeOf(s)
  BY DEF SizeOf

LEMMA WellFormedKeeps ==
    ASSUME NEW c \in Cluster, NEW n, WellFormed(c, n)
    PROVE  Keeps(c, c)
  BY DEF WellFormed, Keeps

LEMMA SizeOfKeeps ==
    ASSUME NEW s, NEW u, s.cluster \in Cluster, Keeps(s.cluster, u.cluster)
    PROVE  SizeOf(u) = SizeOf(s)
<1>1. References(u.cluster.branches) = References(s.cluster.branches)
  BY SameReferences DEF Keeps
<1>2. u.cluster \in Cluster
  BY DEF Keeps
<1> QED BY <1>1, <1>2, SizeIs DEF Keeps

(* A step that keeps the ledger, ...                                       *)
LEMMA SameLedger ==
    ASSUME NEW c, NEW d, Traces(c, d), NEW n \in Nat, NEW l, \A i \in DOMAIN l : Accounted(c, n, l[i])
    PROVE  \A i \in DOMAIN l : Accounted(d, n + 1, l[i])
  BY AccountedStays

(* ... and one that adds to it.                                            *)
LEMMA OneMore ==
    ASSUME NEW c, NEW d, Traces(c, d), NEW n \in Nat, NEW l \in Seq(IntentKeys), NEW sp, Booked(l, sp),
           \A i \in DOMAIN l : Accounted(c, n, l[i]),
           NEW key \in IntentKeys, ~In(key, l), Accounted(d, n + 1, key)
    PROVE  /\ Append(l, key) \in Seq(IntentKeys) /\ Booked(Append(l, key), sp)
           /\ \A i \in DOMAIN Append(l, key) : Accounted(d, n + 1, Append(l, key)[i])
           /\ \A k : In(k, Append(l, key)) <=> In(k, l) \/ k = key
<1> DEFINE m == Append(l, key)
<1>1. /\ m \in Seq(IntentKeys) /\ Booked(m, sp)
      /\ \A k : In(k, m) <=> In(k, l) \/ k = key
  BY BookedMore
<1> HIDE DEF m
<1>2. ASSUME NEW i \in DOMAIN m PROVE Accounted(d, n + 1, m[i])
  <2>1. In(m[i], m)
    BY DEF In
  <2>2. m[i] = key \/ \E j \in DOMAIN l : l[j] = m[i]
    BY <1>1, <2>1 DEF In
  <2> QED BY <2>2, SameLedger
<1> QED BY <1>1, <1>2 DEF m

(* A key that is accounted for after a step and not before it is new.      *)
LEMMA NotYet ==
    ASSUME NEW c, NEW n, NEW l, \A i \in DOMAIN l : Accounted(c, n, l[i]), NEW key, ~Accounted(c, n, key)
    PROVE  ~In(key, l)
  BY DEF In

(* Quiet steps, and steps that only touch a timer or a branch.             *)
LEMMA QuietKeepsInv ==
    ASSUME NEW s, NEW n, NEW l, NEW sp, Inv(s, n, l, sp), NEW t, Quiet(s, t), NEW sq, Booked(l, sq),
           s.cluster # Null => Alive(s.cluster, l, sq)
    PROVE  Inv(t.state, n + 1, After(l, t), sq)
<1>1. /\ s \in State /\ n \in Nat /\ n + 1 \in Nat /\ l \in Seq(IntentKeys)
      /\ t.state \in State /\ t.state.cluster = s.cluster /\ After(l, t) = l
  BY AfterIs DEF Inv, Quiet
<1>2. CASE s.cluster = Null
  BY <1>1, <1>2 DEF Inv
<1>3. CASE s.cluster # Null
  <2> DEFINE c == s.cluster
  <2>1. c \in Cluster /\ Running(s, n, l, sp)
    BY <1>1, <1>3, StateFields DEF Inv
  <2>2. Keeps(c, c)
    BY <2>1, WellFormedKeeps DEF Running
  <2>3. WellFormed(c, n + 1)
    BY <1>1, <2>1, <2>2, KeepsWellFormed DEF Running
  <2>4. \A i \in DOMAIN l : Accounted(c, n + 1, l[i])
    BY <1>1, <2>1, <2>2, KeepsTraces, SameLedger DEF Running
  <2>5. SizeOf(t.state) = SizeOf(s)
    BY <1>1, SizeOfCluster
  <2>6. Running(t.state, n + 1, l, sq)
    BY <1>1, <1>3, <2>1, <2>3, <2>4, <2>5 DEF Running
  <2> QED BY <1>1, <1>3, <2>6 DEF Inv
<1> QED BY <1>2, <1>3

LEMMA KeepsInv ==
    ASSUME NEW s, NEW n, NEW l, NEW sp, Inv(s, n, l, sp), s.cluster \in Cluster,
           NEW d, Keeps(s.cluster, d), Analysed(d, SizeOf(s)),
           NEW t, t.state \in State, t.state.cluster = d, SizeOf(t.state) <= MaxStateSize,
           NEW m \in Seq(IntentKeys), NEW sq, Booked(m, sq), Alive(d, m, sq),
           \A i \in DOMAIN m : Accounted(d, n + 1, m[i])
    PROVE  Inv(t.state, n + 1, m, sq)
<1>1. s \in State /\ n \in Nat /\ n + 1 \in Nat
  BY DEF Inv
<1>2. s.cluster # Null /\ d \in Cluster /\ d # Null
  BY ClusterFields DEF Keeps
<1>3. WellFormed(d, n + 1)
  BY <1>1, <1>2, KeepsWellFormed DEF Inv, Running
<1>4. SizeOf(t.state) = SizeOf(s)
  BY SizeOfKeeps
<1>5. Running(t.state, n + 1, m, sq)
  BY <1>3, <1>4 DEF Running
<1> QED BY <1>1, <1>2, <1>5 DEF Inv

-----------------------------------------------------------------------------
(* Sources keep the invariant.                                             *)

LEMMA FourKeys ==
    ASSUME NEW k1 \in IntentKeys, NEW k2 \in IntentKeys, NEW k3 \in IntentKeys, NEW k4 \in IntentKeys
    PROVE  LET m == <<>> \o <<k1, k2, k3>> \o <<k4>>
           IN  /\ m \in Seq(IntentKeys) /\ DOMAIN m = 1 .. 4
               /\ m[1] = k1 /\ m[2] = k2 /\ m[3] = k3 /\ m[4] = k4
<1>1. /\ <<k1, k2, k3>> \in Seq(IntentKeys) /\ Len(<<k1, k2, k3>>) = 3
      /\ <<k1, k2, k3>>[1] = k1 /\ <<k1, k2, k3>>[2] = k2 /\ <<k1, k2, k3>>[3] = k3
  OBVIOUS
<1>2. \A p \in Seq(IntentKeys) : <<>> \o p \o <<k4>> = Append(p, k4)
  OBVIOUS
<1>3. ASSUME NEW p \in Seq(IntentKeys), Len(p) = 3
      PROVE  /\ Append(p, k4) \in Seq(IntentKeys) /\ DOMAIN Append(p, k4) = 1 .. 4
             /\ Append(p, k4)[4] = k4 /\ \A i \in 1 .. 3 : Append(p, k4)[i] = p[i]
  <2>1. /\ Append(p, k4) \in Seq(IntentKeys) /\ DOMAIN Append(p, k4) = 1 .. (Len(p) + 1)
        /\ Append(p, k4)[Len(p) + 1] = k4 /\ \A i \in 1 .. Len(p) : Append(p, k4)[i] = p[i]
    OBVIOUS
  <2>2. Len(p) + 1 = 4
    BY <1>3
  <2> QED BY <1>3, <2>1, <2>2
<1>4. <<>> \o <<k1, k2, k3>> \o <<k4>> = Append(<<k1, k2, k3>>, k4)
  BY <1>1, <1>2
<1> DEFINE p == <<k1, k2, k3>>
<1> HIDE DEF p
<1>5. p \in Seq(IntentKeys) /\ Len(p) = 3 /\ p[1] = k1 /\ p[2] = k2 /\ p[3] = k3
  BY <1>1 DEF p
<1>6. Append(p, k4)[1] = k1 /\ Append(p, k4)[2] = k2 /\ Append(p, k4)[3] = k3
  BY <1>3, <1>5
<1> QED BY <1>3, <1>4, <1>5, <1>6 DEF p

LEMMA OpensInv ==
    ASSUME NEW s, NEW n, NEW l, NEW sp, Inv(s, n, l, sp), NEW e, Opens(s, e), e.eventId = n + 1,
           e.at \in Nat, SourceOf(e) \in Source
    PROVE  Inv(apply(s, e).state, n + 1, After(l, apply(s, e)), sp)
<1> DEFINE t == apply(s, e)
           c == newCluster(e, SourceOf(e))
           b == analysisDraft(<<SourceOf(e)>>, "first_source")
           k1 == TimerKey("mirror")
           k2 == TimerKey("lifecycle")
           k3 == BranchKey("first_source", <<e.eventId>>)
           k4 == <<"first-source">>
           m == <<>> \o <<k1, k2, k3>> \o <<k4>>
<1>1. /\ s.cluster = Null /\ l = <<>> /\ n \in Nat /\ n + 1 \in Nat
      /\ t.state \in State /\ t.state.cluster = c /\ SizeOf(t.state) <= MaxStateSize
      /\ t.jobs = Opening(e) /\ t.outbox = <<Job(k4, 0)>>
  BY DEF Inv, Opens, Moves
<1>2. /\ c \in Cluster /\ c.sources = <<SourceOf(e)>> /\ c.branches = <<b>>
      /\ \A u \in TimerTypes : c.timers[u].jobId = TimerKey(u)
  BY NewClusterFields
<1>3. SourceOf(e).eventId = n + 1
  BY DEF SourceOf
<1>4. <<SourceOf(e)>> \in Seq(Source) /\ Len(<<SourceOf(e)>>) = 1 /\ <<SourceOf(e)>>[1] = SourceOf(e)
      /\ DOMAIN <<SourceOf(e)>> = {1}
  OBVIOUS
<1>5. analysisInputs(<<SourceOf(e)>>) = <<e.eventId>>
  BY <1>3, <1>4 DEF analysisInputs
<1>6. /\ b \in Branch /\ b.phase = "first_source" /\ b.inputs = <<e.eventId>> /\ b.jobId = k3
  <2>1. "first_source" \in Phases
    BY KindFacts
  <2> QED BY <1>4, <1>5, <2>1, DraftFields
<1>7. Len(b.inputs) = 1 /\ DOMAIN b.inputs = {1} /\ b.inputs[1] = n + 1
  BY <1>6
<1>8. k1 \in IntentKeys /\ k2 \in IntentKeys /\ k3 \in IntentKeys /\ k4 \in IntentKeys
  <2>1. <<e.eventId>> \in Seq(Nat)
    BY <1>1
  <2>2. k3 \in BranchKeys /\ k1 \in TimerKeys /\ k2 \in TimerKeys
    BY <2>1, KindFacts, KeyTypes
  <2> QED BY <2>2 DEF IntentKeys
<1>9. k1 # k2 /\ k1 # k3 /\ k1 # k4 /\ k2 # k3 /\ k2 # k4 /\ k3 # k4
  <2>1. k1[1] = "timer" /\ k2[1] = "timer" /\ k1[2] = "mirror" /\ k2[2] = "lifecycle"
        /\ k3[1] = "analysis" /\ k4[1] = "first-source"
    BY KeyShapes
  <2> HIDE DEF k1, k2, k3, k4
  <2> QED BY <2>1
<1> HIDE DEF k1, k2, k3, k4, b, c, t
<1>10. After(l, t) = m
  <2>1. KeysOf(t.jobs) = <<k1, k2, k3>>
    BY <1>1 DEF KeysOf, Opening, Job, k1, k2, k3
  <2>2. KeysOf(t.outbox) = <<k4>>
    BY <1>1, Asks
  <2> QED BY <1>1, <2>1, <2>2 DEF After
<1>11. m \in Seq(IntentKeys) /\ DOMAIN m = 1 .. 4 /\ m[1] = k1 /\ m[2] = k2 /\ m[3] = k3 /\ m[4] = k4
  BY <1>8, FourKeys
<1> HIDE DEF m
<1>12. \A i, j \in DOMAIN m : i # j => m[i] # m[j]
  <2>1. \A i \in DOMAIN m : i = 1 \/ i = 2 \/ i = 3 \/ i = 4
    BY <1>11
  <2> QED BY <1>9, <1>11, <2>1
<1>13. Booked(m, sp)
  <2>1. sp = {}
    BY <1>1 DEF Inv, Booked, In
  <2> QED BY <1>12, <2>1 DEF Booked
<1>14. Named(c, b)
  <2>1. b.inputs[1] = c.sources[1].eventId
    BY <1>2, <1>3, <1>4, <1>7
  <2>2. Len(c.sources) = 1
    BY <1>2, <1>4
  <2> QED BY <1>6, <1>7, <2>1, <2>2 DEF Named, k3
<1>15. WellFormed(c, n + 1)
  <2>1. DOMAIN c.branches = {1} /\ c.branches[1] = b /\ Len(c.branches) = 1
    BY <1>2
  <2>2. DOMAIN c.sources = {1} /\ c.sources[1].eventId = n + 1 /\ Len(c.sources) = 1
    BY <1>2, <1>3, <1>4
  <2>3. 1 \in 1 .. maxSourcesPerCluster /\ 1 \in 1 .. maxAnalysisBranches
    BY ReducerAssumption
  <2>4. \A u \in TimerTypes : c.timers[u].jobId[2] = u
    BY <1>2, KeyShapes
  <2>5. c.sources[1].eventId <= n + 1
    BY <1>1, <2>2
  <2> QED BY <1>14, <2>1, <2>2, <2>3, <2>4, <2>5 DEF WellFormed
<1>16. \A i \in DOMAIN m : Accounted(c, n + 1, m[i])
  <2>1. 1 \in DOMAIN c.branches /\ c.branches[1].jobId = k3
    BY <1>2, <1>6
  <2>2. Accounted(c, n + 1, k1) /\ Accounted(c, n + 1, k2)
    BY KindFacts DEF Accounted, k1, k2
  <2>3. Accounted(c, n + 1, k3)
    BY <2>1 DEF Accounted
  <2>4. Accounted(c, n + 1, k4)
    BY DEF Accounted, k4
  <2>5. \A i \in DOMAIN m : i = 1 \/ i = 2 \/ i = 3 \/ i = 4
    BY <1>11
  <2> QED BY <1>11, <2>2, <2>3, <2>4, <2>5
<1>17. Alive(c, m, sp)
  <2>1. sp = {}
    BY <1>1 DEF Inv, Booked, In
  <2>2. 1 \in DOMAIN m /\ 2 \in DOMAIN m
    BY <1>11
  <2>3. In(TimerKey("mirror"), m) /\ In(TimerKey("lifecycle"), m)
    BY <1>11, <2>2 DEF In, k1, k2
  <2>4. \A u \in TimerTypes : In(c.timers[u].jobId, m)
    BY <1>2, <2>3 DEF TimerTypes
  <2> QED BY <2>1, <2>4 DEF Alive
<1>18. Analysed(c, SizeOf(t.state))
  <2>1. 1 \in DOMAIN c.branches /\ Len(c.branches[1].inputs) = Len(c.sources)
    BY <1>2, <1>4, <1>7
  <2> QED BY <1>2, <2>1, AllAnalysed
<1>19. Running(t.state, n + 1, m, sp)
  BY <1>1, <1>15, <1>16, <1>17, <1>18 DEF Running
<1>20. c # Null
  BY <1>2, ClusterFields
<1>21. Inv(t.state, n + 1, m, sp)
  BY <1>1, <1>11, <1>13, <1>19, <1>20 DEF Inv
<1> QED BY <1>10, <1>21 DEF t

(* A source adds one to the size, a branch its inputs.                     *)
LEMMA SizeGrows ==
    ASSUME NEW s, s.cluster \in Cluster, NEW source \in Source, NEW u,
           u.cluster = WithSource(s.cluster, source)
    PROVE  SizeOf(u) = SizeOf(s) + 1 /\ SizeOf(s) \in Nat
<1>1. /\ u.cluster \in Cluster /\ u.cluster.sources = Append(s.cluster.sources, source)
      /\ u.cluster.branches = s.cluster.branches
  BY WithSourceFields
<1>2. s.cluster.sources \in Seq(Source) /\ Len(s.cluster.sources) \in Nat /\ s.cluster.branches \in Seq(Branch)
  BY ClusterFields
<1>3. Len(u.cluster.sources) = Len(s.cluster.sources) + 1
  BY <1>1, <1>2
<1>4. Cardinality(References(s.cluster.branches)) \in Nat
  BY <1>2, ReferencesFinite
<1>5. /\ SizeOf(u) = Len(u.cluster.sources) + Cardinality(References(u.cluster.branches))
      /\ SizeOf(s) = Len(s.cluster.sources) + Cardinality(References(s.cluster.branches))
  BY <1>1, SizeIs
<1> QED BY <1>1, <1>2, <1>3, <1>4, <1>5

LEMMA JoinsInv ==
    ASSUME NEW s, NEW n, NEW l, NEW sp, Inv(s, n, l, sp), NEW e, Joins(s, e), e.eventId = n + 1,
           e.at \in Nat, SourceOf(e) \in Source
    PROVE  Inv(apply(s, e).state, n + 1, After(l, apply(s, e)), sp)
<1> DEFINE t == apply(s, e)
           c == s.cluster
           src == SourceOf(e)
           d == WithSource(c, src)
<1>1. /\ c \in Cluster /\ n \in Nat /\ n + 1 \in Nat /\ l \in Seq(IntentKeys) /\ Booked(l, sp)
      /\ t.state \in State /\ t.state.cluster = d /\ SizeOf(t.state) <= MaxStateSize
      /\ t.jobs = <<>> /\ t.outbox = <<>> /\ Len(c.sources) < maxSourcesPerCluster
  BY DEF Inv, Joins, Moves
<1>2. c # Null /\ WellFormed(c, n) /\ Alive(c, l, sp) /\ Analysed(c, SizeOf(s))
      /\ \A i \in DOMAIN l : Accounted(c, n, l[i])
  BY <1>1, ClusterFields DEF Inv, Running
<1>3. /\ d \in Cluster /\ d.sources = Append(c.sources, src) /\ d.branches = c.branches /\ d.timers = c.timers
  BY <1>1, WithSourceFields
<1>4. src.eventId = n + 1 /\ src.kind = e.kind
  BY DEF SourceOf
<1> HIDE DEF t
<1>5. After(l, t) = l
  BY <1>1, AfterIs
<1>6. WellFormed(d, n + 1)
  BY <1>1, <1>2, <1>4, SourceWellFormed
<1>7. SizeOf(t.state) = SizeOf(s) + 1 /\ SizeOf(s) \in Nat
  BY <1>1, SizeGrows
<1>8. Len(c.sources) \in Nat /\ c.sources \in Seq(Source)
  BY <1>1, ClusterFields
<1>9. d.sources[Len(c.sources) + 1] = src
  BY <1>3, <1>8
<1>10. SameArtifact(c, src) \/ Covered(d, Len(c.sources) + 1)
  <2>1. CASE SameArtifact(c, src)
    BY <2>1
  <2>2. CASE Debounced(c, src, e.at)
    BY <1>3, <1>9, <2>2 DEF Debounced, Covered
  <2>3. CASE \E i \in DOMAIN c.branches : c.branches[i].jobId = JoinBranch(c, e).jobId
    <3>1. PICK i \in DOMAIN c.branches : c.branches[i].jobId = JoinBranch(c, e).jobId
      BY <2>3
    <3>2. d.sources \in Seq(Source) /\ Len(d.sources) = Len(c.sources) + 1
      BY <1>3, <1>8
    <3>3. phaseFor(e.kind) \in Phases
      BY KindFacts
    <3>4. JoinBranch(c, e).jobId = BranchKey(phaseFor(e.kind), analysisInputs(d.sources))
      BY <1>3, <3>2, <3>3, DraftFields DEF JoinBranch
    <3>5. c.branches[i].jobId = BranchKey(c.branches[i].phase, c.branches[i].inputs)
          /\ Len(c.branches[i].inputs) \in 1 .. Len(c.sources)
      BY <1>2 DEF WellFormed, Named
    <3>6. c.branches[i].inputs = analysisInputs(d.sources)
      BY <3>1, <3>4, <3>5, KeyShapes
    <3>7. Len(c.branches[i].inputs) = Len(c.sources) + 1
      BY <3>2, <3>6, InputsType
    <3> QED BY <1>8, <3>5, <3>7
  <2> QED BY <2>1, <2>2, <2>3 DEF Joins
<1>11. Analysed(d, SizeOf(s) + 1)
  BY <1>1, <1>2, <1>7, <1>10, SourceAnalysed
<1>12. Alive(d, l, sp)
  BY <1>2, <1>3, AliveKept
<1>13. \A i \in DOMAIN l : Accounted(d, n + 1, l[i])
  <2>1. Traces(c, d)
    BY <1>3 DEF Traces
  <2> QED BY <1>1, <1>2, <2>1, SameLedger
<1>14. Running(t.state, n + 1, l, sp)
  BY <1>1, <1>6, <1>7, <1>11, <1>12, <1>13 DEF Running
<1>15. d # Null
  BY <1>3, ClusterFields
<1>16. Inv(t.state, n + 1, l, sp)
  BY <1>1, <1>14, <1>15 DEF Inv
<1> QED BY <1>5, <1>16 DEF t

LEMMA JoinsAnalysedInv ==
    ASSUME NEW s, NEW n, NEW l, NEW sp, Inv(s, n, l, sp), NEW e, JoinsAnalysed(s, e), e.eventId = n + 1,
           e.at \in Nat, SourceOf(e) \in Source
    PROVE  Inv(apply(s, e).state, n + 1, After(l, apply(s, e)), sp)
<1> DEFINE t == apply(s, e)
           c == s.cluster
           src == SourceOf(e)
           x == WithSource(c, src)
           b == JoinBranch(c, e)
           d == WithBranch(x, b)
           m == Append(l, b.jobId)
<1>1. /\ c \in Cluster /\ n \in Nat /\ n + 1 \in Nat /\ l \in Seq(IntentKeys) /\ Booked(l, sp)
      /\ t.state \in State /\ t.state.cluster = d /\ SizeOf(t.state) <= MaxStateSize
      /\ t.jobs = <<Job(b.jobId, e.at)>> /\ t.outbox = <<>>
      /\ Len(c.sources) < maxSourcesPerCluster /\ Len(c.branches) < maxAnalysisBranches
      /\ \A i \in DOMAIN c.branches : c.branches[i].jobId # b.jobId
  BY DEF Inv, JoinsAnalysed, Moves
<1>2. c # Null /\ WellFormed(c, n) /\ Alive(c, l, sp) /\ \A i \in DOMAIN l : Accounted(c, n, l[i])
  BY <1>1, ClusterFields DEF Inv, Running
<1>3. /\ x \in Cluster /\ x.sources = Append(c.sources, src) /\ x.branches = c.branches /\ x.timers = c.timers
      /\ x.sources \in Seq(Source)
  BY <1>1, WithSourceFields, ClusterFields
<1>4. src.eventId = n + 1
  BY DEF SourceOf
<1>5. phaseFor(e.kind) \in Phases
  BY KindFacts
<1>6. b = analysisDraft(x.sources, phaseFor(e.kind))
  BY <1>3 DEF JoinBranch
<1>7. /\ b \in Branch /\ b.inputs = analysisInputs(x.sources)
      /\ b.jobId = BranchKey(phaseFor(e.kind), analysisInputs(x.sources))
  BY <1>3, <1>5, <1>6, DraftFields
<1>8. b.jobId \in IntentKeys /\ b.jobId[1] = "analysis"
  BY <1>7, KeyShapes DEF Branch, IntentKeys
<1> HIDE DEF t, b, x
<1>9. d \in Cluster /\ d.branches = Append(c.branches, b) /\ d.sources = x.sources /\ d.timers = c.timers
  BY <1>3, <1>7, WithBranchFields
<1>10. After(l, t) = m
  BY <1>1, <1>8, AfterIs
<1>11. WellFormed(x, n + 1)
  BY <1>1, <1>2, <1>4, SourceWellFormed DEF x
<1>12. WellFormed(d, n + 1)
  <2>1. \A i \in DOMAIN x.branches : x.branches[i].jobId # analysisDraft(x.sources, phaseFor(e.kind)).jobId
    BY <1>1, <1>3, <1>6
  <2>2. Len(x.branches) < maxAnalysisBranches
    BY <1>1, <1>3
  <2> QED BY <1>1, <1>3, <1>5, <1>6, <1>11, <2>1, <2>2, BranchWellFormed
<1> HIDE DEF d
<1>13. Traces(c, d) /\ \E i \in DOMAIN d.branches : d.branches[i] = b
  <2>1. Traces(c, d) /\ Gains(c, d, b)
    BY <1>1, <1>9, BranchTraces
  <2> QED BY <2>1 DEF Gains
<1>14. Analysed(d, SizeOf(t.state))
  <2>1. PICK i \in DOMAIN d.branches : d.branches[i] = b
    BY <1>13
  <2>2. Len(d.branches[i].inputs) = Len(d.sources)
    BY <1>3, <1>7, <1>9, <2>1, InputsType
  <2> QED BY <1>9, <2>2, AllAnalysed
<1>15. ~In(b.jobId, l)
  <2>1. ~Accounted(c, n, b.jobId)
    BY <1>1, <1>2, <1>8, AccountedFor
  <2> QED BY <1>2, <2>1, NotYet
<1>16. Accounted(d, n + 1, b.jobId)
  BY <1>13 DEF Accounted
<1>17. /\ m \in Seq(IntentKeys) /\ Booked(m, sp) /\ \A i \in DOMAIN m : Accounted(d, n + 1, m[i])
       /\ \A k : In(k, m) <=> In(k, l) \/ k = b.jobId
  BY <1>1, <1>2, <1>8, <1>13, <1>15, <1>16, OneMore
<1> HIDE DEF m
<1>18. Alive(d, m, sp)
  BY <1>2, <1>9, <1>17, AliveKept
<1>19. Running(t.state, n + 1, m, sp)
  BY <1>1, <1>12, <1>14, <1>17, <1>18 DEF Running
<1>20. d # Null
  BY <1>9, ClusterFields
<1>21. Inv(t.state, n + 1, m, sp)
  BY <1>1, <1>17, <1>19, <1>20 DEF Inv
<1> QED BY <1>10, <1>21 DEF t

-----------------------------------------------------------------------------
(* Firings keep the invariant.  A firing is of a job that was asked for.   *)

Firing(s, n, l, e) ==
    /\ e.type = "timer" /\ e.eventId = n + 1 /\ e.at \in Nat /\ e.timerType \in TimerTypes
    /\ In(e.jobId, l) /\ e.jobId[2] = e.timerType
    /\ e.due = s.cluster.timers[e.timerType].due

LEMMA SpentBooked ==
    ASSUME NEW l, NEW sp, Booked(l, sp), NEW key, In(key, l)
    PROVE  Booked(l, sp \cup {key})
  BY DEF Booked

LEMMA StaleInv ==
    ASSUME NEW s, NEW n, NEW l, NEW sp, Inv(s, n, l, sp), NEW e, Firing(s, n, l, e),
           Quiet(s, apply(s, e)), s.cluster # Null => ~Current(s.cluster, e)
    PROVE  Inv(apply(s, e).state, n + 1, After(l, apply(s, e)), sp \cup {e.jobId})
<1> DEFINE c == s.cluster
           T == e.timerType
<1>1. Booked(l, sp \cup {e.jobId})
  BY SpentBooked DEF Inv, Firing
<1>2. ASSUME c # Null PROVE Alive(c, l, sp \cup {e.jobId})
  <2>1. Alive(c, l, sp) /\ WellFormed(c, n) /\ ~Current(c, e)
    BY <1>2 DEF Inv, Running
  <2>2. T \in TimerTypes /\ e.jobId[2] = T
    BY DEF Firing
  <2>3. ASSUME c.timers[T].status = "pending"
        PROVE  c.timers[T].jobId \notin sp \cup {e.jobId} /\ In(c.timers[T].jobId, l)
    <3>1. c.timers[T].jobId # e.jobId
      BY <2>1, <2>3 DEF Current, Firing
    <3> QED BY <2>1, <2>2, <2>3, <3>1 DEF Alive
  <2> QED BY <2>1, <2>2, <2>3, AliveFired
<1> QED BY <1>1, <1>2, QuietKeepsInv

LEMMA ReplacesInv ==
    ASSUME NEW s, NEW n, NEW l, NEW sp, Inv(s, n, l, sp), NEW e, Firing(s, n, l, e),
           s.cluster \in Cluster, Current(s.cluster, e), Replaces(s, e)
    PROVE  Inv(apply(s, e).state, n + 1, After(l, apply(s, e)), sp \cup {e.jobId})
<1> DEFINE t == apply(s, e)
           c == s.cluster
           T == e.timerType
           key == RecoveryKey(T, e.eventId)
           d == Rescheduled(c, T, key)
           m == Append(l, key)
           sq == sp \cup {e.jobId}
<1>1. /\ c \in Cluster /\ n \in Nat /\ n + 1 \in Nat /\ l \in Seq(IntentKeys)
      /\ e.eventId = n + 1 /\ T \in TimerTypes /\ e.jobId[2] = T
      /\ t.state \in State /\ t.state.cluster = d /\ SizeOf(t.state) <= MaxStateSize
      /\ t.jobs = <<Job(key, c.timers[T].due)>> /\ t.outbox = <<>>
  BY DEF Inv, Replaces, Moves, Firing
<1>2. c # Null /\ WellFormed(c, n) /\ Alive(c, l, sp) /\ Analysed(c, SizeOf(s))
      /\ \A i \in DOMAIN l : Accounted(c, n, l[i])
  BY <1>1, ClusterFields DEF Inv, Running
<1>3. Booked(l, sq)
  BY SpentBooked DEF Inv, Firing
<1>4. key \in TimerKeys /\ key \in IntentKeys /\ key[2] = T
  BY <1>1, KeyTypes, KeyShapes DEF IntentKeys
<1>5. /\ d \in Cluster /\ d.branches = c.branches /\ d.sources = c.sources /\ d.timers[T].jobId = key
      /\ \A u \in TimerTypes : d.timers[u].status = c.timers[u].status
      /\ \A u \in TimerTypes \ {T} : d.timers[u] = c.timers[u]
  BY <1>1, <1>4, RescheduledFields
<1> HIDE DEF t, d
<1>6. Keeps(c, d)
  BY <1>2, <1>4, <1>5 DEF Keeps, WellFormed
<1>7. After(l, t) = m
  BY <1>1, <1>4, AfterIs
<1>8. ~In(key, l)
  <2>1. ~(n + 1 \in 1 .. n)
    BY <1>1
  <2>2. ~Accounted(c, n, key)
    BY <1>1, <1>2, <2>1, AccountedFor
  <2> QED BY <1>2, <2>2, NotYet
<1>9. Accounted(d, n + 1, key)
  <2>1. n + 1 \in 1 .. (n + 1)
    BY <1>1
  <2> QED BY <1>1, <2>1 DEF Accounted
<1> HIDE DEF key
<1>10. /\ m \in Seq(IntentKeys) /\ Booked(m, sq) /\ \A i \in DOMAIN m : Accounted(d, n + 1, m[i])
       /\ \A k : In(k, m) <=> In(k, l) \/ k = key
  <2>1. Traces(c, d)
    BY <1>6, KeepsTraces
  <2> HIDE DEF sq, c
  <2> QED BY <1>1, <1>2, <1>3, <1>4, <1>8, <1>9, <2>1, OneMore
<1> HIDE DEF m
<1>11. Alive(d, m, sq)
  <2>1. d.timers[T].jobId \notin sp \cup {e.jobId} /\ In(d.timers[T].jobId, m)
    BY <1>3, <1>5, <1>8, <1>10 DEF Booked
  <2>2. /\ \A k : In(k, l) => In(k, m)
        /\ \A u \in TimerTypes \ {T} : d.timers[u] = c.timers[u]
        /\ T \in TimerTypes /\ e.jobId[2] = T
    BY <1>1, <1>5, <1>10
  <2> HIDE DEF T, c
  <2> QED BY <1>2, <2>1, <2>2, AliveFired
<1>12. Analysed(d, SizeOf(s))
  <2>1. d.timers["mirror"].status = c.timers["mirror"].status
    BY <1>5, KindFacts
  <2> QED BY <1>1, <1>2, <1>6, <2>1, KeepsAnalysed
<1>13. Inv(t.state, n + 1, m, sq)
  BY <1>1, <1>6, <1>10, <1>11, <1>12, KeepsInv
<1> QED BY <1>7, <1>13 DEF t

(* A timer that has fired needs no job.                                    *)
LEMMA FiredKeeps ==
    ASSUME NEW c \in Cluster, NEW n, WellFormed(c, n), NEW T \in TimerTypes, NEW l, NEW sp, Alive(c, l, sp),
           NEW key, key[2] = T
    PROVE  Keeps(c, Fired(c, T)) /\ Alive(Fired(c, T), l, sp \cup {key})
<1> DEFINE d == Fired(c, T)
<1>1. /\ d \in Cluster /\ d.branches = c.branches /\ d.sources = c.sources /\ d.timers[T].status = "fired"
      /\ \A u \in TimerTypes : d.timers[u].jobId = c.timers[u].jobId
      /\ \A u \in TimerTypes \ {T} : d.timers[u] = c.timers[u]
  BY FiredFields
<1> HIDE DEF d
<1>2. Keeps(c, d)
  BY <1>1 DEF Keeps, WellFormed
<1>3. d.timers[T].status # "pending"
  BY <1>1
<1>4. Alive(d, l, sp \cup {key})
  BY <1>1, <1>3, AliveFired
<1> QED BY <1>2, <1>4 DEF d

LEMMA ClosesInv ==
    ASSUME NEW s, NEW n, NEW l, NEW sp, Inv(s, n, l, sp), NEW e, Firing(s, n, l, e),
           s.cluster \in Cluster, Closes(s, e)
    PROVE  Inv(apply(s, e).state, n + 1, After(l, apply(s, e)), sp \cup {e.jobId})
<1> DEFINE t == apply(s, e)
           c == s.cluster
           d == Fired(c, "mirror")
           sq == sp \cup {e.jobId}
<1>1. /\ c \in Cluster /\ n \in Nat /\ l \in Seq(IntentKeys)
      /\ e.jobId[2] = "mirror" /\ "mirror" \in TimerTypes
      /\ t.state \in State /\ t.state.cluster = d /\ SizeOf(t.state) <= MaxStateSize
      /\ t.jobs = <<>> /\ t.outbox = <<>>
  BY KindFacts DEF Inv, Closes, Moves, Firing
<1>2. c # Null /\ WellFormed(c, n) /\ Alive(c, l, sp) /\ Analysed(c, SizeOf(s))
      /\ \A i \in DOMAIN l : Accounted(c, n, l[i])
  BY <1>1, ClusterFields DEF Inv, Running
<1>3. Booked(l, sq)
  BY SpentBooked DEF Inv, Firing
<1>4. Keeps(c, d) /\ Alive(d, l, sq)
  BY <1>1, <1>2, FiredKeeps
<1> HIDE DEF t, sq
<1>5. d \in Cluster /\ d.branches = c.branches /\ d.sources = c.sources
  BY <1>1, FiredFields
<1> HIDE DEF d
<1>6. After(l, t) = l
  BY <1>1, AfterIs
<1>7. Analysed(d, SizeOf(s))
  <2>1. CASE \E i \in DOMAIN c.branches : c.branches[i].inputs = analysisInputs(c.sources)
    <3>1. PICK i \in DOMAIN c.branches : c.branches[i].inputs = analysisInputs(c.sources)
      BY <2>1
    <3>2. i \in DOMAIN d.branches /\ Len(d.branches[i].inputs) = Len(d.sources)
      BY <1>1, <1>5, <3>1, BatchFields
    <3> QED BY <1>5, <3>2, AllAnalysed
  <2>2. CASE Len(c.branches) >= maxAnalysisBranches \/ SizeOf(s) + Len(c.sources) > MaxStateSize
    <3>1. Full(d, SizeOf(s))
      BY <1>5, <2>2 DEF Full
    <3> QED BY <3>1 DEF Analysed
  <2> QED BY <2>1, <2>2 DEF Closes
<1>8. \A i \in DOMAIN l : Accounted(d, n + 1, l[i])
  BY <1>1, <1>2, <1>4, KeepsTraces, SameLedger
<1>9. Inv(t.state, n + 1, l, sq)
  BY <1>1, <1>3, <1>4, <1>7, <1>8, KeepsInv
<1> QED BY <1>6, <1>9 DEF t, sq

LEMMA FinishesInv ==
    ASSUME NEW s, NEW n, NEW l, NEW sp, Inv(s, n, l, sp), NEW e, Firing(s, n, l, e),
           s.cluster \in Cluster, Finishes(s, e)
    PROVE  Inv(apply(s, e).state, n + 1, After(l, apply(s, e)), sp \cup {e.jobId})
<1> DEFINE t == apply(s, e)
           c == s.cluster
           x == Fired(c, "lifecycle")
           d == Finalized(x, e.at)
           sq == sp \cup {e.jobId}
<1>1. /\ c \in Cluster /\ n \in Nat /\ l \in Seq(IntentKeys)
      /\ e.jobId[2] = "lifecycle" /\ "lifecycle" \in TimerTypes /\ "mirror" \in TimerTypes /\ e.at \in Nat
      /\ t.state \in State /\ t.state.cluster = d /\ SizeOf(t.state) <= MaxStateSize
      /\ t.jobs = <<>> /\ t.outbox = <<>>
  BY KindFacts DEF Inv, Finishes, Moves, Firing
<1>2. c # Null /\ WellFormed(c, n) /\ Alive(c, l, sp) /\ Analysed(c, SizeOf(s))
      /\ \A i \in DOMAIN l : Accounted(c, n, l[i])
  BY <1>1, ClusterFields DEF Inv, Running
<1>3. Booked(l, sq)
  BY SpentBooked DEF Inv, Firing
<1>4. Keeps(c, x) /\ Alive(x, l, sq)
  BY <1>1, <1>2, FiredKeeps
<1>5. x \in Cluster /\ x.timers["mirror"] = c.timers["mirror"]
  BY <1>1, FiredFields
<1> HIDE DEF t, sq, x
<1>6. d \in Cluster /\ d.branches = x.branches /\ d.sources = x.sources /\ d.timers = x.timers
  BY <1>1, <1>5, FinalizedFields
<1> HIDE DEF d
<1>7. Keeps(c, d)
  BY <1>4, <1>6 DEF Keeps
<1>8. Alive(d, l, sq)
  BY <1>4, <1>6, AliveKept
<1>9. Analysed(d, SizeOf(s))
  <2>1. d.timers["mirror"].status = c.timers["mirror"].status
    BY <1>5, <1>6
  <2> QED BY <1>1, <1>2, <1>7, <2>1, KeepsAnalysed
<1>10. After(l, t) = l
  BY <1>1, AfterIs
<1>11. \A i \in DOMAIN l : Accounted(d, n + 1, l[i])
  BY <1>1, <1>2, <1>7, KeepsTraces, SameLedger
<1>12. Inv(t.state, n + 1, l, sq)
  BY <1>1, <1>3, <1>7, <1>8, <1>9, <1>11, KeepsInv
<1> QED BY <1>10, <1>12 DEF t, sq

LEMMA ClosesAnalysedInv ==
    ASSUME NEW s, NEW n, NEW l, NEW sp, Inv(s, n, l, sp), NEW e, Firing(s, n, l, e),
           s.cluster \in Cluster, ClosesAnalysed(s, e)
    PROVE  Inv(apply(s, e).state, n + 1, After(l, apply(s, e)), sp \cup {e.jobId})
<1> DEFINE t == apply(s, e)
           c == s.cluster
           x == Fired(c, "mirror")
           b == BatchBranch(c)
           d == WithBranch(x, b)
           m == Append(l, b.jobId)
           sq == sp \cup {e.jobId}
<1>1. /\ c \in Cluster /\ n \in Nat /\ n + 1 \in Nat /\ l \in Seq(IntentKeys)
      /\ e.jobId[2] = "mirror" /\ "mirror" \in TimerTypes
      /\ t.state \in State /\ t.state.cluster = d /\ SizeOf(t.state) <= MaxStateSize
      /\ t.jobs = <<Job(b.jobId, e.at)>> /\ t.outbox = <<>> /\ Len(c.branches) < maxAnalysisBranches
      /\ \A i \in DOMAIN c.branches : c.branches[i].inputs # analysisInputs(c.sources)
  BY KindFacts DEF Inv, ClosesAnalysed, Moves, Firing
<1>2. c # Null /\ WellFormed(c, n) /\ Alive(c, l, sp) /\ \A i \in DOMAIN l : Accounted(c, n, l[i])
  BY <1>1, ClusterFields DEF Inv, Running
<1>3. Booked(l, sq)
  BY SpentBooked DEF Inv, Firing
<1>4. Keeps(c, x) /\ Alive(x, l, sq)
  BY <1>1, <1>2, FiredKeeps
<1>5. /\ b \in Branch /\ b.inputs = analysisInputs(c.sources)
      /\ b.jobId = BranchKey("source_confirmation", analysisInputs(c.sources))
      /\ Len(b.inputs) = Len(c.sources)
  BY <1>1, BatchFields
<1>6. b.jobId \in IntentKeys /\ b.jobId[1] = "analysis"
  BY <1>5, KeyShapes DEF Branch, IntentKeys
<1>7. x \in Cluster /\ x.branches = c.branches /\ x.sources = c.sources
  BY <1>1, FiredFields
<1>8. b = analysisDraft(x.sources, "source_confirmation") /\ "source_confirmation" \in Phases
  BY <1>7, KindFacts DEF BatchBranch
<1> HIDE DEF t, sq, x, b
<1>9. d \in Cluster /\ d.branches = Append(c.branches, b) /\ d.sources = c.sources /\ d.timers = x.timers
  BY <1>5, <1>7, WithBranchFields
<1>10. \A i \in DOMAIN c.branches : c.branches[i].jobId # b.jobId
  <2> SUFFICES ASSUME NEW i \in DOMAIN c.branches, c.branches[i].jobId = b.jobId PROVE FALSE
    OBVIOUS
  <2>1. c.branches[i].jobId = BranchKey(c.branches[i].phase, c.branches[i].inputs)
    BY <1>2 DEF WellFormed, Named
  <2>2. c.branches[i].inputs = analysisInputs(c.sources)
    BY <1>5, <2>1, KeyShapes
  <2> QED BY <1>1, <2>2
<1>11. WellFormed(x, n + 1)
  BY <1>1, <1>2, <1>4, KeepsWellFormed
<1>12. WellFormed(d, n + 1)
  <2>1. \A i \in DOMAIN x.branches : x.branches[i].jobId # analysisDraft(x.sources, "source_confirmation").jobId
    BY <1>7, <1>8, <1>10
  <2>2. Len(x.branches) < maxAnalysisBranches
    BY <1>1, <1>7
  <2> QED BY <1>1, <1>7, <1>8, <1>11, <2>1, <2>2, BranchWellFormed
<1> HIDE DEF d
<1>13. Traces(c, d) /\ \E i \in DOMAIN d.branches : d.branches[i] = b
  <2>1. Traces(c, d) /\ Gains(c, d, b)
    BY <1>1, <1>9, BranchTraces
  <2> QED BY <2>1 DEF Gains
<1>14. Analysed(d, SizeOf(t.state))
  <2>1. PICK i \in DOMAIN d.branches : d.branches[i] = b
    BY <1>13
  <2>2. Len(d.branches[i].inputs) = Len(d.sources)
    BY <1>5, <1>9, <2>1
  <2> QED BY <1>9, <2>2, AllAnalysed
<1>15. ~In(b.jobId, l)
  <2>1. ~Accounted(c, n, b.jobId)
    BY <1>1, <1>2, <1>6, <1>10, AccountedFor
  <2> QED BY <1>2, <2>1, NotYet
<1>16. Accounted(d, n + 1, b.jobId)
  BY <1>13 DEF Accounted
<1>17. After(l, t) = m
  BY <1>1, <1>6, AfterIs
<1>18. /\ m \in Seq(IntentKeys) /\ Booked(m, sq) /\ \A i \in DOMAIN m : Accounted(d, n + 1, m[i])
       /\ \A k : In(k, m) <=> In(k, l) \/ k = b.jobId
  BY <1>1, <1>2, <1>3, <1>6, <1>13, <1>15, <1>16, OneMore
<1> HIDE DEF m
<1>19. Alive(d, m, sq)
  BY <1>4, <1>9, <1>18, AliveKept
<1>20. Running(t.state, n + 1, m, sq)
  BY <1>1, <1>12, <1>14, <1>18, <1>19 DEF Running
<1>21. d # Null
  BY <1>9, ClusterFields
<1>22. Inv(t.state, n + 1, m, sq)
  BY <1>1, <1>18, <1>20, <1>21 DEF Inv
<1> QED BY <1>17, <1>22 DEF t, sq

-----------------------------------------------------------------------------
(* Reports keep the invariant.                                             *)

LEMMA BranchKeeps ==
    ASSUME NEW c \in Cluster, NEW n, WellFormed(c, n), NEW i \in DOMAIN c.branches, NEW b, NEW d,
           BranchIs(c, d, i, b), b.jobId = c.branches[i].jobId, b.phase = c.branches[i].phase,
           b.inputs = c.branches[i].inputs, c.branches[i].status # "pending" => b.status # "pending"
    PROVE  Keeps(c, d) /\ d.timers = c.timers
  BY DEF BranchIs, Keeps, WellFormed

LEMMA LeasesInv ==
    ASSUME NEW s, NEW n, NEW l, NEW sp, Inv(s, n, l, sp), NEW e, e.attempt \in Nat, e.fencingToken \in Nat,
           s.cluster \in Cluster, NEW i \in DOMAIN s.cluster.branches, Leases(s, e, i)
    PROVE  Inv(apply(s, e).state, n + 1, After(l, apply(s, e)), sp)
<1> DEFINE t == apply(s, e)
           c == s.cluster
           d == Expecting(c, i, e)
           b == [c.branches[i] EXCEPT !.expectedAttempt = e.attempt, !.expectedFencingToken = e.fencingToken]
<1>1. /\ c \in Cluster /\ n \in Nat /\ l \in Seq(IntentKeys) /\ Booked(l, sp)
      /\ t.state \in State /\ t.state.cluster = d /\ SizeOf(t.state) <= MaxStateSize
      /\ t.jobs = <<>> /\ t.outbox = <<>>
  BY DEF Inv, Leases, Moves
<1>2. c # Null /\ WellFormed(c, n) /\ Alive(c, l, sp) /\ Analysed(c, SizeOf(s))
      /\ \A j \in DOMAIN l : Accounted(c, n, l[j])
  BY <1>1, ClusterFields DEF Inv, Running
<1>3. BranchIs(c, d, i, b)
  BY ExpectingFields
<1>4. c.branches[i] \in Branch
  BY <1>1, ClusterFields
<1>5. /\ b.jobId = c.branches[i].jobId /\ b.phase = c.branches[i].phase
      /\ b.inputs = c.branches[i].inputs /\ b.status = c.branches[i].status
  BY <1>4 DEF Branch
<1> HIDE DEF b, d, t
<1>6. Keeps(c, d) /\ d.timers = c.timers
  BY <1>1, <1>2, <1>3, <1>5, BranchKeeps
<1>7. Alive(d, l, sp) /\ Analysed(d, SizeOf(s))
  BY <1>1, <1>2, <1>6, AliveKept, KeepsAnalysed
<1>8. \A j \in DOMAIN l : Accounted(d, n + 1, l[j])
  BY <1>1, <1>2, <1>6, KeepsTraces, SameLedger
<1>9. Inv(t.state, n + 1, l, sp)
  BY <1>1, <1>6, <1>7, <1>8, KeepsInv
<1>10. After(l, t) = l
  BY <1>1, AfterIs
<1> QED BY <1>9, <1>10 DEF t

(* An outcome, with the completion message of an accepted result.          *)
LEMMA SettlesInv ==
    ASSUME NEW s, NEW n, NEW l, NEW sp, Inv(s, n, l, sp), NEW e, e.eventId = n + 1,
           s.cluster \in Cluster, NEW i \in DOMAIN s.cluster.branches, NEW status \in {"succeeded", "failed"},
           NEW outbox, Settles(s, e, i, status, outbox), outbox = <<>> \/ outbox = Completion(e)
    PROVE  Inv(apply(s, e).state, n + 1, After(l, apply(s, e)), sp)
<1> DEFINE t == apply(s, e)
           c == s.cluster
           d == WithResult(c, i, e, status)
           b == [c.branches[i] EXCEPT !.status = status, !.resultEventId = e.eventId]
           key == <<"analysis-completed", e.jobId>>
           m == Append(l, key)
<1>1. /\ c \in Cluster /\ n \in Nat /\ e.eventId \in Nat /\ l \in Seq(IntentKeys) /\ Booked(l, sp)
      /\ t.state \in State /\ t.state.cluster = d /\ SizeOf(t.state) <= MaxStateSize
      /\ t.jobs = <<>> /\ t.outbox = outbox
      /\ c.branches[i].jobId = e.jobId /\ c.branches[i].status = "pending"
  BY DEF Inv, Settles, Moves
<1>2. c # Null /\ WellFormed(c, n) /\ Alive(c, l, sp) /\ Analysed(c, SizeOf(s))
      /\ \A j \in DOMAIN l : Accounted(c, n, l[j])
  BY <1>1, ClusterFields DEF Inv, Running
<1>3. BranchIs(c, d, i, b)
  BY <1>1, WithResultFields
<1>4. c.branches[i] \in Branch
  BY <1>1, ClusterFields
<1>5. /\ b.jobId = c.branches[i].jobId /\ b.phase = c.branches[i].phase
      /\ b.inputs = c.branches[i].inputs /\ b.status # "pending"
  BY <1>4 DEF Branch
<1>6. e.jobId \in BranchKeys
  BY <1>1, <1>4 DEF Branch
<1>7. key \in IntentKeys
  BY <1>6 DEF IntentKeys
<1> HIDE DEF b, d, t
<1>8. Keeps(c, d) /\ d.timers = c.timers
  BY <1>1, <1>2, <1>3, <1>5, BranchKeeps
<1>9. Alive(d, l, sp) /\ Analysed(d, SizeOf(s))
  BY <1>1, <1>2, <1>8, AliveKept, KeepsAnalysed
<1>10. CASE outbox = <<>>
  <2>1. \A j \in DOMAIN l : Accounted(d, n + 1, l[j])
    BY <1>1, <1>2, <1>8, KeepsTraces, SameLedger
  <2>2. Inv(t.state, n + 1, l, sp)
    BY <1>1, <1>8, <1>9, <2>1, KeepsInv
  <2>3. After(l, t) = l
    BY <1>1, <1>10, AfterIs
  <2> QED BY <2>2, <2>3 DEF t
<1>11. CASE outbox = Completion(e)
  <2>1. ~Accounted(c, n, key)
    <3>1. ASSUME NEW j \in DOMAIN c.branches, c.branches[j].status # "pending", e.jobId = c.branches[j].jobId
          PROVE  FALSE
      BY <1>1, <1>2, <3>1 DEF WellFormed
    <3> QED BY <1>1, <1>2, <3>1, AccountedFor
  <2>2. ~In(key, l)
    BY <1>2, <2>1, NotYet
  <2>3. Accounted(d, n + 1, key)
    <3>1. i \in DOMAIN d.branches /\ d.branches[i] = b
      BY <1>3 DEF BranchIs
    <3>2. d.branches[i].status # "pending" /\ key = <<"analysis-completed", d.branches[i].jobId>>
      BY <1>1, <1>5, <3>1
    <3> QED BY <3>1, <3>2 DEF Accounted
  <2>4. Traces(c, d)
    BY <1>8, KeepsTraces
  <2>5. After(l, t) = m
    <3>1. t.outbox = <<Job(key, 0)>>
      BY <1>1, <1>11 DEF Completion
    <3> QED BY <1>1, <1>7, <3>1, AfterIs
  <2> HIDE DEF key
  <2>6. /\ m \in Seq(IntentKeys) /\ Booked(m, sp) /\ \A j \in DOMAIN m : Accounted(d, n + 1, m[j])
        /\ \A k : In(k, m) <=> In(k, l) \/ k = key
    <3>1. n \in Nat /\ l \in Seq(IntentKeys) /\ Booked(l, sp)
      BY <1>1
    <3>2. \A j \in DOMAIN l : Accounted(c, n, l[j])
      BY <1>2
    <3> HIDE DEF c
    <3> QED BY <1>7, <2>2, <2>3, <2>4, <3>1, <3>2, OneMore
  <2> HIDE DEF m
  <2>7. Alive(d, m, sp)
    BY <1>9, <2>6, AliveKept
  <2>8. Inv(t.state, n + 1, m, sp)
    BY <1>1, <1>8, <1>9, <2>6, <2>7, KeepsInv
  <2> QED BY <2>5, <2>8 DEF t
<1> QED BY <1>10, <1>11

-----------------------------------------------------------------------------
(* What a step from cluster c to d, at time now, may never do.             *)

Frozen(c, d, now) ==
    /\ \A i \in DOMAIN c.branches :
          /\ i \in DOMAIN d.branches
          /\ d.branches[i].inputs = c.branches[i].inputs
          /\ d.branches[i].jobId = c.branches[i].jobId
          /\ d.branches[i].expectedFencingToken >= c.branches[i].expectedFencingToken
          /\ c.branches[i].status # "pending" => d.branches[i] = c.branches[i]
          /\ d.branches[i].status = "succeeded" /\ c.branches[i].status = "pending"
               => c.branches[i].expectedFencingToken > 0
    /\ Closed(c, now) => d.sources = c.sources

LEMMA TokensNat ==
    ASSUME NEW c \in Cluster, NEW i \in DOMAIN c.branches
    PROVE  c.branches[i].expectedFencingToken \in Nat /\ c.branches[i] \in Branch
<1>1. c.branches[i] \in Branch
  BY ClusterFields
<1> QED BY <1>1 DEF Branch

LEMMA SameFrozen ==
    ASSUME NEW c \in Cluster, NEW d, NEW now,
           \A i \in DOMAIN c.branches : i \in DOMAIN d.branches /\ d.branches[i] = c.branches[i],
           Closed(c, now) => d.sources = c.sources
    PROVE  Frozen(c, d, now)
  BY TokensNat DEF Frozen

LEMMA LeaseFrozen ==
    ASSUME NEW s, NEW e, e.attempt \in Nat, e.fencingToken \in Nat, s.cluster \in Cluster,
           NEW i \in DOMAIN s.cluster.branches, Leases(s, e, i)
    PROVE  Frozen(s.cluster, apply(s, e).state.cluster, e.at)
<1> DEFINE c == s.cluster
           d == Expecting(c, i, e)
           b == [c.branches[i] EXCEPT !.expectedAttempt = e.attempt, !.expectedFencingToken = e.fencingToken]
<1>1. c.branches[i] \in Branch /\ c.branches[i].expectedFencingToken \in Nat
  BY TokensNat
<1>2. /\ b.jobId = c.branches[i].jobId /\ b.inputs = c.branches[i].inputs
      /\ b.status = c.branches[i].status /\ b.expectedFencingToken = e.fencingToken
  BY <1>1 DEF Branch
<1>3. BranchIs(c, d, i, b)
  BY ExpectingFields
<1>4. /\ apply(s, e).state.cluster = d /\ c.branches[i].status = "pending"
      /\ e.fencingToken > c.branches[i].expectedFencingToken
  BY DEF Leases, Moves, Supersedes
<1> HIDE DEF b, d
<1>5. DOMAIN d.branches = DOMAIN c.branches /\ d.branches[i] = b /\ d.sources = c.sources
      /\ \A j \in DOMAIN c.branches \ {i} : d.branches[j] = c.branches[j]
  BY <1>3 DEF BranchIs
<1>6. Frozen(c, d, e.at)
  BY <1>1, <1>2, <1>4, <1>5, TokensNat DEF Frozen
<1> QED BY <1>4, <1>6

LEMMA SettleFrozen ==
    ASSUME NEW s, NEW e, e.eventId \in Nat, e.fencingToken \in Nat \ {0}, s.cluster \in Cluster,
           NEW i \in DOMAIN s.cluster.branches, NEW status \in {"succeeded", "failed"},
           NEW outbox, Settles(s, e, i, status, outbox)
    PROVE  Frozen(s.cluster, apply(s, e).state.cluster, e.at)
<1> DEFINE c == s.cluster
           d == WithResult(c, i, e, status)
           b == [c.branches[i] EXCEPT !.status = status, !.resultEventId = e.eventId]
<1>1. c.branches[i] \in Branch /\ c.branches[i].expectedFencingToken \in Nat
  BY TokensNat
<1>2. /\ b.jobId = c.branches[i].jobId /\ b.inputs = c.branches[i].inputs
      /\ b.expectedFencingToken = c.branches[i].expectedFencingToken
  BY <1>1 DEF Branch
<1>3. BranchIs(c, d, i, b)
  BY WithResultFields
<1>4. /\ apply(s, e).state.cluster = d /\ c.branches[i].status = "pending"
      /\ e.fencingToken = c.branches[i].expectedFencingToken
  BY DEF Settles, Moves, FromLatestLease
<1> HIDE DEF b, d
<1>5. DOMAIN d.branches = DOMAIN c.branches /\ d.branches[i] = b /\ d.sources = c.sources
      /\ \A j \in DOMAIN c.branches \ {i} : d.branches[j] = c.branches[j]
  BY <1>3 DEF BranchIs
<1>6. Frozen(c, d, e.at)
  BY <1>1, <1>2, <1>4, <1>5, TokensNat DEF Frozen
<1> QED BY <1>4, <1>6

-----------------------------------------------------------------------------
(* The steps of a stream.                                                  *)

Keeping(s, n, l, sp, sq, e) ==
    /\ Inv(apply(s, e).state, n + 1, After(l, apply(s, e)), sq)
    /\ s.cluster # Null => Frozen(s.cluster, apply(s, e).state.cluster, e.at)

LEMMA QuietFrozen ==
    ASSUME NEW s \in State, NEW t, Quiet(s, t), s.cluster # Null, NEW now
    PROVE  Frozen(s.cluster, t.state.cluster, now)
<1>1. s.cluster \in Cluster /\ t.state.cluster = s.cluster
  BY StateFields DEF Quiet
<1> QED BY <1>1, SameFrozen

LEMMA SourceStep ==
    ASSUME NEW s, NEW n, NEW l, NEW sp, Inv(s, n, l, sp), NEW e, e.type = "source", e.eventId = n + 1,
           e.at \in Nat, e.kind \in SourceKinds, e.artifact \in Artifacts
    PROVE  Keeping(s, n, l, sp, sp, e)
<1>1. s \in State /\ n \in Nat /\ e.eventId \in Nat /\ Booked(l, sp)
      /\ (s.cluster # Null => Alive(s.cluster, l, sp))
  BY DEF Inv, Running
<1>2. SourceOf(e) \in Source
  BY <1>1, SourceFields
<1>3. CASE Quiet(s, apply(s, e))
  BY <1>1, <1>3, QuietKeepsInv, QuietFrozen DEF Keeping
<1>4. CASE Opens(s, e)
  BY <1>2, <1>4, OpensInv DEF Keeping, Opens
<1>5. CASE Joins(s, e)
  <2>1. s.cluster \in Cluster /\ ~Closed(s.cluster, e.at)
        /\ apply(s, e).state.cluster = WithSource(s.cluster, SourceOf(e))
    BY <1>5 DEF Joins, Moves
  <2>2. WithSource(s.cluster, SourceOf(e)).branches = s.cluster.branches
    BY <1>2, <2>1, WithSourceFields
  <2>3. Frozen(s.cluster, apply(s, e).state.cluster, e.at)
    BY <2>1, <2>2, SameFrozen
  <2> QED BY <1>2, <1>5, <2>3, JoinsInv DEF Keeping
<1>6. CASE JoinsAnalysed(s, e)
  <2> DEFINE b == JoinBranch(s.cluster, e)
             x == WithSource(s.cluster, SourceOf(e))
             d == WithBranch(x, b)
  <2>1. s.cluster \in Cluster /\ ~Closed(s.cluster, e.at) /\ apply(s, e).state.cluster = d
    BY <1>6 DEF JoinsAnalysed, Moves
  <2>2. x \in Cluster /\ x.branches = s.cluster.branches /\ b \in Branch
    BY <1>2, <2>1, WithSourceFields, JoinFields
  <2> HIDE DEF b, x
  <2>3. d.branches = Append(s.cluster.branches, b)
    BY <2>2, WithBranchFields
  <2> HIDE DEF d
  <2>4. Gains(s.cluster, d, b)
    BY <2>1, <2>3, BranchTraces
  <2>5. Frozen(s.cluster, d, e.at)
    BY <2>1, <2>4, SameFrozen DEF Gains
  <2> QED BY <1>2, <1>6, <2>1, <2>5, JoinsAnalysedInv DEF Keeping
<1> QED BY <1>1, <1>3, <1>4, <1>5, <1>6, SourceApplied

LEMMA TimerStep ==
    ASSUME NEW s, NEW n, NEW l, NEW sp, Inv(s, n, l, sp), NEW e, Firing(s, n, l, e)
    PROVE  Keeping(s, n, l, sp, sp \cup {e.jobId}, e)
<1> DEFINE c == s.cluster
           t == apply(s, e)
<1>1. /\ s \in State /\ n \in Nat /\ e.type = "timer" /\ e.eventId \in Nat /\ e.at \in Nat
      /\ e.timerType \in TimerTypes /\ (c # Null => SizeOf(s) <= MaxStateSize)
  BY DEF Inv, Running, Firing
<1>2. CASE Quiet(s, t) /\ (c # Null => ~Current(c, e))
  BY <1>1, <1>2, StaleInv, QuietFrozen DEF Keeping
<1>3. CASE c \in Cluster /\ Current(c, e) /\ Replaces(s, e)
  <2>1. t.state.cluster = Rescheduled(c, e.timerType, RecoveryKey(e.timerType, e.eventId))
    BY <1>3 DEF Replaces, Moves
  <2>2. RecoveryKey(e.timerType, e.eventId) \in TimerKeys
    BY <1>1, KeyTypes
  <2>3. t.state.cluster.branches = c.branches /\ t.state.cluster.sources = c.sources
    BY <1>1, <1>3, <2>1, <2>2, RescheduledFields
  <2>4. Frozen(c, t.state.cluster, e.at)
    BY <1>3, <2>3, SameFrozen
  <2> QED BY <1>3, <2>4, ReplacesInv DEF Keeping
<1>4. CASE c \in Cluster /\ Closes(s, e)
  <2>1. t.state.cluster = Fired(c, "mirror") /\ "mirror" \in TimerTypes
    BY <1>4, KindFacts DEF Closes, Moves
  <2>2. t.state.cluster.branches = c.branches /\ t.state.cluster.sources = c.sources
    BY <1>4, <2>1, FiredFields
  <2>3. Frozen(c, t.state.cluster, e.at)
    BY <1>4, <2>2, SameFrozen
  <2> QED BY <1>4, <2>3, ClosesInv DEF Keeping
<1>5. CASE c \in Cluster /\ ClosesAnalysed(s, e)
  <2> DEFINE x == Fired(c, "mirror")
             b == BatchBranch(c)
             d == WithBranch(x, b)
  <2>1. t.state.cluster = d /\ "mirror" \in TimerTypes
    BY <1>5, KindFacts DEF ClosesAnalysed, Moves
  <2>2. x \in Cluster /\ x.branches = c.branches /\ x.sources = c.sources /\ b \in Branch
    BY <1>5, <2>1, FiredFields, BatchFields
  <2> HIDE DEF b, x
  <2>3. d.branches = Append(c.branches, b) /\ d.sources = c.sources
    BY <2>2, WithBranchFields
  <2> HIDE DEF d
  <2>4. Gains(c, d, b)
    BY <1>5, <2>3, BranchTraces
  <2>5. Frozen(c, d, e.at)
    BY <1>5, <2>3, <2>4, SameFrozen DEF Gains
  <2> QED BY <1>5, <2>1, <2>5, ClosesAnalysedInv DEF Keeping
<1>6. CASE c \in Cluster /\ Finishes(s, e)
  <2> DEFINE x == Fired(c, "lifecycle")
             d == Finalized(x, e.at)
  <2>1. t.state.cluster = d /\ "lifecycle" \in TimerTypes
    BY <1>6, KindFacts DEF Finishes, Moves
  <2>2. x \in Cluster /\ x.branches = c.branches /\ x.sources = c.sources
    BY <1>6, <2>1, FiredFields
  <2> HIDE DEF x
  <2>3. d.branches = c.branches /\ d.sources = c.sources
    BY <1>1, <2>2, FinalizedFields
  <2> HIDE DEF d
  <2>4. Frozen(c, t.state.cluster, e.at)
    BY <1>6, <2>1, <2>3, SameFrozen
  <2> QED BY <1>6, <2>4, FinishesInv DEF Keeping
<1> QED BY <1>1, <1>2, <1>3, <1>4, <1>5, <1>6, TimerApplied

LEMMA ReportStep ==
    ASSUME NEW s, NEW n, NEW l, NEW sp, Inv(s, n, l, sp), NEW e, e.type \in {"leased", "succeeded", "failed"},
           e.eventId = n + 1, e.attempt \in Nat, e.fencingToken \in Nat \ {0}
    PROVE  Keeping(s, n, l, sp, sp, e)
<1>1. s \in State /\ n \in Nat /\ e.eventId \in Nat /\ e.fencingToken \in Nat /\ Booked(l, sp)
      /\ (s.cluster # Null => Alive(s.cluster, l, sp))
  BY DEF Inv, Running
<1>2. CASE Quiet(s, apply(s, e))
  BY <1>1, <1>2, QuietKeepsInv, QuietFrozen DEF Keeping
<1>3. ASSUME s.cluster \in Cluster, NEW i \in DOMAIN s.cluster.branches, Leases(s, e, i)
      PROVE  Keeping(s, n, l, sp, sp, e)
  BY <1>1, <1>3, LeasesInv, LeaseFrozen DEF Keeping
<1>4. ASSUME s.cluster \in Cluster, NEW i \in DOMAIN s.cluster.branches,
             Settles(s, e, i, "succeeded", Completion(e)) \/ Settles(s, e, i, "failed", <<>>)
      PROVE  Keeping(s, n, l, sp, sp, e)
  BY <1>1, <1>4, SettlesInv, SettleFrozen DEF Keeping
<1>5. CASE e.type = "leased"
  BY <1>1, <1>2, <1>3, <1>5, LeaseApplied
<1>6. CASE e.type \in {"succeeded", "failed"}
  BY <1>1, <1>2, <1>4, <1>6, OutcomeApplied
<1> QED BY <1>5, <1>6

(* Consuming an event is a step of the reducer.                            *)
LEMMA Consumed ==
    ASSUME NEW e, Consume(e)
    PROVE  /\ state' = apply(state, e).state /\ at' = e.at /\ events' = events + 1
           /\ ledger' = After(ledger, apply(state, e))
           /\ spent' = IF e.type = "timer" THEN spent \cup {e.jobId} ELSE spent
  BY DEF Consume, After

LEMMA StreamStep ==
    ASSUME StreamInv, StreamNext
    PROVE  StreamInv' /\ (Opened => Frozen(state.cluster, state'.cluster, at'))
<1>1. at \in Nat /\ events \in Nat /\ events + 1 \in Nat /\ Inv(state, events, ledger, spent)
      /\ ledger \in Seq(IntentKeys)
  BY DEF StreamInv, Inv
<1>2. \A now \in Now : now \in Nat
  BY <1>1, StreamAssumption DEF Now
<1>3. ASSUME NEW e, Consume(e), e.at \in Nat, NEW sq,
             sq = (IF e.type = "timer" THEN spent \cup {e.jobId} ELSE spent),
             Keeping(state, events, ledger, spent, sq, e)
      PROVE  StreamInv' /\ (Opened => Frozen(state.cluster, state'.cluster, at'))
  BY <1>3, Consumed DEF Keeping, StreamInv, Opened
<1>4. CASE SourceArrives
  <2>1. PICK now \in Now, kind \in Kinds, artifact \in Artifacts, payload \in {"valid", "malformed", "refused"} :
          Consume([type |-> "source", eventId |-> events + 1, at |-> now,
                   payload |-> payload, kind |-> kind, artifact |-> artifact])
    BY <1>4 DEF SourceArrives
  <2> DEFINE e == [type |-> "source", eventId |-> events + 1, at |-> now,
                   payload |-> payload, kind |-> kind, artifact |-> artifact]
  <2>2. /\ Consume(e) /\ e.type = "source" /\ e.eventId = events + 1 /\ e.at \in Nat
        /\ e.kind \in SourceKinds /\ e.artifact \in Artifacts
    BY <1>2, <2>1, StreamAssumption
  <2> HIDE DEF e
  <2>3. Keeping(state, events, ledger, spent, spent, e)
    BY <1>1, <2>2, SourceStep
  <2> QED BY <1>3, <2>2, <2>3
<1>5. CASE TimerFires
  <2>1. PICK now \in Now, timerType \in TimerTypes, i \in DOMAIN ledger :
          /\ ledger[i][1] = "timer" /\ ledger[i][2] = timerType
          /\ Consume([type |-> "timer", eventId |-> events + 1, at |-> now, timerType |-> timerType,
                      jobId |-> ledger[i], due |-> state.cluster.timers[timerType].due])
    BY <1>5 DEF TimerFires
  <2> DEFINE e == [type |-> "timer", eventId |-> events + 1, at |-> now, timerType |-> timerType,
                   jobId |-> ledger[i], due |-> state.cluster.timers[timerType].due]
  <2>2. /\ Consume(e) /\ e.type = "timer" /\ e.eventId = events + 1 /\ e.at \in Nat
        /\ e.timerType = timerType /\ e.jobId = ledger[i] /\ e.due = state.cluster.timers[timerType].due
    BY <1>2, <2>1
  <2> HIDE DEF e
  <2>3. Firing(state, events, ledger, e)
    BY <2>1, <2>2 DEF Firing, In
  <2>4. Keeping(state, events, ledger, spent, spent \cup {e.jobId}, e)
    BY <1>1, <2>3, TimerStep
  <2> QED BY <1>3, <2>2, <2>4
<1>6. CASE WorkerReports
  <2>1. PICK i \in DOMAIN ledger, token \in 1 .. MaxToken, type \in {"leased", "succeeded", "failed"},
             matches \in BOOLEAN :
          Consume([type |-> type, eventId |-> events + 1, at |-> at, jobId |-> ledger[i],
                   attempt |-> token, fencingToken |-> token,
                   provenanceMatches |-> matches, tooLarge |-> FALSE])
    BY <1>6 DEF WorkerReports
  <2> DEFINE e == [type |-> type, eventId |-> events + 1, at |-> at, jobId |-> ledger[i],
                   attempt |-> token, fencingToken |-> token,
                   provenanceMatches |-> matches, tooLarge |-> FALSE]
  <2>2. token \in Nat \ {0}
    BY StreamAssumption
  <2>3. /\ Consume(e) /\ e.type = type /\ e.eventId = events + 1 /\ e.at \in Nat
        /\ e.attempt = token /\ e.fencingToken = token
    BY <1>1, <2>1
  <2> HIDE DEF e
  <2>4. e.type \in {"leased", "succeeded", "failed"} /\ e.type # "timer"
    BY <2>3
  <2>5. Keeping(state, events, ledger, spent, spent, e)
    BY <1>1, <2>2, <2>3, <2>4, ReportStep
  <2> QED BY <1>3, <2>3, <2>4, <2>5
<1> QED BY <1>4, <1>5, <1>6 DEF StreamNext

-----------------------------------------------------------------------------
(* The theorems.                                                           *)

LEMMA StreamStarts == InitStream => StreamInv
<1> SUFFICES ASSUME InitStream PROVE StreamInv
  OBVIOUS
<1>1. initialState \in State /\ initialState.cluster = Null
  BY DEF initialState, State
<1>2. <<>> \in Seq(IntentKeys) /\ DOMAIN <<>> = {}
  OBVIOUS
<1>3. Booked(<<>>, {})
  BY <1>2 DEF Booked
<1> QED BY <1>1, <1>2, <1>3 DEF InitStream, StreamInv, Inv

LEMMA StreamStutters ==
    ASSUME StreamInv, UNCHANGED streamVars
    PROVE  StreamInv'
  BY DEF StreamInv, streamVars

LEMMA StreamInvHolds == StreamSpec => []StreamInv
<1>1. StreamInv /\ [StreamNext]_streamVars => StreamInv'
  BY StreamStep, StreamStutters
<1> QED BY <1>1, StreamStarts, PTL DEF StreamSpec

(* In every stream of events the reducer's state stays one that it accepts *)
(* with the next event, and every timer that has not fired has a job that  *)
(* was asked for and not yet spent.                                        *)
THEOREM StreamStateSound == StreamSpec => []StateSound
<1>1. StreamInv => StateSound
  <2> SUFFICES ASSUME StreamInv, Opened PROVE StateParses /\ PendingTimersAlive
    BY DEF StateSound, StateParses, PendingTimersAlive
  <2>1. Running(state, events, ledger, spent)
    BY DEF StreamInv, Inv, Opened
  <2>2. StateParses
    BY <2>1 DEF StateParses, Running, WellFormed, Named, Branches, Joined
  <2>3. PendingTimersAlive
    BY <2>1 DEF PendingTimersAlive, Running, Alive, In
  <2> QED BY <2>2, <2>3
<1> QED BY <1>1, StreamInvHolds, PTL

(* The reducer never asks for an intent twice, so the unique index of the  *)
(* ledger cannot stop a run, and it forgets no source.                     *)
THEOREM StreamIntentsSound == StreamSpec => []IntentsSound
<1>1. StreamInv => IntentsSound
  <2> SUFFICES ASSUME StreamInv PROVE NoIntentTwice /\ SourcesAnalysed
    BY DEF IntentsSound
  <2>1. NoIntentTwice
    BY DEF StreamInv, Inv, Booked, NoIntentTwice
  <2>2. SourcesAnalysed
    <3> SUFFICES ASSUME Opened PROVE SourcesAnalysed
      BY DEF SourcesAnalysed
    <3>1. Analysed(state.cluster, SizeOf(state))
      BY DEF StreamInv, Inv, Opened, Running
    <3> QED BY <3>1 DEF SourcesAnalysed, Analysed, Represented, Covered, Full, Branches, Joined
  <2> QED BY <2>1, <2>2
<1> QED BY <1>1, StreamInvHolds, PTL

(* What an analysis was asked about never changes, a settled branch stays  *)
(* as it is, leases only move forward, and a closed cluster takes no       *)
(* source.                                                                 *)
THEOREM StreamBranchesFrozen == StreamSpec => BranchesFrozen
<1> DEFINE A ==
      Opened =>
         /\ \A i \in DOMAIN Branches :
               /\ i \in DOMAIN Branches'
               /\ Branches'[i].inputs = Branches[i].inputs
               /\ Branches'[i].jobId = Branches[i].jobId
               /\ Branches'[i].expectedFencingToken >= Branches[i].expectedFencingToken
               /\ Branches[i].status # "pending" => Branches'[i] = Branches[i]
               /\ Branches'[i].status = "succeeded" /\ Branches[i].status = "pending"
                    => Branches[i].expectedFencingToken > 0
         /\ (state.cluster.status = "finalized" \/ at' >= state.cluster.lifecycleEndsAtMs)
               => Joined' = Joined
<1>1. (Opened => Frozen(state.cluster, state'.cluster, at')) => A
  BY DEF Frozen, Closed, Branches, Joined
<1>2. StreamInv /\ [StreamNext]_streamVars => [A]_streamVars
  <2> HIDE DEF A
  <2> QED BY <1>1, StreamStep
<1> QED BY <1>2, StreamInvHolds, PTL DEF StreamSpec, BranchesFrozen

-----------------------------------------------------------------------------
(* The loop.  First, what the loop needs to know of a transition: which    *)
(* jobs it asks for, and what it does to a branch b, which becomes a.      *)

JobTags == {"timer", "analysis"}
Ends == {"succeeded", "failed"}
Intent == [dedupeKey : IntentKeys, due : Nat]

(* A job has a tag of its own, and a timer's job is due with the timer.    *)
Fits(d, job) ==
    /\ job.dedupeKey[1] \in JobTags
    /\ job.dedupeKey[1] = "timer" =>
          job.dedupeKey[2] \in TimerTypes /\ job.due = d.timers[job.dedupeKey[2]].due

Asking(t) ==
    /\ t.jobs \in Seq(Intent) /\ t.outbox \in Seq(Intent)
    /\ \A i \in DOMAIN t.jobs : Fits(t.state.cluster, t.jobs[i])
    /\ \A i \in DOMAIN t.outbox : t.outbox[i].dedupeKey[1] \notin JobTags

AskedFor(t, key) == \E i \in DOMAIN t.jobs : t.jobs[i].dedupeKey = key

(* A lease that is newer is taken, and a result of the latest one too.     *)
BranchStep(b, a, e) ==
    /\ a.jobId = b.jobId
    /\ b.status # "pending" => a.status # "pending"
    /\ \/ a.expectedFencingToken = b.expectedFencingToken /\ a.expectedAttempt = b.expectedAttempt
       \/ /\ e.type = "leased" /\ e.jobId = b.jobId /\ Supersedes(b, e)
          /\ a.expectedFencingToken = e.fencingToken /\ a.expectedAttempt = e.attempt
    /\ (e.type = "leased" /\ e.jobId = b.jobId /\ b.status = "pending" /\ Supersedes(b, e)) =>
          a.expectedFencingToken = e.fencingToken
    /\ (e.type \in Ends /\ e.jobId = b.jobId /\ b.status = "pending" /\ FromLatestLease(b, e)) =>
          a.status # "pending"

NewBranch(a, t) == a.expectedFencingToken = 0 /\ a.expectedAttempt = 0 /\ AskedFor(t, a.jobId)

Follows(s, e) ==
    LET t == apply(s, e)
        c == s.cluster
        d == t.state.cluster
    IN  /\ Asking(t)
        /\ c # Null =>
              /\ d # Null
              /\ \A u \in TimerTypes : d.timers[u].due = c.timers[u].due
              /\ \A i \in DOMAIN c.branches :
                    i \in DOMAIN d.branches /\ BranchStep(c.branches[i], d.branches[i], e)
        /\ d # Null =>
              \A i \in DOMAIN d.branches :
                 (c # Null /\ i \in DOMAIN c.branches) \/ NewBranch(d.branches[i], t)
        /\ d = Null => t.jobs = <<>>

LEMMA NothingAsked ==
    ASSUME NEW t, t.jobs = <<>>, t.outbox = <<>>
    PROVE  Asking(t)
  BY DEF Asking

LEMMA SameBranch ==
    ASSUME NEW b, NEW e, e.type \notin {"leased"} \cup Ends
    PROVE  BranchStep(b, b, e)
  BY DEF BranchStep

(* Nothing happens to the cluster, or its sources and timers change.       *)
LEMMA QuietFollows ==
    ASSUME NEW s \in State, NEW e, Quiet(s, apply(s, e)),
           s.cluster # Null =>
              \A i \in DOMAIN s.cluster.branches : BranchStep(s.cluster.branches[i], s.cluster.branches[i], e)
    PROVE  Follows(s, e)
<1> DEFINE t == apply(s, e)
<1>1. t.state.cluster = s.cluster /\ t.jobs = <<>> /\ t.outbox = <<>>
  BY DEF Quiet
<1>2. Asking(t)
  BY <1>1, NothingAsked
<1> HIDE DEF t
<1> QED BY <1>1, <1>2 DEF Follows, t

LEMMA SilentFollows ==
    ASSUME NEW s, NEW e, e.type \notin {"leased"} \cup Ends, s.cluster \in Cluster,
           NEW d \in Cluster, Moves(apply(s, e), d, <<>>, <<>>), d.branches = s.cluster.branches,
           \A u \in TimerTypes : d.timers[u].due = s.cluster.timers[u].due
    PROVE  Follows(s, e)
<1> DEFINE t == apply(s, e)
<1>1. t.state.cluster = d /\ t.jobs = <<>> /\ t.outbox = <<>> /\ d # Null
  BY ClusterFields DEF Moves
<1>2. Asking(t)
  BY <1>1, NothingAsked
<1>3. \A i \in DOMAIN s.cluster.branches : BranchStep(s.cluster.branches[i], d.branches[i], e)
  BY SameBranch
<1>4. s.cluster # Null
  BY ClusterFields
<1> HIDE DEF t
<1> QED BY <1>1, <1>2, <1>3, <1>4 DEF Follows, t

(* One job is asked for.                                                   *)
LEMMA OneAsked ==
    ASSUME NEW t, NEW key \in IntentKeys, NEW due \in Nat, t.jobs = <<Job(key, due)>>, t.outbox = <<>>,
           Fits(t.state.cluster, Job(key, due))
    PROVE  Asking(t) /\ AskedFor(t, key)
<1>1. Job(key, due) \in Intent /\ Job(key, due).dedupeKey = key
  BY DEF Job, Intent
<1> HIDE DEF Job
<1>2. t.jobs \in Seq(Intent) /\ DOMAIN t.jobs = {1} /\ t.jobs[1] = Job(key, due)
  BY <1>1
<1>3. t.outbox \in Seq(Intent) /\ DOMAIN t.outbox = {}
  OBVIOUS
<1> QED BY <1>1, <1>2, <1>3 DEF Asking, AskedFor

(* The job of an analysis that a new branch b waits for.                   *)
LEMMA AnalysisFits ==
    ASSUME NEW d, NEW sources \in Seq(Source), NEW p \in Phases, NEW due \in Nat
    PROVE  LET key == analysisDraft(sources, p).jobId
           IN  key \in IntentKeys /\ Fits(d, Job(key, due))
<1> DEFINE key == analysisDraft(sources, p).jobId
<1>1. key = BranchKey(p, analysisInputs(sources)) /\ analysisInputs(sources) \in Seq(Nat)
  BY DraftFields, InputsType
<1>2. key[1] = "analysis" /\ key \in BranchKeys
  BY <1>1, KeyShapes, KeyTypes
<1> HIDE DEF key
<1>3. Job(key, due).dedupeKey = key
  BY DEF Job
<1> QED BY <1>2, <1>3 DEF Fits, JobTags, IntentKeys, key

LEMMA GainFollows ==
    ASSUME NEW s, NEW e, e.type \notin {"leased"} \cup Ends, s.cluster \in Cluster,
           NEW sources \in Seq(Source), NEW p \in Phases, NEW due \in Nat, NEW d \in Cluster,
           d.branches = Append(s.cluster.branches, analysisDraft(sources, p)),
           \A u \in TimerTypes : d.timers[u].due = s.cluster.timers[u].due,
           Moves(apply(s, e), d, <<Job(analysisDraft(sources, p).jobId, due)>>, <<>>)
    PROVE  Follows(s, e)
<1> DEFINE t == apply(s, e)
           c == s.cluster
           b == analysisDraft(sources, p)
<1>1. t.state.cluster = d /\ t.jobs = <<Job(b.jobId, due)>> /\ t.outbox = <<>> /\ d # Null /\ c # Null
  BY ClusterFields DEF Moves
<1>2. b.jobId \in IntentKeys /\ Fits(d, Job(b.jobId, due))
  BY AnalysisFits
<1>3. b \in Branch /\ b.expectedFencingToken = 0 /\ b.expectedAttempt = 0
  BY DraftFields
<1>4. c.branches \in Seq(Branch)
  BY ClusterFields
<1> HIDE DEF t, b, c
<1>5. Asking(t) /\ AskedFor(t, b.jobId)
  BY <1>1, <1>2, OneAsked
<1>6. /\ \A i \in DOMAIN c.branches : i \in DOMAIN d.branches /\ d.branches[i] = c.branches[i]
      /\ \A i \in DOMAIN d.branches : i \in DOMAIN c.branches \/ d.branches[i] = b
  BY <1>3, <1>4 DEF b, c
<1> QED BY <1>1, <1>3, <1>5, <1>6, SameBranch DEF Follows, NewBranch, t, c

(* The first source asks for the two timers and one analysis.              *)
LEMMA NewTimers ==
    ASSUME NEW e, NEW source
    PROVE  /\ newCluster(e, source).timers["mirror"].due = e.at + mirrorDebounceMs
           /\ newCluster(e, source).timers["lifecycle"].due = e.at + lifecycleMs
  BY DEF newCluster, firstTimer

LEMMA OpensFollows ==
    ASSUME NEW s, NEW e, Opens(s, e), e.eventId \in Nat, e.at \in Nat, SourceOf(e) \in Source
    PROVE  Follows(s, e)
<1> DEFINE t == apply(s, e)
           d == newCluster(e, SourceOf(e))
           b == analysisDraft(<<SourceOf(e)>>, "first_source")
           j1 == Job(TimerKey("mirror"), e.at + mirrorDebounceMs)
           j2 == Job(TimerKey("lifecycle"), e.at + lifecycleMs)
           j3 == Job(BranchKey("first_source", <<e.eventId>>), e.at)
           j4 == Job(<<"first-source">>, 0)
<1>1. /\ s.cluster = Null /\ t.state.cluster = d /\ t.jobs = <<j1, j2, j3>> /\ t.outbox = <<j4>>
  BY DEF Opens, Moves, Opening
<1>2. d \in Cluster /\ d.branches = <<b>>
  BY NewClusterFields
<1>3. e.at + mirrorDebounceMs \in Nat /\ e.at + lifecycleMs \in Nat
  BY ReducerAssumption
<1>4. <<SourceOf(e)>> \in Seq(Source) /\ "first_source" \in Phases
  BY KindFacts
<1>5. analysisInputs(<<SourceOf(e)>>) = <<e.eventId>>
  BY DEF analysisInputs, SourceOf
<1>6. b.jobId = BranchKey("first_source", <<e.eventId>>) /\ b.expectedFencingToken = 0 /\ b.expectedAttempt = 0
  BY <1>4, <1>5, DraftFields
<1>7. /\ TimerKey("mirror") \in IntentKeys /\ TimerKey("lifecycle") \in IntentKeys
      /\ BranchKey("first_source", <<e.eventId>>) \in IntentKeys /\ <<"first-source">> \in IntentKeys
  <2>1. <<e.eventId>> \in Seq(Nat)
    OBVIOUS
  <2> QED BY <2>1, KeyTypes, KindFacts DEF IntentKeys
<1>8. j1 \in Intent /\ Fits(d, j1)
  <2>1. j1.dedupeKey = TimerKey("mirror") /\ j1.due = e.at + mirrorDebounceMs /\ j1 \in Intent
    BY <1>3, <1>7 DEF Job, Intent
  <2>2. TimerKey("mirror")[1] = "timer" /\ TimerKey("mirror")[2] = "mirror"
    BY KeyShapes
  <2>3. d.timers["mirror"].due = e.at + mirrorDebounceMs
    BY NewTimers
  <2> HIDE DEF j1, d
  <2> QED BY <2>1, <2>2, <2>3, KindFacts DEF Fits, JobTags
<1>9. j2 \in Intent /\ Fits(d, j2)
  <2>1. j2.dedupeKey = TimerKey("lifecycle") /\ j2.due = e.at + lifecycleMs /\ j2 \in Intent
    BY <1>3, <1>7 DEF Job, Intent
  <2>2. TimerKey("lifecycle")[1] = "timer" /\ TimerKey("lifecycle")[2] = "lifecycle"
    BY KeyShapes
  <2>3. d.timers["lifecycle"].due = e.at + lifecycleMs
    BY NewTimers
  <2> HIDE DEF j2, d
  <2> QED BY <2>1, <2>2, <2>3, KindFacts DEF Fits, JobTags
<1>10. j3 \in Intent /\ Fits(d, j3) /\ j3.dedupeKey = b.jobId
  <2>1. j3.dedupeKey = BranchKey("first_source", <<e.eventId>>) /\ j3 \in Intent
    BY <1>7 DEF Job, Intent
  <2>2. BranchKey("first_source", <<e.eventId>>)[1] = "analysis"
    BY KeyShapes
  <2> HIDE DEF j3, b
  <2> QED BY <2>1, <2>2, <1>6 DEF Fits, JobTags
<1>11. j4 \in Intent /\ j4.dedupeKey[1] \notin JobTags
  BY <1>7 DEF Job, Intent, JobTags
<1> HIDE DEF t, d, b, j1, j2, j3, j4
<1>12. t.jobs \in Seq(Intent) /\ DOMAIN t.jobs = {1, 2, 3} /\ t.jobs[1] = j1 /\ t.jobs[2] = j2 /\ t.jobs[3] = j3
  BY <1>1, <1>8, <1>9, <1>10
<1>13. t.outbox \in Seq(Intent) /\ DOMAIN t.outbox = {1} /\ t.outbox[1] = j4
  BY <1>1, <1>11
<1>14. Asking(t)
  BY <1>1, <1>8, <1>9, <1>10, <1>11, <1>12, <1>13 DEF Asking
<1>15. AskedFor(t, b.jobId)
  BY <1>10, <1>12 DEF AskedFor
<1>16. DOMAIN d.branches = {1} /\ d.branches[1] = b
  BY <1>2
<1> QED BY <1>1, <1>2, <1>6, <1>14, <1>15, <1>16, ClusterFields DEF Follows, NewBranch, t

LEMMA SourceFollows ==
    ASSUME NEW s \in State, NEW e, e.type = "source", e.eventId \in Nat, e.at \in Nat,
           e.kind \in SourceKinds, e.artifact \in Artifacts
    PROVE  Follows(s, e)
<1> DEFINE c == s.cluster
           x == WithSource(c, SourceOf(e))
<1>1. SourceOf(e) \in Source
  BY SourceFields
<1>2. e.type \notin {"leased"} \cup Ends
  BY DEF Ends
<1>3. CASE Quiet(s, apply(s, e))
  BY <1>2, <1>3, QuietFollows, SameBranch
<1>4. CASE Opens(s, e)
  BY <1>1, <1>4, OpensFollows
<1>5. CASE Joins(s, e)
  <2>1. c \in Cluster /\ Moves(apply(s, e), x, <<>>, <<>>)
    BY <1>5 DEF Joins
  <2>2. x \in Cluster /\ x.branches = c.branches /\ x.timers = c.timers
    BY <1>1, <2>1, WithSourceFields
  <2> HIDE DEF x
  <2> QED BY <1>2, <2>1, <2>2, SilentFollows
<1>6. CASE JoinsAnalysed(s, e)
  <2> DEFINE sources == Append(c.sources, SourceOf(e))
             p == phaseFor(e.kind)
             d == WithBranch(x, analysisDraft(sources, p))
  <2>1. c \in Cluster /\ Moves(apply(s, e), d, <<Job(analysisDraft(sources, p).jobId, e.at)>>, <<>>)
    BY <1>6 DEF JoinsAnalysed, JoinBranch
  <2>2. x \in Cluster /\ x.branches = c.branches /\ x.timers = c.timers
    BY <1>1, <2>1, WithSourceFields
  <2>3. sources \in Seq(Source) /\ p \in Phases
    BY <1>1, <2>1, JoinFields, KindFacts
  <2> HIDE DEF x, sources, p
  <2>4. analysisDraft(sources, p) \in Branch
    BY <2>3, DraftFields
  <2>5. d \in Cluster /\ d.branches = Append(c.branches, analysisDraft(sources, p)) /\ d.timers = c.timers
    BY <2>2, <2>4, WithBranchFields
  <2> HIDE DEF d
  <2> QED BY <1>2, <2>1, <2>3, <2>5, GainFollows
<1> QED BY <1>3, <1>4, <1>5, <1>6, SourceApplied

(* A firing.                                                               *)
LEMMA ReplacesFollows ==
    ASSUME NEW s, NEW e, e.type = "timer", e.eventId \in Nat, e.timerType \in TimerTypes,
           s.cluster \in Cluster, Replaces(s, e)
    PROVE  Follows(s, e)
<1> DEFINE t == apply(s, e)
           c == s.cluster
           key == RecoveryKey(e.timerType, e.eventId)
           d == Rescheduled(c, e.timerType, key)
           due == c.timers[e.timerType].due
<1>1. t.state.cluster = d /\ t.jobs = <<Job(key, due)>> /\ t.outbox = <<>>
  BY DEF Replaces, Moves
<1>2. key \in TimerKeys /\ key[1] = "timer" /\ key[2] = e.timerType
  BY KeyTypes, KeyShapes
<1>3. key \in IntentKeys
  BY <1>2 DEF IntentKeys
<1> HIDE DEF key
<1>4. d \in Cluster /\ d.branches = c.branches /\ \A u \in TimerTypes : d.timers[u].due = c.timers[u].due
  BY <1>2, RescheduledFields
<1>5. due \in Nat
  <2>1. c.timers[e.timerType] \in Timer
    BY ClusterFields
  <2> QED BY <2>1 DEF Timer
<1>6. Job(key, due).dedupeKey = key /\ Job(key, due).due = due
  BY DEF Job
<1>7. Fits(d, Job(key, due))
  BY <1>2, <1>4, <1>6 DEF Fits, JobTags
<1>8. \A i \in DOMAIN c.branches : BranchStep(c.branches[i], c.branches[i], e)
  BY SameBranch DEF Ends
<1> HIDE DEF t, d, due
<1>9. Asking(t)
  BY <1>1, <1>3, <1>5, <1>7, OneAsked
<1>10. d # Null /\ c # Null
  BY <1>4, ClusterFields
<1> HIDE DEF c
<1> QED BY <1>1, <1>4, <1>8, <1>9, <1>10 DEF Follows, t, c

LEMMA TimerFollows ==
    ASSUME NEW s \in State, NEW e, e.type = "timer", e.eventId \in Nat, e.at \in Nat,
           e.timerType \in TimerTypes, s.cluster # Null => SizeOf(s) <= MaxStateSize
    PROVE  Follows(s, e)
<1> DEFINE c == s.cluster
           x == Fired(c, e.timerType)
<1>1. e.type \notin {"leased"} \cup Ends
  BY DEF Ends
<1>2. CASE Quiet(s, apply(s, e))
  BY <1>1, <1>2, QuietFollows, SameBranch
<1>3. CASE c \in Cluster /\ Replaces(s, e)
  BY <1>3, ReplacesFollows
<1>4. ASSUME c \in Cluster
      PROVE  /\ x \in Cluster /\ x.branches = c.branches /\ x.sources = c.sources
             /\ \A u \in TimerTypes : x.timers[u].due = c.timers[u].due
  BY <1>4, FiredFields
<1>5. CASE c \in Cluster /\ Closes(s, e)
  <2>1. Moves(apply(s, e), x, <<>>, <<>>)
    BY <1>5 DEF Closes
  <2> HIDE DEF x
  <2> QED BY <1>1, <1>4, <1>5, <2>1, SilentFollows
<1>6. CASE c \in Cluster /\ ClosesAnalysed(s, e)
  <2> DEFINE p == "source_confirmation"
             d == WithBranch(x, analysisDraft(c.sources, p))
  <2>1. Moves(apply(s, e), d, <<Job(analysisDraft(c.sources, p).jobId, e.at)>>, <<>>)
    BY <1>6 DEF ClosesAnalysed, BatchBranch
  <2>2. c.sources \in Seq(Source) /\ p \in Phases
    BY <1>6, ClusterFields, KindFacts
  <2> HIDE DEF x, p
  <2>3. analysisDraft(c.sources, p) \in Branch
    BY <2>2, DraftFields
  <2>4. d \in Cluster /\ d.branches = Append(c.branches, analysisDraft(c.sources, p)) /\ d.timers = x.timers
    BY <1>4, <1>6, <2>3, WithBranchFields
  <2>5. \A u \in TimerTypes : d.timers[u].due = c.timers[u].due
    BY <1>4, <1>6, <2>4
  <2> DEFINE sources == c.sources
  <2> HIDE DEF d
  <2>6. c \in Cluster /\ sources \in Seq(Source)
    BY <1>6, <2>2
  <2> HIDE DEF sources
  <2> QED BY <1>1, <2>1, <2>2, <2>4, <2>5, <2>6, GainFollows DEF sources
<1>7. CASE c \in Cluster /\ Finishes(s, e)
  <2> DEFINE d == Finalized(x, e.at)
  <2>1. Moves(apply(s, e), d, <<>>, <<>>)
    BY <1>7 DEF Finishes
  <2> HIDE DEF x
  <2>2. d \in Cluster /\ d.branches = c.branches /\ d.timers = x.timers
    BY <1>4, <1>7, FinalizedFields
  <2> HIDE DEF d
  <2> QED BY <1>1, <1>4, <1>7, <2>1, <2>2, SilentFollows
<1> QED BY <1>2, <1>3, <1>5, <1>6, <1>7, TimerApplied

(* A report.  The branch that a report is about is the only one.           *)
LEMMA OneRequested ==
    ASSUME NEW s, s.cluster \in Cluster, NEW n, WellFormed(s.cluster, n), NEW e,
           NEW i \in DOMAIN s.cluster.branches, s.cluster.branches[i].jobId = e.jobId
    PROVE  Requested(s, e) = {i} /\ RequestedBranch(s, e) = s.cluster.branches[i]
<1>1. Requested(s, e) = {i}
  BY ClusterFields DEF Requested, WellFormed
<1>2. (CHOOSE j \in {i} : TRUE) = i
  OBVIOUS
<1> QED BY <1>1, <1>2 DEF RequestedBranch

(* A change of one branch's lease or outcome fits in the state.            *)
LEMMA BranchIsSize ==
    ASSUME NEW s \in State, s.cluster \in Cluster, SizeOf(s) <= MaxStateSize,
           NEW i \in DOMAIN s.cluster.branches, NEW b, NEW d, BranchIs(s.cluster, d, i, b),
           b.inputs = s.cluster.branches[i].inputs
    PROVE  SizeOf([s EXCEPT !.cluster = d]) <= MaxStateSize
<1> DEFINE u == [s EXCEPT !.cluster = d]
<1>1. d \in Cluster /\ u.cluster = d
  BY StateSet DEF BranchIs
<1> HIDE DEF u
<1>2. References(d.branches) = References(s.cluster.branches)
  BY SameReferences DEF BranchIs
<1>3. d.sources = s.cluster.sources
  BY DEF BranchIs
<1>4. SizeOf(u) = SizeOf(s)
  BY <1>1, <1>2, <1>3, SizeIs
<1> QED BY <1>4 DEF u

LEMMA LeaseTaken ==
    ASSUME NEW s \in State, s.cluster \in Cluster, SizeOf(s) <= MaxStateSize, NEW n, WellFormed(s.cluster, n),
           NEW e, e.type = "leased", e.attempt \in Nat, e.fencingToken \in Nat,
           NEW i \in DOMAIN s.cluster.branches, s.cluster.branches[i].jobId = e.jobId,
           s.cluster.branches[i].status = "pending", Supersedes(s.cluster.branches[i], e)
    PROVE  apply(s, e).state.cluster = Expecting(s.cluster, i, e)
<1> DEFINE c == s.cluster
           d == Expecting(c, i, e)
           b == [c.branches[i] EXCEPT !.expectedAttempt = e.attempt, !.expectedFencingToken = e.fencingToken]
           u == noEffects([s EXCEPT !.cluster = d], "leased")
<1>1. Requested(s, e) = {i} /\ RequestedBranch(s, e) = c.branches[i]
  BY OneRequested
<1>2. (CHOOSE j \in {i} : TRUE) = i
  OBVIOUS
<1>3. jobLeased(s, e) = u
  BY <1>1, <1>2 DEF jobLeased
<1>4. BranchIs(c, d, i, b) /\ c.branches[i] \in Branch
  BY ExpectingFields, ClusterFields
<1>5. b.inputs = c.branches[i].inputs
  BY <1>4 DEF Branch
<1>6. u.state = [s EXCEPT !.cluster = d] /\ d \in Cluster
  BY <1>4, EffectFields DEF noEffects, BranchIs
<1> HIDE DEF b, d, u
<1>7. SizeOf(u.state) <= MaxStateSize /\ u.state.cluster = d
  BY <1>4, <1>5, <1>6, BranchIsSize, StateSet
<1>8. apply(s, e) = projectedTransition(s, jobLeased(s, e))
  BY DEF apply
<1>9. apply(s, e) = u
  BY <1>3, <1>7, <1>8 DEF projectedTransition
<1> QED BY <1>7, <1>9 DEF d

LEMMA OutcomeTaken ==
    ASSUME NEW s \in State, s.cluster \in Cluster, SizeOf(s) <= MaxStateSize, NEW n, WellFormed(s.cluster, n),
           NEW e, e.type \in Ends, e.eventId \in Nat, e.tooLarge = FALSE, e.provenanceMatches = TRUE,
           NEW i \in DOMAIN s.cluster.branches, s.cluster.branches[i].jobId = e.jobId,
           s.cluster.branches[i].status = "pending", FromLatestLease(s.cluster.branches[i], e)
    PROVE  apply(s, e).state.cluster = WithResult(s.cluster, i, e, e.type)
<1> DEFINE c == s.cluster
           d == WithResult(c, i, e, e.type)
           b == [c.branches[i] EXCEPT !.status = e.type, !.resultEventId = e.eventId]
           outcome == IF e.type = "succeeded" THEN jobSucceeded(s, e) ELSE jobFailed(s, e)
<1>1. Requested(s, e) = {i} /\ RequestedBranch(s, e) = c.branches[i]
  BY OneRequested
<1>2. (CHOOSE j \in {i} : TRUE) = i
  OBVIOUS
<1>3. Settled(s, e, e.type) = [s EXCEPT !.cluster = d]
  BY <1>1, <1>2 DEF Settled
<1>4. e.type \in {"succeeded", "failed"}
  BY DEF Ends
<1>5. BranchIs(c, d, i, b) /\ c.branches[i] \in Branch
  BY <1>4, WithResultFields, ClusterFields
<1>6. b.inputs = c.branches[i].inputs
  BY <1>5 DEF Branch
<1> HIDE DEF b, d
<1>7. \A accepted : jobSettled(s, e, accepted) = accepted
  BY <1>1 DEF jobSettled
<1>8. outcome.state = Settled(s, e, e.type)
  <2>1. CASE e.type = "succeeded"
    <3>1. jobSucceeded(s, e) = Effects(Settled(s, e, "succeeded"), <<"analysis-succeeded">>, <<>>, Completion(e))
      BY <1>7 DEF jobSucceeded, Completion
    <3> QED BY <2>1, <3>1, EffectFields
  <2>2. CASE e.type = "failed"
    <3>1. jobFailed(s, e) = noEffects(Settled(s, e, "failed"), "analysis-failed")
      BY <1>7 DEF jobFailed
    <3> QED BY <2>2, <3>1, EffectFields DEF noEffects
  <2> QED BY <1>4, <2>1, <2>2
<1>9. apply(s, e) = projectedTransition(s, outcome)
  BY <1>4 DEF apply
<1> HIDE DEF outcome
<1>10. d \in Cluster
  BY <1>5 DEF BranchIs
<1>11. SizeOf(outcome.state) <= MaxStateSize /\ outcome.state.cluster = d
  BY <1>3, <1>5, <1>6, <1>8, <1>10, BranchIsSize, StateSet
<1>12. apply(s, e) = outcome
  BY <1>9, <1>11 DEF projectedTransition
<1> QED BY <1>11, <1>12 DEF d

LEMMA LeaseFollows ==
    ASSUME NEW s \in State, NEW n, s.cluster # Null => WellFormed(s.cluster, n) /\ SizeOf(s) <= MaxStateSize,
           NEW e, e.type = "leased", e.attempt \in Nat, e.fencingToken \in Nat
    PROVE  Follows(s, e)
<1> DEFINE c == s.cluster
           d == apply(s, e).state.cluster
           b(i) == [c.branches[i] EXCEPT !.expectedAttempt = e.attempt, !.expectedFencingToken = e.fencingToken]
<1>1. CASE c = Null
  <2>1. Quiet(s, apply(s, e))
    BY <1>1, LeaseApplied, ClusterFields
  <2> QED BY <1>1, <2>1, QuietFollows
<1>2. CASE c # Null
  <2>1. c \in Cluster /\ WellFormed(c, n) /\ SizeOf(s) <= MaxStateSize
    BY <1>2, StateFields
  <2>2. ASSUME NEW i \in DOMAIN c.branches
        PROVE  /\ b(i).jobId = c.branches[i].jobId /\ b(i).status = c.branches[i].status
               /\ b(i).expectedFencingToken = e.fencingToken /\ b(i).expectedAttempt = e.attempt
               /\ BranchIs(c, Expecting(c, i, e), i, b(i))
    <3>1. c.branches[i] \in Branch
      BY <2>1, ClusterFields
    <3>2. BranchIs(c, Expecting(c, i, e), i, b(i))
      BY <2>1, ExpectingFields
    <3> QED BY <3>1, <3>2 DEF Branch
  <2> HIDE DEF b
  <2>3. ASSUME NEW i \in DOMAIN c.branches, c.branches[i].jobId = e.jobId,
               c.branches[i].status = "pending", Supersedes(c.branches[i], e)
        PROVE  d = Expecting(c, i, e)
    BY <2>1, <2>3, LeaseTaken
  <2>4. CASE Quiet(s, apply(s, e))
    <3>1. d = c
      BY <2>4 DEF Quiet
    <3>2. ASSUME NEW i \in DOMAIN c.branches PROVE BranchStep(c.branches[i], c.branches[i], e)
      <4>1. ASSUME c.branches[i].jobId = e.jobId, c.branches[i].status = "pending", Supersedes(c.branches[i], e)
            PROVE  c.branches[i].expectedFencingToken = e.fencingToken
        <5>1. BranchIs(c, c, i, b(i))
          BY <2>2, <2>3, <3>1, <4>1
        <5> QED BY <2>2, <5>1 DEF BranchIs
      <4> QED BY <4>1 DEF BranchStep, Ends
    <3> QED BY <2>4, <3>2, QuietFollows
  <2>5. ASSUME NEW i \in DOMAIN c.branches, Leases(s, e, i)
        PROVE  Follows(s, e)
    <3> DEFINE t == apply(s, e)
    <3>1. /\ c.branches[i].jobId = e.jobId /\ c.branches[i].status = "pending" /\ Supersedes(c.branches[i], e)
          /\ t.state.cluster = Expecting(c, i, e) /\ t.jobs = <<>> /\ t.outbox = <<>>
      BY <2>5 DEF Leases, Moves
    <3>2. /\ d \in Cluster /\ DOMAIN d.branches = DOMAIN c.branches /\ d.branches[i] = b(i)
          /\ d.timers = c.timers /\ \A j \in DOMAIN c.branches \ {i} : d.branches[j] = c.branches[j]
      BY <2>2, <3>1 DEF BranchIs
    <3>3. BranchStep(c.branches[i], d.branches[i], e)
      BY <2>2, <3>1, <3>2 DEF BranchStep, Ends
    <3>4. ASSUME NEW j \in DOMAIN c.branches \ {i} PROVE BranchStep(c.branches[j], d.branches[j], e)
      <4>1. c.branches[j].jobId # e.jobId
        BY <2>1, <3>1 DEF WellFormed
      <4> QED BY <3>2, <4>1 DEF BranchStep
    <3>5. Asking(t)
      BY <3>1, NothingAsked
    <3>6. d # Null
      BY <3>2, ClusterFields
    <3> HIDE DEF t
    <3> QED BY <1>2, <3>1, <3>2, <3>3, <3>4, <3>5, <3>6 DEF Follows, t
  <2> QED BY <2>4, <2>5, LeaseApplied
<1> QED BY <1>1, <1>2

LEMMA OutcomeFollows ==
    ASSUME NEW s \in State, NEW n, s.cluster # Null => WellFormed(s.cluster, n) /\ SizeOf(s) <= MaxStateSize,
           NEW e, e.type \in Ends, e.eventId \in Nat, e.tooLarge = FALSE, e.provenanceMatches = TRUE,
           e.jobId \in BranchKeys
    PROVE  Follows(s, e)
<1> DEFINE c == s.cluster
           t == apply(s, e)
           d == t.state.cluster
           b(i, status) == [c.branches[i] EXCEPT !.status = status, !.resultEventId = e.eventId]
<1>1. e.type \in {"succeeded", "failed"} /\ e.type # "leased"
  BY DEF Ends
<1>2. CASE c = Null
  <2>1. Quiet(s, t)
    BY <1>1, <1>2, OutcomeApplied, ClusterFields
  <2> QED BY <1>2, <2>1, QuietFollows
<1>3. CASE c # Null
  <2>1. c \in Cluster /\ WellFormed(c, n) /\ SizeOf(s) <= MaxStateSize
    BY <1>3, StateFields
  <2>2. ASSUME NEW i \in DOMAIN c.branches, NEW status \in {"succeeded", "failed"}
        PROVE  /\ b(i, status).jobId = c.branches[i].jobId /\ b(i, status).status = status
               /\ b(i, status).expectedFencingToken = c.branches[i].expectedFencingToken
               /\ b(i, status).expectedAttempt = c.branches[i].expectedAttempt
               /\ BranchIs(c, WithResult(c, i, e, status), i, b(i, status))
    <3>1. c.branches[i] \in Branch
      BY <2>1, ClusterFields
    <3>2. BranchIs(c, WithResult(c, i, e, status), i, b(i, status))
      BY <2>1, WithResultFields
    <3> QED BY <3>1, <3>2 DEF Branch
  <2> HIDE DEF b
  <2>3. ASSUME NEW i \in DOMAIN c.branches, c.branches[i].jobId = e.jobId,
               c.branches[i].status = "pending", FromLatestLease(c.branches[i], e)
        PROVE  d = WithResult(c, i, e, e.type)
    BY <2>1, <2>3, OutcomeTaken
  <2>4. CASE Quiet(s, t)
    <3>1. d = c
      BY <2>4 DEF Quiet
    <3>2. ASSUME NEW i \in DOMAIN c.branches PROVE BranchStep(c.branches[i], c.branches[i], e)
      <4>1. ASSUME c.branches[i].jobId = e.jobId, c.branches[i].status = "pending",
                   FromLatestLease(c.branches[i], e)
            PROVE  FALSE
        <5>1. BranchIs(c, c, i, b(i, e.type))
          BY <1>1, <2>2, <2>3, <3>1, <4>1
        <5>2. c.branches[i].status = e.type
          BY <1>1, <2>2, <5>1 DEF BranchIs
        <5> QED BY <1>1, <4>1, <5>2
      <4> QED BY <1>1, <4>1 DEF BranchStep
    <3> QED BY <2>4, <3>2, QuietFollows
  <2>5. ASSUME NEW i \in DOMAIN c.branches, NEW status \in {"succeeded", "failed"}, NEW outbox,
               Settles(s, e, i, status, outbox), outbox \in {<<>>, Completion(e)}
        PROVE  Follows(s, e)
    <3>1. /\ c.branches[i].jobId = e.jobId /\ c.branches[i].status = "pending"
          /\ t.state.cluster = WithResult(c, i, e, status) /\ t.jobs = <<>> /\ t.outbox = outbox
      BY <2>5 DEF Settles, Moves
    <3>2. /\ d \in Cluster /\ DOMAIN d.branches = DOMAIN c.branches /\ d.branches[i] = b(i, status)
          /\ d.timers = c.timers /\ \A j \in DOMAIN c.branches \ {i} : d.branches[j] = c.branches[j]
      BY <2>2, <3>1 DEF BranchIs
    <3>3. BranchStep(c.branches[i], d.branches[i], e)
      BY <1>1, <2>2, <3>1, <3>2 DEF BranchStep
    <3>4. ASSUME NEW j \in DOMAIN c.branches \ {i} PROVE BranchStep(c.branches[j], d.branches[j], e)
      <4>1. c.branches[j].jobId # e.jobId
        BY <2>1, <3>1 DEF WellFormed
      <4> QED BY <3>2, <4>1 DEF BranchStep
    <3>5. Asking(t)
      <4>1. CASE outbox = <<>>
        BY <3>1, <4>1, NothingAsked
      <4>2. CASE outbox = Completion(e)
        <5> DEFINE key == <<"analysis-completed", e.jobId>>
        <5>1. key \in IntentKeys /\ key[1] \notin JobTags
          BY DEF IntentKeys, JobTags
        <5> HIDE DEF key
        <5>2. Job(key, 0) \in Intent /\ Job(key, 0).dedupeKey = key
          BY <5>1 DEF Job, Intent
        <5>3. t.outbox = <<Job(key, 0)>>
          BY <3>1, <4>2 DEF Completion, key
        <5> HIDE DEF t
        <5>4. t.outbox \in Seq(Intent) /\ DOMAIN t.outbox = {1} /\ t.outbox[1] = Job(key, 0)
          BY <5>2, <5>3
        <5>5. t.jobs \in Seq(Intent) /\ DOMAIN t.jobs = {}
          BY <3>1
        <5> QED BY <5>1, <5>2, <5>4, <5>5 DEF Asking
      <4> QED BY <2>5, <4>1, <4>2
    <3>6. d # Null
      BY <3>2, ClusterFields
    <3> HIDE DEF t
    <3> QED BY <1>3, <3>2, <3>3, <3>4, <3>5, <3>6 DEF Follows, t
  <2> QED BY <1>1, <2>4, <2>5, OutcomeApplied
<1> QED BY <1>2, <1>3

-----------------------------------------------------------------------------
(* The events that the loop captures.                                      *)

SourceEvent ==
    [type : {"source"}, eventId : Nat, at : Nat, payload : {"valid"}, kind : SourceKinds, artifact : Artifacts]
TimerEvent ==
    [type : {"timer"}, eventId : Nat, at : Nat, timerType : TimerTypes, jobId : TimerKeys, due : Nat]
LeaseEvent ==
    [type : {"leased"}, eventId : Nat, at : Nat, jobId : BranchKeys, attempt : Nat, fencingToken : Nat]
OutcomeEvent ==
    [type : Ends, eventId : Nat, at : Nat, jobId : BranchKeys, attempt : Nat, fencingToken : Nat,
     provenanceMatches : {TRUE}, tooLarge : {FALSE}, reclaimed : BOOLEAN]
Event == SourceEvent \cup TimerEvent \cup LeaseEvent \cup OutcomeEvent

(* Such an event e is about a row of the table rs.                         *)
EventFits(rs, e) ==
    /\ e.type = "timer" =>
          /\ e.jobId \in DOMAIN rs /\ e.jobId[1] = "timer" /\ e.jobId[2] = e.timerType
          /\ e.due = rs[e.jobId].due
    /\ e.type \in {"leased"} \cup Ends =>
          /\ e.jobId \in DOMAIN rs /\ e.attempt = e.fencingToken
          /\ e.fencingToken \in 1 .. rs[e.jobId].token

RowFits(row) == row \in Row /\ row.attempt = row.token

(* The claim c of a worker at stage st.                                    *)
ClaimFits(rs, c, st) ==
    /\ c.intent \in DOMAIN rs /\ c.attempt = c.token /\ c.token \in 1 .. rs[c.intent].token
    /\ st = "claimed" => ~IsTimer(c.intent)

(* In the queue q, the lease of branch b with token T comes before i.      *)
Lease(e, key, T) == e.type = "leased" /\ e.jobId = key /\ e.fencingToken = T

Leading(q, b, T, i) ==
    b.expectedFencingToken = T \/ \E j \in 1 .. (i - 1) : Lease(q[j], b.jobId, T)

Delivered(row) == row.status \notin {"pending", "leased"}

(* Whoever has the latest claim of a pending branch and announced it: the  *)
(* reducer knows, or will know, of that lease.                             *)
Announced(q, rs, hd, st, b) ==
    b.status = "pending" =>
        \A w \in Workers : \A c \in hd[w] :
            (c.intent = b.jobId /\ c.token = rs[b.jobId].token /\ st[w] \in {"announced"} \cup Ends)
               => Leading(q, b, c.token, Len(q) + 1)

(* The latest claimant of a job has reported, and completed it or not yet. *)
Reported(rs, hd, st, key) ==
    \/ Delivered(rs[key])
    \/ \E w \in Workers : \E c \in hd[w] : c.intent = key /\ c.token = rs[key].token /\ st[w] \in Ends

(* The report that settles b, which is behind its lease in the queue.      *)
Settling(q, b, T, i) ==
    q[i].type \in Ends /\ q[i].jobId = b.jobId /\ q[i].fencingToken = T /\ Leading(q, b, T, i)

Answered(q, rs, hd, st, b) ==
    (b.status = "pending" /\ Reported(rs, hd, st, b.jobId)) =>
        \E i \in DOMAIN q : Settling(q, b, rs[b.jobId].token, i)

BranchFits(q, rs, hd, st, b) ==
    /\ b.jobId \in DOMAIN rs /\ b.expectedAttempt = b.expectedFencingToken
    /\ b.expectedFencingToken <= rs[b.jobId].token
    /\ Announced(q, rs, hd, st, b)
    /\ Answered(q, rs, hd, st, b)

(* A timer whose firing was reported: it was consumed, or is in the queue. *)
Spent(rs, hd, st, key) ==
    Delivered(rs[key]) \/ \E w \in Workers : \E c \in hd[w] : c.intent = key /\ st[w] \in Ends

FiringKept(q, rs, hd, st, sp, key) ==
    Spent(rs, hd, st, key) => key \in sp \/ \E i \in DOMAIN q : q[i].type = "timer" /\ q[i].jobId = key

JobsOf(l) == {key \in IntentKeys : In(key, l) /\ key[1] \in JobTags}

LoopTypes ==
    /\ clock \in Times /\ captured \in Nat /\ offered \subseteq Offers
    /\ stage \in [Workers -> Stages] /\ DOMAIN held = Workers
    /\ queue \in Seq(Event) /\ Len(queue) <= captured
    /\ \A i \in DOMAIN queue : queue[i].eventId = captured - Len(queue) + i

ClaimsInv ==
    \A w \in Workers :
        /\ \/ stage[w] = "idle" /\ held[w] = {}
           \/ stage[w] # "idle" /\ \E c : held[w] = {c}
        /\ \A c \in held[w] : ClaimFits(rows, c, stage[w])

ClusterInv ==
    ClusterOpen =>
        /\ \A i \in DOMAIN Analyses : BranchFits(queue, rows, held, stage, Analyses[i])
        /\ \A key \in DOMAIN rows :
              key[1] = "timer" => rows[key].due = checkpoint.cluster.timers[key[2]].due

LedgerInv(l, sp) ==
    /\ Inv(checkpoint, captured - Len(queue), l, sp)
    /\ DOMAIN rows = JobsOf(l)
    /\ \A key \in DOMAIN rows : key[1] = "timer" => FiringKept(queue, rows, held, stage, sp, key)

LoopInv ==
    /\ LoopTypes /\ ClaimsInv /\ ClusterInv
    /\ \A key \in DOMAIN rows : RowFits(rows[key])
    /\ \A i \in DOMAIN queue : EventFits(rows, queue[i])
    /\ \E l, sp : LedgerInv(l, sp)

-----------------------------------------------------------------------------
(* Keys, rows and events.                                                  *)

LEMMA KeyTags ==
    ASSUME NEW key \in IntentKeys
    PROVE  /\ key[1] = "timer" => key \in TimerKeys /\ key[2] \in TimerTypes
           /\ key[1] = "analysis" => key \in BranchKeys
           /\ key \in BranchKeys => key[1] = "analysis"
<1>1. CASE key \in TimerKeys
  BY <1>1 DEF TimerKeys, BranchKeys
<1>2. CASE key \in BranchKeys
  BY <1>2 DEF BranchKeys
<1>3. CASE key = <<"first-source">>
  <2>1. key[1] = "first-source"
    BY <1>3
  <2> QED BY <2>1 DEF BranchKeys
<1>4. CASE key \in {"analysis-completed"} \X BranchKeys
  <2>1. key[1] = "analysis-completed"
    BY <1>4
  <2> QED BY <2>1 DEF BranchKeys
<1> QED BY <1>1, <1>2, <1>3, <1>4 DEF IntentKeys

LEMMA RowParts ==
    ASSUME NEW row, RowFits(row)
    PROVE  /\ row.status \in Statuses /\ row.token \in Nat /\ row.attempt \in Nat /\ row.due \in Nat
           /\ row.expires \in Nat /\ row.owner \in Workers \cup {NoWorker}
  BY DEF RowFits, Row

LEMMA EventParts ==
    ASSUME NEW e \in Event
    PROVE  /\ e.type \in {"source", "timer", "leased"} \cup Ends /\ e.eventId \in Nat /\ e.at \in Nat
           /\ e.type = "source" => e.kind \in SourceKinds /\ e.artifact \in Artifacts
           /\ e.type = "timer" => e.timerType \in TimerTypes /\ e.jobId \in TimerKeys /\ e.due \in Nat
           /\ e.type \in {"leased"} \cup Ends =>
                 e.jobId \in BranchKeys /\ e.attempt \in Nat /\ e.fencingToken \in Nat
           /\ e.type \in Ends => e.tooLarge = FALSE /\ e.provenanceMatches = TRUE
<1>1. CASE e \in SourceEvent
  BY <1>1 DEF SourceEvent, Ends
<1>2. CASE e \in TimerEvent
  BY <1>2 DEF TimerEvent, Ends
<1>3. CASE e \in LeaseEvent
  BY <1>3 DEF LeaseEvent, Ends
<1>4. CASE e \in OutcomeEvent
  BY <1>4 DEF OutcomeEvent, Ends
<1> QED BY <1>1, <1>2, <1>3, <1>4 DEF Event

(* Rows are only added, and keep their due times while tokens grow.        *)
Grows(rs, rt) ==
    /\ DOMAIN rs \subseteq DOMAIN rt
    /\ \A key \in DOMAIN rs :
          /\ rt[key].due = rs[key].due
          /\ rs[key].token \in Nat /\ rt[key].token \in Nat /\ rt[key].token >= rs[key].token

LEMMA EventGrows ==
    ASSUME NEW rs, NEW rt, Grows(rs, rt), NEW e, EventFits(rs, e)
    PROVE  EventFits(rt, e)
  BY DEF Grows, EventFits

LEMMA ClaimGrows ==
    ASSUME NEW rs, NEW rt, Grows(rs, rt), NEW c, NEW st, ClaimFits(rs, c, st)
    PROVE  ClaimFits(rt, c, st)
  BY DEF Grows, ClaimFits

-----------------------------------------------------------------------------
(* The queue.                                                              *)

LEMMA Enqueued ==
    ASSUME NEW q \in Seq(Event), NEW e \in Event, NEW p, p = Append(q, e)
    PROVE  /\ p \in Seq(Event) /\ Len(q) \in Nat /\ Len(p) = Len(q) + 1
           /\ DOMAIN q = 1 .. Len(q) /\ DOMAIN p = 1 .. (Len(q) + 1)
           /\ p[Len(q) + 1] = e /\ \A i \in DOMAIN q : i \in DOMAIN p /\ p[i] = q[i]
           /\ \A i \in DOMAIN p : (i \in DOMAIN q /\ p[i] = q[i]) \/ (i = Len(q) + 1 /\ p[i] = e)
<1>1. /\ p \in Seq(Event) /\ Len(q) \in Nat /\ Len(p) = Len(q) + 1
      /\ DOMAIN q = 1 .. Len(q) /\ DOMAIN p = 1 .. (Len(q) + 1)
      /\ p[Len(q) + 1] = e /\ \A i \in DOMAIN q : i \in DOMAIN p /\ p[i] = q[i]
  OBVIOUS
<1> QED BY <1>1

LEMMA LeadingCaptured ==
    ASSUME NEW q \in Seq(Event), NEW e \in Event, NEW p, p = Append(q, e),
           NEW b, NEW T, NEW i \in 1 .. (Len(q) + 1), Leading(q, b, T, i)
    PROVE  Leading(p, b, T, i) /\ Leading(p, b, T, i + 1)
<1>1. Len(q) \in Nat /\ DOMAIN q = 1 .. Len(q) /\ \A j \in DOMAIN q : p[j] = q[j]
  BY Enqueued
<1>2. CASE b.expectedFencingToken = T
  BY <1>2 DEF Leading
<1>3. CASE \E j \in 1 .. (i - 1) : Lease(q[j], b.jobId, T)
  <2>1. PICK j \in 1 .. (i - 1) : Lease(q[j], b.jobId, T)
    BY <1>3
  <2>2. j \in DOMAIN q /\ p[j] = q[j] /\ j \in 1 .. ((i + 1) - 1)
    BY <1>1, <2>1
  <2> QED BY <2>1, <2>2 DEF Leading
<1> QED BY <1>2, <1>3 DEF Leading

LEMMA Dequeued ==
    ASSUME NEW q \in Seq(Event), q # <<>>, NEW p, p = Tail(q)
    PROVE  /\ p \in Seq(Event) /\ Len(q) \in Nat \ {0} /\ Len(p) = Len(q) - 1 /\ Head(q) = q[1]
           /\ Head(q) \in Event /\ DOMAIN q = 1 .. Len(q) /\ DOMAIN p = 1 .. (Len(q) - 1)
           /\ \A i \in DOMAIN p : i + 1 \in DOMAIN q /\ p[i] = q[i + 1]
           /\ \A i \in DOMAIN q \ {1} : i - 1 \in DOMAIN p /\ p[i - 1] = q[i]
<1>1. /\ p \in Seq(Event) /\ Len(q) \in Nat \ {0} /\ Len(p) = Len(q) - 1 /\ Head(q) = q[1]
      /\ Head(q) \in Event /\ DOMAIN q = 1 .. Len(q) /\ DOMAIN p = 1 .. (Len(q) - 1)
  OBVIOUS
<1>2. \A i \in DOMAIN p : i + 1 \in DOMAIN q /\ p[i] = q[i + 1]
  BY <1>1
<1>3. ASSUME NEW i \in DOMAIN q \ {1} PROVE i - 1 \in DOMAIN p /\ p[i - 1] = q[i]
  <2>1. i - 1 \in DOMAIN p /\ (i - 1) + 1 = i
    BY <1>1
  <2> QED BY <1>2, <2>1
<1> QED BY <1>1, <1>2, <1>3

(* Once the lease of b with token T, the latest one, is consumed, it is    *)
(* the one that b expects.                                                 *)
LEMMA LeadingOn ==
    ASSUME NEW q \in Seq(Event), q # <<>>, NEW p, p = Tail(q), NEW rs, NEW b, NEW a,
           BranchStep(b, a, Head(q)), EventFits(rs, Head(q)), a.status = "pending", b.status = "pending",
           b.jobId \in DOMAIN rs, rs[b.jobId].token \in Nat, b.expectedFencingToken \in Nat,
           b.expectedAttempt = b.expectedFencingToken, b.expectedFencingToken <= rs[b.jobId].token,
           NEW i \in 2 .. (Len(q) + 1), Leading(q, b, rs[b.jobId].token, i)
    PROVE  Leading(p, a, rs[b.jobId].token, i - 1)
<1> DEFINE T == rs[b.jobId].token
           e == Head(q)
<1>1. Len(q) \in Nat /\ e = q[1] /\ \A j \in DOMAIN q \ {1} : j - 1 \in DOMAIN p /\ p[j - 1] = q[j]
  BY Dequeued
<1>2. e \in Event /\ a.jobId = b.jobId /\ DOMAIN q = 1 .. Len(q)
  BY Dequeued DEF BranchStep
<1>3. e.type = "leased" => e.attempt \in Nat /\ e.fencingToken \in Nat /\ e.attempt = e.fencingToken
  BY <1>2, EventParts DEF EventFits
<1>4. e.type = "leased" /\ e.jobId = b.jobId => e.fencingToken <= T
  BY DEF EventFits
<1>5. CASE b.expectedFencingToken = T
  <2>1. a.expectedFencingToken = T
    BY <1>3, <1>4, <1>5 DEF BranchStep, Supersedes
  <2> QED BY <2>1 DEF Leading
<1>6. CASE Lease(e, b.jobId, T) /\ b.expectedFencingToken # T
  <2>1. Supersedes(b, e)
    BY <1>3, <1>6 DEF Supersedes, Lease
  <2>2. a.expectedFencingToken = T
    BY <1>6, <2>1 DEF BranchStep, Lease
  <2> QED BY <2>2 DEF Leading
<1>7. CASE b.expectedFencingToken # T /\ ~Lease(e, b.jobId, T)
  <2>1. PICK j \in 1 .. (i - 1) : Lease(q[j], b.jobId, T)
    BY <1>7 DEF Leading
  <2>2. j \in DOMAIN q \ {1}
    BY <1>1, <1>2, <1>7, <2>1
  <2>3. p[j - 1] = q[j] /\ j - 1 \in 1 .. ((i - 1) - 1)
    BY <1>1, <2>1, <2>2
  <2> QED BY <1>2, <2>1, <2>3 DEF Leading
<1> QED BY <1>5, <1>6, <1>7

-----------------------------------------------------------------------------
(* An event e is captured, and workers move from the stages st to su.      *)

ReportsOf(hd, st, su, key, e) ==
    \A w \in Workers : \A c \in hd[w] : c.intent = key =>
        /\ su[w] \in {"announced"} \cup Ends =>
              st[w] \in {"announced"} \cup Ends \/ Lease(e, key, c.token)
        /\ su[w] \in Ends =>
              \/ st[w] \in Ends
              \/ st[w] = "announced" /\ e.type \in Ends /\ e.jobId = key /\ e.fencingToken = c.token

FiringsOf(hd, st, su, key, e) ==
    \A w \in Workers : \A c \in hd[w] :
        (c.intent = key /\ su[w] \in Ends) => st[w] \in Ends \/ (e.type = "timer" /\ e.jobId = key)

LEMMA BranchCaptures ==
    ASSUME NEW q \in Seq(Event), NEW e \in Event, NEW p, p = Append(q, e),
           NEW rs, NEW hd, NEW st, NEW su, NEW b, BranchFits(q, rs, hd, st, b),
           ReportsOf(hd, st, su, b.jobId, e)
    PROVE  BranchFits(p, rs, hd, su, b)
<1> DEFINE T == rs[b.jobId].token
<1>1. /\ Len(q) \in Nat /\ Len(p) = Len(q) + 1 /\ DOMAIN q = 1 .. Len(q) /\ DOMAIN p = 1 .. (Len(q) + 1)
      /\ p[Len(q) + 1] = e /\ \A i \in DOMAIN q : i \in DOMAIN p /\ p[i] = q[i]
  BY Enqueued
<1> HIDE DEF T
<1>2. \A i \in 1 .. (Len(q) + 1) : Leading(q, b, T, i) => Leading(p, b, T, i) /\ Leading(p, b, T, i + 1)
  BY LeadingCaptured
<1>3. Announced(p, rs, hd, su, b)
  <2> SUFFICES ASSUME b.status = "pending", NEW w \in Workers, NEW c \in hd[w],
                      c.intent = b.jobId, c.token = T, su[w] \in {"announced"} \cup Ends
               PROVE  Leading(p, b, T, Len(p) + 1)
    BY DEF Announced, T
  <2>1. CASE st[w] \in {"announced"} \cup Ends
    <3>1. Leading(q, b, T, Len(q) + 1)
      BY <2>1 DEF BranchFits, Announced, T
    <3> QED BY <1>1, <1>2, <3>1
  <2>2. CASE Lease(e, b.jobId, c.token)
    <3>1. Len(q) + 1 \in 1 .. ((Len(p) + 1) - 1) /\ Lease(p[Len(q) + 1], b.jobId, T)
      BY <1>1, <2>2
    <3> QED BY <3>1 DEF Leading
  <2> QED BY <2>1, <2>2 DEF ReportsOf
<1>4. Answered(p, rs, hd, su, b)
  <2> SUFFICES ASSUME b.status = "pending", Reported(rs, hd, su, b.jobId)
               PROVE  \E i \in DOMAIN p : Settling(p, b, T, i)
    BY DEF Answered, T
  <2>1. CASE Reported(rs, hd, st, b.jobId)
    <3>1. PICK i \in DOMAIN q : Settling(q, b, T, i)
      BY <2>1 DEF BranchFits, Answered, T
    <3>2. i \in DOMAIN p /\ p[i] = q[i] /\ Leading(p, b, T, i)
      <4>1. i \in 1 .. (Len(q) + 1)
        BY <1>1
      <4> QED BY <1>1, <1>2, <3>1, <4>1 DEF Settling
    <3>3. Settling(p, b, T, i)
      BY <3>1, <3>2 DEF Settling
    <3> QED BY <3>2, <3>3
  <2>2. CASE ~Reported(rs, hd, st, b.jobId)
    <3>1. PICK w \in Workers : \E c \in hd[w] : c.intent = b.jobId /\ c.token = T /\ su[w] \in Ends
      BY <2>2 DEF Reported, T
    <3>2. PICK c \in hd[w] : c.intent = b.jobId /\ c.token = T /\ su[w] \in Ends
      BY <3>1
    <3>3. st[w] \notin Ends
      BY <2>2, <3>2 DEF Reported, T
    <3>4. st[w] = "announced" /\ e.type \in Ends /\ e.jobId = b.jobId /\ e.fencingToken = c.token
      BY <3>2, <3>3 DEF ReportsOf
    <3>5. Leading(q, b, T, Len(q) + 1)
      BY <3>2, <3>4 DEF BranchFits, Announced, T
    <3>6. Len(q) + 1 \in DOMAIN p /\ Len(q) + 1 \in 1 .. (Len(q) + 1)
      BY <1>1
    <3>7. Settling(p, b, T, Len(q) + 1)
      BY <1>1, <1>2, <3>2, <3>4, <3>5, <3>6 DEF Settling
    <3> QED BY <3>6, <3>7
  <2> QED BY <2>1, <2>2
<1> QED BY <1>3, <1>4 DEF BranchFits

LEMMA FiringCaptures ==
    ASSUME NEW q \in Seq(Event), NEW e \in Event, NEW p, p = Append(q, e),
           NEW rs, NEW hd, NEW st, NEW su, NEW sp, NEW key, FiringKept(q, rs, hd, st, sp, key),
           FiringsOf(hd, st, su, key, e)
    PROVE  FiringKept(p, rs, hd, su, sp, key)
<1>1. /\ Len(q) + 1 \in DOMAIN p /\ p[Len(q) + 1] = e /\ \A i \in DOMAIN q : i \in DOMAIN p /\ p[i] = q[i]
  <2>1. Len(q) + 1 \in 1 .. (Len(q) + 1)
    BY Enqueued
  <2> QED BY <2>1, Enqueued
<1>2. CASE e.type = "timer" /\ e.jobId = key
  BY <1>1, <1>2 DEF FiringKept
<1>3. CASE ~(e.type = "timer" /\ e.jobId = key)
  <2>1. Spent(rs, hd, su, key) => Spent(rs, hd, st, key)
    BY <1>3 DEF Spent, FiringsOf
  <2> QED BY <1>1, <2>1 DEF FiringKept
<1> QED BY <1>2, <1>3

(* The worker of claim c takes the step that captures e.                   *)
Advances(old, new, c, e) ==
    \/ old = "claimed" /\ new = "announced" /\ Lease(e, c.intent, c.token)
    \/ /\ old = "announced" /\ new \in Ends /\ e.jobId = c.intent
       /\ IF IsTimer(c.intent) THEN e.type = "timer" ELSE e.type \in Ends /\ e.fencingToken = c.token

(* What is known of keys and branches.                                     *)
LEMMA KnownKeys ==
    ASSUME LoopInv
    PROVE  /\ DOMAIN rows \subseteq IntentKeys
           /\ \A key \in DOMAIN rows :
                 /\ key[1] \in JobTags
                 /\ key[1] = "timer" => key \in TimerKeys /\ key[2] \in TimerTypes
                 /\ key[1] # "timer" => key \in BranchKeys
           /\ checkpoint \in State
           /\ ClusterOpen => checkpoint.cluster \in Cluster
           /\ ClusterOpen =>
                 \A i \in DOMAIN Analyses :
                    /\ Analyses[i] \in Branch /\ Analyses[i].jobId[1] = "analysis"
                    /\ Analyses[i].expectedFencingToken \in Nat
<1>1. PICK l, sp : LedgerInv(l, sp)
  BY DEF LoopInv
<1>2. DOMAIN rows = JobsOf(l) /\ checkpoint \in State
  BY <1>1 DEF LedgerInv, Inv
<1>3. ASSUME NEW key \in DOMAIN rows
      PROVE  /\ key \in IntentKeys /\ key[1] \in JobTags
             /\ key[1] = "timer" => key \in TimerKeys /\ key[2] \in TimerTypes
             /\ key[1] # "timer" => key \in BranchKeys
  <2>1. key \in IntentKeys /\ key[1] \in JobTags
    BY <1>2 DEF JobsOf
  <2> QED BY <2>1, KeyTags DEF JobTags
<1>4. ClusterOpen => checkpoint.cluster \in Cluster
  BY <1>2, StateFields DEF ClusterOpen
<1>5. ASSUME ClusterOpen, NEW i \in DOMAIN Analyses
      PROVE  /\ Analyses[i] \in Branch /\ Analyses[i].jobId[1] = "analysis"
             /\ Analyses[i].expectedFencingToken \in Nat
  <2>1. Analyses[i] \in Branch
    BY <1>4, <1>5, ClusterFields DEF Analyses
  <2>2. Analyses[i].jobId \in BranchKeys /\ Analyses[i].expectedFencingToken \in Nat
    BY <2>1 DEF Branch
  <2>3. Analyses[i].jobId \in IntentKeys
    BY <2>2 DEF IntentKeys
  <2> QED BY <2>1, <2>2, <2>3, KeyTags
<1> QED BY <1>2, <1>3, <1>4, <1>5

LEMMA CaptureStep ==
    ASSUME LoopInv, NEW e \in Event, CaptureEvent(e), e.eventId = captured + 1, EventFits(rows, e),
           UNCHANGED <<rows, held, checkpoint, clock>>, offered' \subseteq Offers,
           stage' \in [Workers -> Stages],
           \A w \in Workers :
              \/ stage'[w] = stage[w]
              \/ stage[w] # "idle" /\ \A c \in held[w] : Advances(stage[w], stage'[w], c, e)
    PROVE  LoopInv'
<1> DEFINE q == queue
           p == queue'
<1>1. q \in Seq(Event) /\ p = Append(q, e) /\ captured' = captured + 1 /\ captured \in Nat /\ Len(q) <= captured
  BY DEF LoopInv, LoopTypes, CaptureEvent
<1>2. /\ p \in Seq(Event) /\ Len(q) \in Nat /\ Len(p) = Len(q) + 1
      /\ DOMAIN q = 1 .. Len(q) /\ DOMAIN p = 1 .. (Len(q) + 1)
      /\ p[Len(q) + 1] = e /\ \A i \in DOMAIN q : i \in DOMAIN p /\ p[i] = q[i]
  BY <1>1, Enqueued
<1>3. \A i \in DOMAIN p : (i \in DOMAIN q /\ p[i] = q[i]) \/ (i = Len(q) + 1 /\ p[i] = e)
  BY <1>1, Enqueued
<1>4. captured' - Len(p) = captured - Len(q)
  BY <1>1, <1>2
<1>5. LoopTypes'
  <2>1. ASSUME NEW i \in DOMAIN p PROVE p[i].eventId = captured' - Len(p) + i
    <3>1. CASE i \in DOMAIN q /\ p[i] = q[i]
      BY <1>4, <3>1 DEF LoopInv, LoopTypes
    <3>2. CASE i = Len(q) + 1 /\ p[i] = e
      BY <1>1, <1>2, <1>4, <3>2
    <3> QED BY <1>3, <3>1, <3>2
  <2>2. captured' \in Nat /\ Len(p) <= captured'
    BY <1>1, <1>2
  <2> QED BY <1>2, <2>1, <2>2 DEF LoopInv, LoopTypes
<1>6. \A i \in DOMAIN p : EventFits(rows, p[i])
  BY <1>3 DEF LoopInv
<1>7. ASSUME NEW w \in Workers PROVE stage'[w] = "idle" <=> stage[w] = "idle"
  <2>1. CASE stage'[w] = stage[w]
    BY <2>1
  <2>2. CASE stage'[w] # stage[w]
    <3>1. stage[w] # "idle" /\ \A c \in held[w] : Advances(stage[w], stage'[w], c, e)
      BY <2>2
    <3>2. PICK c : held[w] = {c}
      BY <3>1 DEF LoopInv, ClaimsInv
    <3>3. stage'[w] # "idle"
      BY <3>1, <3>2 DEF Advances, Ends
    <3> QED BY <3>1, <3>3
  <2> QED BY <2>1, <2>2
<1>8. ClaimsInv'
  <2> SUFFICES ASSUME NEW w \in Workers
               PROVE  /\ \/ stage'[w] = "idle" /\ held[w] = {}
                         \/ stage'[w] # "idle" /\ \E c : held[w] = {c}
                      /\ \A c \in held[w] : ClaimFits(rows, c, stage'[w])
    BY DEF ClaimsInv
  <2>1. ASSUME NEW c \in held[w] PROVE ClaimFits(rows, c, stage'[w])
    <3>1. ClaimFits(rows, c, stage[w])
      BY DEF LoopInv, ClaimsInv
    <3>2. stage'[w] = "claimed" => stage[w] = "claimed"
      BY DEF Advances, Ends
    <3> QED BY <3>1, <3>2 DEF ClaimFits
  <2> QED BY <1>7, <2>1 DEF LoopInv, ClaimsInv
<1>9. ClusterInv'
  <2> SUFFICES ASSUME ClusterOpen, NEW i \in DOMAIN Analyses
               PROVE  BranchFits(p, rows, held, stage', Analyses[i])
    BY DEF LoopInv, ClusterInv, ClusterOpen, Analyses
  <2> DEFINE b == Analyses[i]
  <2>1. BranchFits(q, rows, held, stage, b) /\ ~IsTimer(b.jobId)
    BY KnownKeys DEF LoopInv, ClusterInv, IsTimer
  <2> HIDE DEF b
  <2>2. ReportsOf(held, stage, stage', b.jobId, e)
    <3> SUFFICES ASSUME NEW w \in Workers, NEW c \in held[w], c.intent = b.jobId
                 PROVE  /\ stage'[w] \in {"announced"} \cup Ends =>
                              stage[w] \in {"announced"} \cup Ends \/ Lease(e, b.jobId, c.token)
                        /\ stage'[w] \in Ends =>
                              \/ stage[w] \in Ends
                              \/ stage[w] = "announced" /\ e.type \in Ends /\ e.jobId = b.jobId /\ e.fencingToken = c.token
      BY DEF ReportsOf
    <3>1. stage'[w] = stage[w] \/ Advances(stage[w], stage'[w], c, e)
      OBVIOUS
    <3> QED BY <2>1, <3>1 DEF Advances, Ends
  <2>3. BranchFits(p, rows, held, stage', b)
    BY <1>1, <2>1, <2>2, BranchCaptures
  <2> QED BY <2>3 DEF b
<1>10. (\E l, sp : LedgerInv(l, sp))'
  <2>1. PICK l, sp : LedgerInv(l, sp)
    BY DEF LoopInv
  <2>2. ASSUME NEW key \in DOMAIN rows, key[1] = "timer" PROVE FiringKept(p, rows, held, stage', sp, key)
    <3>1. FiringKept(q, rows, held, stage, sp, key)
      BY <2>1, <2>2 DEF LedgerInv
    <3>2. FiringsOf(held, stage, stage', key, e)
      BY <2>2 DEF FiringsOf, Advances, Ends, IsTimer
    <3> QED BY <1>1, <3>1, <3>2, FiringCaptures
  <2>3. LedgerInv(l, sp)'
    BY <1>4, <2>1, <2>2 DEF LedgerInv
  <2> QED BY <2>3
<1> QED BY <1>5, <1>6, <1>8, <1>9, <1>10 DEF LoopInv

-----------------------------------------------------------------------------
(* The actions that capture an event.                                      *)

LEMMA ClockFacts ==
    ASSUME LoopInv
    PROVE  clock \in Nat /\ captured + 1 \in Nat
  BY TimeAssumption DEF LoopInv, LoopTypes, Times

LEMMA SourceCapturedStep ==
    ASSUME LoopInv, SourceCaptured
    PROVE  LoopInv'
<1>1. PICK o \in Offers \ offered :
        /\ CaptureEvent([type |-> "source", eventId |-> Position, at |-> clock, payload |-> "valid",
                         kind |-> o.kind, artifact |-> o.artifact])
        /\ offered' = offered \cup {o}
        /\ UNCHANGED <<rows, held, checkpoint, clock, stage, skewed, crashes>>
  BY DEF SourceCaptured
<1> DEFINE e == [type |-> "source", eventId |-> Position, at |-> clock, payload |-> "valid",
                 kind |-> o.kind, artifact |-> o.artifact]
<1>2. o.kind \in SourceKinds /\ o.artifact \in Artifacts
  BY LoopAssumption
<1>3. e \in SourceEvent
  BY <1>2, ClockFacts DEF SourceEvent, Position
<1>4. e.type = "source" /\ e.eventId = captured + 1 /\ CaptureEvent(e)
  BY <1>1 DEF Position
<1> HIDE DEF e
<1>5. EventFits(rows, e) /\ e \in Event
  BY <1>3, <1>4 DEF EventFits, Ends, Event
<1>6. offered' \subseteq Offers /\ stage' \in [Workers -> Stages]
  BY <1>1 DEF LoopInv, LoopTypes
<1> QED BY <1>1, <1>4, <1>5, <1>6, CaptureStep

(* The claim that a worker is busy with.                                   *)
LEMMA ClaimIs ==
    ASSUME LoopInv, NEW w \in Workers, NEW c \in held[w]
    PROVE  /\ held[w] = {c} /\ stage[w] # "idle" /\ ClaimFits(rows, c, stage[w])
           /\ c.intent \in DOMAIN rows /\ c.attempt = c.token /\ c.token \in Nat \ {0}
           /\ rows[c.intent].token \in Nat /\ c.token <= rows[c.intent].token /\ rows[c.intent].due \in Nat
<1>1. (stage[w] = "idle" /\ held[w] = {}) \/ (stage[w] # "idle" /\ \E x : held[w] = {x})
  BY DEF LoopInv, ClaimsInv
<1>2. held[w] = {c} /\ stage[w] # "idle"
  BY <1>1
<1>3. ClaimFits(rows, c, stage[w])
  BY DEF LoopInv, ClaimsInv
<1>4. c.intent \in DOMAIN rows
  BY <1>3 DEF ClaimFits
<1>5. rows[c.intent].token \in Nat /\ rows[c.intent].due \in Nat
  BY <1>4, RowParts DEF LoopInv
<1> QED BY <1>2, <1>3, <1>4, <1>5 DEF ClaimFits

LEMMA AnnounceStep ==
    ASSUME LoopInv, NEW w \in Workers, Announce(w)
    PROVE  LoopInv'
<1>1. PICK c \in held[w] :
        /\ stage[w] = "claimed"
        /\ CaptureEvent([type |-> "leased", eventId |-> Position, at |-> clock, jobId |-> c.intent,
                         attempt |-> c.attempt, fencingToken |-> c.token])
        /\ stage' = [stage EXCEPT ![w] = "announced"]
        /\ UNCHANGED <<rows, held, checkpoint, clock, offered, skewed, crashes>>
  BY DEF Announce
<1> DEFINE e == [type |-> "leased", eventId |-> Position, at |-> clock, jobId |-> c.intent,
                 attempt |-> c.attempt, fencingToken |-> c.token]
<1>2. /\ held[w] = {c} /\ ClaimFits(rows, c, "claimed") /\ c.intent \in DOMAIN rows /\ c.attempt = c.token
      /\ c.token \in Nat \ {0} /\ rows[c.intent].token \in Nat /\ c.token <= rows[c.intent].token
  BY <1>1, ClaimIs
<1>3. c.intent \in BranchKeys
  BY <1>2, KnownKeys DEF ClaimFits, IsTimer
<1>4. e \in LeaseEvent
  BY <1>2, <1>3, ClockFacts DEF LeaseEvent, Position
<1>5. /\ e.type = "leased" /\ e.eventId = captured + 1 /\ e.jobId = c.intent /\ e.attempt = c.token
      /\ e.fencingToken = c.token /\ CaptureEvent(e)
  BY <1>1, <1>2 DEF Position
<1> HIDE DEF e
<1>6. EventFits(rows, e) /\ e \in Event
  BY <1>2, <1>4, <1>5 DEF EventFits, Event
<1>7. stage \in [Workers -> Stages] /\ offered \subseteq Offers
  BY DEF LoopInv, LoopTypes
<1>8. stage' \in [Workers -> Stages] /\ offered' \subseteq Offers
  BY <1>1, <1>7 DEF Stages
<1>9. ASSUME NEW v \in Workers
      PROVE  \/ stage'[v] = stage[v]
             \/ stage[v] # "idle" /\ \A x \in held[v] : Advances(stage[v], stage'[v], x, e)
  <2>1. CASE v # w
    BY <1>1, <1>7, <2>1
  <2>2. CASE v = w
    <3>1. stage'[w] = "announced"
      BY <1>1, <1>7
    <3> QED BY <1>1, <1>2, <1>5, <2>2, <3>1 DEF Advances, Lease
  <2> QED BY <2>1, <2>2
<1>10. UNCHANGED <<rows, held, checkpoint, clock>>
  BY <1>1
<1> QED BY <1>5, <1>6, <1>8, <1>9, <1>10, CaptureStep

LEMMA ReportStepOf ==
    ASSUME LoopInv, NEW w \in Workers, NEW c \in held[w], stage[w] = "announced", NEW outcome \in Ends,
           NEW e \in Event, CaptureEvent(e), EventFits(rows, e), e.eventId = captured + 1, e.jobId = c.intent,
           IF IsTimer(c.intent) THEN e.type = "timer" ELSE e.type \in Ends /\ e.fencingToken = c.token,
           stage' = [stage EXCEPT ![w] = outcome], UNCHANGED <<rows, held, checkpoint, clock, offered>>
    PROVE  LoopInv'
<1>1. stage \in [Workers -> Stages] /\ offered \subseteq Offers
  BY DEF LoopInv, LoopTypes
<1>2. stage' \in [Workers -> Stages] /\ offered' \subseteq Offers
  BY <1>1 DEF Stages, Ends
<1>3. held[w] = {c}
  BY ClaimIs
<1>4. ASSUME NEW v \in Workers
      PROVE  \/ stage'[v] = stage[v]
             \/ stage[v] # "idle" /\ \A x \in held[v] : Advances(stage[v], stage'[v], x, e)
  <2>1. CASE v # w
    BY <1>1, <2>1
  <2>2. CASE v = w
    <3>1. stage'[w] = outcome
      BY <1>1
    <3> QED BY <1>3, <2>2, <3>1 DEF Advances
  <2> QED BY <2>1, <2>2
<1>5. UNCHANGED <<rows, held, checkpoint, clock>>
  OBVIOUS
<1> QED BY <1>2, <1>4, <1>5, CaptureStep

LEMMA ReportsStep ==
    ASSUME LoopInv, NEW w \in Workers, Report(w)
    PROVE  LoopInv'
<1> DEFINE FiringOf(c) == [type |-> "timer", eventId |-> Position, at |-> clock,
                          timerType |-> c.intent[2], jobId |-> c.intent, due |-> rows[c.intent].due]
           OutcomeOf(c, outcome) ==
               [type |-> outcome, eventId |-> Position, at |-> clock, jobId |-> c.intent,
                attempt |-> c.attempt, fencingToken |-> c.token,
                provenanceMatches |-> TRUE, tooLarge |-> FALSE,
                reclaimed |-> rows[c.intent].token # c.token]
<1>1. PICK c \in held[w], outcome \in Results \cup {"succeeded"} :
        /\ stage[w] = "announced"
        /\ IF IsTimer(c.intent) THEN CaptureEvent(FiringOf(c)) ELSE CaptureEvent(OutcomeOf(c, outcome))
        /\ stage' = [stage EXCEPT ![w] = outcome]
        /\ UNCHANGED <<rows, held, checkpoint, clock, offered, skewed, crashes>>
  BY DEF Report
<1>2. outcome \in Ends
  BY LoopAssumption DEF Ends
<1>3. /\ c.intent \in DOMAIN rows /\ c.attempt = c.token /\ c.token \in Nat \ {0}
      /\ rows[c.intent].token \in Nat /\ c.token <= rows[c.intent].token /\ rows[c.intent].due \in Nat
  BY ClaimIs
<1>4. UNCHANGED <<rows, held, checkpoint, clock, offered>>
  BY <1>1
<1>5. CASE IsTimer(c.intent)
  <2> DEFINE e == FiringOf(c)
  <2>1. c.intent \in TimerKeys /\ c.intent[2] \in TimerTypes /\ c.intent[1] = "timer"
    BY <1>3, <1>5, KnownKeys DEF IsTimer
  <2>2. e \in TimerEvent
    BY <1>3, <2>1, ClockFacts DEF TimerEvent, Position
  <2>3. /\ e.type = "timer" /\ e.eventId = captured + 1 /\ e.jobId = c.intent /\ e.timerType = c.intent[2]
        /\ e.due = rows[c.intent].due /\ CaptureEvent(e)
    BY <1>1, <1>5 DEF Position
  <2> HIDE DEF e
  <2>4. EventFits(rows, e) /\ e \in Event
    BY <1>3, <2>1, <2>2, <2>3 DEF EventFits, Event, Ends
  <2> QED BY <1>1, <1>2, <1>4, <1>5, <2>3, <2>4, ReportStepOf
<1>6. CASE ~IsTimer(c.intent)
  <2> DEFINE e == OutcomeOf(c, outcome)
  <2>1. c.intent \in BranchKeys
    BY <1>3, <1>6, KnownKeys DEF IsTimer
  <2>2. e \in OutcomeEvent
    BY <1>2, <1>3, <2>1, ClockFacts DEF OutcomeEvent, Position
  <2>3. /\ e.type = outcome /\ e.eventId = captured + 1 /\ e.jobId = c.intent /\ e.attempt = c.token
        /\ e.fencingToken = c.token /\ CaptureEvent(e)
    BY <1>1, <1>3, <1>6 DEF Position
  <2> HIDE DEF e
  <2>4. EventFits(rows, e) /\ e \in Event
    BY <1>2, <1>3, <2>2, <2>3 DEF EventFits, Event, Ends
  <2> QED BY <1>1, <1>2, <1>4, <1>6, <2>3, <2>4, ReportStepOf
<1> QED BY <1>5, <1>6

LEMMA ClockStep ==
    ASSUME LoopInv, ClockAdvances
    PROVE  LoopInv'
<1>1. clock' \in Times
  BY TimeAssumption DEF LoopInv, LoopTypes, ClockAdvances, Times
<1>2. UNCHANGED <<rows, held, checkpoint, queue, captured, offered, stage>>
  BY DEF ClockAdvances
<1>3. LoopTypes'
  BY <1>1, <1>2 DEF LoopInv, LoopTypes
<1>4. ClaimsInv' /\ ClusterInv' /\ (\E l, sp : LedgerInv(l, sp))'
  BY <1>2 DEF LoopInv, ClaimsInv, ClusterInv, ClusterOpen, Analyses, LedgerInv
<1> QED BY <1>2, <1>3, <1>4 DEF LoopInv

-----------------------------------------------------------------------------
(* The steps that change the delivery table and the claims.  No report of  *)
(* the job key appears that was not there before.                          *)

Recedes(rs, hd, st, rt, he, su, key) ==
    /\ \A w \in Workers : \A c \in he[w] :
          (c.intent = key /\ c.token = rt[key].token /\ su[w] \in {"announced"} \cup Ends) =>
             c \in hd[w] /\ c.token = rs[key].token /\ st[w] \in {"announced"} \cup Ends
    /\ Reported(rt, he, su, key) => Reported(rs, hd, st, key) /\ rt[key].token = rs[key].token

LEMMA BranchRecedes ==
    ASSUME NEW q, NEW rs, NEW hd, NEW st, NEW rt, NEW he, NEW su, Grows(rs, rt),
           NEW b, BranchFits(q, rs, hd, st, b), Recedes(rs, hd, st, rt, he, su, b.jobId),
           b.expectedFencingToken \in Nat
    PROVE  BranchFits(q, rt, he, su, b)
<1>1. /\ b.jobId \in DOMAIN rt /\ b.expectedAttempt = b.expectedFencingToken
      /\ b.expectedFencingToken <= rt[b.jobId].token
  BY DEF BranchFits, Grows
<1>2. Announced(q, rt, he, su, b)
  BY DEF BranchFits, Announced, Recedes
<1>3. Answered(q, rt, he, su, b)
  BY DEF BranchFits, Answered, Recedes
<1> QED BY <1>1, <1>2, <1>3 DEF BranchFits

LEMMA RowStep ==
    ASSUME LoopInv, UNCHANGED <<checkpoint, queue, captured, clock, offered>>,
           stage' \in [Workers -> Stages], DOMAIN held' = Workers,
           DOMAIN rows' = DOMAIN rows, Grows(rows, rows'), \A key \in DOMAIN rows : RowFits(rows'[key]),
           ClaimsInv',
           \A key \in DOMAIN rows : key[1] # "timer" => Recedes(rows, held, stage, rows', held', stage', key),
           \A key \in DOMAIN rows : key[1] = "timer" /\ Spent(rows', held', stage', key) => Spent(rows, held, stage, key)
    PROVE  LoopInv'
<1>1. LoopTypes'
  BY DEF LoopInv, LoopTypes
<1>2. \A i \in DOMAIN queue : EventFits(rows', queue[i])
  BY EventGrows DEF LoopInv
<1>3. ClusterInv'
  <2> SUFFICES ASSUME ClusterOpen
               PROVE  /\ \A i \in DOMAIN Analyses : BranchFits(queue, rows', held', stage', Analyses[i])
                      /\ \A key \in DOMAIN rows :
                            key[1] = "timer" => rows'[key].due = checkpoint.cluster.timers[key[2]].due
    BY DEF ClusterInv, ClusterOpen, Analyses
  <2>1. ASSUME NEW i \in DOMAIN Analyses PROVE BranchFits(queue, rows', held', stage', Analyses[i])
    <3> DEFINE b == Analyses[i]
    <3>1. BranchFits(queue, rows, held, stage, b)
      BY DEF LoopInv, ClusterInv
    <3>2. b.jobId[1] # "timer" /\ b.expectedFencingToken \in Nat
      BY KnownKeys
    <3> HIDE DEF b
    <3>3. Recedes(rows, held, stage, rows', held', stage', b.jobId)
      BY <3>1, <3>2 DEF BranchFits
    <3>4. BranchFits(queue, rows', held', stage', b)
      BY <3>1, <3>2, <3>3, BranchRecedes
    <3> QED BY <3>4 DEF b
  <2>2. ASSUME NEW key \in DOMAIN rows, key[1] = "timer"
        PROVE  rows'[key].due = checkpoint.cluster.timers[key[2]].due
    BY <2>2 DEF LoopInv, ClusterInv, Grows
  <2> QED BY <2>1, <2>2
<1>4. PICK l, sp : LedgerInv(l, sp)
  BY DEF LoopInv
<1>5. ASSUME NEW key \in DOMAIN rows, key[1] = "timer"
      PROVE  FiringKept(queue, rows', held', stage', sp, key)
  BY <1>4, <1>5 DEF LedgerInv, FiringKept
<1>6. LedgerInv(l, sp)'
  BY <1>4, <1>5 DEF LedgerInv
<1>7. (\E m, sq : LedgerInv(m, sq))'
  BY <1>6
<1> QED BY <1>1, <1>2, <1>3, <1>7 DEF LoopInv

-----------------------------------------------------------------------------
(* A worker claims a job.                                                  *)

LEMMA Taken ==
    ASSUME NEW w, NEW k \in DOMAIN rows, NEW nowMs, claim(w, {k}, nowMs, LeaseMs), w \in DOMAIN held
    PROVE  /\ DOMAIN rows' = DOMAIN rows /\ rows'[k] = Leased(k, w, nowMs + LeaseMs)
           /\ \A i \in DOMAIN rows \ {k} : rows'[i] = rows[i]
           /\ DOMAIN held' = DOMAIN held /\ \A v \in DOMAIN held \ {w} : held'[v] = held[v]
           /\ held'[w] = held[w] \cup {[intent |-> k, token |-> rows'[k].token, attempt |-> rows'[k].attempt]}
<1> DEFINE next == [i \in DOMAIN rows |-> IF i \in {k} THEN Leased(i, w, nowMs + LeaseMs) ELSE rows[i]]
           C(i) == [intent |-> i, token |-> next[i].token, attempt |-> next[i].attempt]
<1>1. rows' = next /\ held' = [held EXCEPT ![w] = held[w] \cup {C(i) : i \in {k}}]
  BY DEF claim
<1>2. DOMAIN rows' = DOMAIN rows /\ rows'[k] = Leased(k, w, nowMs + LeaseMs)
      /\ \A i \in DOMAIN rows \ {k} : rows'[i] = rows[i]
  BY <1>1
<1>3. C(k) = [intent |-> k, token |-> rows'[k].token, attempt |-> rows'[k].attempt]
  BY <1>1
<1> HIDE DEF C, next
<1>4. {C(i) : i \in {k}} = {C(k)}
  OBVIOUS
<1>5. DOMAIN held' = DOMAIN held /\ held'[w] = held[w] \cup {C(k)} /\ \A v \in DOMAIN held \ {w} : held'[v] = held[v]
  BY <1>1, <1>4
<1> QED BY <1>2, <1>3, <1>5

LEMMA LeasedRow ==
    ASSUME NEW k \in DOMAIN rows, RowFits(rows[k]), NEW w \in Workers, NEW expires \in Nat
    PROVE  LET row == Leased(k, w, expires)
           IN  /\ RowFits(row) /\ row.status = "leased" /\ row.token = rows[k].token + 1
               /\ row.attempt = rows[k].token + 1 /\ row.due = rows[k].due
<1> DEFINE row == Leased(k, w, expires)
<1>1. rows[k] \in Row /\ rows[k].attempt = rows[k].token
  BY DEF RowFits
<1>2. row = [rows[k] EXCEPT !.status = "leased", !.owner = w, !.expires = expires,
                            !.token = rows[k].token + 1, !.attempt = rows[k].attempt + 1]
  BY DEF Leased
<1> HIDE DEF row
<1>3. /\ row.status = "leased" /\ row.owner = w /\ row.expires = expires /\ row.due = rows[k].due
      /\ row.token = rows[k].token + 1 /\ row.attempt = rows[k].token + 1
  BY <1>1, <1>2 DEF Row
<1>4. row \in Row
  <2>1. rows[k].token + 1 \in Nat /\ rows[k].attempt + 1 \in Nat
    BY <1>1 DEF Row
  <2> DEFINE n == rows[k].token + 1
             m == rows[k].attempt + 1
  <2> HIDE DEF n, m
  <2>2. row = [rows[k] EXCEPT !.status = "leased", !.owner = w, !.expires = expires, !.token = n, !.attempt = m]
    BY <1>2 DEF n, m
  <2>3. n \in Nat /\ m \in Nat
    BY <2>1 DEF n, m
  <2> QED BY <1>1, <2>2, <2>3 DEF Row, Statuses
<1>5. RowFits(row)
  BY <1>3, <1>4 DEF RowFits
<1> QED BY <1>3, <1>5 DEF row

LEMMA ClaimStep ==
    ASSUME LoopInv, NEW w \in Workers, NEW nowMs \in Nat, ClaimAt(w, nowMs)
    PROVE  LoopInv'
<1>1. PICK k \in DOMAIN rows :
        /\ IsBatch({k}, nowMs, 1) /\ claim(w, {k}, nowMs, LeaseMs)
        /\ stage' = [stage EXCEPT ![w] = IF IsTimer(k) THEN "announced" ELSE "claimed"]
  BY DEF ClaimAt
<1> DEFINE c == [intent |-> k, token |-> rows'[k].token, attempt |-> rows'[k].attempt]
<1>2. UNCHANGED <<checkpoint, queue, captured, clock, offered>> /\ stage[w] = "idle"
  BY DEF ClaimAt
<1>3. stage \in [Workers -> Stages] /\ DOMAIN held = Workers /\ \A key \in DOMAIN rows : RowFits(rows[key])
  BY DEF LoopInv, LoopTypes
<1>4. held[w] = {}
  BY <1>2 DEF LoopInv, ClaimsInv
<1>5. nowMs + LeaseMs \in Nat
  BY LoopAssumption
<1>6. /\ DOMAIN rows' = DOMAIN rows /\ rows'[k] = Leased(k, w, nowMs + LeaseMs)
      /\ \A i \in DOMAIN rows \ {k} : rows'[i] = rows[i]
      /\ DOMAIN held' = Workers /\ held'[w] = {c} /\ \A v \in Workers \ {w} : held'[v] = held[v]
  BY <1>1, <1>3, <1>4, Taken
<1>7. /\ RowFits(rows'[k]) /\ rows'[k].status = "leased" /\ rows'[k].token = rows[k].token + 1
      /\ rows'[k].attempt = rows[k].token + 1 /\ rows'[k].due = rows[k].due
  BY <1>3, <1>5, <1>6, LeasedRow
<1>8. ~Delivered(rows[k]) /\ ~Delivered(rows'[k])
  <2>1. Claimable(k, nowMs)
    BY <1>1 DEF IsBatch
  <2> QED BY <1>7, <2>1 DEF Claimable, Delivered
<1>9. \A key \in DOMAIN rows : rows[key].token \in Nat
  BY <1>3, RowParts
<1>10. Grows(rows, rows') /\ \A key \in DOMAIN rows : RowFits(rows'[key])
  <2>1. ASSUME NEW key \in DOMAIN rows
        PROVE  /\ rows'[key].due = rows[key].due /\ rows'[key].token \in Nat
               /\ rows'[key].token >= rows[key].token /\ RowFits(rows'[key])
    <3>1. CASE key = k
      BY <1>7, <1>9, <3>1
    <3>2. CASE key # k
      BY <1>3, <1>6, <1>9, <3>2
    <3> QED BY <3>1, <3>2
  <2> QED BY <1>6, <1>9, <2>1 DEF Grows
<1>11. c.intent = k /\ c.token = rows[k].token + 1 /\ c.attempt = c.token
  BY <1>7
<1> HIDE DEF c
<1>12. /\ stage' \in [Workers -> Stages] /\ stage'[w] = IF IsTimer(k) THEN "announced" ELSE "claimed"
       /\ \A v \in Workers \ {w} : stage'[v] = stage[v]
  BY <1>1, <1>3 DEF Stages
<1>13. stage'[w] \notin Ends /\ stage'[w] # "idle"
  BY <1>12 DEF Ends
<1>14. ASSUME NEW v \in Workers \ {w}, NEW d \in held'[v]
       PROVE  d \in held[v] /\ (d.intent = k => d.token # rows'[k].token)
  <2>1. d \in held[v]
    BY <1>6
  <2>2. d.token \in Nat /\ d.token <= rows[d.intent].token
    BY <2>1, ClaimIs
  <2> QED BY <1>7, <1>9, <2>1, <2>2
<1>15. ClaimsInv'
  <2> SUFFICES ASSUME NEW v \in Workers
               PROVE  /\ \/ stage'[v] = "idle" /\ held'[v] = {}
                         \/ stage'[v] # "idle" /\ \E d : held'[v] = {d}
                      /\ \A d \in held'[v] : ClaimFits(rows', d, stage'[v])
    BY DEF ClaimsInv
  <2>1. CASE v = w
    <3>1. c.token \in 1 .. rows'[k].token
      BY <1>7, <1>9, <1>11
    <3>2. stage'[w] = "claimed" => ~IsTimer(k)
      BY <1>12
    <3>3. ClaimFits(rows', c, stage'[w])
      BY <1>6, <1>11, <3>1, <3>2 DEF ClaimFits
    <3> QED BY <1>6, <1>13, <2>1, <3>3
  <2>2. CASE v # w
    <3>1. stage'[v] = stage[v] /\ held'[v] = held[v]
      BY <1>6, <1>12, <2>2
    <3>2. \A d \in held[v] : ClaimFits(rows', d, stage[v])
      BY <1>10, ClaimGrows DEF LoopInv, ClaimsInv
    <3> QED BY <3>1, <3>2 DEF LoopInv, ClaimsInv
  <2> QED BY <2>1, <2>2
<1>16. ASSUME NEW key \in DOMAIN rows, key[1] # "timer"
       PROVE  Recedes(rows, held, stage, rows', held', stage', key)
  <2>1. ASSUME NEW v \in Workers, NEW d \in held'[v], d.intent = key, d.token = rows'[key].token,
               stage'[v] \in {"announced"} \cup Ends
        PROVE  d \in held[v] /\ d.token = rows[key].token /\ stage[v] = stage'[v] /\ key # k
    <3>1. v # w
      BY <1>6, <1>11, <1>12, <1>16, <2>1 DEF Ends, IsTimer
    <3>2. key # k /\ d \in held[v]
      BY <1>14, <2>1, <3>1
    <3> QED BY <1>6, <1>12, <2>1, <3>1, <3>2
  <2>2. ASSUME Reported(rows', held', stage', key)
        PROVE  Reported(rows, held, stage, key) /\ rows'[key].token = rows[key].token
    <3>1. CASE Delivered(rows'[key])
      <4>1. key # k
        BY <1>8, <3>1
      <4> QED BY <1>6, <3>1, <4>1 DEF Reported
    <3>2. CASE ~Delivered(rows'[key])
      <4>1. PICK v \in Workers : \E d \in held'[v] :
              d.intent = key /\ d.token = rows'[key].token /\ stage'[v] \in Ends
        BY <2>2, <3>2 DEF Reported
      <4>2. PICK d \in held'[v] : d.intent = key /\ d.token = rows'[key].token /\ stage'[v] \in Ends
        BY <4>1
      <4>3. d \in held[v] /\ d.token = rows[key].token /\ stage[v] = stage'[v]
        BY <2>1, <4>2
      <4> QED BY <4>2, <4>3 DEF Reported
    <3> QED BY <3>1, <3>2
  <2> QED BY <2>1, <2>2 DEF Recedes
<1>17. ASSUME NEW key \in DOMAIN rows, Spent(rows', held', stage', key)
       PROVE  Spent(rows, held, stage, key)
  <2>1. CASE Delivered(rows'[key])
    <3>1. key # k
      BY <1>8, <2>1
    <3> QED BY <1>6, <2>1, <3>1 DEF Spent
  <2>2. CASE ~Delivered(rows'[key])
    <3>1. PICK v \in Workers : \E d \in held'[v] : d.intent = key /\ stage'[v] \in Ends
      BY <1>17, <2>2 DEF Spent
    <3>2. v # w
      BY <1>13, <3>1
    <3> QED BY <1>6, <1>12, <3>1, <3>2 DEF Spent
  <2> QED BY <2>1, <2>2
<1> QED BY <1>2, <1>6, <1>10, <1>12, <1>15, <1>16, <1>17, RowStep

-----------------------------------------------------------------------------
(* A worker drops its claim, having completed the job or not.              *)

LEMMA DropStep ==
    ASSUME LoopInv, NEW w \in Workers, NEW c \in held[w],
           UNCHANGED <<checkpoint, queue, captured, clock, offered>>,
           stage' = [stage EXCEPT ![w] = "idle"], held' = [held EXCEPT ![w] = {}],
           DOMAIN rows' = DOMAIN rows, RowFits(rows'[c.intent]),
           rows'[c.intent].token = rows[c.intent].token, rows'[c.intent].due = rows[c.intent].due,
           \A key \in DOMAIN rows \ {c.intent} : rows'[key] = rows[key],
           Delivered(rows'[c.intent]) =>
              \/ Delivered(rows[c.intent])
              \/ c.token = rows[c.intent].token /\ stage[w] \in Ends
    PROVE  LoopInv'
<1>1. stage \in [Workers -> Stages] /\ DOMAIN held = Workers /\ \A key \in DOMAIN rows : RowFits(rows[key])
  BY DEF LoopInv, LoopTypes
<1>2. /\ stage' \in [Workers -> Stages] /\ stage'[w] = "idle" /\ \A v \in Workers \ {w} : stage'[v] = stage[v]
      /\ DOMAIN held' = Workers /\ held'[w] = {} /\ \A v \in Workers \ {w} : held'[v] = held[v]
  BY <1>1 DEF Stages
<1>3. \A key \in DOMAIN rows : rows[key].token \in Nat
  BY <1>1, RowParts
<1>4. \A key \in DOMAIN rows :
        rows'[key].token = rows[key].token /\ rows'[key].due = rows[key].due /\ RowFits(rows'[key])
  BY <1>1
<1>5. Grows(rows, rows')
  BY <1>3, <1>4 DEF Grows
<1>6. \A v \in Workers : \A d \in held'[v] : d \in held[v] /\ stage'[v] = stage[v]
  BY <1>2
<1>7. ClaimsInv'
  <2> SUFFICES ASSUME NEW v \in Workers
               PROVE  /\ \/ stage'[v] = "idle" /\ held'[v] = {}
                         \/ stage'[v] # "idle" /\ \E d : held'[v] = {d}
                      /\ \A d \in held'[v] : ClaimFits(rows', d, stage'[v])
    BY DEF ClaimsInv
  <2>1. CASE v = w
    BY <1>2, <2>1
  <2>2. CASE v # w
    <3>1. stage'[v] = stage[v] /\ held'[v] = held[v]
      BY <1>2, <2>2
    <3>2. \A d \in held[v] : ClaimFits(rows', d, stage[v])
      BY <1>5, ClaimGrows DEF LoopInv, ClaimsInv
    <3> QED BY <3>1, <3>2 DEF LoopInv, ClaimsInv
  <2> QED BY <2>1, <2>2
<1>8. ASSUME NEW key \in DOMAIN rows, Reported(rows', held', stage', key)
      PROVE  Reported(rows, held, stage, key)
  <2>1. CASE Delivered(rows'[key])
    BY <2>1 DEF Reported
  <2>2. CASE ~Delivered(rows'[key])
    BY <1>4, <1>6, <1>8, <2>2 DEF Reported
  <2> QED BY <2>1, <2>2
<1>9. ASSUME NEW key \in DOMAIN rows PROVE Recedes(rows, held, stage, rows', held', stage', key)
  BY <1>4, <1>6, <1>8 DEF Recedes
<1>10. ASSUME NEW key \in DOMAIN rows, Spent(rows', held', stage', key)
       PROVE  Spent(rows, held, stage, key)
  <2>1. CASE Delivered(rows'[key])
    BY <2>1 DEF Spent
  <2>2. CASE ~Delivered(rows'[key])
    BY <1>6, <1>10, <2>2 DEF Spent
  <2> QED BY <2>1, <2>2
<1> QED BY <1>2, <1>4, <1>5, <1>7, <1>9, <1>10, RowStep

LEMMA CompletedRow ==
    ASSUME NEW w, NEW c, c.intent \in DOMAIN rows, RowFits(rows[c.intent]), NEW outcome \in Ends,
           complete(w, c, outcome)
    PROVE  /\ DOMAIN rows' = DOMAIN rows /\ RowFits(rows'[c.intent])
           /\ rows'[c.intent].token = rows[c.intent].token /\ rows'[c.intent].due = rows[c.intent].due
           /\ \A key \in DOMAIN rows \ {c.intent} : rows'[key] = rows[key]
<1> DEFINE row == [rows[c.intent] EXCEPT !.status = outcome, !.owner = NoWorker, !.expires = 0]
<1>1. rows' = [rows EXCEPT ![c.intent].status = outcome, ![c.intent].owner = NoWorker, ![c.intent].expires = 0]
  BY DEF complete
<1>2. DOMAIN rows' = DOMAIN rows /\ \A key \in DOMAIN rows \ {c.intent} : rows'[key] = rows[key]
  BY <1>1
<1>3. rows'[c.intent] = row
  BY <1>1
<1>4. rows[c.intent] \in Row /\ rows[c.intent].attempt = rows[c.intent].token
  BY DEF RowFits
<1>5. row \in Row
  BY <1>4 DEF Row, Statuses, Outcomes, Ends
<1>6. row.token = rows[c.intent].token /\ row.due = rows[c.intent].due /\ row.attempt = rows[c.intent].attempt
  BY <1>4 DEF Row
<1> HIDE DEF row
<1>7. RowFits(row)
  BY <1>4, <1>5, <1>6 DEF RowFits
<1> QED BY <1>2, <1>3, <1>6, <1>7

LEMMA FinishStep ==
    ASSUME LoopInv, NEW w \in Workers, Finish(w)
    PROVE  LoopInv'
<1>1. PICK c \in held[w] :
        /\ stage[w] \in {"succeeded", "failed"}
        /\ complete(w, c, stage[w]) \/ fenced(w, c)
        /\ stage' = [stage EXCEPT ![w] = "idle"]
        /\ UNCHANGED <<checkpoint, queue, captured, clock, offered, skewed, crashes>>
  BY DEF Finish
<1>2. held[w] = {c} /\ c.intent \in DOMAIN rows
  BY ClaimIs
<1>3. RowFits(rows[c.intent]) /\ DOMAIN held = Workers
  BY <1>2 DEF LoopInv, LoopTypes
<1>4. held' = [held EXCEPT ![w] = held[w] \ {c}]
  BY <1>1 DEF complete, fenced
<1>5. held[w] \ {c} = {}
  BY <1>2
<1>6. held' = [held EXCEPT ![w] = {}]
  BY <1>4, <1>5
<1>7. UNCHANGED <<checkpoint, queue, captured, clock, offered>>
  BY <1>1
<1>8. CASE complete(w, c, stage[w])
  <2>1. c.token = rows[c.intent].token /\ stage[w] \in Ends
    BY <1>1, <1>8 DEF complete, Guarded, Ends
  <2> QED BY <1>1, <1>2, <1>3, <1>6, <1>7, <1>8, <2>1, CompletedRow, DropStep
<1>9. CASE fenced(w, c)
  <2>1. rows' = rows
    BY <1>9 DEF fenced
  <2> QED BY <1>1, <1>2, <1>3, <1>6, <1>7, <2>1, DropStep
<1> QED BY <1>1, <1>8, <1>9

LEMMA DiesStep ==
    ASSUME LoopInv, NEW w \in Workers, Dies(w)
    PROVE  LoopInv'
<1>1. /\ held[w] # {} /\ held' = [held EXCEPT ![w] = {}] /\ rows' = rows
      /\ stage' = [stage EXCEPT ![w] = "idle"] /\ UNCHANGED <<checkpoint, queue, captured, clock, offered>>
  BY DEF Dies, WorkerCrash
<1>2. PICK c : c \in held[w]
  BY <1>1
<1>3. c.intent \in DOMAIN rows
  BY <1>2, ClaimIs
<1>4. RowFits(rows[c.intent])
  BY <1>3 DEF LoopInv
<1> QED BY <1>1, <1>2, <1>3, <1>4, DropStep

-----------------------------------------------------------------------------
(* The run processes an event.  First, the ledger and the new rows.        *)

LEMMA KeysType ==
    ASSUME NEW jobs \in Seq(Intent)
    PROVE  /\ KeysOf(jobs) \in Seq(IntentKeys) /\ DOMAIN KeysOf(jobs) = DOMAIN jobs
           /\ \A i \in DOMAIN jobs : KeysOf(jobs)[i] = jobs[i].dedupeKey /\ jobs[i] \in Intent
<1>1. Len(jobs) \in Nat /\ DOMAIN jobs = 1 .. Len(jobs) /\ \A i \in 1 .. Len(jobs) : jobs[i] \in Intent
  OBVIOUS
<1>2. \A i \in 1 .. Len(jobs) : jobs[i].dedupeKey \in IntentKeys
  BY <1>1 DEF Intent
<1>3. KeysOf(jobs) = [i \in 1 .. Len(jobs) |-> jobs[i].dedupeKey]
  BY <1>1 DEF KeysOf
<1>4. KeysOf(jobs) \in [1 .. Len(jobs) -> IntentKeys]
  BY <1>2, <1>3
<1>5. KeysOf(jobs) \in Seq(IntentKeys)
  BY <1>1, <1>4
<1> QED BY <1>1, <1>3, <1>5

LEMMA TwoParts ==
    ASSUME NEW l \in Seq(IntentKeys), NEW x \in Seq(IntentKeys)
    PROVE  /\ l \o x \in Seq(IntentKeys)
           /\ \A i \in DOMAIN l : i \in DOMAIN (l \o x) /\ (l \o x)[i] = l[i]
           /\ \A i \in DOMAIN x : Len(l) + i \in DOMAIN (l \o x) /\ (l \o x)[Len(l) + i] = x[i] /\ Len(l) + i \notin DOMAIN l
           /\ \A k : In(k, l \o x) <=> In(k, l) \/ In(k, x)
<1> DEFINE m == l \o x
<1>1. /\ m \in Seq(IntentKeys) /\ Len(l) \in Nat /\ Len(x) \in Nat /\ DOMAIN l = 1 .. Len(l)
      /\ DOMAIN x = 1 .. Len(x) /\ DOMAIN m = 1 .. (Len(l) + Len(x))
      /\ \A i \in 1 .. (Len(l) + Len(x)) : m[i] = IF i <= Len(l) THEN l[i] ELSE x[i - Len(l)]
  OBVIOUS
<1> HIDE DEF m
<1>2. \A i \in DOMAIN l : i \in DOMAIN m /\ m[i] = l[i]
  BY <1>1
<1>3. ASSUME NEW i \in DOMAIN x PROVE Len(l) + i \in DOMAIN m /\ m[Len(l) + i] = x[i] /\ Len(l) + i \notin DOMAIN l
  <2>1. Len(l) + i \in 1 .. (Len(l) + Len(x)) /\ ~(Len(l) + i <= Len(l)) /\ (Len(l) + i) - Len(l) = i
    BY <1>1
  <2> QED BY <1>1, <2>1
<1>4. ASSUME NEW k, In(k, m) PROVE In(k, l) \/ In(k, x)
  <2>1. PICK i \in DOMAIN m : m[i] = k
    BY <1>4 DEF In
  <2>2. CASE i <= Len(l)
    BY <1>1, <2>1, <2>2 DEF In
  <2>3. CASE ~(i <= Len(l))
    <3>1. i - Len(l) \in DOMAIN x /\ m[i] = x[i - Len(l)]
      BY <1>1, <2>3
    <3> QED BY <2>1, <3>1 DEF In
  <2> QED BY <2>2, <2>3
<1>5. ASSUME NEW k, In(k, l) \/ In(k, x) PROVE In(k, m)
  BY <1>2, <1>3, <1>5 DEF In
<1> QED BY <1>1, <1>2, <1>3, <1>4, <1>5 DEF m

(* The jobs that a transition asks for are in the ledger after it, and     *)
(* were not in it before.                                                  *)
LEMMA LedgerAfter ==
    ASSUME NEW l \in Seq(IntentKeys), NEW t, Asking(t), NEW sp, Booked(After(l, t), sp)
    PROVE  /\ JobsOf(After(l, t)) = JobsOf(l) \cup {key \in IntentKeys : AskedFor(t, key)}
           /\ \A key : AskedFor(t, key) => key \in IntentKeys /\ key \notin JobsOf(l)
<1> DEFINE x == KeysOf(t.jobs)
           y == KeysOf(t.outbox)
           lx == l \o x
           m == lx \o y
<1>1. /\ x \in Seq(IntentKeys) /\ DOMAIN x = DOMAIN t.jobs
      /\ \A i \in DOMAIN t.jobs : x[i] = t.jobs[i].dedupeKey /\ t.jobs[i] \in Intent
  BY KeysType DEF Asking
<1>2. /\ y \in Seq(IntentKeys) /\ DOMAIN y = DOMAIN t.outbox
      /\ \A i \in DOMAIN t.outbox : y[i] = t.outbox[i].dedupeKey
  BY KeysType DEF Asking
<1>3. After(l, t) = m
  BY DEF After
<1> HIDE DEF x, y
<1>4. /\ lx \in Seq(IntentKeys)
      /\ \A i \in DOMAIN l : i \in DOMAIN lx /\ lx[i] = l[i]
      /\ \A i \in DOMAIN x : Len(l) + i \in DOMAIN lx /\ lx[Len(l) + i] = x[i] /\ Len(l) + i \notin DOMAIN l
      /\ \A k : In(k, lx) <=> In(k, l) \/ In(k, x)
  BY <1>1, TwoParts
<1> HIDE DEF lx
<1>5. /\ \A i \in DOMAIN lx : i \in DOMAIN m /\ m[i] = lx[i]
      /\ \A k : In(k, m) <=> In(k, lx) \/ In(k, y)
  BY <1>2, <1>4, TwoParts
<1> HIDE DEF m
<1>6. \A k : In(k, x) <=> AskedFor(t, k)
  BY <1>1 DEF In, AskedFor
<1>7. \A k : In(k, y) => k[1] \notin JobTags
  BY <1>2 DEF In, Asking
<1>8. \A k : AskedFor(t, k) => k \in IntentKeys /\ k[1] \in JobTags
  BY <1>1 DEF AskedFor, Asking, Fits, Intent
<1>9. ASSUME NEW k, AskedFor(t, k) PROVE ~In(k, l)
  <2>1. PICK i \in DOMAIN x : x[i] = k
    BY <1>1, <1>9 DEF AskedFor
  <2>2. Len(l) + i \in DOMAIN m /\ m[Len(l) + i] = k /\ Len(l) + i \notin DOMAIN l
    BY <1>4, <1>5, <2>1
  <2>3. ASSUME NEW j \in DOMAIN l, l[j] = k PROVE FALSE
    <3>1. j \in DOMAIN m /\ m[j] = k /\ j # Len(l) + i
      BY <1>4, <1>5, <2>2, <2>3
    <3> QED BY <1>3, <2>2, <3>1 DEF Booked
  <2> QED BY <2>3 DEF In
<1>10. JobsOf(m) = JobsOf(l) \cup {key \in IntentKeys : AskedFor(t, key)}
  BY <1>4, <1>5, <1>6, <1>7, <1>8 DEF JobsOf
<1> QED BY <1>3, <1>8, <1>9, <1>10 DEF JobsOf

LEMMA DuesAre ==
    ASSUME NEW t, Asking(t)
    PROVE  /\ DOMAIN DuesOf(t.jobs) = {key \in IntentKeys : AskedFor(t, key)}
           /\ \A key : AskedFor(t, key) =>
                 /\ DuesOf(t.jobs)[key] \in Nat
                 /\ key[1] = "timer" => DuesOf(t.jobs)[key] = t.state.cluster.timers[key[2]].due
<1> DEFINE jobs == t.jobs
           Of(key) == CHOOSE i \in DOMAIN jobs : jobs[i].dedupeKey = key
<1>1. \A i \in DOMAIN jobs : jobs[i] \in Intent /\ Fits(t.state.cluster, jobs[i])
  BY KeysType DEF Asking
<1>2. \A i \in DOMAIN jobs : jobs[i].dedupeKey \in IntentKeys /\ jobs[i].due \in Nat
  BY <1>1 DEF Intent
<1>3. DuesOf(jobs) = [key \in {jobs[i].dedupeKey : i \in DOMAIN jobs} |-> jobs[Of(key)].due]
  BY DEF DuesOf
<1>4. {jobs[i].dedupeKey : i \in DOMAIN jobs} = {key \in IntentKeys : AskedFor(t, key)}
  BY <1>2 DEF AskedFor
<1>5. ASSUME NEW key, AskedFor(t, key)
      PROVE  Of(key) \in DOMAIN jobs /\ jobs[Of(key)].dedupeKey = key
  BY <1>5 DEF AskedFor
<1> HIDE DEF Of, jobs
<1>6. ASSUME NEW key, AskedFor(t, key) PROVE key \in {jobs[i].dedupeKey : i \in DOMAIN jobs}
  BY <1>6 DEF AskedFor, jobs
<1>7. ASSUME NEW key, AskedFor(t, key) PROVE DuesOf(jobs)[key] = jobs[Of(key)].due
  BY <1>3, <1>6, <1>7
<1>8. ASSUME NEW key, AskedFor(t, key)
      PROVE  /\ DuesOf(jobs)[key] \in Nat
             /\ key[1] = "timer" => DuesOf(jobs)[key] = t.state.cluster.timers[key[2]].due
  BY <1>1, <1>2, <1>5, <1>7, <1>8 DEF Fits
<1>9. DOMAIN DuesOf(jobs) = {key \in IntentKeys : AskedFor(t, key)}
  BY <1>3, <1>4
<1> QED BY <1>8, <1>9 DEF jobs

LEMMA NewRowFits ==
    ASSUME NEW due \in Nat
    PROVE  /\ RowFits(NewRow(due)) /\ NewRow(due).status = "pending" /\ NewRow(due).token = 0
           /\ NewRow(due).due = due
  BY DEF RowFits, NewRow, Row, Statuses

(* The table rt after the commit: the rows of rs, and a new one for each   *)
(* job of t.                                                               *)
Inserted(rs, rt, t) ==
    /\ DOMAIN rt = DOMAIN rs \cup {key \in IntentKeys : AskedFor(t, key)}
    /\ \A key \in DOMAIN rs : rt[key] = rs[key]
    /\ \A key \in DOMAIN rt \ DOMAIN rs :
          /\ RowFits(rt[key]) /\ rt[key].status = "pending" /\ rt[key].token = 0
          /\ key[1] = "timer" => rt[key].due = t.state.cluster.timers[key[2]].due

LEMMA RowsInserted ==
    ASSUME NEW t, Asking(t), rows' = WithRows(DuesOf(t.jobs))
    PROVE  Inserted(rows, rows', t)
<1> DEFINE dues == DuesOf(t.jobs)
<1>1. /\ DOMAIN dues = {key \in IntentKeys : AskedFor(t, key)}
      /\ \A key : AskedFor(t, key) =>
            /\ dues[key] \in Nat
            /\ key[1] = "timer" => dues[key] = t.state.cluster.timers[key[2]].due
  BY DuesAre
<1>2. rows' = [i \in DOMAIN rows \cup DOMAIN dues |-> IF i \in DOMAIN rows THEN rows[i] ELSE NewRow(dues[i])]
  BY DEF WithRows
<1> HIDE DEF dues
<1>3. ASSUME NEW key \in DOMAIN rows' \ DOMAIN rows
      PROVE  /\ RowFits(rows'[key]) /\ rows'[key].status = "pending" /\ rows'[key].token = 0
             /\ key[1] = "timer" => rows'[key].due = t.state.cluster.timers[key[2]].due
  <2>1. AskedFor(t, key) /\ rows'[key] = NewRow(dues[key])
    BY <1>1, <1>2
  <2> QED BY <1>1, <2>1, NewRowFits
<1>4. DOMAIN rows' = DOMAIN rows \cup DOMAIN dues /\ \A key \in DOMAIN rows : rows'[key] = rows[key]
  BY <1>2
<1> QED BY <1>1, <1>3, <1>4 DEF Inserted

-----------------------------------------------------------------------------
(* What becomes of a branch b that is a after the event.                   *)

LEMMA BranchOn ==
    ASSUME NEW q \in Seq(Event), q # <<>>, NEW p, p = Tail(q), NEW rs, NEW rt, NEW hd, NEW st,
           NEW b, NEW a, BranchFits(q, rs, hd, st, b), BranchStep(b, a, Head(q)), EventFits(rs, Head(q)),
           b.jobId \in DOMAIN rt, rt[b.jobId] = rs[b.jobId],
           rs[b.jobId].token \in Nat, b.expectedFencingToken \in Nat
    PROVE  BranchFits(p, rt, hd, st, a)
<1> DEFINE e == Head(q)
           T == rs[b.jobId].token
<1>1. /\ Len(q) \in Nat \ {0} /\ Len(p) = Len(q) - 1 /\ e = q[1] /\ e \in Event
      /\ DOMAIN q = 1 .. Len(q) /\ DOMAIN p = 1 .. (Len(q) - 1)
      /\ \A i \in DOMAIN q \ {1} : i - 1 \in DOMAIN p /\ p[i - 1] = q[i]
  BY Dequeued
<1>2. /\ b.jobId \in DOMAIN rs /\ b.expectedAttempt = b.expectedFencingToken /\ b.expectedFencingToken <= T
      /\ a.jobId = b.jobId /\ (a.status = "pending" => b.status = "pending")
  BY DEF BranchFits, BranchStep
<1>3. /\ e.type \in {"leased"} \cup Ends /\ e.jobId = b.jobId => e.attempt = e.fencingToken
      /\ e.type = "leased" /\ e.jobId = b.jobId => e.fencingToken <= T
  BY DEF EventFits
<1>4. a.expectedAttempt = a.expectedFencingToken /\ a.expectedFencingToken <= T
  BY <1>2, <1>3 DEF BranchStep
<1>5. ASSUME a.status = "pending", NEW i \in 2 .. (Len(q) + 1), Leading(q, b, T, i)
      PROVE  Leading(p, a, T, i - 1)
  BY <1>2, <1>5, LeadingOn
<1>6. Announced(p, rt, hd, st, a)
  <2> SUFFICES ASSUME a.status = "pending", NEW w \in Workers, NEW c \in hd[w],
                      c.intent = b.jobId, c.token = T, st[w] \in {"announced"} \cup Ends
               PROVE  Leading(p, a, T, Len(p) + 1)
    BY <1>2 DEF Announced
  <2>1. Leading(q, b, T, Len(q) + 1)
    BY <1>2 DEF BranchFits, Announced
  <2>2. Len(q) + 1 \in 2 .. (Len(q) + 1) /\ (Len(q) + 1) - 1 = Len(p) + 1
    BY <1>1
  <2> HIDE DEF T
  <2>3. Leading(p, a, T, (Len(q) + 1) - 1)
    BY <1>5, <2>1, <2>2
  <2> QED BY <2>2, <2>3
<1>7. Answered(p, rt, hd, st, a)
  <2> SUFFICES ASSUME a.status = "pending", Reported(rt, hd, st, b.jobId)
               PROVE  \E i \in DOMAIN p : Settling(p, a, T, i)
    BY <1>2 DEF Answered
  <2>1. Reported(rs, hd, st, b.jobId)
    BY DEF Reported
  <2>2. PICK i \in DOMAIN q : Settling(q, b, T, i)
    BY <1>2, <2>1 DEF BranchFits, Answered
  <2>3. i # 1
    <3> SUFFICES ASSUME i = 1 PROVE FALSE
      OBVIOUS
    <3>1. e.type \in Ends /\ e.jobId = b.jobId /\ e.fencingToken = T /\ b.expectedFencingToken = T
      BY <1>1, <2>2 DEF Settling, Leading
    <3>2. FromLatestLease(b, e)
      BY <1>2, <1>3, <3>1 DEF FromLatestLease
    <3> QED BY <1>2, <3>1, <3>2 DEF BranchStep
  <2>4. i \in 2 .. (Len(q) + 1) /\ i - 1 \in DOMAIN p /\ p[i - 1] = q[i]
    BY <1>1, <2>3
  <2>5. Leading(p, a, T, i - 1)
    BY <1>5, <2>2, <2>4 DEF Settling
  <2>6. Settling(p, a, T, i - 1)
    BY <1>2, <2>2, <2>4, <2>5 DEF Settling
  <2> QED BY <2>4, <2>6
<1> QED BY <1>2, <1>4, <1>6, <1>7 DEF BranchFits

(* A new branch has a new row, of which nobody has a claim.                *)
LEMMA BranchBegins ==
    ASSUME LoopInv, NEW t, NEW rt, Inserted(rows, rt, t), NEW p, NEW a, NewBranch(a, t),
           a.jobId \in IntentKeys \ DOMAIN rows
    PROVE  BranchFits(p, rt, held, stage, a)
<1>1. a.jobId \in DOMAIN rt /\ rt[a.jobId].status = "pending" /\ rt[a.jobId].token = 0
  BY DEF Inserted, NewBranch
<1>2. \A w \in Workers : \A c \in held[w] : c.intent # a.jobId
  BY ClaimIs
<1>3. ~Reported(rt, held, stage, a.jobId)
  BY <1>1, <1>2 DEF Reported, Delivered
<1> QED BY <1>1, <1>2, <1>3 DEF BranchFits, NewBranch, Announced, Answered

(* The event that the run takes from the queue.                            *)
LEMMA NextEvent ==
    ASSUME LoopInv, queue # <<>>, NEW l, NEW sp, LedgerInv(l, sp)
    PROVE  LET e == Head(queue)
               n == captured - Len(queue)
               sq == IF e.type = "timer" THEN sp \cup {e.jobId} ELSE sp
           IN  /\ e \in Event /\ EventFits(rows, e) /\ e.eventId = n + 1
               /\ Keeping(checkpoint, n, l, sp, sq, e) /\ Follows(checkpoint, e)
<1> DEFINE e == Head(queue)
           n == captured - Len(queue)
           sq == IF e.type = "timer" THEN sp \cup {e.jobId} ELSE sp
           s == checkpoint
<1>1. e = queue[1] /\ e \in Event /\ 1 \in DOMAIN queue
  BY Dequeued DEF LoopInv, LoopTypes
<1>2. EventFits(rows, e) /\ e.eventId = n + 1
  BY <1>1 DEF LoopInv, LoopTypes
<1>3. Inv(s, n, l, sp) /\ DOMAIN rows = JobsOf(l)
  BY DEF LedgerInv
<1>4. /\ s \in State /\ n \in Nat /\ (s.cluster # Null => WellFormed(s.cluster, n) /\ SizeOf(s) <= MaxStateSize)
      /\ (s.cluster = Null => l = <<>>)
  BY <1>3 DEF Inv, Running
<1>5. ASSUME NEW key \in DOMAIN rows PROVE s.cluster # Null /\ In(key, l)
  <2>1. In(key, l)
    BY <1>3 DEF JobsOf
  <2> QED BY <1>4, <2>1 DEF In
<1> HIDE DEF e, n
<1>6. CASE e.type = "source"
  <2>1. e.eventId \in Nat /\ e.at \in Nat /\ e.kind \in SourceKinds /\ e.artifact \in Artifacts
    BY <1>1, <1>6, EventParts
  <2>2. Keeping(s, n, l, sp, sp, e) /\ Follows(s, e)
    BY <1>2, <1>3, <1>4, <1>6, <2>1, SourceStep, SourceFollows
  <2> QED BY <1>1, <1>2, <1>6, <2>2 DEF e, n
<1>7. CASE e.type = "timer"
  <2>1. e.eventId \in Nat /\ e.at \in Nat /\ e.timerType \in TimerTypes
    BY <1>1, <1>7, EventParts
  <2>2. /\ e.jobId \in DOMAIN rows /\ e.jobId[1] = "timer" /\ e.jobId[2] = e.timerType
        /\ e.due = rows[e.jobId].due
    BY <1>2, <1>7 DEF EventFits
  <2>3. s.cluster # Null /\ In(e.jobId, l)
    BY <1>5, <2>2
  <2>4. e.due = s.cluster.timers[e.timerType].due
    BY <2>2, <2>3 DEF LoopInv, ClusterInv, ClusterOpen
  <2>5. Firing(s, n, l, e)
    BY <1>2, <1>7, <2>1, <2>2, <2>3, <2>4 DEF Firing
  <2>6. Keeping(s, n, l, sp, sp \cup {e.jobId}, e)
    BY <1>3, <2>5, TimerStep
  <2>7. Follows(s, e)
    BY <1>4, <1>7, <2>1, TimerFollows
  <2> QED BY <1>1, <1>2, <1>7, <2>6, <2>7 DEF e, n
<1>8. CASE e.type \in {"leased"} \cup Ends
  <2>1. e.eventId \in Nat /\ e.attempt \in Nat /\ e.jobId \in BranchKeys /\ e.fencingToken \in Nat
    BY <1>1, <1>8, EventParts
  <2>2. e.fencingToken \in Nat \ {0}
    BY <1>2, <1>8, <2>1 DEF EventFits
  <2>3. e.type \in {"leased", "succeeded", "failed"} /\ e.type # "timer"
    BY <1>8 DEF Ends
  <2>4. Keeping(s, n, l, sp, sp, e)
    BY <1>2, <1>3, <2>1, <2>2, <2>3, ReportStep
  <2>5. Follows(s, e)
    <3>1. CASE e.type = "leased"
      BY <1>4, <2>1, <3>1, LeaseFollows
    <3>2. CASE e.type \in Ends
      <4>1. e.tooLarge = FALSE /\ e.provenanceMatches = TRUE
        BY <1>1, <3>2, EventParts
      <4> QED BY <1>4, <2>1, <3>2, <4>1, OutcomeFollows
    <3> QED BY <1>8, <3>1, <3>2
  <2> QED BY <1>1, <1>2, <2>3, <2>4, <2>5 DEF e, n
<1>9. e.type \in {"source", "timer", "leased"} \cup Ends
  BY <1>1, EventParts
<1> QED BY <1>6, <1>7, <1>8, <1>9

LEMMA ProcessStep ==
    ASSUME LoopInv, ProcessEvent
    PROVE  LoopInv'
<1>1. PICK l, sp : LedgerInv(l, sp)
  BY DEF LoopInv
<1> DEFINE q == queue
           p == queue'
           e == Head(queue)
           n == captured - Len(queue)
           sq == IF e.type = "timer" THEN sp \cup {e.jobId} ELSE sp
           t == apply(checkpoint, e)
           m == After(l, t)
           c == checkpoint.cluster
           d == checkpoint'.cluster
<1>2. /\ q # <<>> /\ p = Tail(q) /\ checkpoint' = t.state /\ rows' = WithRows(DuesOf(t.jobs))
      /\ UNCHANGED <<held, captured, clock, offered, stage>>
  BY DEF ProcessEvent
<1>3. /\ e \in Event /\ EventFits(rows, e) /\ e.eventId = n + 1
      /\ Keeping(checkpoint, n, l, sp, sq, e) /\ Follows(checkpoint, e)
  BY <1>1, <1>2, NextEvent
<1>4. /\ q \in Seq(Event) /\ captured \in Nat /\ Len(q) <= captured
      /\ \A i \in DOMAIN q : q[i].eventId = captured - Len(q) + i
  BY DEF LoopInv, LoopTypes
<1>5. /\ p \in Seq(Event) /\ Len(q) \in Nat \ {0} /\ Len(p) = Len(q) - 1 /\ e = q[1]
      /\ DOMAIN q = 1 .. Len(q) /\ DOMAIN p = 1 .. (Len(q) - 1)
      /\ \A i \in DOMAIN p : i + 1 \in DOMAIN q /\ p[i] = q[i + 1]
      /\ \A i \in DOMAIN q \ {1} : i - 1 \in DOMAIN p /\ p[i - 1] = q[i]
  BY <1>2, <1>4, Dequeued
<1>6. Inv(checkpoint', n + 1, m, sq)
  BY <1>2, <1>3 DEF Keeping
<1>7. /\ Asking(t) /\ d = t.state.cluster
      /\ c # Null =>
            /\ d # Null
            /\ \A u \in TimerTypes : d.timers[u].due = c.timers[u].due
            /\ \A i \in DOMAIN c.branches : i \in DOMAIN d.branches /\ BranchStep(c.branches[i], d.branches[i], e)
      /\ d # Null => \A i \in DOMAIN d.branches : (c # Null /\ i \in DOMAIN c.branches) \/ NewBranch(d.branches[i], t)
  BY <1>2, <1>3 DEF Follows
<1>8. DOMAIN rows = JobsOf(l) /\ l \in Seq(IntentKeys) /\ (c = Null => l = <<>>)
      /\ \A key \in DOMAIN rows : key[1] = "timer" => FiringKept(q, rows, held, stage, sp, key)
  BY <1>1 DEF LedgerInv, Inv
<1>9. \A key \in DOMAIN rows : RowFits(rows[key]) /\ rows[key].token \in Nat
  BY RowParts DEF LoopInv
<1> HIDE DEF t, e
<1>10. Booked(m, sq)
  BY <1>6 DEF Inv
<1>11. /\ JobsOf(m) = DOMAIN rows \cup {key \in IntentKeys : AskedFor(t, key)}
       /\ \A key : AskedFor(t, key) => key \in IntentKeys /\ key \notin DOMAIN rows
  BY <1>7, <1>8, <1>10, LedgerAfter
<1>12. Inserted(rows, rows', t)
  BY <1>2, <1>7, RowsInserted
<1>13. /\ DOMAIN rows' = JobsOf(m) /\ DOMAIN rows \subseteq DOMAIN rows'
       /\ \A key \in DOMAIN rows : rows'[key] = rows[key]
       /\ \A key \in DOMAIN rows' \ DOMAIN rows : RowFits(rows'[key]) /\ rows'[key].status = "pending"
             /\ (key[1] = "timer" => rows'[key].due = d.timers[key[2]].due)
  BY <1>7, <1>11, <1>12 DEF Inserted
<1>14. Grows(rows, rows') /\ \A key \in DOMAIN rows' : RowFits(rows'[key])
  BY <1>9, <1>13 DEF Grows
<1>15. LoopTypes'
  <2>1. ASSUME NEW i \in DOMAIN p PROVE p[i].eventId = captured - Len(p) + i
    BY <1>4, <1>5
  <2>2. Len(p) <= captured
    BY <1>4, <1>5
  <2> QED BY <1>2, <1>5, <2>1, <2>2 DEF LoopInv, LoopTypes
<1>16. \A i \in DOMAIN p : EventFits(rows', p[i])
  BY <1>5, <1>14, EventGrows DEF LoopInv
<1>17. ClaimsInv'
  BY <1>2, <1>14, ClaimGrows DEF LoopInv, ClaimsInv
<1>18. ClusterInv'
  <2> SUFFICES ASSUME d # Null
               PROVE  /\ \A i \in DOMAIN d.branches : BranchFits(p, rows', held, stage, d.branches[i])
                      /\ \A key \in DOMAIN rows' : key[1] = "timer" => rows'[key].due = d.timers[key[2]].due
    BY <1>2 DEF ClusterInv, ClusterOpen, Analyses
  <2>1. ASSUME NEW i \in DOMAIN d.branches PROVE BranchFits(p, rows', held, stage, d.branches[i])
    <3> DEFINE a == d.branches[i]
    <3>1. CASE c # Null /\ i \in DOMAIN c.branches
      <4> DEFINE b == c.branches[i]
      <4>1. BranchFits(q, rows, held, stage, b) /\ b.expectedFencingToken \in Nat
        BY <3>1, KnownKeys DEF LoopInv, ClusterInv, ClusterOpen, Analyses
      <4>2. BranchStep(b, a, e)
        BY <1>7, <3>1
      <4> HIDE DEF a, b
      <4>3. b.jobId \in DOMAIN rows
        BY <4>1 DEF BranchFits
      <4>4. b.jobId \in DOMAIN rows' /\ rows'[b.jobId] = rows[b.jobId] /\ rows[b.jobId].token \in Nat
        BY <1>9, <1>13, <4>3
      <4>5. BranchFits(p, rows', held, stage, a)
        BY <1>2, <1>3, <1>4, <4>1, <4>2, <4>4, BranchOn DEF e
      <4> QED BY <4>5 DEF a
    <3>2. CASE NewBranch(a, t)
      <4>1. a.jobId \in IntentKeys \ DOMAIN rows
        BY <1>11, <3>2 DEF NewBranch
      <4> QED BY <1>12, <3>2, <4>1, BranchBegins
    <3> QED BY <1>7, <3>1, <3>2
  <2>2. ASSUME NEW key \in DOMAIN rows', key[1] = "timer" PROVE rows'[key].due = d.timers[key[2]].due
    <3>1. CASE key \in DOMAIN rows
      <4>1. In(key, l)
        BY <1>8, <3>1 DEF JobsOf
      <4>2. c # Null
        BY <1>8, <4>1 DEF In
      <4>3. rows[key].due = c.timers[key[2]].due /\ key[2] \in TimerTypes
        BY <2>2, <3>1, <4>2, KnownKeys DEF LoopInv, ClusterInv, ClusterOpen
      <4> QED BY <1>7, <1>13, <3>1, <4>2, <4>3
    <3>2. CASE key \notin DOMAIN rows
      BY <1>13, <2>2, <3>2
    <3> QED BY <3>1, <3>2
  <2> QED BY <2>1, <2>2
<1>19. ASSUME NEW key \in DOMAIN rows', key[1] = "timer"
       PROVE  FiringKept(p, rows', held, stage, sq, key)
  <2> SUFFICES ASSUME Spent(rows', held, stage, key)
               PROVE  key \in sq \/ \E i \in DOMAIN p : p[i].type = "timer" /\ p[i].jobId = key
    BY DEF FiringKept
  <2>1. key \in DOMAIN rows
    <3> SUFFICES ASSUME key \notin DOMAIN rows PROVE FALSE
      OBVIOUS
    <3>1. ~Delivered(rows'[key])
      BY <1>13 DEF Delivered
    <3>2. \A w \in Workers : \A x \in held[w] : x.intent # key
      BY ClaimIs
    <3> QED BY <3>1, <3>2 DEF Spent
  <2>2. Spent(rows, held, stage, key)
    BY <1>13, <2>1 DEF Spent
  <2>3. CASE key \in sp
    BY <2>3
  <2>4. CASE \E i \in DOMAIN q : q[i].type = "timer" /\ q[i].jobId = key
    <3>1. PICK i \in DOMAIN q : q[i].type = "timer" /\ q[i].jobId = key
      BY <2>4
    <3>2. CASE i = 1
      BY <1>5, <3>1, <3>2
    <3>3. CASE i # 1
      <4>1. i - 1 \in DOMAIN p /\ p[i - 1] = q[i]
        BY <1>5, <3>3
      <4> QED BY <3>1, <4>1
    <3> QED BY <3>2, <3>3
  <2> QED BY <1>8, <1>19, <2>1, <2>2, <2>3, <2>4 DEF FiringKept
<1>20. PICK k, sr : k = m /\ sr = sq
  OBVIOUS
<1>21. LedgerInv(k, sr)'
  <2>1. captured' - Len(queue') = n + 1
    BY <1>2, <1>4, <1>5
  <2>2. Inv(checkpoint', captured' - Len(queue'), k, sr) /\ DOMAIN rows' = JobsOf(k)
    BY <1>6, <1>13, <1>20, <2>1
  <2>3. ASSUME NEW key \in DOMAIN rows', key[1] = "timer"
        PROVE  FiringKept(queue', rows', held', stage', sr, key)
    BY <1>2, <1>19, <1>20, <2>3
  <2> QED BY <2>2, <2>3 DEF LedgerInv
<1>22. (\E x, y : LedgerInv(x, y))'
  BY <1>21
<1> QED BY <1>14, <1>15, <1>16, <1>17, <1>18, <1>22 DEF LoopInv

-----------------------------------------------------------------------------
(* The loop keeps its invariant, and loses nothing.                        *)

LEMMA LoopStarts == InitLoop => LoopInv
<1> SUFFICES ASSUME InitLoop PROVE LoopInv
  OBVIOUS
<1>1. /\ DOMAIN rows = {} /\ DOMAIN held = Workers /\ \A w \in Workers : held[w] = {} /\ stage[w] = "idle"
      /\ checkpoint = initialState /\ queue = <<>> /\ captured = 0 /\ clock = 0 /\ offered = {}
      /\ stage \in [Workers -> Stages]
  BY DEF InitLoop, InitDelivery, Stages
<1>2. initialState \in State /\ initialState.cluster = Null
  BY DEF initialState, State
<1>3. <<>> \in Seq(IntentKeys) /\ DOMAIN <<>> = {} /\ <<>> \in Seq(Event) /\ Len(<<>>) = 0
  OBVIOUS
<1>4. Booked(<<>>, {})
  BY <1>3 DEF Booked
<1>5. Inv(checkpoint, captured - Len(queue), <<>>, {})
  BY <1>1, <1>2, <1>3, <1>4 DEF Inv
<1>6. JobsOf(<<>>) = {}
  BY <1>3 DEF JobsOf, In
<1>7. LedgerInv(<<>>, {})
  BY <1>1, <1>5, <1>6 DEF LedgerInv
<1>8. LoopTypes
  BY <1>1, <1>3, TimeAssumption DEF LoopTypes, Times
<1>9. ClaimsInv /\ ClusterInv
  BY <1>1, <1>2 DEF ClaimsInv, ClusterInv, ClusterOpen
<1>10. DOMAIN queue = {}
  BY <1>1, <1>3
<1> QED BY <1>1, <1>7, <1>8, <1>9, <1>10 DEF LoopInv

LEMMA LoopStep ==
    ASSUME LoopInv, LoopNext
    PROVE  LoopInv'
<1>1. CASE SourceCaptured
  BY <1>1, SourceCapturedStep
<1>2. CASE ClockAdvances
  BY <1>2, ClockStep
<1>3. CASE ProcessEvent
  BY <1>3, ProcessStep
<1>4. ASSUME NEW w \in Workers, WorkerStep(w) \/ ClaimEarly(w) \/ Dies(w)
      PROVE  LoopInv'
  <2>1. clock \in Nat /\ clock + 1 \in Nat
    BY ClockFacts
  <2>2. CASE ClaimOnTime(w)
    BY <2>1, <2>2, ClaimStep DEF ClaimOnTime
  <2>3. CASE ClaimEarly(w)
    BY <2>1, <2>3, ClaimStep DEF ClaimEarly
  <2>4. CASE Announce(w)
    BY <2>4, AnnounceStep
  <2>5. CASE Report(w)
    BY <2>5, ReportsStep
  <2>6. CASE Finish(w)
    BY <2>6, FinishStep
  <2>7. CASE Dies(w)
    BY <2>7, DiesStep
  <2> QED BY <1>4, <2>2, <2>3, <2>4, <2>5, <2>6, <2>7 DEF WorkerStep
<1> QED BY <1>1, <1>2, <1>3, <1>4 DEF LoopNext

LEMMA LoopStutters ==
    ASSUME LoopInv, UNCHANGED loopVars
    PROVE  LoopInv'
<1>1. UNCHANGED <<rows, held, checkpoint, queue, captured, clock, offered, stage>>
  BY DEF loopVars
<1>2. LoopTypes' /\ ClaimsInv'
  BY <1>1 DEF LoopInv, LoopTypes, ClaimsInv
<1>3. ClusterInv' /\ (\E l, sp : LedgerInv(l, sp))'
  BY <1>1 DEF LoopInv, ClusterInv, ClusterOpen, Analyses, LedgerInv
<1> QED BY <1>1, <1>2, <1>3 DEF LoopInv

LEMMA LoopInvHolds == LoopSpec => []LoopInv
<1>1. LoopInv /\ [LoopNext]_loopVars => LoopInv'
  BY LoopStep, LoopStutters
<1> QED BY <1>1, LoopStarts, PTL DEF LoopSpec

LEMMA LoopTyped ==
    ASSUME LoopInv
    PROVE  LoopTypeOK
<1>1. \A key \in DOMAIN rows : rows[key] \in Row
  BY DEF LoopInv, RowFits
<1>2. ClusterOpen => \A i \in DOMAIN Analyses : Analyses[i].jobId \in DOMAIN rows
  BY DEF LoopInv, ClusterInv, BranchFits
<1>3. ASSUME NEW w \in Workers PROVE Cardinality(held[w]) = IF stage[w] = "idle" THEN 0 ELSE 1
  <2>1. CASE stage[w] = "idle" /\ held[w] = {}
    BY <2>1, FS_EmptySet
  <2>2. CASE stage[w] # "idle" /\ \E c : held[w] = {c}
    <3>1. PICK c : held[w] = {c}
      BY <2>2
    <3>2. Cardinality({c}) = 1
      BY FS_Singleton
    <3> QED BY <2>2, <3>1, <3>2
  <2> QED BY <2>1, <2>2 DEF LoopInv, ClaimsInv
<1> QED BY <1>1, <1>2, <1>3 DEF LoopInv, LoopTypes, LoopTypeOK

LEMMA TimersSafe ==
    ASSUME LoopInv
    PROVE  TimerNeverLost
<1> SUFFICES ASSUME ClusterOpen, NEW t \in TimerTypes, checkpoint.cluster.timers[t].status = "pending"
             PROVE  LET key == checkpoint.cluster.timers[t].jobId
                    IN  Undelivered(key) \/ Queued({"timer"}, key)
  BY DEF TimerNeverLost
<1> DEFINE c == checkpoint.cluster
           key == c.timers[t].jobId
<1>1. PICK l, sp : LedgerInv(l, sp)
  BY DEF LoopInv
<1>2. key \notin sp /\ In(key, l) /\ DOMAIN rows = JobsOf(l)
  BY <1>1 DEF LedgerInv, Inv, Running, Alive, ClusterOpen
<1>3. key \in TimerKeys /\ key[1] = "timer"
  <2>1. c \in Cluster
    BY KnownKeys
  <2>2. c.timers[t] \in Timer
    BY <2>1, ClusterFields
  <2>3. key \in TimerKeys
    BY <2>2 DEF Timer
  <2> QED BY <2>3 DEF TimerKeys
<1> HIDE DEF key
<1>4. key \in DOMAIN rows
  BY <1>2, <1>3 DEF JobsOf, JobTags, IntentKeys
<1>5. FiringKept(queue, rows, held, stage, sp, key)
  BY <1>1, <1>3, <1>4 DEF LedgerInv
<1>6. Undelivered(key) \/ Queued({"timer"}, key)
  <2>1. CASE Delivered(rows[key])
    BY <1>2, <1>5, <2>1 DEF FiringKept, Spent, Queued
  <2>2. CASE ~Delivered(rows[key])
    BY <2>2 DEF Delivered, Undelivered
  <2> QED BY <2>1, <2>2
<1> QED BY <1>6 DEF key

LEMMA AnalysesSafe ==
    ASSUME LoopInv
    PROVE  AnalysisNeverLost
<1> SUFFICES ASSUME ClusterOpen, NEW i \in DOMAIN Analyses, Analyses[i].status = "pending"
             PROVE  Undelivered(Analyses[i].jobId) \/ Queued({"succeeded", "failed"}, Analyses[i].jobId)
  BY DEF AnalysisNeverLost
<1> DEFINE b == Analyses[i]
<1>1. Answered(queue, rows, held, stage, b)
  BY DEF LoopInv, ClusterInv, BranchFits
<1> HIDE DEF b
<1>2. CASE Delivered(rows[b.jobId])
  <2>1. PICK j \in DOMAIN queue : Settling(queue, b, rows[b.jobId].token, j)
    BY <1>1, <1>2 DEF Answered, Reported, b
  <2> QED BY <2>1 DEF Settling, Queued, Ends, b
<1>3. CASE ~Delivered(rows[b.jobId])
  BY <1>3 DEF Delivered, Undelivered, b
<1> QED BY <1>2, <1>3

(* Nothing that the cluster waits for is lost between the aggregate, the   *)
(* delivery table, the workers and the queue: for every set of offers, any *)
(* number of workers, and claims that come early, expire or die.           *)
THEOREM LoopLosesNothing == LoopSpec => []NothingLost
<1>1. LoopInv => NothingLost
  BY LoopTyped, TimersSafe, AnalysesSafe DEF NothingLost
<1> QED BY <1>1, LoopInvHolds, PTL

=============================================================================
