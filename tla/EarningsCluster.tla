--------------------------- MODULE EarningsCluster ---------------------------
(***************************************************************************)
(* EarningsClusterReducer (src/domain/earnings-cluster/reducer.ts) for one *)
(* aggregate: a pure function from a state and an event to a transition.   *)
(*                                                                         *)
(* A source's artifact stands for its primary artifact and evidence bundle *)
(* hashes.  Job and message ids are hashes of a dedupe key and a payload   *)
(* that the key determines, so here they are the key.  The analysis        *)
(* contract is the run's, so whether a result repeats contract, inputs and *)
(* catalog of its branch is one Boolean.  The membership and artifact      *)
(* limits (512) cannot be reached: 32 sources have at most 16 evidence     *)
(* references each.                                                        *)
(***************************************************************************)
EXTENDS Integers, Sequences, FiniteSets

CONSTANTS
    mirrorDebounceMs, lifecycleMs, maxSourcesPerCluster, maxAnalysisBranches,
    MaxStateSize,   \* MAX_EARNINGS_AGGREGATE_STATE_BYTES, in source references
    MaxSafe,        \* Number.MAX_SAFE_INTEGER
    Artifacts,      \* primary artifacts of sources
    Null

ReleaseKinds == {"issuer_release", "fmp_release", "sec_8k"}
SourceKinds == ReleaseKinds \cup {"call", "transcript", "filing"}
TimerTypes == {"mirror", "lifecycle"}

Phases == {"first_source", "call_second_wave", "incremental_filing", "source_confirmation"}

initialState == [cluster |-> Null, rejectionCount |-> 0]

-----------------------------------------------------------------------------
(* Transitions.                                                            *)

Effects(state, decisions, jobs, outbox) ==
    [state |-> state, decisions |-> decisions, jobs |-> jobs, outbox |-> outbox]

noEffects(state, decision) == Effects(state, <<decision>>, <<>>, <<>>)

rejectedWithoutStateChange(state) == noEffects(state, "kernel.event.rejected")

rejected(state) ==
    rejectedWithoutStateChange([state EXCEPT !.rejectionCount = @ + 1])

\* A job intent: its dedupe key and the time before which it is not claimed.
Job(key, notBefore) == [dedupeKey |-> key, due |-> notBefore]

TimerKey(type) == <<"timer", type>>

\* Mutant: the replacement of a timer reuses the timer's own key.
RecoveryKey_Reused(type, eventId) == TimerKey(type)

RecoveryKey(type, eventId) == <<"timer", type, "recovery", eventId>>

\* phaseFor a source that is not the first.
phaseFor(kind) ==
    IF kind \in {"call", "transcript"} THEN "call_second_wave"
    ELSE IF kind = "filing" THEN "incremental_filing" ELSE "source_confirmation"

\* The frozen inputs of an analysis: the events of all sources, in log order.
analysisInputs(sources) == [i \in DOMAIN sources |-> sources[i].eventId]

\* The branch id hashes the phase and the input bundle.
BranchKey(phase, inputs) == <<"analysis", phase, inputs>>

analysisDraft(sources, phase) ==
    LET inputs == analysisInputs(sources)
    IN  [jobId |-> BranchKey(phase, inputs), phase |-> phase, inputs |-> inputs,
         status |-> "pending", expectedAttempt |-> 0, expectedFencingToken |-> 0,
         resultEventId |-> Null]

\* The size of a state, which grows with sources x branches.
References(branches) == UNION {{i} \X DOMAIN branches[i].inputs : i \in DOMAIN branches}

SizeOf(state) ==
    IF state.cluster = Null THEN 0
    ELSE Len(state.cluster.sources) + Cardinality(References(state.cluster.branches))

projectedTransition(previous, transition) ==
    IF SizeOf(transition.state) <= MaxStateSize THEN transition
    ELSE rejectedWithoutStateChange(previous)

-----------------------------------------------------------------------------
(* The state: what parseState lets through, limits apart.                  *)

TimerKeys == ({"timer"} \X TimerTypes) \cup ({"timer"} \X TimerTypes \X {"recovery"} \X Nat)
BranchKeys == {"analysis"} \X Phases \X Seq(Nat)

Source == [eventId : Nat, kind : SourceKinds, artifact : Artifacts]

Timer == [jobId : TimerKeys, due : Nat, status : {"pending", "fired"}]

Branch ==
    [jobId : BranchKeys, phase : Phases, inputs : Seq(Nat),
     status : {"pending", "succeeded", "failed"}, expectedAttempt : Nat,
     expectedFencingToken : Nat, resultEventId : Nat \cup {Null}]

Cluster ==
    [status : {"open", "finalized"}, lifecycleEndsAtMs : Nat, finalizedAtMs : Nat \cup {Null},
     sources : Seq(Source), branches : Seq(Branch), timers : [TimerTypes -> Timer]]

State == [cluster : Cluster \cup {Null}, rejectionCount : Nat]

ASSUME ReducerAssumption ==
    /\ {mirrorDebounceMs, lifecycleMs, maxSourcesPerCluster, maxAnalysisBranches} \subseteq Nat \ {0}
    /\ {MaxStateSize, MaxSafe} \subseteq Nat
    /\ Null \notin Cluster

-----------------------------------------------------------------------------
(* earnings.source.observed                                                *)

\* The first source opens the cluster.
firstTimer(type, due) == [jobId |-> TimerKey(type), due |-> due, status |-> "pending"]

newCluster(e, source) ==
    [status |-> "open", lifecycleEndsAtMs |-> e.at + lifecycleMs, finalizedAtMs |-> Null,
     sources |-> <<source>>, branches |-> <<analysisDraft(<<source>>, "first_source")>>,
     timers |-> [mirror |-> firstTimer("mirror", e.at + mirrorDebounceMs),
                 lifecycle |-> firstTimer("lifecycle", e.at + lifecycleMs)]]

openCluster(state, e, source) ==
    IF e.at + lifecycleMs > MaxSafe \/ e.at + mirrorDebounceMs > MaxSafe THEN rejected(state)
    ELSE Effects([state EXCEPT !.cluster = newCluster(e, source)], <<"first-source-ready">>,
                 <<Job(TimerKey("mirror"), e.at + mirrorDebounceMs),
                   Job(TimerKey("lifecycle"), e.at + lifecycleMs),
                   Job(BranchKey("first_source", <<source.eventId>>), e.at)>>,
                 <<Job(<<"first-source">>, 0)>>)

SameArtifact(cluster, source) ==
    \E i \in DOMAIN cluster.sources : cluster.sources[i].artifact = source.artifact

\* A further release within the mirror window waits for the window's end.
Debounced(cluster, source, nowMs) ==
    /\ source.kind \in ReleaseKinds
    /\ \E i \in DOMAIN cluster.sources : cluster.sources[i].kind \in ReleaseKinds
    /\ cluster.timers["mirror"].status = "pending"
    /\ nowMs < cluster.timers["mirror"].due

\* The cluster takes no more sources.
Closed(cluster, nowMs) == cluster.status = "finalized" \/ nowMs >= cluster.lifecycleEndsAtMs

WithSource(cluster, source) == [cluster EXCEPT !.sources = Append(@, source)]
WithBranch(cluster, analysis) == [cluster EXCEPT !.branches = Append(@, analysis)]

\* A further source joins the cluster.
joinCluster(state, e, source) ==
    LET cluster == state.cluster
        joined == [state EXCEPT !.cluster = WithSource(@, source)]
        analysis == analysisDraft(joined.cluster.sources, phaseFor(source.kind))
    IN  IF Closed(cluster, e.at) THEN noEffects(state, "after-lifecycle")
        ELSE IF Len(cluster.sources) >= maxSourcesPerCluster THEN rejectedWithoutStateChange(state)
        ELSE IF SameArtifact(cluster, source) THEN noEffects(joined, "mirror-duplicate")
        ELSE IF Debounced(cluster, source, e.at) THEN noEffects(joined, "mirror-debounced")
        ELSE IF Len(cluster.branches) >= maxAnalysisBranches THEN rejectedWithoutStateChange(state)
        ELSE IF \E i \in DOMAIN cluster.branches : cluster.branches[i].jobId = analysis.jobId
             THEN noEffects(joined, "analysis-branch-duplicate")
        ELSE Effects([joined EXCEPT !.cluster = WithBranch(@, analysis)], <<"joined">>,
                     <<Job(analysis.jobId, e.at)>>, <<>>)

\* A payload is "valid", "malformed" (or its identity does not match: counted
\* and rejected), or "refused" (evidence over the limits or with another hash:
\* rejected and not counted).
sourceObserved(state, e) ==
    LET source == [eventId |-> e.eventId, kind |-> e.kind, artifact |-> e.artifact]
    IN  IF e.payload = "malformed" THEN rejected(state)
        ELSE IF e.payload = "refused" THEN rejectedWithoutStateChange(state)
        ELSE IF state.cluster = Null THEN openCluster(state, e, source)
        ELSE joinCluster(state, e, source)

-----------------------------------------------------------------------------
(* kernel.timer.fired                                                      *)

\* The mirror window is over: one more analysis if no branch has all sources.
mirrorFired(fired, e) ==
    LET cluster == fired.cluster
        analysis == analysisDraft(cluster.sources, "source_confirmation")
        next == [fired EXCEPT !.cluster = WithBranch(@, analysis)]
        represented == \E i \in DOMAIN cluster.branches : cluster.branches[i].inputs = analysis.inputs
    IN  IF represented THEN noEffects(fired, "mirror-window-complete")
        ELSE IF Len(cluster.branches) >= maxAnalysisBranches \/ SizeOf(next) > MaxStateSize
             THEN Effects(fired, <<"mirror-window-complete", "capacity-exhausted">>, <<>>, <<>>)
        ELSE Effects(next, <<"mirror-window-complete", "debounce-batch-ready">>,
                     <<Job(analysis.jobId, e.at)>>, <<>>)

\* Mutant: an early firing is dropped, as if the timer's job would come back.
earlyTimer_Dropped(state, e) == noEffects(state, "early")

Rescheduled(cluster, type, key) == [cluster EXCEPT !.timers[type].jobId = key]

\* The firing came before its time in the log: the job is spent, and replaced.
earlyTimer(state, e) ==
    LET key == RecoveryKey(e.timerType, e.eventId)
    IN  Effects([state EXCEPT !.cluster = Rescheduled(@, e.timerType, key)], <<"early-rescheduled">>,
                <<Job(key, state.cluster.timers[e.timerType].due)>>, <<>>)

Fired(cluster, type) == [cluster EXCEPT !.timers[type].status = "fired"]
Finalized(cluster, nowMs) == [cluster EXCEPT !.status = "finalized", !.finalizedAtMs = nowMs]

timerFired(state, e) ==
    LET timer == state.cluster.timers[e.timerType]
        fired == [state EXCEPT !.cluster = Fired(@, e.timerType)]
    IN  IF state.cluster = Null THEN rejected(state)
        ELSE IF timer.jobId # e.jobId \/ timer.due # e.due THEN noEffects(state, "stale")
        ELSE IF timer.status = "fired" THEN noEffects(state, "duplicate")
        ELSE IF e.at < timer.due THEN earlyTimer(state, e)
        ELSE IF e.timerType = "mirror" THEN mirrorFired(fired, e)
        ELSE noEffects([fired EXCEPT !.cluster = Finalized(@, e.at)], "finalized")

-----------------------------------------------------------------------------
(* kernel.job.leased, kernel.job.succeeded, kernel.job.failed              *)

\* The branch that the event is about: its job id, its bundle and its cause.
Requested(state, e) ==
    IF state.cluster = Null THEN {}
    ELSE {i \in DOMAIN state.cluster.branches : state.cluster.branches[i].jobId = e.jobId}

RequestedBranch(state, e) == state.cluster.branches[CHOOSE i \in Requested(state, e) : TRUE]

\* Mutant: any other token will do.
Supersedes_Differs(branch, e) == e.fencingToken # branch.expectedFencingToken

\* Mutant: only the first lease of a branch is taken.
Supersedes_First(branch, e) == branch.expectedFencingToken = 0

\* A lease must be newer than the one known, in token and in attempt.
Supersedes(branch, e) ==
    e.fencingToken > branch.expectedFencingToken /\ e.attempt > branch.expectedAttempt

Expecting(cluster, i, e) ==
    [cluster EXCEPT !.branches[i].expectedAttempt = e.attempt,
                    !.branches[i].expectedFencingToken = e.fencingToken]

jobLeased(state, e) ==
    LET i == CHOOSE i \in Requested(state, e) : TRUE
    IN  IF Requested(state, e) = {} THEN rejected(state)
        ELSE IF RequestedBranch(state, e).status # "pending" THEN noEffects(state, "lease-after-completion")
        ELSE IF ~Supersedes(RequestedBranch(state, e), e) THEN rejected(state)
        ELSE noEffects([state EXCEPT !.cluster = Expecting(@, i, e)], "leased")

\* The result comes from the latest lease that the log knows.
FromLatestLease(branch, e) ==
    e.attempt = branch.expectedAttempt /\ e.fencingToken = branch.expectedFencingToken

WithResult(cluster, i, e, status) ==
    [cluster EXCEPT !.branches[i].status = status, !.branches[i].resultEventId = e.eventId]

Settled(state, e, status) ==
    LET i == CHOOSE i \in Requested(state, e) : TRUE
    IN  [state EXCEPT !.cluster = WithResult(@, i, e, status)]

\* An outcome, whose acceptance is the transition accepted.
jobSettled(state, e, accepted) ==
    IF Requested(state, e) = {} THEN rejected(state)
    ELSE IF ~FromLatestLease(RequestedBranch(state, e), e) THEN rejected(state)
    ELSE IF RequestedBranch(state, e).status # "pending" THEN noEffects(state, "result-duplicate")
    ELSE accepted

\* A result larger than maxAnalysisResultBytes, or with provenance that is not
\* the branch's, is rejected.
jobSucceeded(state, e) ==
    IF e.tooLarge THEN rejected(state)
    ELSE jobSettled(state, e,
            IF ~e.provenanceMatches THEN rejected(state)
            ELSE Effects(Settled(state, e, "succeeded"), <<"analysis-succeeded">>, <<>>,
                         <<Job(<<"analysis-completed", e.jobId>>, 0)>>))

jobFailed(state, e) ==
    jobSettled(state, e, noEffects(Settled(state, e, "failed"), "analysis-failed"))

-----------------------------------------------------------------------------

\* Any other event is ignored; an unsupported schema version is rejected.
apply(previous, e) ==
    projectedTransition(previous,
        CASE e.type = "source"    -> sourceObserved(previous, e)
          [] e.type = "timer"     -> timerFired(previous, e)
          [] e.type = "leased"    -> jobLeased(previous, e)
          [] e.type = "succeeded" -> jobSucceeded(previous, e)
          [] e.type = "failed"    -> jobFailed(previous, e)
          [] e.type = "unsupported" -> rejected(previous)
          [] OTHER                -> noEffects(previous, "ignored"))

=============================================================================
