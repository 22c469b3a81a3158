---------------------------- MODULE AnalysisLoop ----------------------------
(***************************************************************************)
(* The loop that the kernel closes: a live run of the earnings reducer     *)
(* emits timer and analysis jobs, workers claim them from the delivery     *)
(* table and capture leases, firings and results as new events, and the    *)
(* run consumes those in log order (one indivisible step per event, which  *)
(* KernelProofs justifies).                                                *)
(*                                                                         *)
(* Workers are not part of the repository.  They do what README.md and     *)
(* docs/adr/0001 ask of them: capture the lease before a result, report    *)
(* before completing, and give up when a guard refuses them.               *)
(***************************************************************************)
EXTENDS Delivery, EarningsCluster

CONSTANTS
    Offers,      \* the sources that arrive: records of kind and artifact
    Results,     \* how analyses may end: "succeeded", "failed" or both
    LeaseMs,
    MaxSkewed,   \* bound: claims by a worker whose clock is ahead of the log's
    MaxLag,      \* bound: captured events that wait for the run
    MaxCrashes   \* bound: worker crashes

ASSUME LoopAssumption ==
    /\ Offers \subseteq [kind : SourceKinds, artifact : Artifacts]
    /\ Results \subseteq {"succeeded", "failed"}
    /\ {LeaseMs, MaxSkewed, MaxLag, MaxCrashes} \subseteq Nat

VARIABLES
    checkpoint, \* the aggregate's state
    queue,      \* captured events that the run has not processed
    captured,   \* how many events were captured
    clock,      \* the log's clock
    offered,    \* sources that arrived
    stage,      \* what a worker has done with its claim
    skewed, crashes

loopVars == <<rows, held, checkpoint, queue, captured, clock, offered, stage, skewed, crashes>>

Stages == {"idle", "claimed", "announced", "succeeded", "failed"}

InitLoop ==
    /\ InitDelivery
    /\ checkpoint = initialState
    /\ queue = <<>>
    /\ captured = 0
    /\ clock = 0
    /\ offered = {}
    /\ stage = [w \in Workers |-> "idle"]
    /\ skewed = 0
    /\ crashes = 0

\* An event is appended to the log.  Its position and the log's time are in it.
Position == captured + 1

CaptureEvent(e) ==
    /\ Len(queue) < MaxLag
    /\ queue' = Append(queue, e)
    /\ captured' = captured + 1

\* A source arrives; early enough for the cluster's timers to become due.
SourceCaptured ==
    \E o \in Offers \ offered :
        /\ clock + lifecycleMs <= MaxTime
        /\ CaptureEvent([type |-> "source", eventId |-> Position, at |-> clock, payload |-> "valid",
                         kind |-> o.kind, artifact |-> o.artifact])
        /\ offered' = offered \cup {o}
        /\ UNCHANGED <<rows, held, checkpoint, clock, stage, skewed, crashes>>

ClockAdvances ==
    /\ clock < MaxTime
    /\ clock' = clock + 1
    /\ UNCHANGED <<rows, held, checkpoint, queue, captured, offered, stage, skewed, crashes>>

\* The due times of the jobs of a transition, by job.
DuesOf(jobs) ==
    [k \in {jobs[i].dedupeKey : i \in DOMAIN jobs} |->
        jobs[CHOOSE i \in DOMAIN jobs : jobs[i].dedupeKey = k].due]

\* The run processes its next event; the commit inserts a row for each job.
ProcessEvent ==
    /\ queue # <<>>
    /\ checkpoint' = apply(checkpoint, Head(queue)).state
    /\ rows' = WithRows(DuesOf(apply(checkpoint, Head(queue)).jobs))
    /\ queue' = Tail(queue)
    /\ UNCHANGED <<held, captured, clock, offered, stage, skewed, crashes>>

-----------------------------------------------------------------------------
(* Workers.                                                                *)

IsTimer(k) == k[1] = "timer"

\* A worker claims one job, at the time its own clock shows.
ClaimAt(w, nowMs) ==
    /\ stage[w] = "idle"
    /\ \E k \in DOMAIN rows :
          /\ IsBatch({k}, nowMs, 1)
          /\ claim(w, {k}, nowMs, LeaseMs)
          /\ stage' = [stage EXCEPT ![w] = IF IsTimer(k) THEN "announced" ELSE "claimed"]
    /\ UNCHANGED <<checkpoint, queue, captured, clock, offered, crashes>>

ClaimOnTime(w) == ClaimAt(w, clock) /\ UNCHANGED skewed

ClaimEarly(w) ==
    /\ skewed < MaxSkewed
    /\ skewed' = skewed + 1
    /\ ClaimAt(w, clock + 1)

\* It captures the acquisition of an analysis job.
Announce(w) ==
    \E c \in held[w] :
        /\ stage[w] = "claimed"
        /\ CaptureEvent([type |-> "leased", eventId |-> Position, at |-> clock, jobId |-> c.intent,
                         attempt |-> c.attempt, fencingToken |-> c.token])
        /\ stage' = [stage EXCEPT ![w] = "announced"]
        /\ UNCHANGED <<rows, held, checkpoint, clock, offered, skewed, crashes>>

\* It captures the firing of a timer, or the outcome of an analysis.  Whether the
\* job belonged to another worker by then is remembered for StaleResultsRefused.
Report(w) ==
    \E c \in held[w], outcome \in Results \cup {"succeeded"} :
        /\ stage[w] = "announced"
        /\ outcome \in IF IsTimer(c.intent) THEN {"succeeded"} ELSE Results
        /\ IF IsTimer(c.intent)
           THEN CaptureEvent([type |-> "timer", eventId |-> Position, at |-> clock,
                              timerType |-> c.intent[2], jobId |-> c.intent, due |-> rows[c.intent].due])
           ELSE CaptureEvent([type |-> outcome, eventId |-> Position, at |-> clock, jobId |-> c.intent,
                              attempt |-> c.attempt, fencingToken |-> c.token,
                              provenanceMatches |-> TRUE, tooLarge |-> FALSE,
                              reclaimed |-> rows[c.intent].token # c.token])
        /\ stage' = [stage EXCEPT ![w] = outcome]
        /\ UNCHANGED <<rows, held, checkpoint, clock, offered, skewed, crashes>>

\* It completes the job, or finds that it lost the lease.
Finish(w) ==
    \E c \in held[w] :
        /\ stage[w] \in {"succeeded", "failed"}
        /\ complete(w, c, stage[w]) \/ fenced(w, c)
        /\ stage' = [stage EXCEPT ![w] = "idle"]
        /\ UNCHANGED <<checkpoint, queue, captured, clock, offered, skewed, crashes>>

\* A worker dies; early enough for its lease to expire.
Dies(w) ==
    /\ crashes < MaxCrashes
    /\ \A c \in held[w] : rows[c.intent].expires <= MaxTime
    /\ WorkerCrash(w)
    /\ stage' = [stage EXCEPT ![w] = "idle"]
    /\ crashes' = crashes + 1
    /\ UNCHANGED <<checkpoint, queue, captured, clock, offered, skewed>>

WorkerStep(w) == ClaimOnTime(w) \/ Announce(w) \/ Report(w) \/ Finish(w)

LoopNext ==
    \/ SourceCaptured
    \/ ClockAdvances
    \/ ProcessEvent
    \/ \E w \in Workers : WorkerStep(w) \/ ClaimEarly(w) \/ Dies(w)

LoopSpec == InitLoop /\ [][LoopNext]_loopVars

\* Time passes, the run is polled, and the workers keep working.
FairLoopSpec ==
    /\ LoopSpec
    /\ WF_loopVars(ClockAdvances)
    /\ WF_loopVars(ProcessEvent)
    /\ \A w \in Workers : WF_loopVars(WorkerStep(w))

-----------------------------------------------------------------------------
(* Properties.                                                             *)

ClusterOpen == checkpoint.cluster # Null
Analyses == checkpoint.cluster.branches
Undelivered(k) == rows[k].status \in {"pending", "leased"}
Queued(types, k) == \E i \in DOMAIN queue : queue[i].type \in types /\ queue[i].jobId = k

\* Every variable has its type, each branch has a delivery row, and a worker is
\* busy with exactly one claim.
LoopTypeOK ==
    /\ \A k \in DOMAIN rows : rows[k] \in Row
    /\ ClusterOpen => \A i \in DOMAIN Analyses : Analyses[i].jobId \in DOMAIN rows
    /\ captured \in Nat /\ clock \in Times /\ offered \subseteq Offers
    /\ stage \in [Workers -> Stages]
    /\ \A w \in Workers : Cardinality(held[w]) = IF stage[w] = "idle" THEN 0 ELSE 1

\* A timer that the cluster waits for cannot disappear between the aggregate and
\* the delivery table: somebody can still deliver its job, or its firing is on
\* its way to the run.  So an early firing, whose job is then spent, is replaced.
TimerNeverLost ==
    ClusterOpen => \A t \in TimerTypes :
        LET k == checkpoint.cluster.timers[t].jobId
        IN  checkpoint.cluster.timers[t].status = "pending" => Undelivered(k) \/ Queued({"timer"}, k)

\* An analysis that the cluster waits for cannot disappear either: when a
\* worker has completed its job, a result that the reducer will accept is on its
\* way, because no later lease can have been captured by somebody else.
AnalysisNeverLost ==
    ClusterOpen => \A i \in DOMAIN Analyses :
        Analyses[i].status = "pending" =>
            \/ Undelivered(Analyses[i].jobId)
            \/ Queued({"succeeded", "failed"}, Analyses[i].jobId)

\* Nothing the cluster waits for is lost on its way through rows, workers and queue.
NothingLost == LoopTypeOK /\ TimerNeverLost /\ AnalysisNeverLost

\* An opened cluster is finalized, each of its analyses is settled and no job of
\* it is left, whatever worker dies, is slow or has a clock that runs ahead.
EverythingSettles ==
    ClusterOpen ~> /\ ClusterOpen /\ checkpoint.cluster.status = "finalized"
                   /\ \A i \in DOMAIN Analyses : Analyses[i].status # "pending"
                   /\ \A k \in DOMAIN rows : ~Undelivered(k)

\* docs/adr/0001-deterministic-kernel.md: "Stale workers cannot commit results
\* after a lease is reclaimed."  A result that was captured when the delivery
\* table had given the job to another worker does not settle the branch.
StaleResultsRefused ==
    [][(queue # <<>> /\ queue' = Tail(queue) /\ Head(queue).type \in {"succeeded", "failed"}
          /\ Head(queue).reclaimed) => checkpoint'.cluster = checkpoint.cluster]_loopVars

=============================================================================
