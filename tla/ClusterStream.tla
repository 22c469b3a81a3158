---------------------------- MODULE ClusterStream ----------------------------
(***************************************************************************)
(* The reducer under any stream of events that can be routed to one        *)
(* cluster: sources, timer firings, leases and results in any order, late, *)
(* early, repeated or about superseded jobs.  Each event is consumed once  *)
(* and in log order, which is what Kernel guarantees.                      *)
(***************************************************************************)
EXTENDS EarningsCluster

CONSTANTS
    Kinds,       \* the source kinds that arrive
    MaxEvents,   \* bound: events in a stream
    MaxToken,    \* bound: the highest fencing token
    MaxAt        \* bound: the latest logical time

ASSUME StreamAssumption ==
    Kinds \subseteq SourceKinds /\ {MaxEvents, MaxToken, MaxAt} \subseteq Nat

VARIABLES
    state,    \* the aggregate's checkpoint
    at,       \* logical time of the last event, which never decreases
    events,   \* events consumed
    ledger,   \* the dedupe keys of all intents so far, in order
    spent     \* timer jobs whose firing was consumed

streamVars == <<state, at, events, ledger, spent>>

InitStream ==
    /\ state = initialState
    /\ at = 0
    /\ events = 0
    /\ ledger = <<>>
    /\ spent = {}

KeysOf(intents) == [i \in DOMAIN intents |-> intents[i].dedupeKey]

\* process() of the next event: the checkpoint and the intents it yields.
Consume(e) ==
    LET transition == apply(state, e)
    IN  /\ events < MaxEvents
        /\ state' = transition.state
        /\ at' = e.at
        /\ events' = events + 1
        /\ ledger' = ledger \o KeysOf(transition.jobs) \o KeysOf(transition.outbox)
        /\ spent' = spent \cup (IF e.type = "timer" THEN {e.jobId} ELSE {})

Now == at .. MaxAt

SourceArrives ==
    \E now \in Now, kind \in Kinds, artifact \in Artifacts,
       payload \in {"valid", "malformed", "refused"} :
        Consume([type |-> "source", eventId |-> events + 1, at |-> now,
                 payload |-> payload, kind |-> kind, artifact |-> artifact])

\* A worker fires a timer job that was emitted, the current one or an older one.
TimerFires ==
    \E now \in Now, timerType \in TimerTypes, i \in DOMAIN ledger :
        /\ ledger[i][1] = "timer" /\ ledger[i][2] = timerType
        /\ Consume([type |-> "timer", eventId |-> events + 1, at |-> now, timerType |-> timerType,
                    jobId |-> ledger[i], due |-> state.cluster.timers[timerType].due])

\* A worker reports a lease or an outcome of an analysis job that was emitted.
WorkerReports ==
    \E i \in DOMAIN ledger, token \in 1 .. MaxToken, type \in {"leased", "succeeded", "failed"},
       matches \in BOOLEAN :
        /\ ledger[i][1] = "analysis"
        /\ Consume([type |-> type, eventId |-> events + 1, at |-> at, jobId |-> ledger[i],
                    attempt |-> token, fencingToken |-> token,
                    provenanceMatches |-> matches, tooLarge |-> FALSE])

StreamNext == SourceArrives \/ TimerFires \/ WorkerReports

StreamSpec == InitStream /\ [][StreamNext]_streamVars

-----------------------------------------------------------------------------
(* Properties.                                                             *)

Branches == state.cluster.branches
Joined == state.cluster.sources
Opened == state.cluster # Null

\* parseState accepts what apply returned: within the limits, sources and
\* branches are distinct, and every input of a branch is one of the sources.
StateParses ==
    Opened =>
        /\ Len(Joined) \in 1 .. maxSourcesPerCluster
        /\ Len(Branches) \in 1 .. maxAnalysisBranches
        /\ SizeOf(state) <= MaxStateSize
        /\ \A i, j \in DOMAIN Joined : i # j => Joined[i].eventId # Joined[j].eventId
        /\ \A i, j \in DOMAIN Branches : i # j => Branches[i].jobId # Branches[j].jobId
        /\ \A i \in DOMAIN Branches : \A k \in DOMAIN Branches[i].inputs :
              Branches[i].inputs[k] = Joined[k].eventId

\* The reducer never asks for an intent that it asked for before, so the unique
\* index of the output ledger can never wedge a run of this reducer.
NoIntentTwice == \A i, j \in DOMAIN ledger : i # j => ledger[i] # ledger[j]

\* No source is forgotten: each is, itself or by a mirror of it, an input of some
\* analysis, or it waits for the end of the mirror window, unless the cluster
\* had no room for another branch.
SourcesAnalysed ==
    Opened => \A i \in DOMAIN Joined :
        \/ \E j \in DOMAIN Joined :
              /\ Joined[j].artifact = Joined[i].artifact
              /\ \/ \E b \in DOMAIN Branches : j \in DOMAIN Branches[b].inputs
                 \/ state.cluster.timers["mirror"].status = "pending" /\ Joined[j].kind \in ReleaseKinds
        \/ Len(Branches) >= maxAnalysisBranches
        \/ SizeOf(state) + Len(Joined) > MaxStateSize

\* A timer that has not fired is never lost: its current job was emitted, and no
\* firing of that job has been consumed, however early or often others fired.
PendingTimersAlive ==
    Opened => \A t \in TimerTypes :
        state.cluster.timers[t].status = "pending" =>
            /\ state.cluster.timers[t].jobId \notin spent
            /\ \E i \in DOMAIN ledger : ledger[i] = state.cluster.timers[t].jobId

\* The state is one that the next event can be applied to, and keeps its timers.
StateSound == StateParses /\ PendingTimersAlive

\* Every source gets its analysis, and none is asked for twice.
IntentsSound == NoIntentTwice /\ SourcesAnalysed

\* Later events never touch what an analysis was asked about, a settled branch
\* is settled for good, the lease of a branch only moves forward, and no source
\* joins once the lifecycle is over.
BranchesFrozen ==
    [][Opened =>
         /\ \A i \in DOMAIN Branches :
               /\ i \in DOMAIN Branches'
               /\ Branches'[i].inputs = Branches[i].inputs
               /\ Branches'[i].jobId = Branches[i].jobId
               /\ Branches'[i].expectedFencingToken >= Branches[i].expectedFencingToken
               /\ Branches[i].status # "pending" => Branches'[i] = Branches[i]
               /\ Branches'[i].status = "succeeded" /\ Branches[i].status = "pending"
                    => Branches[i].expectedFencingToken > 0
         /\ (state.cluster.status = "finalized" \/ at' >= state.cluster.lifecycleEndsAtMs)
               => Joined' = Joined
      ]_streamVars

=============================================================================
