----------------------------- MODULE ClusterRun -----------------------------
(***************************************************************************)
(* An event cluster from its plan to its settled inventory: the functions  *)
(* of domain/event-cluster-beta.ts on a cluster in memory, and the         *)
(* checkpoints and recovery of application/event-cluster-runtime-recovery. *)
(* A runner (external, as the tests drive it) recovers the cluster or, if  *)
(* the log has none, creates and activates it; then it works on it in      *)
(* memory, one operation at a time, each followed by a checkpoint, a       *)
(* snapshot event in the log.  Runners may crash, and a runner that is     *)
(* thought dead may still be at work.                                      *)
(*                                                                         *)
(* log is the stream of snapshot events of this plan's cluster; the event  *)
(* log identifies a snapshot by cluster and revision, redelivers an equal  *)
(* one and refuses a different one.  since[i] is a history variable: how   *)
(* much of the log the writer of log[i] had recovered from.                *)
(***************************************************************************)
EXTENDS EventPlan, TLC

CONSTANTS Runners, Bindings,   \* processes; the source bindings of the event
          Members,             \* what the lanes may deliver
          Absent,              \* the lanes callers report as missing
          SettlementEnd,       \* of the plan's windows
          MaxAmendments, MaxTime, MaxRevision, MaxLog   \* bounds

ASSUME ClusterRunAssumption ==
  /\ SettlementEnd \in Nat /\ MaxAmendments \in Nat
  /\ MaxTime \in Nat /\ MaxRevision \in Nat /\ MaxLog \in Nat
  /\ \A m \in Members : m.at \in Nat /\ m.rev \in Nat
  /\ \A m, n \in Members :   \* a correction is retrieved after what it corrects
       m.record = n.record /\ m.replaces = n.rev => n.at < m.at \/ (n.at = m.at /\ n.rev < m.rev)
  /\ Preparable(Bindings) /\ Absent \subseteq Lanes

VARIABLES plan,     \* the plan the callers hold
          now,
          log, since,
          runner    \* of each runner: its cluster and whether it is saved, the
                    \* settlement time of its plan, and how much log it recovered

vars == <<plan, now, log, since, runner>>

NoCluster == [revision |-> 0]
Off == [cluster |-> NoCluster, end |-> 0, base |-> 0, saved |-> FALSE]

Init ==
  /\ plan = compileEventPlan(Bindings, SettlementEnd)
  /\ now = 0 /\ log = <<>> /\ since = <<>>
  /\ runner = [r \in Runners |-> Off]

-----------------------------------------------------------------------------
(* The cluster.  lanesForPlan and createEventCluster.                      *)
NoInventory == [members |-> {}, missing |-> {}, duplicates |-> -1]

createEventCluster(p, at) ==
  [revision |-> 1, plan |-> p.revision, status |-> "candidate",
   lanes |-> [l \in Lanes |-> IF p.readiness[l] = "ready" THEN "pending" ELSE "stable-missing"],
   members |-> {}, duplicates |-> 0, inventory |-> NoInventory, at |-> at]

Statuses ==
  {"candidate", "prewarming", "frozen", "active", "primary-observed", "follow-up", "settling",
   "complete", "stopped"}

Transitions ==
  [s \in Statuses |->
     CASE s = "candidate" -> {"prewarming"} [] s = "prewarming" -> {"frozen"} [] s = "frozen" -> {"active"}
       [] s = "active" -> {"primary-observed", "follow-up", "settling"}
       [] s = "primary-observed" -> {"follow-up", "settling"} [] s = "follow-up" -> {"settling"}
       [] s = "settling" -> {"complete"} [] OTHER -> {}]

Terminal(c) == c.status \in {"complete", "stopped"}
Revised(c) == [c EXCEPT !.revision = @ + 1]

transitionEventCluster(c, status, at) == [Revised(c) EXCEPT !.status = status, !.at = at]

(* Where a member belongs.  A member is identified by record and revision; *)
(* replaces is the revision its replacesArtifactDigest names, 0 for an     *)
(* original.                                                               *)
LaneOf(m) ==
  CASE m.kind = "issuer-release" -> "issuer-ir" [] m.kind = "transcript" -> "transcript"
    [] m.kind = "market-bars" -> "market" [] OTHER -> "sec"

Observing(c) == c.status \in {"active", "primary-observed", "follow-up"}

(* The prior revision a correction must name: the last retrieved one.      *)
Latest(S) == CHOOSE m \in S : \A n \in S : n.at < m.at \/ (n.at = m.at /\ n.rev <= m.rev)

(* Mutant: a correction may replace any earlier revision.                  *)
Linked_AnyPrior(c, m) ==
  LET prior == {n \in c.members : n.record = m.record} IN
  IF prior = {} THEN m.replaces = 0 ELSE \E n \in prior : m.replaces = n.rev

Linked(c, m) ==
  LET prior == {n \in c.members : n.record = m.record} IN
  IF prior = {} THEN m.replaces = 0 ELSE m.replaces = Latest(prior).rev

StatusAfter(c, m) ==
  IF m.kind \in {"sec-10-q", "sec-10-k", "transcript"} THEN "follow-up"
  ELSE IF m.kind \in {"issuer-release", "sec-8-k"} /\ c.status = "active" THEN "primary-observed"
  ELSE c.status

(* recordEventClusterMember: a redelivery, or a new member of its lane.    *)
redelivered(c, m) == [Revised(c) EXCEPT !.duplicates = @ + 1, !.at = m.at]

(* Mutant: a lane once declared missing stays missing.                     *)
recorded_KeepsLane(c, m) ==
  [Revised(c) EXCEPT !.status = StatusAfter(c, m), !.members = @ \union {m}, !.at = m.at,
                     !.lanes[LaneOf(m)] = IF @ = "pending" THEN "observed" ELSE @]

recorded(c, m) ==
  [Revised(c) EXCEPT !.status = StatusAfter(c, m), !.members = @ \union {m}, !.at = m.at,
                     !.lanes[LaneOf(m)] = "observed"]

recordStableMissing(c, lane, at) ==
  [Revised(c) EXCEPT !.lanes[lane] = IF @ = "pending" THEN "stable-missing" ELSE @, !.at = at]

(* settleEventCluster: pending lanes become stable-missing and the         *)
(* inventory is drawn up.                                                  *)
settled(c, at) ==
  LET lanes == [l \in Lanes |-> IF c.lanes[l] = "pending" THEN "stable-missing" ELSE c.lanes[l]] IN
  [Revised(c) EXCEPT !.status = "complete", !.lanes = lanes, !.at = at,
     !.inventory = [members |-> {<<m.record, m.rev>> : m \in c.members},
                    missing |-> {l \in Lanes : lanes[l] = "stable-missing"},
                    duplicates |-> c.duplicates]]

(* settleRecoveredEventClusterRun: through settling if it is not there.    *)
settleRecovered(c, at) ==
  settled(IF c.status = "settling" THEN c ELSE transitionEventCluster(c, "settling", at), at)
Settleable(c) == c.status = "settling" \/ "settling" \in Transitions[c.status]

-----------------------------------------------------------------------------
(* Runners.                                                                *)
Held(r) == runner[r].cluster
Working(r) == runner[r].saved /\ Held(r).revision < MaxRevision
Became(r, c) == runner' = [runner EXCEPT ![r].cluster = c, ![r].saved = FALSE]

(* recoverEventClusterRunFromLog finds no snapshot: a new cluster, brought *)
(* to active before its first checkpoint.                                  *)
Activated(c) ==
  transitionEventCluster(transitionEventCluster(transitionEventCluster(
    c, "prewarming", now), "frozen", now), "active", now)

Create(r) ==
  /\ Held(r) = NoCluster /\ log = <<>>
  /\ runner' = [runner EXCEPT ![r] =
       [cluster |-> Activated(createEventCluster(plan, now)), end |-> plan.settlementEnd,
        base |-> 0, saved |-> FALSE]]
  /\ UNCHANGED <<plan, now, log, since>>

(* Mutant: recovery takes the first snapshot of the stream.                *)
latestEventClusterSnapshot_First == log[1]

(* It finds one: the latest of the stream, which must belong to this       *)
(* revision of the plan.                                                   *)
latestEventClusterSnapshot == log[Len(log)]

Recover(r) ==
  /\ Held(r) = NoCluster /\ log # <<>> /\ latestEventClusterSnapshot.plan = plan.revision
  /\ runner' = [runner EXCEPT ![r] =
       [cluster |-> latestEventClusterSnapshot, end |-> plan.settlementEnd, base |-> Len(log), saved |-> TRUE]]
  /\ UNCHANGED <<plan, now, log, since>>

Transition(r, status) ==
  /\ Working(r) /\ status \in Transitions[Held(r).status] /\ status # "complete"
  /\ Became(r, transitionEventCluster(Held(r), status, now))
  /\ UNCHANGED <<plan, now, log, since>>

(* A lane that was not ready gives no member; a known revision with other  *)
(* content is refused.                                                     *)
RecordMember(r, m) ==
  LET c == Held(r) IN
  /\ Working(r) /\ Observing(c) /\ plan.readiness[LaneOf(m)] = "ready" /\ m.at <= now
  /\ \/ m \in c.members /\ Became(r, redelivered(c, m))
     \/ /\ \A n \in c.members : n.record = m.record => n.rev # m.rev
        /\ Linked(c, m) /\ Became(r, recorded(c, m))
  /\ UNCHANGED <<plan, now, log, since>>

StableMissing(r, lane) ==
  /\ Working(r) /\ (Observing(Held(r)) \/ Held(r).status = "settling")
  /\ Became(r, recordStableMissing(Held(r), lane, now))
  /\ UNCHANGED <<plan, now, log, since>>

Settle(r) ==
  /\ Working(r) /\ Settleable(Held(r)) /\ now >= runner[r].end
  /\ Became(r, settleRecovered(Held(r), now))
  /\ UNCHANGED <<plan, now, log, since>>

Stop(r) ==
  /\ Working(r) /\ ~Terminal(Held(r))
  /\ Became(r, transitionEventCluster(Held(r), "stopped", now))
  /\ UNCHANGED <<plan, now, log, since>>

(* checkpointEventClusterRun: append a new revision, have an equal one     *)
(* redelivered, or fail because the revision is taken.                     *)
SameRevision(c) == {i \in DOMAIN log : log[i].revision = c.revision}

Checkpoint(r) ==
  LET c == Held(r) IN
  /\ c # NoCluster /\ ~runner[r].saved
  /\ IF SameRevision(c) = {}
     THEN /\ Len(log) < MaxLog /\ log' = Append(log, c) /\ since' = Append(since, runner[r].base)
          /\ runner' = [runner EXCEPT ![r].saved = TRUE,
                                      ![r].base = IF @ = Len(log) THEN Len(log) + 1 ELSE @]
     ELSE /\ runner' = IF \E i \in SameRevision(c) : log[i] = c
                       THEN [runner EXCEPT ![r].saved = TRUE] ELSE [runner EXCEPT ![r] = Off]
          /\ UNCHANGED <<log, since>>
  /\ UNCHANGED <<plan, now>>

Crash(r) ==
  /\ Held(r) # NoCluster /\ runner' = [runner EXCEPT ![r] = Off]
  /\ UNCHANGED <<plan, now, log, since>>

(* The calendar corrects itself after the plan was frozen.                 *)
Amend ==
  /\ plan.revision <= MaxAmendments
  /\ plan' = amendEventPlan(plan, plan.settlementEnd + 1)
  /\ UNCHANGED <<now, log, since, runner>>

Tick == now < MaxTime /\ now' = now + 1 /\ UNCHANGED <<plan, log, since, runner>>

Next ==
  \/ \E r \in Runners :
       \/ Create(r) \/ Recover(r) \/ Settle(r) \/ Stop(r) \/ Checkpoint(r) \/ Crash(r)
       \/ \E s \in Statuses : Transition(r, s)
       \/ \E m \in Members : RecordMember(r, m)
       \/ \E l \in Absent : StableMissing(r, l)
  \/ Amend \/ Tick

Spec == Init /\ [][Next]_vars
-----------------------------------------------------------------------------
Clusters == {log[i] : i \in DOMAIN log} \union ({Held(r) : r \in Runners} \ {NoCluster})
HasMember(c, l) == \E m \in c.members : LaneOf(m) = l

(* A lane counts as observed exactly when the cluster has a member of it,  *)
(* whatever was declared missing before, redelivered or corrected; and a   *)
(* settled inventory names every lane without a member as missing and      *)
(* lists every member.                                                     *)
InventoryTrue ==
  \A c \in Clusters :
    /\ \A l \in Lanes : c.lanes[l] = "observed" <=> HasMember(c, l)
    /\ c.status = "complete" =>
         /\ c.inventory.missing = {l \in Lanes : ~HasMember(c, l)}
         /\ c.inventory.members = {<<m.record, m.rev>> : m \in c.members}

(* Corrections of a record form one chain: one original, and no revision   *)
(* is replaced twice.                                                      *)
CorrectionsLinear ==
  \A c \in Clusters : \A m, n \in c.members :
    m.record = n.record /\ m # n => m.replaces # n.replaces

(* A writer that had seen the last snapshot continues it: the cluster it   *)
(* checkpoints next is a later revision of the same plan, keeps every      *)
(* member, and never follows a settled or stopped one.                     *)
FreshWritersContinue ==
  \A i \in 1..(Len(log) - 1) : since[i + 1] >= i =>
    /\ ~Terminal(log[i]) /\ log[i + 1].plan = log[i].plan
    /\ log[i + 1].revision > log[i].revision /\ log[i].members \subseteq log[i + 1].members
=============================================================================
