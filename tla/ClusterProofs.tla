--------------------------- MODULE ClusterProofs ---------------------------
(***************************************************************************)
(* The run of an event plan, for any runners, members, bounds and number   *)
(* of amendments: inventories tell the truth, corrections of a record form *)
(* one chain, and a writer that recovered from the last snapshot continues *)
(* it.  The first two are about one cluster and every operation on it; the *)
(* third relates the cluster in a runner's memory to the snapshot that the *)
(* runner last found at the end of the log.                                *)
(***************************************************************************)
EXTENDS ClusterRun, TLAPS

-----------------------------------------------------------------------------
(* Types.                                                                  *)

LaneStates == {"pending", "observed", "stable-missing"}
Named == {<<m.record, m.rev>> : m \in Members}
InventoryRows == [members : SUBSET Named, missing : SUBSET Lanes, duplicates : Int]

ClusterRows ==
  [revision : Nat \ {0}, plan : Nat, status : Statuses, lanes : [Lanes -> LaneStates],
   members : SUBSET Members, duplicates : Nat, inventory : InventoryRows, at : Nat]

ReadyStates == {"ready", "capability-unavailable", "authorization-required"}
PlanRows == [revision : Nat, settlementEnd : Nat, readiness : [Lanes -> ReadyStates]]

RunnerRows == [cluster : ClusterRows \union {NoCluster}, end : Nat, base : Nat, saved : BOOLEAN]

RunTypeOK ==
  /\ plan \in PlanRows /\ now \in Nat
  /\ log \in Seq(ClusterRows) /\ since \in Seq(Nat) /\ Len(since) = Len(log)
  /\ runner \in [Runners -> RunnerRows]

-----------------------------------------------------------------------------
(* One cluster.                                                            *)

LanesTrue(c) == \A l \in Lanes : c.lanes[l] = "observed" <=> HasMember(c, l)

Inventoried(c) ==
  c.status = "complete" =>
    /\ c.inventory.missing = {l \in Lanes : ~HasMember(c, l)}
    /\ c.inventory.members = {<<m.record, m.rev>> : m \in c.members}

(* A set of revisions has a last retrieved one: Latest is not arbitrary.   *)
IsLatest(m, S) == m \in S /\ \A n \in S : n.at < m.at \/ (n.at = m.at /\ n.rev <= m.rev)
OfRecord(c, record) == {n \in c.members : n.record = record}
LatestKnown(c) == \A m \in c.members : \E n \in c.members : IsLatest(n, OfRecord(c, m.record))

Linear(c) ==
  \A m, n \in c.members : m.record = n.record /\ m # n => m.replaces # n.replaces

Sound(c) == LanesTrue(c) /\ Inventoried(c) /\ LatestKnown(c) /\ Linear(c)

(* What an operation may do to a cluster that is not over.                 *)
Succeeds(c, d) ==
  /\ ~Terminal(c) /\ d.plan = c.plan
  /\ d.revision > c.revision /\ c.members \subseteq d.members

-----------------------------------------------------------------------------
(* The runners: each has a cluster that continues the snapshot it          *)
(* recovered from or wrote while nobody else did.                          *)

Begun(r) == Held(r) # NoCluster

Based(r) ==
  Begun(r) /\ runner[r].base > 0 =>
    /\ runner[r].base <= Len(log)
    /\ \/ runner[r].saved /\ Held(r) = log[runner[r].base]
       \/ Succeeds(log[runner[r].base], Held(r))

RunInv ==
  /\ RunTypeOK
  /\ \A i \in DOMAIN log : Sound(log[i])
  /\ \A r \in Runners : Begun(r) => Sound(Held(r))
  /\ \A r \in Runners : (runner[r].saved => Begun(r)) /\ Based(r)
  /\ FreshWritersContinue

-----------------------------------------------------------------------------
(* Lemmas about the operations.                                            *)

LEMMA StatusNames == Transitions["complete"] = {} /\ Transitions["stopped"] = {}
  BY DEF Transitions, Statuses

LEMMA RevisedFields ==
  ASSUME NEW c \in ClusterRows
  PROVE  /\ Revised(c) \in ClusterRows /\ Revised(c).revision = c.revision + 1
         /\ Revised(c).status = c.status /\ Revised(c).plan = c.plan
         /\ Revised(c).lanes = c.lanes /\ Revised(c).members = c.members
         /\ Revised(c).inventory = c.inventory /\ Revised(c).duplicates = c.duplicates
  BY DEF Revised, ClusterRows

LEMMA LaneOfType == ASSUME NEW m PROVE LaneOf(m) \in Lanes
  BY DEF LaneOf, Lanes

LEMMA TransitionFields ==
  ASSUME NEW c \in ClusterRows, NEW s \in Statuses, NEW t \in Nat
  PROVE  LET d == transitionEventCluster(c, s, t)
         IN  /\ d \in ClusterRows
             /\ d.status = s /\ d.revision = c.revision + 1 /\ d.plan = c.plan
             /\ d.lanes = c.lanes /\ d.members = c.members /\ d.inventory = c.inventory
  BY RevisedFields DEF transitionEventCluster, ClusterRows

LEMMA RedeliveredFields ==
  ASSUME NEW c \in ClusterRows, NEW m \in Members
  PROVE  LET d == redelivered(c, m)
         IN  /\ d \in ClusterRows
             /\ d.status = c.status /\ d.revision = c.revision + 1 /\ d.plan = c.plan
             /\ d.lanes = c.lanes /\ d.members = c.members /\ d.inventory = c.inventory
<1>1. m.at \in Nat /\ Revised(c).duplicates + 1 \in Nat
  BY RevisedFields, ClusterRunAssumption DEF ClusterRows
<1> QED BY <1>1, RevisedFields DEF redelivered, ClusterRows

LEMMA RecordedFields ==
  ASSUME NEW c \in ClusterRows, NEW m \in Members
  PROVE  LET d == recorded(c, m)
         IN  /\ d \in ClusterRows
             /\ d.status = StatusAfter(c, m) /\ d.revision = c.revision + 1 /\ d.plan = c.plan
             /\ d.lanes = [c.lanes EXCEPT ![LaneOf(m)] = "observed"]
             /\ d.members = c.members \union {m} /\ d.inventory = c.inventory
<1>1. StatusAfter(c, m) \in Statuses
  BY DEF StatusAfter, ClusterRows, Statuses
<1>2. [c.lanes EXCEPT ![LaneOf(m)] = "observed"] \in [Lanes -> LaneStates]
  BY DEF ClusterRows, LaneStates
<1> QED BY <1>1, <1>2, RevisedFields, ClusterRunAssumption DEF recorded, ClusterRows

LEMMA MissingFields ==
  ASSUME NEW c \in ClusterRows, NEW l \in Lanes, NEW t \in Nat
  PROVE  LET d == recordStableMissing(c, l, t)
         IN  /\ d \in ClusterRows
             /\ d.status = c.status /\ d.revision = c.revision + 1 /\ d.plan = c.plan
             /\ \A k \in Lanes : d.lanes[k] = "observed" <=> c.lanes[k] = "observed"
             /\ d.members = c.members /\ d.inventory = c.inventory
<1> DEFINE lanes == [c.lanes EXCEPT ![l] = IF @ = "pending" THEN "stable-missing" ELSE @]
<1>1. lanes \in [Lanes -> LaneStates] /\ \A k \in Lanes : lanes[k] = "observed" <=> c.lanes[k] = "observed"
  BY DEF ClusterRows, LaneStates
<1>2. recordStableMissing(c, l, t) = [Revised(c) EXCEPT !.lanes = lanes, !.at = t]
  BY RevisedFields DEF recordStableMissing, ClusterRows
<1> HIDE DEF lanes
<1>3. /\ recordStableMissing(c, l, t) \in ClusterRows
      /\ recordStableMissing(c, l, t).lanes = lanes
  BY <1>1, <1>2, RevisedFields DEF ClusterRows
<1>4. /\ recordStableMissing(c, l, t).status = c.status
      /\ recordStableMissing(c, l, t).revision = c.revision + 1
      /\ recordStableMissing(c, l, t).plan = c.plan
      /\ recordStableMissing(c, l, t).members = c.members
      /\ recordStableMissing(c, l, t).inventory = c.inventory
  BY <1>2, RevisedFields DEF ClusterRows
<1> QED BY <1>1, <1>3, <1>4

LEMMA SettledFields ==
  ASSUME NEW c \in ClusterRows, NEW t \in Nat, LanesTrue(c)
  PROVE  LET d == settled(c, t)
         IN  /\ d \in ClusterRows
             /\ d.status = "complete" /\ d.revision = c.revision + 1 /\ d.plan = c.plan
             /\ \A k \in Lanes : d.lanes[k] = "observed" <=> c.lanes[k] = "observed"
             /\ d.members = c.members
             /\ d.inventory.missing = {l \in Lanes : ~HasMember(c, l)}
             /\ d.inventory.members = {<<m.record, m.rev>> : m \in c.members}
<1> DEFINE lanes == [l \in Lanes |-> IF c.lanes[l] = "pending" THEN "stable-missing" ELSE c.lanes[l]]
           names == {<<m.record, m.rev>> : m \in c.members}
           missing == {l \in Lanes : lanes[l] = "stable-missing"}
           inventory == [members |-> names, missing |-> missing, duplicates |-> c.duplicates]
<1>1. lanes \in [Lanes -> LaneStates] /\ \A k \in Lanes : lanes[k] = "observed" <=> c.lanes[k] = "observed"
  BY DEF ClusterRows, LaneStates
<1>2. \A k \in Lanes : lanes[k] = "stable-missing" <=> c.lanes[k] # "observed"
  BY DEF ClusterRows, LaneStates
<1>3. missing = {l \in Lanes : ~HasMember(c, l)}
  BY <1>2 DEF LanesTrue
<1>4. names \subseteq Named
  BY DEF Named, ClusterRows
<1>5. settled(c, t) = [Revised(c) EXCEPT !.status = "complete", !.lanes = lanes,
                                         !.at = t, !.inventory = inventory]
  BY DEF settled
<1> HIDE DEF lanes, names, missing
<1>6. inventory \in InventoryRows
  BY <1>3, <1>4 DEF InventoryRows, ClusterRows
<1>7. inventory.missing = missing /\ inventory.members = names
  OBVIOUS
<1> HIDE DEF inventory
<1>8. /\ settled(c, t) \in ClusterRows
      /\ settled(c, t).lanes = lanes /\ settled(c, t).inventory = inventory
  <2>1. "complete" \in Statuses
    BY DEF Statuses
  <2> QED BY <1>1, <1>5, <1>6, <2>1, RevisedFields DEF ClusterRows
<1>9. /\ settled(c, t).status = "complete" /\ settled(c, t).revision = c.revision + 1
      /\ settled(c, t).plan = c.plan /\ settled(c, t).members = c.members
  BY <1>5, RevisedFields DEF ClusterRows
<1> QED BY <1>1, <1>3, <1>7, <1>8, <1>9 DEF names

-----------------------------------------------------------------------------
(* Every operation keeps a cluster sound.                                  *)

(* What soundness depends on.                                              *)
LEMMA SoundAlike ==
  ASSUME NEW c, NEW d, Sound(c), d.members = c.members,
         \A k \in Lanes : d.lanes[k] = "observed" <=> c.lanes[k] = "observed",
         d.status = "complete" => Inventoried(d)
  PROVE  Sound(d)
<1>1. \A l \in Lanes : HasMember(d, l) <=> HasMember(c, l)
  BY DEF HasMember
<1>2. LanesTrue(d)
  BY <1>1 DEF LanesTrue, Sound
<1>3. Inventoried(d)
  BY DEF Inventoried
<1>4. LatestKnown(d) /\ Linear(d)
  BY DEF Sound, LatestKnown, Linear, OfRecord
<1> QED BY <1>2, <1>3, <1>4 DEF Sound

LEMMA TransitionSound ==
  ASSUME NEW c \in ClusterRows, Sound(c), NEW s \in Statuses, s # "complete", NEW t \in Nat
  PROVE  Sound(transitionEventCluster(c, s, t))
  BY TransitionFields, SoundAlike

LEMMA RedeliveredSound ==
  ASSUME NEW c \in ClusterRows, Sound(c), NEW m \in Members, Observing(c)
  PROVE  Sound(redelivered(c, m))
  BY RedeliveredFields, SoundAlike DEF Observing

LEMMA MissingSound ==
  ASSUME NEW c \in ClusterRows, Sound(c), NEW l \in Lanes, NEW t \in Nat, c.status # "complete"
  PROVE  Sound(recordStableMissing(c, l, t))
  BY MissingFields, SoundAlike

LEMMA SettledSound ==
  ASSUME NEW c \in ClusterRows, Sound(c), NEW t \in Nat
  PROVE  Sound(settled(c, t))
<1>1. LanesTrue(c)
  BY DEF Sound
<1>2. \A l \in Lanes : HasMember(settled(c, t), l) <=> HasMember(c, l)
  BY <1>1, SettledFields DEF HasMember
<1>3. Inventoried(settled(c, t))
  BY <1>1, <1>2, SettledFields DEF Inventoried
<1> QED BY <1>1, <1>3, SettledFields, SoundAlike

(* A correction names the last revision, which nothing replaces: whatever  *)
(* replaced it would have been retrieved later.                            *)
LEMMA RecordedSound ==
  ASSUME NEW c \in ClusterRows, Sound(c), NEW m \in Members, Observing(c), Linked(c, m)
  PROVE  Sound(recorded(c, m))
<1> DEFINE d == recorded(c, m)
           prior == OfRecord(c, m.record)
<1>1. /\ d.status = StatusAfter(c, m) /\ d.members = c.members \union {m}
      /\ d.lanes = [c.lanes EXCEPT ![LaneOf(m)] = "observed"]
  BY RecordedFields
<1>2. c.lanes \in [Lanes -> LaneStates] /\ c.members \subseteq Members
  BY DEF ClusterRows
<1> HIDE DEF d
<1>3. LanesTrue(d)
  <2> SUFFICES ASSUME NEW l \in Lanes PROVE d.lanes[l] = "observed" <=> HasMember(d, l)
    BY DEF LanesTrue
  <2>1. c.lanes[l] = "observed" <=> HasMember(c, l)
    BY DEF Sound, LanesTrue
  <2> QED BY <1>1, <1>2, <2>1, LaneOfType DEF HasMember
<1>4. d.status # "complete"
  BY <1>1 DEF StatusAfter, Observing
<1>5. \A n \in prior : \E p \in prior : IsLatest(p, prior)
  BY DEF Sound, LatestKnown, OfRecord, IsLatest
<1>6. ASSUME prior # {}
      PROVE  IsLatest(Latest(prior), prior)
  BY <1>5, <1>6 DEF Latest, IsLatest
<1>7. Linear(d)
  <2>1. ASSUME NEW n \in c.members, n.record = m.record PROVE n.replaces # m.replaces
    <3>1. n \in prior
      BY <2>1 DEF OfRecord
    <3>2. m.replaces = Latest(prior).rev
      BY <3>1 DEF Linked, OfRecord
    <3>3. IsLatest(Latest(prior), prior)
      BY <1>6, <3>1
    <3>4. Latest(prior) \in Members /\ Latest(prior).record = n.record /\ n \in Members
      BY <1>2, <2>1, <3>3 DEF IsLatest, OfRecord
    <3>5. n.at < Latest(prior).at \/ (n.at = Latest(prior).at /\ n.rev <= Latest(prior).rev)
      BY <3>1, <3>3 DEF IsLatest
    <3> HIDE DEF prior
    <3> QED BY <3>2, <3>4, <3>5, ClusterRunAssumption
  <2> QED BY <1>1, <2>1 DEF Linear, Sound
<1>8. LatestKnown(d)
  <2> SUFFICES ASSUME NEW k \in d.members
               PROVE  \E n \in d.members : IsLatest(n, OfRecord(d, k.record))
    BY DEF LatestKnown
  <2>1. CASE k.record # m.record
    <3>1. OfRecord(d, k.record) = OfRecord(c, k.record) /\ k \in c.members
      BY <1>1, <2>1 DEF OfRecord
    <3> QED BY <1>1, <3>1 DEF Sound, LatestKnown
  <2>2. CASE k.record = m.record
    <3>1. OfRecord(d, k.record) = prior \union {m}
      BY <1>1, <2>2 DEF OfRecord
    <3>2. CASE prior = {}
      <4>1. IsLatest(m, {m})
        BY ClusterRunAssumption DEF IsLatest
      <4> QED BY <1>1, <3>1, <3>2, <4>1
    <3>3. CASE prior # {}
      <4>1. PICK p \in prior : IsLatest(p, prior)
        BY <1>5, <3>3
      <4>2. p \in c.members /\ p.at \in Nat /\ p.rev \in Nat /\ m.at \in Nat /\ m.rev \in Nat
        BY <1>2, <4>1, ClusterRunAssumption DEF OfRecord
      <4>3. \A n \in prior : n.at \in Nat /\ n.rev \in Nat
        BY <1>2, ClusterRunAssumption DEF OfRecord
      <4>4. CASE m.at < p.at \/ (m.at = p.at /\ m.rev <= p.rev)
        <5>1. IsLatest(p, prior \union {m})
          BY <4>1, <4>4 DEF IsLatest
        <5> QED BY <1>1, <3>1, <4>2, <5>1
      <4>5. CASE p.at < m.at \/ (m.at = p.at /\ p.rev < m.rev)
        <5>1. ASSUME NEW n \in prior PROVE n.at < m.at \/ (n.at = m.at /\ n.rev <= m.rev)
          <6>1. n.at < p.at \/ (n.at = p.at /\ n.rev <= p.rev)
            BY <4>1 DEF IsLatest
          <6> QED BY <4>2, <4>3, <4>5, <6>1
        <5>2. IsLatest(m, prior \union {m})
          BY <4>2, <5>1 DEF IsLatest
        <5> QED BY <1>1, <3>1, <5>2
      <4> QED BY <4>2, <4>4, <4>5
    <3> QED BY <3>2, <3>3
  <2> QED BY <2>1, <2>2
<1> QED BY <1>3, <1>4, <1>7, <1>8 DEF Sound, Inventoried, d

-----------------------------------------------------------------------------
(* The steps.                                                              *)

LEMMA RunInit == Init => RunInv
<1> SUFFICES ASSUME Init PROVE RunInv
  OBVIOUS
<1>1. ASSUME NEW l \in Lanes
      PROVE  acquisitionPlan(Bindings, l) \in ReadyStates
  BY DEF ReadyStates, acquisitionPlan, CapabilityReadiness
<1>2. plan \in PlanRows
  BY <1>1, ClusterRunAssumption DEF Init, compileEventPlan, PlanRows
<1>3. Off \in RunnerRows /\ Off.cluster = NoCluster /\ Off.saved = FALSE
  BY DEF Off, RunnerRows
<1>4. runner \in [Runners -> RunnerRows] /\ \A r \in Runners : runner[r] = Off
  BY <1>3 DEF Init
<1>5. log = <<>> /\ since = <<>> /\ now = 0
  BY DEF Init
<1>6. RunTypeOK
  BY <1>2, <1>4, <1>5 DEF RunTypeOK
<1>7. \A r \in Runners : ~Begun(r) /\ ~runner[r].saved
  BY <1>3, <1>4 DEF Begun, Held
<1> QED BY <1>5, <1>6, <1>7 DEF RunInv, Based, FreshWritersContinue

(* NoCluster is none of the clusters.                                      *)
LEMMA NoClusterApart == ASSUME NEW c \in ClusterRows PROVE c # NoCluster
<1>1. c.revision # 0
  BY DEF ClusterRows
<1>2. NoCluster.revision = 0
  BY DEF NoCluster
<1> QED BY <1>1, <1>2

LEMMA BegunType ==
  ASSUME RunTypeOK, NEW r \in Runners
  PROVE  /\ Begun(r) <=> Held(r) \in ClusterRows
         /\ runner[r] \in RunnerRows
  BY NoClusterApart DEF RunTypeOK, Begun, Held, RunnerRows

(* A step that leaves the log alone and one runner with another record.    *)
LEMMA RunnerStep ==
  ASSUME RunInv, NEW r \in Runners, NEW v \in RunnerRows, runner' = [runner EXCEPT ![r] = v],
         UNCHANGED <<plan, now, log, since>>,
         v.saved => v.cluster # NoCluster,
         v.cluster # NoCluster => Sound(v.cluster),
         v.cluster # NoCluster /\ v.base > 0 =>
           /\ v.base <= Len(log)
           /\ \/ v.saved /\ v.cluster = log[v.base]
              \/ Succeeds(log[v.base], v.cluster)
  PROVE  RunInv'
<1>1. /\ runner' \in [Runners -> RunnerRows] /\ runner'[r] = v
      /\ \A q \in Runners \ {r} : runner'[q] = runner[q]
  BY DEF RunInv, RunTypeOK
<1>2. RunTypeOK'
  BY <1>1 DEF RunInv, RunTypeOK
<1>3. ASSUME NEW q \in Runners
      PROVE  (Begun(q) => Sound(Held(q)))' /\ (runner[q].saved => Begun(q))' /\ Based(q)'
  <2>1. CASE q = r
    BY <1>1, <2>1 DEF Begun, Held, Based
  <2>2. CASE q # r
    BY <1>1, <2>2 DEF Begun, Held, Based, RunInv
  <2> QED BY <2>1, <2>2
<1>4. FreshWritersContinue'
  BY DEF RunInv, FreshWritersContinue
<1>5. (\A i \in DOMAIN log : Sound(log[i]))'
  BY DEF RunInv
<1> QED BY <1>2, <1>3, <1>4, <1>5 DEF RunInv

LEMMA SucceedsOn ==
  ASSUME NEW b \in ClusterRows, NEW c \in ClusterRows, NEW d \in ClusterRows,
         Succeeds(b, c), Succeeds(c, d)
  PROVE  Succeeds(b, d)
  BY DEF Succeeds, ClusterRows

(* A runner works on its cluster.                                          *)
LEMMA WorkStep ==
  ASSUME RunInv, NEW r \in Runners, NEW d \in ClusterRows, runner[r].saved,
         Sound(d), Succeeds(Held(r), d), Became(r, d), UNCHANGED <<plan, now, log, since>>
  PROVE  RunInv'
<1> DEFINE v == [runner[r] EXCEPT !.cluster = d, !.saved = FALSE]
<1>1. runner[r] \in RunnerRows /\ runner \in [Runners -> RunnerRows]
  BY DEF RunInv, RunTypeOK
<1>2. v \in RunnerRows /\ v.cluster = d /\ v.saved = FALSE /\ v.base = runner[r].base
  BY <1>1 DEF RunnerRows
<1>3. runner' = [runner EXCEPT ![r] = v]
  BY <1>1 DEF Became, RunnerRows
<1>4. Held(r) \in ClusterRows /\ Begun(r)
  BY BegunType DEF RunInv
<1>5. ASSUME runner[r].base > 0
      PROVE  runner[r].base <= Len(log) /\ Succeeds(log[runner[r].base], d)
  <2>1. /\ runner[r].base <= Len(log)
        /\ \/ Held(r) = log[runner[r].base]
           \/ Succeeds(log[runner[r].base], Held(r))
    BY <1>4, <1>5 DEF RunInv, Based
  <2>2. runner[r].base \in Nat
    BY <1>1 DEF RunnerRows
  <2>3. log[runner[r].base] \in ClusterRows
    BY <1>5, <2>1, <2>2 DEF RunInv, RunTypeOK
  <2> QED BY <1>4, <2>1, <2>3, SucceedsOn
<1> HIDE DEF v
<1> QED BY <1>2, <1>3, <1>5, RunnerStep

LEMMA OffStep ==
  ASSUME RunInv, NEW r \in Runners, runner' = [runner EXCEPT ![r] = Off],
         UNCHANGED <<plan, now, log, since>>
  PROVE  RunInv'
<1>1. Off \in RunnerRows /\ Off.cluster = NoCluster /\ Off.saved = FALSE
  BY DEF Off, RunnerRows
<1> QED BY <1>1, RunnerStep

LEMMA CreateStep ==
  ASSUME RunInv, NEW r \in Runners, Create(r)
  PROVE  RunInv'
<1> DEFINE c0 == createEventCluster(plan, now)
           c1 == transitionEventCluster(c0, "prewarming", now)
           c2 == transitionEventCluster(c1, "frozen", now)
           c3 == transitionEventCluster(c2, "active", now)
           v == [cluster |-> c3, end |-> plan.settlementEnd, base |-> 0, saved |-> FALSE]
<1>1. now \in Nat /\ plan.revision \in Nat /\ plan.settlementEnd \in Nat
      /\ plan.readiness \in [Lanes -> ReadyStates]
  BY DEF RunInv, RunTypeOK, PlanRows
<1>2. {"candidate", "prewarming", "frozen", "active"} \subseteq Statuses
  BY DEF Statuses
<1>3. NoInventory \in InventoryRows
  BY DEF NoInventory, InventoryRows
<1>4. c0 \in ClusterRows
  BY <1>1, <1>2, <1>3 DEF createEventCluster, ClusterRows, LaneStates
<1>5. Sound(c0)
  <2>1. c0.members = {} /\ c0.status = "candidate" /\ \A l \in Lanes : c0.lanes[l] # "observed"
    BY DEF createEventCluster
  <2> QED BY <2>1 DEF Sound, LanesTrue, HasMember, Inventoried, LatestKnown, Linear
<1> HIDE DEF c0
<1>6. c1 \in ClusterRows /\ Sound(c1)
  BY <1>1, <1>2, <1>4, <1>5, TransitionFields, TransitionSound
<1> HIDE DEF c1
<1>7. c2 \in ClusterRows /\ Sound(c2)
  BY <1>1, <1>2, <1>6, TransitionFields, TransitionSound
<1> HIDE DEF c2
<1>8. c3 \in ClusterRows /\ Sound(c3)
  BY <1>1, <1>2, <1>7, TransitionFields, TransitionSound
<1>9. runner' = [runner EXCEPT ![r] = v]
  BY DEF Create, Activated, c0, c1, c2
<1>u. UNCHANGED <<plan, now, log, since>>
  BY DEF Create
<1> HIDE DEF c3
<1>10. v \in RunnerRows /\ v.cluster = c3 /\ v.base = 0 /\ v.saved = FALSE
  BY <1>1, <1>8 DEF RunnerRows
<1>11. v.cluster # NoCluster /\ Sound(v.cluster) /\ ~(v.base > 0)
  BY <1>8, <1>10, NoClusterApart
<1> HIDE DEF v
<1> QED BY <1>9, <1>10, <1>11, <1>u, RunnerStep

LEMMA RecoverStep ==
  ASSUME RunInv, NEW r \in Runners, Recover(r)
  PROVE  RunInv'
<1> DEFINE v == [cluster |-> log[Len(log)], end |-> plan.settlementEnd, base |-> Len(log), saved |-> TRUE]
<1>1. log \in Seq(ClusterRows) /\ log # <<>> /\ Len(log) \in Nat /\ Len(log) \in DOMAIN log
  BY DEF RunInv, RunTypeOK, Recover
<1>2. log[Len(log)] \in ClusterRows /\ Sound(log[Len(log)])
  BY <1>1 DEF RunInv
<1>3. plan.settlementEnd \in Nat
  BY DEF RunInv, RunTypeOK, PlanRows
<1>4. v \in RunnerRows /\ v.cluster = log[Len(log)] /\ v.base = Len(log) /\ v.saved = TRUE
  BY <1>1, <1>2, <1>3 DEF RunnerRows
<1>5. runner' = [runner EXCEPT ![r] = v]
  BY DEF Recover, latestEventClusterSnapshot
<1>u. UNCHANGED <<plan, now, log, since>>
  BY DEF Recover
<1>6. log[Len(log)] # NoCluster
  BY <1>2, NoClusterApart
<1>7. v.cluster # NoCluster /\ Sound(v.cluster) /\ v.base <= Len(log) /\ v.saved /\ v.cluster = log[v.base]
  BY <1>1, <1>2, <1>4, <1>6
<1> HIDE DEF v
<1> QED BY <1>4, <1>5, <1>7, <1>u, RunnerStep

(* The operations on a saved cluster: each gives a sound successor.        *)
LEMMA OperationSucceeds ==
  ASSUME RunInv, NEW r \in Runners, Working(r)
  PROVE  /\ runner[r].saved /\ Held(r) \in ClusterRows /\ Sound(Held(r)) /\ now \in Nat
         /\ Held(r).revision \in Nat /\ Held(r).status \in Statuses
<1>1. runner[r].saved
  BY DEF Working
<1>2. Begun(r)
  BY <1>1 DEF RunInv
<1>3. Held(r) \in ClusterRows
  BY <1>2, BegunType DEF RunInv
<1> QED BY <1>1, <1>2, <1>3 DEF RunInv, RunTypeOK, ClusterRows

LEMMA TransitionStep ==
  ASSUME RunInv, NEW r \in Runners, NEW s \in Statuses, Transition(r, s)
  PROVE  RunInv'
<1> DEFINE c == Held(r)
           d == transitionEventCluster(c, s, now)
<1>1. /\ runner[r].saved /\ c \in ClusterRows /\ Sound(c) /\ now \in Nat
      /\ c.revision \in Nat /\ c.status \in Statuses
  BY OperationSucceeds DEF Transition
<1>2. s \in Transitions[c.status] /\ s # "complete" /\ Became(r, d) /\ UNCHANGED <<plan, now, log, since>>
  BY DEF Transition
<1>3. ~Terminal(c)
  BY <1>2, StatusNames DEF Terminal
<1> HIDE DEF c
<1>4. d \in ClusterRows /\ d.revision = c.revision + 1 /\ d.plan = c.plan /\ d.members = c.members
  BY <1>1, TransitionFields
<1>5. Sound(d)
  BY <1>1, <1>2, TransitionSound
<1> HIDE DEF d
<1>6. Succeeds(c, d)
  BY <1>1, <1>3, <1>4 DEF Succeeds
<1> QED BY <1>1, <1>2, <1>4, <1>5, <1>6, WorkStep DEF c

LEMMA StopStep ==
  ASSUME RunInv, NEW r \in Runners, Stop(r)
  PROVE  RunInv'
<1> DEFINE c == Held(r)
           d == transitionEventCluster(c, "stopped", now)
<1>1. /\ runner[r].saved /\ c \in ClusterRows /\ Sound(c) /\ now \in Nat /\ c.revision \in Nat
  BY OperationSucceeds DEF Stop
<1>2. ~Terminal(c) /\ Became(r, d) /\ UNCHANGED <<plan, now, log, since>>
  BY DEF Stop
<1> HIDE DEF c
<1>3. "stopped" \in Statuses
  BY DEF Statuses
<1>4. d \in ClusterRows /\ d.revision = c.revision + 1 /\ d.plan = c.plan /\ d.members = c.members
  BY <1>1, <1>3, TransitionFields
<1>5. Sound(d)
  BY <1>1, <1>3, TransitionSound
<1> HIDE DEF d
<1>6. Succeeds(c, d)
  BY <1>1, <1>2, <1>4 DEF Succeeds
<1> QED BY <1>1, <1>2, <1>4, <1>5, <1>6, WorkStep DEF c

LEMMA MemberStep ==
  ASSUME RunInv, NEW r \in Runners, NEW m \in Members, RecordMember(r, m)
  PROVE  RunInv'
<1> DEFINE c == Held(r)
<1>1. /\ runner[r].saved /\ c \in ClusterRows /\ Sound(c) /\ c.revision \in Nat
  BY OperationSucceeds DEF RecordMember
<1>2. Observing(c) /\ UNCHANGED <<plan, now, log, since>>
  BY DEF RecordMember
<1>3. ~Terminal(c)
  BY <1>2 DEF Observing, Terminal
<1>4. \/ Became(r, redelivered(c, m))
      \/ Linked(c, m) /\ Became(r, recorded(c, m))
  BY DEF RecordMember
<1> HIDE DEF c
<1>5. CASE Became(r, redelivered(c, m))
  <2> DEFINE d == redelivered(c, m)
  <2>1. /\ d \in ClusterRows /\ d.revision = c.revision + 1 /\ d.plan = c.plan
        /\ d.members = c.members
    BY <1>1, RedeliveredFields
  <2>2. Sound(d)
    BY <1>1, <1>2, RedeliveredSound
  <2>3. Became(r, d)
    BY <1>5
  <2> HIDE DEF d
  <2>4. Succeeds(c, d)
    BY <1>1, <1>3, <2>1 DEF Succeeds
  <2> QED BY <1>1, <1>2, <2>1, <2>2, <2>3, <2>4, WorkStep DEF c
<1>6. CASE Linked(c, m) /\ Became(r, recorded(c, m))
  <2> DEFINE d == recorded(c, m)
  <2>1. /\ d \in ClusterRows /\ d.revision = c.revision + 1 /\ d.plan = c.plan
        /\ d.members = c.members \union {m}
    BY <1>1, RecordedFields
  <2>2. Sound(d)
    BY <1>1, <1>2, <1>6, RecordedSound
  <2>3. Became(r, d)
    BY <1>6
  <2> HIDE DEF d
  <2>4. Succeeds(c, d)
    BY <1>1, <1>3, <2>1 DEF Succeeds
  <2> QED BY <1>1, <1>2, <2>1, <2>2, <2>3, <2>4, WorkStep DEF c
<1> QED BY <1>4, <1>5, <1>6

LEMMA MissingStep ==
  ASSUME RunInv, NEW r \in Runners, NEW l \in Absent, StableMissing(r, l)
  PROVE  RunInv'
<1> DEFINE c == Held(r)
           d == recordStableMissing(c, l, now)
<1>1. /\ runner[r].saved /\ c \in ClusterRows /\ Sound(c) /\ now \in Nat /\ c.revision \in Nat
  BY OperationSucceeds DEF StableMissing
<1>2. /\ Observing(c) \/ c.status = "settling"
      /\ Became(r, d)
  BY DEF StableMissing
<1>u. UNCHANGED <<plan, now, log, since>>
  BY DEF StableMissing
<1>3. ~Terminal(c) /\ c.status # "complete"
  BY <1>2 DEF Observing, Terminal
<1> HIDE DEF c
<1>4. l \in Lanes
  BY ClusterRunAssumption
<1>5. d \in ClusterRows /\ d.revision = c.revision + 1 /\ d.plan = c.plan /\ d.members = c.members
  BY <1>1, <1>4, MissingFields
<1>6. Sound(d)
  BY <1>1, <1>3, <1>4, MissingSound
<1> HIDE DEF d
<1>7. Succeeds(c, d)
  BY <1>1, <1>3, <1>5 DEF Succeeds
<1> QED BY <1>1, <1>2, <1>5, <1>6, <1>7, <1>u, WorkStep DEF c

LEMMA SettleStep ==
  ASSUME RunInv, NEW r \in Runners, Settle(r)
  PROVE  RunInv'
<1> DEFINE c == Held(r)
           b == IF c.status = "settling" THEN c ELSE transitionEventCluster(c, "settling", now)
           d == settled(b, now)
<1>1. /\ runner[r].saved /\ c \in ClusterRows /\ Sound(c) /\ now \in Nat /\ c.revision \in Nat
  BY OperationSucceeds DEF Settle
<1>2. Settleable(c) /\ Became(r, d)
  BY DEF Settle, settleRecovered
<1>u. UNCHANGED <<plan, now, log, since>>
  BY DEF Settle
<1>3. ~Terminal(c)
  BY <1>2, StatusNames DEF Settleable, Terminal
<1> HIDE DEF c
<1>4. "settling" \in Statuses
  BY DEF Statuses
<1>5. /\ b \in ClusterRows /\ Sound(b) /\ b.plan = c.plan /\ b.members = c.members
      /\ b.revision >= c.revision /\ b.revision \in Nat
  <2>1. CASE c.status = "settling"
    BY <1>1, <2>1
  <2>2. CASE c.status # "settling"
    <3>1. b = transitionEventCluster(c, "settling", now)
      BY <2>2
    <3>2. /\ b \in ClusterRows /\ b.plan = c.plan /\ b.members = c.members
          /\ b.revision = c.revision + 1
      BY <1>1, <1>4, <3>1, TransitionFields
    <3>3. Sound(b)
      BY <1>1, <1>4, <3>1, TransitionSound
    <3> QED BY <1>1, <3>2, <3>3
  <2> QED BY <2>1, <2>2
<1> HIDE DEF b
<1>6. d \in ClusterRows /\ d.revision = b.revision + 1 /\ d.plan = b.plan /\ d.members = b.members
  BY <1>1, <1>5, SettledFields DEF Sound
<1>7. Sound(d)
  BY <1>1, <1>5, SettledSound
<1> HIDE DEF d
<1>8. Succeeds(c, d)
  BY <1>1, <1>3, <1>5, <1>6 DEF Succeeds
<1> QED BY <1>1, <1>2, <1>6, <1>7, <1>8, <1>u, WorkStep DEF c

-----------------------------------------------------------------------------
(* The checkpoint.  Whoever appends knew the last snapshot exactly when    *)
(* its base is the length of the log.                                      *)
LEMMA AppendStep ==
  ASSUME RunInv, NEW r \in Runners, Checkpoint(r), SameRevision(Held(r)) = {}
  PROVE  RunInv'
<1> DEFINE c == Held(r)
           base == runner[r].base
           v == [runner[r] EXCEPT !.saved = TRUE, !.base = IF @ = Len(log) THEN Len(log) + 1 ELSE @]
<1>1. /\ c # NoCluster /\ ~runner[r].saved
      /\ log' = Append(log, c) /\ since' = Append(since, base)
      /\ runner' = [runner EXCEPT ![r].saved = TRUE, ![r].base = IF @ = Len(log) THEN Len(log) + 1 ELSE @]
      /\ plan' = plan /\ now' = now
  BY DEF Checkpoint
<1>2. c \in ClusterRows /\ Sound(c) /\ runner[r] \in RunnerRows /\ Begun(r)
  BY <1>1, BegunType DEF RunInv, Begun
<1>3. /\ runner \in [Runners -> RunnerRows] /\ log \in Seq(ClusterRows) /\ since \in Seq(Nat)
      /\ Len(since) = Len(log) /\ Len(log) \in Nat /\ plan \in PlanRows /\ now \in Nat
  BY DEF RunInv, RunTypeOK
<1>4. /\ base \in Nat /\ base = runner[r].base
      /\ base > 0 => base <= Len(log) /\ Succeeds(log[base], c)
  BY <1>1, <1>2 DEF RunInv, Based, RunnerRows
<1>5. /\ v \in RunnerRows /\ v.cluster = c /\ v.saved = TRUE
      /\ v.base = IF base = Len(log) THEN Len(log) + 1 ELSE base
  <2>1. (IF base = Len(log) THEN Len(log) + 1 ELSE base) \in Nat
    BY <1>3, <1>4
  <2> HIDE DEF base
  <2>2. v = [runner[r] EXCEPT !.saved = TRUE, !.base = IF base = Len(log) THEN Len(log) + 1 ELSE base]
    BY <1>4
  <2> HIDE DEF v
  <2> QED BY <1>2, <2>1, <2>2 DEF RunnerRows, Held, c
<1>6. runner' = [runner EXCEPT ![r] = v]
  BY <1>1, <1>3 DEF RunnerRows
<1> HIDE DEF c, v, base
<1>7. /\ runner' \in [Runners -> RunnerRows] /\ runner'[r] = v
      /\ \A q \in Runners \ {r} : runner'[q] = runner[q]
  BY <1>3, <1>5, <1>6
<1>8. /\ log' \in Seq(ClusterRows) /\ since' \in Seq(Nat) /\ Len(log') = Len(log) + 1
      /\ Len(since') = Len(log) + 1
      /\ \A i \in 1 .. Len(log) : log'[i] = log[i] /\ since'[i] = since[i]
      /\ log'[Len(log) + 1] = c /\ since'[Len(log) + 1] = base
  BY <1>1, <1>2, <1>3, <1>4
<1>9. RunTypeOK'
  BY <1>1, <1>3, <1>7, <1>8 DEF RunTypeOK
<1>10. (\A i \in DOMAIN log : Sound(log[i]))'
  <2>1. ASSUME NEW i \in 1 .. Len(log) + 1 PROVE Sound(log'[i])
    <3>1. CASE i = Len(log) + 1
      BY <1>2, <1>8, <3>1
    <3>2. CASE i \in 1 .. Len(log)
      <4>1. i \in DOMAIN log /\ log'[i] = log[i]
        BY <1>3, <1>8, <3>2
      <4> QED BY <4>1 DEF RunInv
    <3> QED BY <1>3, <3>1, <3>2
  <2>2. DOMAIN log' = 1 .. Len(log) + 1
    BY <1>8
  <2> QED BY <2>1, <2>2
<1>11. ASSUME NEW q \in Runners
       PROVE  (Begun(q) => Sound(Held(q)))' /\ (runner[q].saved => Begun(q))' /\ Based(q)'
  <2>1. CASE q = r
    <3>1. Held(q)' = c /\ runner'[q].saved = TRUE /\ runner'[q].base = v.base
      BY <1>5, <1>7, <2>1 DEF Held
    <3>2. c # NoCluster
      BY <1>2, NoClusterApart
    <3>3. Based(q)'
      <4>1. CASE base = Len(log)
        <5>1. v.base = Len(log) + 1
          BY <1>5, <4>1
        <5> QED BY <1>3, <1>8, <3>1, <5>1 DEF Based
      <4>2. CASE base # Len(log)
        <5>1. v.base = base
          BY <1>5, <4>2
        <5>2. base > 0 => base \in 1 .. Len(log)
          BY <1>3, <1>4
        <5>3. base > 0 => base <= Len(log') /\ Succeeds(log'[base], c)
          BY <1>3, <1>4, <1>8, <5>2
        <5> QED BY <3>1, <5>1, <5>3 DEF Based
      <4> QED BY <4>1, <4>2
    <3> QED BY <1>2, <3>1, <3>2, <3>3 DEF Begun
  <2>2. CASE q # r
    <3>1. runner'[q] = runner[q] /\ Held(q)' = Held(q) /\ (Begun(q)' <=> Begun(q))
      BY <1>7, <2>2 DEF Held, Begun
    <3>2. (Begun(q) => Sound(Held(q))) /\ (runner[q].saved => Begun(q)) /\ Based(q)
      BY DEF RunInv
    <3>3. runner[q].base \in Nat
      BY <1>3 DEF RunnerRows
    <3>4. Based(q)'
      <4> SUFFICES ASSUME Begun(q), runner[q].base > 0
                   PROVE  /\ runner[q].base <= Len(log')
                          /\ \/ runner[q].saved /\ Held(q) = log'[runner[q].base]
                             \/ Succeeds(log'[runner[q].base], Held(q))
        BY <3>1 DEF Based
      <4>1. runner[q].base <= Len(log)
        BY <3>2 DEF Based
      <4>2. log'[runner[q].base] = log[runner[q].base]
        BY <1>8, <3>3, <4>1
      <4> QED BY <1>3, <1>8, <3>2, <3>3, <4>1, <4>2 DEF Based
    <3> QED BY <3>1, <3>2, <3>4
  <2> QED BY <2>1, <2>2
<1>12. FreshWritersContinue'
  <2> SUFFICES ASSUME NEW i \in 1 .. Len(log), since'[i + 1] >= i
               PROVE  /\ ~Terminal(log'[i]) /\ log'[i + 1].plan = log'[i].plan
                      /\ log'[i + 1].revision > log'[i].revision
                      /\ log'[i].members \subseteq log'[i + 1].members
    BY <1>3, <1>8 DEF FreshWritersContinue
  <2>1. CASE i = Len(log)
    <3>1. base > 0 /\ base = i
      BY <1>3, <1>4, <1>8, <2>1
    <3>2. Succeeds(log[i], c)
      BY <1>4, <3>1
    <3> QED BY <1>3, <1>8, <2>1, <3>2 DEF Succeeds
  <2>2. CASE i \in 1 .. (Len(log) - 1)
    <3>1. log'[i] = log[i] /\ log'[i + 1] = log[i + 1] /\ since'[i + 1] = since[i + 1]
      BY <1>3, <1>8, <2>2
    <3> QED BY <2>2, <3>1 DEF RunInv, FreshWritersContinue
  <2> QED BY <1>3, <2>1, <2>2
<1> QED BY <1>9, <1>10, <1>11, <1>12 DEF RunInv

LEMMA CheckpointStep ==
  ASSUME RunInv, NEW r \in Runners, Checkpoint(r)
  PROVE  RunInv'
<1>1. CASE SameRevision(Held(r)) = {}
  BY <1>1, AppendStep
<1>2. CASE SameRevision(Held(r)) # {}
  <2>1. \/ runner' = [runner EXCEPT ![r].saved = TRUE]
        \/ runner' = [runner EXCEPT ![r] = Off]
    BY <1>2 DEF Checkpoint
  <2>u. UNCHANGED <<plan, now, log, since>>
    BY <1>2 DEF Checkpoint
  <2>2. CASE runner' = [runner EXCEPT ![r] = Off]
    BY <2>2, <2>u, OffStep
  <2>3. CASE runner' = [runner EXCEPT ![r].saved = TRUE]
    <3> DEFINE v == [runner[r] EXCEPT !.saved = TRUE]
    <3>1. Begun(r) /\ ~runner[r].saved
      BY DEF Checkpoint, Begun
    <3>2. Held(r) \in ClusterRows /\ Sound(Held(r)) /\ runner[r] \in RunnerRows
      BY <3>1, BegunType DEF RunInv
    <3>3. v \in RunnerRows /\ v.cluster = Held(r) /\ v.saved = TRUE /\ v.base = runner[r].base
      BY <3>2 DEF RunnerRows, Held
    <3>4. runner' = [runner EXCEPT ![r] = v]
      BY <2>3 DEF RunInv, RunTypeOK, RunnerRows
    <3> HIDE DEF v
    <3>5. v.cluster # NoCluster /\ Sound(v.cluster)
      BY <3>2, <3>3, NoClusterApart
    <3>6. v.base > 0 => v.base <= Len(log) /\ Succeeds(log[v.base], v.cluster)
      BY <3>1, <3>3 DEF RunInv, Based
    <3> QED BY <2>u, <3>3, <3>4, <3>5, <3>6, RunnerStep
  <2> QED BY <2>1, <2>2, <2>3
<1> QED BY <1>1, <1>2

(* The calendar and the clock touch no cluster.                            *)
LEMMA OutsideStep ==
  ASSUME RunInv, Amend \/ Tick \/ UNCHANGED vars
  PROVE  RunInv'
<1>1. log' = log /\ since' = since /\ runner' = runner
  BY DEF Amend, Tick, vars
<1>2. plan' \in PlanRows /\ now' \in Nat
  <2>1. plan \in PlanRows /\ now \in Nat
    BY DEF RunInv, RunTypeOK
  <2>2. CASE Amend
    <3>1. plan.revision + 1 \in Nat /\ plan.settlementEnd + 1 \in Nat
      BY <2>1 DEF PlanRows
    <3>2. plan' = [plan EXCEPT !.revision = plan.revision + 1, !.settlementEnd = plan.settlementEnd + 1]
      BY <2>2 DEF Amend, amendEventPlan
    <3>3. now' = now
      BY <2>2 DEF Amend
    <3> QED BY <2>1, <3>1, <3>2, <3>3 DEF PlanRows
  <2>3. CASE Tick
    BY <2>1, <2>3 DEF Tick
  <2>4. CASE UNCHANGED vars
    BY <2>1, <2>4 DEF vars
  <2> QED BY <2>2, <2>3, <2>4
<1>3. RunTypeOK'
  BY <1>1, <1>2 DEF RunInv, RunTypeOK
<1>4. \A r \in Runners : Begun(r)' = Begun(r) /\ Held(r)' = Held(r) /\ (Based(r)' <=> Based(r))
  BY <1>1 DEF Begun, Held, Based
<1>5. FreshWritersContinue'
  BY <1>1 DEF RunInv, FreshWritersContinue
<1> QED BY <1>1, <1>3, <1>4, <1>5 DEF RunInv

LEMMA RunStep == RunInv /\ [Next]_vars => RunInv'
<1> SUFFICES ASSUME RunInv, [Next]_vars PROVE RunInv'
  OBVIOUS
<1>1. CASE Amend \/ Tick \/ UNCHANGED vars
  BY <1>1, OutsideStep
<1>2. ASSUME NEW r \in Runners, Create(r) PROVE RunInv'
  BY <1>2, CreateStep
<1>3. ASSUME NEW r \in Runners, Recover(r) PROVE RunInv'
  BY <1>3, RecoverStep
<1>4. ASSUME NEW r \in Runners, Settle(r) PROVE RunInv'
  BY <1>4, SettleStep
<1>5. ASSUME NEW r \in Runners, Stop(r) PROVE RunInv'
  BY <1>5, StopStep
<1>6. ASSUME NEW r \in Runners, Checkpoint(r) PROVE RunInv'
  BY <1>6, CheckpointStep
<1>7. ASSUME NEW r \in Runners, Crash(r) PROVE RunInv'
  BY <1>7, OffStep DEF Crash
<1>8. ASSUME NEW r \in Runners, NEW s \in Statuses, Transition(r, s) PROVE RunInv'
  BY <1>8, TransitionStep
<1>9. ASSUME NEW r \in Runners, NEW m \in Members, RecordMember(r, m) PROVE RunInv'
  BY <1>9, MemberStep
<1>10. ASSUME NEW r \in Runners, NEW l \in Absent, StableMissing(r, l) PROVE RunInv'
  BY <1>10, MissingStep
<1> QED BY <1>1, <1>2, <1>3, <1>4, <1>5, <1>6, <1>7, <1>8, <1>9, <1>10 DEF Next

LEMMA RunInvariant == Spec => []RunInv
  BY RunInit, RunStep, PTL DEF Spec

-----------------------------------------------------------------------------
(* The results.                                                            *)

LEMMA EveryClusterSound == RunInv => \A c \in Clusters : Sound(c)
  BY DEF RunInv, Clusters, Begun

(* Every variable has its type: clusters, plan and runners keep the shape  *)
(* that the snapshots in the log and the parsed plan have.                 *)
THEOREM RunTypesKept == Spec => []RunTypeOK
<1>1. RunInv => RunTypeOK
  BY DEF RunInv
<1> QED BY <1>1, RunInvariant, PTL

(* Whatever was declared missing, redelivered, corrected or recovered: a   *)
(* lane is observed exactly when the cluster has a member of it, and a     *)
(* settled inventory lists its members and its missing lanes truthfully.   *)
THEOREM InventoriesAreTrue == Spec => []InventoryTrue
<1>1. RunInv => InventoryTrue
  BY EveryClusterSound DEF InventoryTrue, Sound, LanesTrue, Inventoried
<1> QED BY <1>1, RunInvariant, PTL

(* No two revisions of a record replace the same one, in any cluster that  *)
(* is logged or held: the members' corrections form one chain.             *)
THEOREM CorrectionsFormAChain == Spec => []CorrectionsLinear
<1>1. RunInv => CorrectionsLinear
  BY EveryClusterSound DEF CorrectionsLinear, Sound, Linear
<1> QED BY <1>1, RunInvariant, PTL

(* A runner that had recovered from (or written) the last snapshot appends *)
(* a later revision of it with all of its members, and never after a       *)
(* terminal one, although any number of runners may race and crash.        *)
THEOREM WritersContinue == Spec => []FreshWritersContinue
<1>1. RunInv => FreshWritersContinue
  BY DEF RunInv
<1> QED BY <1>1, RunInvariant, PTL
=============================================================================
