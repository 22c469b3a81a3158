---------------------------- MODULE ResearchStudy ----------------------------
(***************************************************************************)
(* The research engine (src/research): which persisted evidence a study    *)
(* admits, the features it may compute by the cutoff of an event, the      *)
(* labels it may compute from later prices, and the trials and signals of  *)
(* a frozen manifest.  Identities are the values that are hashed, prices   *)
(* and weights are whole numbers, and cohorts are sets: freezeManifest     *)
(* sorts them, so that their order carries nothing.                        *)
(***************************************************************************)
EXTENDS Integers, FiniteSets, FiniteSetsExt

CONSTANTS Absent,
          Minute,          \* milliseconds of a bar
          WeightScale,     \* the sum of two benchmark weights
          Minutes,         \* the horizons in minutes
          VariantsMax, UniverseMax, CohortMax

Horizons == ({"minutes"} \X Minutes) \cup {<<"close", 0>>, <<"next-session", 0>>}
PartitionNames == <<"train", "validation", "untouched-test">>
None == "none"

-----------------------------------------------------------------------------
(* parseProtocol.                                                          *)
parseProtocol(p) ==
  /\ Cardinality(p.variants) \in 1..VariantsMax /\ Cardinality(p.universe) \in 1..UniverseMax
  /\ p.entryDelay >= Minute
  /\ \A v, w \in p.variants : v.id = w.id => v = w
  /\ \A v \in p.variants : v.hypothesis = "H2" => v.threshold = 0
  /\ p.weights[1] + p.weights[2] = WeightScale
  /\ \A i \in 2..4 : p.boundaries[i - 1] < p.boundaries[i]

identity(kind, value) == <<kind, value>>
researchMemberKey(m) ==
  identity("member", [lane |-> m.lane, provider |-> m.provider, record |-> m.record,
                      revision |-> m.revision])

(* One normalized record as the schema reads it, and the stored event it   *)
(* names; one bar.                                                         *)
RecordBound(m, r) ==
  /\ r.memberKey = researchMemberKey(m)
  /\ r.artifact = m.artifact /\ m.normalization.source = m.artifact
  /\ r.event = m.normalization.event /\ r.normalizer = m.normalization.normalizer
  /\ r.stored.id = r.event /\ r.stored.artifact = m.artifact
  /\ r.normalizedAt # Absent => r.stored.receivedAt <= r.normalizedAt
  /\ r.secAcceptance # Absent => m.lane = "sec" /\ r.secAcceptance = m.published

MemberClocks(m) ==
  /\ m.observed \in Nat /\ m.retrieved \in Nat /\ m.observed <= m.retrieved
  /\ m.published # Absent => m.published \in 0..m.observed

DatasetValid(bars) ==
  /\ \A b, c \in bars : (b.instrument = c.instrument /\ b.end = c.end) => b = c
  /\ \A b \in bars : b.end % Minute = 0 /\ (b.available # Absent => b.end <= b.available)

(* freezeResearchInput: what is admitted.                                  *)
freezeResearchInput(i) ==
  /\ i.snapshot.type = "event-cluster.snapshot"
  /\ i.snapshot.cluster.planId = i.plan.id /\ i.snapshot.cluster.planRevision = i.plan.revision
  /\ i.plan.effects = 0
  /\ {i.decision, i.cutoff, i.initialStart, i.close, i.next} \subseteq Nat
  /\ i.initialStart < i.cutoff /\ i.cutoff <= i.decision /\ i.decision < i.close /\ i.close < i.next
  /\ Cardinality(i.records) = Cardinality(i.snapshot.cluster.members)
  /\ \A r, s \in i.records : r.memberKey = s.memberKey => r = s
  /\ \A m \in i.snapshot.cluster.members :
       MemberClocks(m) /\ \E r \in i.records : RecordBound(m, r)
  /\ DatasetValid(i.bars)

(* verifyResearchArtifacts: content is what the vault returns by digest.   *)
verifyResearchArtifacts(i, content) ==
  \A m \in i.snapshot.cluster.members : m.artifact \in DOMAIN content /\ content[m.artifact] = m.artifact

(* freezeManifest: one event of an issuer is in the cohort once.           *)
freezeManifest(protocol, inputs) ==
  /\ parseProtocol(protocol)
  /\ Cardinality(inputs) \in 1..CohortMax
  /\ \A i \in inputs : freezeResearchInput(i)
  /\ \A i, j \in inputs : (i.plan.issuer = j.plan.issuer /\ i.plan.period = j.plan.period) => i = j

-----------------------------------------------------------------------------
partition(p, i) ==
  LET out(reason) == [name |-> "excluded", start |-> 0, end |-> 0, reason |-> reason]
      within == {n \in 1..3 : p.boundaries[n] <= i.decision /\ i.decision < p.boundaries[n + 1]}
      n == Min(within)
  IN IF i.plan.ticker \notin p.universe THEN out("outside-universe")
     ELSE IF i.repair THEN out("operational-repair")
     ELSE IF i.snapshot.cluster.status \in p.excludedStatuses THEN out("stopped-cluster")
     ELSE IF within = {} THEN out("outside-partitions")
     ELSE [name |-> PartitionNames[n], start |-> p.boundaries[n], end |-> p.boundaries[n + 1],
           reason |-> None]

(* Mutant: a bar that ended by the cutoff, whenever it became available.   *)
price_Ended(i, instrument, at, cutoff) ==
  LET bars == {b \in i.bars : b.instrument = instrument /\ b.end = at}
  IN {b.close : b \in {c \in bars : c.available # Absent /\ (cutoff # Absent => c.end <= cutoff)}}

(* {} is null.                                                             *)
price(i, instrument, at, cutoff) ==
  LET bars == {b \in i.bars : b.instrument = instrument /\ b.end = at}
      Usable(b) == b.available # Absent /\ (cutoff # Absent => b.end <= cutoff /\ b.available <= cutoff)
  IN {b.close : b \in {c \in bars : Usable(c)}}

Value(found) == CHOOSE close \in found : TRUE
Bps(start, end) == (end * 10000) \div start - 10000

returns(i, start, end, cutoff) ==
  LET instruments == <<i.plan.instrument, "SPY", i.plan.sector>>
      From(n) == price(i, instruments[n], start, cutoff)
      To(n) == price(i, instruments[n], end, cutoff)
  IN IF \E n \in 1..3 : From(n) = {} \/ To(n) = {} THEN <<>>
     ELSE [n \in 1..3 |-> Bps(Value(From(n)), Value(To(n)))]

benchmark(p, r) == (r[2] * p.weights[1] + r[3] * p.weights[2]) \div WeightScale
cost(p) == 2 * (p.spread + p.slippage + p.fee + p.impact)

optional(kind, i) ==
  [kind |-> kind, status |-> IF kind = "llm" THEN "disabled" ELSE "unavailable", cutoff |-> i.cutoff]

-----------------------------------------------------------------------------
(* feature: what the cutoff lets be known of the members, their order and  *)
(* the first reaction of the market.                                       *)
RecordOf(i, m) == CHOOSE r \in i.records : r.memberKey = researchMemberKey(m)

Dependency(i, m) ==
  LET r == RecordOf(i, m)
      clocks == {m.published, m.observed, m.retrieved, r.normalizedAt, r.readyAt}
      reason == IF Absent \in clocks THEN "missing-availability-clock"
                ELSE IF \E c \in clocks : c > i.cutoff THEN "future-information"
                ELSE IF \/ m.retrieved < m.observed \/ r.normalizedAt < m.retrieved
                        \/ r.readyAt < r.normalizedAt THEN "availability-clock-order"
                ELSE None
  IN [memberKey |-> r.memberKey, artifact |-> m.artifact, lane |-> m.lane, observed |-> m.observed,
      retrieved |-> m.retrieved, ready |-> r.readyAt, available |-> reason = None, reason |-> reason]

usableTime(dependencies, lane) ==
  LET times == {Max({d.observed, d.retrieved, d.ready}) :
                  d \in {e \in dependencies : e.lane = lane /\ e.available}}
  IN IF times = {} THEN Absent ELSE Min(times)

sourceOrder(p, sec, ir) ==
  IF sec = Absent \/ ir = Absent THEN Absent
  ELSE IF sec - ir \in (-p.simultaneity)..p.simultaneity THEN "NEAR_SIMULTANEOUS"
  ELSE IF sec < ir THEN "SEC_FIRST" ELSE "ISSUER_IR_FIRST"

feature(p, i) ==
  LET split == partition(p, i)
      dependencies == {Dependency(i, m) : m \in i.snapshot.cluster.members}
      order == sourceOrder(p, usableTime(dependencies, "sec"), usableTime(dependencies, "issuer-ir"))
      r == returns(i, i.initialStart, i.cutoff, i.cutoff)
      missing == {<<d.artifact, d.reason>> : d \in {e \in dependencies : ~e.available}}
                   \cup {<<"lane", l>> : l \in i.snapshot.cluster.silent}
                   \cup (IF order = Absent THEN {<<"source-order", None>>} ELSE {})
                   \cup (IF r = <<>> THEN {<<"initial-market", None>>} ELSE {})
  IN [input |-> i, partition |-> split.name, exclusion |-> split.reason,
      initialReaction |-> IF r = <<>> THEN Absent ELSE r[1] - benchmark(p, r),
      sourceOrder |-> order, dependencies |-> dependencies, missing |-> missing,
      expectations |-> optional("expectations", i), llm |-> optional("llm", i)]

(* label: from the first completed minute at or after the delay to the     *)
(* horizon, and never across the boundary of the event's partition.        *)
EntryOf(p, i) == ((i.decision + p.entryDelay + Minute - 1) \div Minute) * Minute
ExitOf(i, horizon) ==
  CASE horizon[1] = "close" -> i.close [] horizon[1] = "next-session" -> i.next
    [] OTHER -> i.decision + horizon[2] * Minute

label(p, i, horizon) ==
  LET entry == EntryOf(p, i)
      exit == ExitOf(i, horizon)
      split == partition(p, i)
      standing == IF split.name = "excluded" THEN <<"excluded", split.reason>>
                  ELSE IF exit >= split.end \/ entry >= split.end \/ i.initialStart < split.start
                  THEN <<"purged", "partition-overlap">>
                  ELSE IF entry >= exit THEN <<"missing", "entry-after-horizon">>
                  ELSE <<"available", None>>
      r == IF standing[1] = "available" THEN returns(i, entry, exit, Absent) ELSE <<>>
      final == IF standing[1] = "available" /\ r = <<>>
               THEN <<"missing", "missing-market-or-availability">> ELSE standing
  IN [input |-> i, horizon |-> horizon, entry |-> entry, exit |-> exit, status |-> final[1],
      reason |-> final[2], cost |-> cost(p),
      abnormal |-> IF r = <<>> THEN Absent ELSE r[1] - benchmark(p, r)]

-----------------------------------------------------------------------------
Sign(n) == IF n > 0 THEN 1 ELSE IF n < 0 THEN -1 ELSE 0
Abs(n) == IF n < 0 THEN -n ELSE n

(* <<why not, direction>> of a variant by the feature alone.               *)
Direction(v, f) ==
  IF v.hypothesis = "H1"
  THEN IF f.initialReaction = Absent THEN <<"missing-H1-feature", Absent>>
       ELSE IF Abs(f.initialReaction) <= v.threshold THEN <<"threshold-not-met", Absent>>
       ELSE <<None, Sign(f.initialReaction) * v.direction>>
  ELSE IF f.sourceOrder = Absent THEN <<"missing-H2-feature", Absent>>
       ELSE IF f.sourceOrder = "NEAR_SIMULTANEOUS" THEN <<"simultaneous-no-direction", Absent>>
       ELSE <<None, (IF f.sourceOrder = "SEC_FIRST" THEN 1 ELSE -1) * v.direction>>

Trial(v, f, l) ==
  LET d == Direction(v, f)
      reason == IF l.reason # None THEN l.reason ELSE d[1]
      gross == IF reason = None /\ d[2] # Absent /\ l.abnormal # Absent THEN d[2] * l.abnormal ELSE Absent
  IN [variant |-> v.id, feature |-> f, label |-> l, partition |-> f.partition,
      status |-> IF gross = Absent THEN "failed" ELSE "completed", reason |-> reason,
      direction |-> d[2], gross |-> gross, net |-> IF gross = Absent THEN Absent ELSE gross - l.cost]

Signal(trials, v, horizon, part) ==
  LET selected == {t \in trials : t.variant = v.id /\ t.partition = part /\ t.label.horizon = horizon}
      completed == {t \in selected : t.net # Absent}
  IN [variant |-> v.id, horizon |-> horizon, partition |-> part, decision |-> "NO_TRADE",
      attempted |-> Cardinality(selected), completed |-> Cardinality(completed),
      failed |-> Cardinality(selected) - Cardinality(completed),
      gross |-> {<<t, t.gross>> : t \in completed}, net |-> {<<t, t.net>> : t \in completed}]

evaluateManifest(p, inputs) ==
  LET features == {feature(p, i) : i \in inputs}
      labels == {label(p, i, h) : i \in inputs, h \in Horizons}
      trials == UNION {{Trial(v, feature(p, i), label(p, i, h)) : v \in p.variants, h \in Horizons} :
                         i \in inputs}
  IN [features |-> features, labels |-> labels, trials |-> trials,
      signals |-> {Signal(trials, v, h, part) : v \in p.variants, h \in Horizons,
                     part \in {"train", "validation", "untouched-test", "excluded"}}]
=============================================================================
