--------------------------- MODULE EvidenceProofs ---------------------------
(***************************************************************************)
(* Two promises about evidence, for every pool of facts and every study: a *)
(* source observation identity names one body of committed evidence in any *)
(* ledger that the bundle accepts, and a study never looks ahead.          *)
(***************************************************************************)
EXTENDS EvidenceReplay, FiniteSetTheorems, TLAPS

(* The items recorded so far are a sequence.                               *)
Recorded == input \in Seq({input[i] : i \in DOMAIN input})

(* Appending adds one element.                                             *)
LEMMA AppendAdds ==
    ASSUME NEW s, s \in Seq({s[i] : i \in DOMAIN s}), NEW e
    PROVE  /\ Append(s, e) \in Seq({Append(s, e)[i] : i \in DOMAIN Append(s, e)})
           /\ ToSet(Append(s, e)) = ToSet(s) \cup {e}
<1> DEFINE S == {s[i] : i \in DOMAIN s}
           t == Append(s, e)
           T == {t[i] : i \in DOMAIN t}
<1>1. s \in Seq(S)
  OBVIOUS
<1> HIDE DEF S
<1>2. /\ Len(s) \in Nat /\ DOMAIN s = 1..Len(s)
      /\ t \in Seq(S \cup {e}) /\ Len(t) = Len(s) + 1 /\ DOMAIN t = 1..(Len(s) + 1)
      /\ t[Len(s) + 1] = e /\ \A i \in 1..Len(s) : t[i] = s[i]
  BY <1>1
<1> HIDE DEF t
<1>3. Len(t) \in Nat /\ t = [i \in 1..Len(t) |-> t[i]]
  BY <1>2
<1>4. t \in Seq(T)
  BY <1>3
<1>5. T = S \cup {e}
  BY <1>2 DEF S
<1> QED BY <1>4, <1>5 DEF ToSet, S, t

-----------------------------------------------------------------------------
(* What an accepted ledger has said so far.                                *)
ParentsThere(seen) == \A e \in seen : e.parents \subseteq seen

CommitsAgree(seen) ==
  \A c, d \in seen :
    (Kind(c) = "artifact.committed" /\ Kind(d) = "artifact.committed"
       /\ c.facts.acquisition = d.facts.acquisition) => CommitIdentity(c.facts) = CommitIdentity(d.facts)

EmissionsRest(seen) ==
  \A e \in seen : Kind(e) = "normalization.emitted" =>
    /\ e.facts.observation = deriveSourceObservationId(e.facts)
    /\ e.facts.links # {}
    /\ NormalizationAgrees(e)

SelectionsRest(seen) ==
  \A e \in seen : Kind(e) = "selection.recorded" =>
    \E n \in seen : Kind(n) = "normalization.emitted" /\ n.facts.observation = e.facts.observation

LedgerSound(seen) ==
  ParentsThere(seen) /\ CommitsAgree(seen) /\ EmissionsRest(seen) /\ SelectionsRest(seen)

BundleInv == Recorded /\ (subject = "ledger" => LedgerSound(ToSet(input)))

(* One more entry that the bundle allows.                                  *)
LEMMA EntryKeepsSound ==
    ASSUME NEW seen, LedgerSound(ToSet(seen)), NEW e, EntryAllowed(seen, e)
    PROVE  LedgerSound(ToSet(seen) \cup {e})
<1> DEFINE S == ToSet(seen)
           N == S \cup {e}
<1>1. /\ ParentsThere(S) /\ CommitsAgree(S) /\ EmissionsRest(S) /\ SelectionsRest(S)
  BY DEF LedgerSound
<1>2. /\ validateFacts(e.facts) /\ e.parents \subseteq S
      /\ validateParentTransition(e) /\ LifecycleAllows(seen, e)
  BY DEF EntryAllowed, EntryValid
<1>3. ParentsThere(N)
  BY <1>1, <1>2 DEF ParentsThere
<1>4. CommitsAgree(N)
  BY <1>1, <1>2 DEF CommitsAgree, LifecycleAllows, Of, Kind, CommitIdentity
<1>5. EmissionsRest(N)
  <2> SUFFICES ASSUME Kind(e) = "normalization.emitted"
               PROVE  /\ e.facts.observation = deriveSourceObservationId(e.facts)
                      /\ e.facts.links # {} /\ NormalizationAgrees(e)
    BY <1>1 DEF EmissionsRest
  <2>1. EmittedFacts(e.facts)
    BY <1>2 DEF validateFacts, Kind
  <2>2. Cardinality(e.facts.links) # 0
    BY <2>1 DEF EmittedFacts, validateRawArtifactLinks
  <2>3. e.facts.links # {}
    BY <2>2, FS_EmptySet
  <2>4. NormalizationAgrees(e)
    BY <1>2 DEF validateParentTransition, NormalizationKinds
  <2> QED BY <2>1, <2>3, <2>4 DEF EmittedFacts
<1>6. SelectionsRest(N)
  <2> SUFFICES ASSUME Kind(e) = "selection.recorded"
               PROVE  \E n \in S : Kind(n) = "normalization.emitted" /\ n.facts.observation = e.facts.observation
    BY <1>1 DEF SelectionsRest
  <2>1. SelectionAgrees(e)
    BY <1>2 DEF validateParentTransition
  <2>2. PICK n \in SelectedNormalizations(e) : e.facts.observation = n.facts.observation
    BY <2>1 DEF SelectionAgrees
  <2>3. causalParents(e) \subseteq S
    BY <1>2 DEF causalParents
  <2>4. n \in S /\ Kind(n) = "normalization.emitted"
    BY <1>1, <2>2, <2>3 DEF SelectedNormalizations, ParentsThere
  <2> QED BY <2>2, <2>4
<1> QED BY <1>3, <1>4, <1>5, <1>6 DEF LedgerSound

(* A commit behind a link of an entry is in the ledger, and has the link's *)
(* acquisition.                                                            *)
LEMMA CommitBehind ==
    ASSUME NEW S, ParentsThere(S), NEW n \in S, NEW l, NEW c \in LinkCommits(causalParents(n), l)
    PROVE  c \in S /\ Kind(c) = "artifact.committed" /\ c.facts.acquisition = l.acquisition
  BY DEF LinkCommits, causalParents, ParentsThere

(* The commits of one emission are among those of another of its identity. *)
LEMMA CommitsIncluded ==
    ASSUME NEW S, LedgerSound(S), NEW n \in S, NEW m \in S,
           Kind(n) = "normalization.emitted", Kind(m) = "normalization.emitted",
           n.facts.observation = m.facts.observation
    PROVE  CommitsOf(n) \subseteq CommitsOf(m)
<1> SUFFICES ASSUME NEW x \in CommitsOf(n) PROVE x \in CommitsOf(m)
  OBVIOUS
<1>1. PICK l \in n.facts.links : \E c \in LinkCommits(causalParents(n), l) : x = CommitIdentity(c.facts)
  BY DEF CommitsOf
<1>2. PICK c \in LinkCommits(causalParents(n), l) : x = CommitIdentity(c.facts)
  BY <1>1
<1>3. ParentsThere(S) /\ CommitsAgree(S) /\ EmissionsRest(S)
  BY DEF LedgerSound
<1>4. {k.acquisition : k \in n.facts.links} = {k.acquisition : k \in m.facts.links}
  BY <1>3 DEF EmissionsRest, deriveSourceObservationId
<1>5. PICK k \in m.facts.links : k.acquisition = l.acquisition
  BY <1>4
<1>6. PICK d \in LinkCommits(causalParents(m), k) : TRUE
  BY <1>3, <1>5 DEF EmissionsRest, NormalizationAgrees
<1>7. CommitIdentity(d.facts) = CommitIdentity(c.facts)
  BY <1>3, <1>5, CommitBehind DEF CommitsAgree
<1>8. CommitIdentity(d.facts) \in CommitsOf(m)
  BY <1>5, <1>6 DEF CommitsOf
<1> QED BY <1>2, <1>7, <1>8

LEMMA CommitsThere ==
    ASSUME NEW S, LedgerSound(S), NEW n \in S, Kind(n) = "normalization.emitted"
    PROVE  CommitsOf(n) # {}
<1>1. EmissionsRest(S)
  BY DEF LedgerSound
<1>2. PICK l \in n.facts.links : LinkCommits(causalParents(n), l) # {}
  BY <1>1 DEF EmissionsRest, NormalizationAgrees
<1>3. PICK c \in LinkCommits(causalParents(n), l) : TRUE
  BY <1>2
<1>4. CommitIdentity(c.facts) \in CommitsOf(n)
  BY <1>2, <1>3 DEF CommitsOf
<1> QED BY <1>4

LEMMA LedgerInit == Init => BundleInv
<1> SUFFICES ASSUME Init PROVE BundleInv
  OBVIOUS
<1>1. input = <<>>
  BY DEF Init
<1>2. Recorded /\ ToSet(input) = {}
  BY <1>1 DEF Recorded, ToSet
<1> QED BY <1>2 DEF BundleInv, LedgerSound, ParentsThere, CommitsAgree, EmissionsRest, SelectionsRest

LEMMA RecordKeeps ==
    ASSUME Recorded, NEW e, Record(e)
    PROVE  Recorded' /\ ToSet(input') = ToSet(input) \cup {e} /\ subject' = subject /\ setting' = setting
<1>1. input' = Append(input, e) /\ subject' = subject /\ setting' = setting
  BY DEF Record
<1>2. /\ Append(input, e) \in Seq({Append(input, e)[i] : i \in DOMAIN Append(input, e)})
      /\ ToSet(Append(input, e)) = ToSet(input) \cup {e}
  BY AppendAdds DEF Recorded
<1>3. input' \in Seq({input'[i] : i \in DOMAIN input'}) /\ ToSet(input') = ToSet(input) \cup {e}
  BY <1>1, <1>2, Zenon
<1> QED BY <1>1, <1>3 DEF Recorded

LEMMA LedgerStep == BundleInv /\ [Next]_vars => BundleInv'
<1> SUFFICES ASSUME BundleInv, [Next]_vars PROVE BundleInv'
  OBVIOUS
<1> USE DEF BundleInv
<1>1. CASE UNCHANGED vars
  BY <1>1 DEF vars, Recorded
<1>2. ASSUME subject # "ledger", NEW e, Record(e) PROVE BundleInv'
  BY <1>2, RecordKeeps
<1>3. CASE RecordEntry
  <2>1. PICK e : EntryAllowed(input, e) /\ Record(e)
    BY <1>3 DEF RecordEntry
  <2> QED BY <1>3, <2>1, RecordKeeps, EntryKeepsSound DEF RecordEntry
<1>4. CASE GiveToken \/ GiveNativeEvent \/ GiveTrade \/ GiveTimelineEvent \/ GiveCloseFact \/ Deliver
             \/ GiveEvidence
  BY <1>2, <1>4 DEF GiveToken, GiveNativeEvent, GiveTrade, GiveTimelineEvent, GiveCloseFact, Deliver,
                    GiveEvidence, Room
<1>5. CASE WriteCheckpoint
  BY <1>2, <1>5 DEF WriteCheckpoint, Room
<1> QED BY <1>1, <1>3, <1>4, <1>5 DEF Next

(* In every ledger that the bundle accepts, whatever was recorded: two     *)
(* normalizations of one source observation identity rest on the same      *)
(* commits, and a selection rests on one that rests on a commit.           *)
THEOREM ObservationsNameEvidence == Spec => []ObservationNamesEvidence
<1>1. BundleInv => ObservationNamesEvidence
  <2> SUFFICES ASSUME BundleInv, subject = "ledger" PROVE ObservationNamesEvidence
    BY DEF ObservationNamesEvidence
  <2>1. LedgerSound(ToSet(input))
    BY DEF BundleInv
  <2> DEFINE emissions == Of(input, {"normalization.emitted"})
  <2>2. \A n \in emissions : n \in ToSet(input) /\ Kind(n) = "normalization.emitted"
    BY DEF Of
  <2>3. \A n \in ToSet(input) : Kind(n) = "normalization.emitted" => n \in emissions
    BY DEF Of
  <2>4. \A n, m \in emissions : n.facts.observation = m.facts.observation => CommitsOf(n) = CommitsOf(m)
    <3> TAKE n, m \in emissions
    <3> HAVE n.facts.observation = m.facts.observation
    <3> HIDE DEF emissions
    <3>1. n \in ToSet(input) /\ m \in ToSet(input)
          /\ Kind(n) = "normalization.emitted" /\ Kind(m) = "normalization.emitted"
      BY <2>2
    <3>2. CommitsOf(n) \subseteq CommitsOf(m)
      BY <2>1, <3>1, CommitsIncluded
    <3>3. CommitsOf(m) \subseteq CommitsOf(n)
      BY <2>1, <3>1, CommitsIncluded
    <3> QED BY <3>2, <3>3
  <2>5. \A s \in Of(input, {"selection.recorded"}) :
          \E n \in emissions : n.facts.observation = s.facts.observation /\ CommitsOf(n) # {}
    <3> SUFFICES ASSUME NEW s \in Of(input, {"selection.recorded"})
                 PROVE  \E n \in emissions : n.facts.observation = s.facts.observation /\ CommitsOf(n) # {}
      OBVIOUS
    <3>1. s \in ToSet(input) /\ Kind(s) = "selection.recorded"
      BY DEF Of
    <3>2. PICK n \in ToSet(input) : Kind(n) = "normalization.emitted" /\ n.facts.observation = s.facts.observation
      BY <2>1, <3>1 DEF LedgerSound, SelectionsRest
    <3> QED BY <2>1, <2>3, <3>2, CommitsThere
  <2> QED BY <2>4, <2>5 DEF ObservationNamesEvidence
<1> QED BY <1>1, LedgerInit, LedgerStep, PTL DEF Spec

-----------------------------------------------------------------------------
(* Known by the cutoff of a study's event: the fields that are narrowed.   *)
HasFields(i) ==
  /\ {"bars", "records", "snapshot"} \subseteq DOMAIN i
  /\ "cluster" \in DOMAIN i.snapshot /\ "members" \in DOMAIN i.snapshot.cluster

Known(i, m) == Study!Dependency(i, m).reason # "future-information"

LEMMA KnownFields ==
    ASSUME NEW i, HasFields(i)
    PROVE  LET k == KnownByCutoff(i)
               members == {m \in i.snapshot.cluster.members : Known(i, m)}
           IN  /\ k.cutoff = i.cutoff /\ k.initialStart = i.initialStart /\ k.plan = i.plan
               /\ k.bars = {b \in i.bars : b.available # Absent /\ b.available <= i.cutoff}
               /\ k.snapshot.cluster.members = members
               /\ k.records = {r \in i.records : \E m \in members : r.memberKey = Study!researchMemberKey(m)}
<1> DEFINE members == {m \in i.snapshot.cluster.members : Known(i, m)}
           keys == {Study!researchMemberKey(m) : m \in members}
           bars == {b \in i.bars : b.available # Absent /\ b.available <= i.cutoff}
           records == {r \in i.records : r.memberKey \in keys}
           k == [i EXCEPT !.bars = bars, !.snapshot.cluster.members = members, !.records = records]
<1>1. KnownByCutoff(i) = k
  BY DEF KnownByCutoff, Known
<1>2. records = {r \in i.records : \E m \in members : r.memberKey = Study!researchMemberKey(m)}
  OBVIOUS
<1> HIDE DEF members, bars, records
<1>3. /\ k.cutoff = i.cutoff /\ k.initialStart = i.initialStart /\ k.plan = i.plan
      /\ k.bars = bars /\ k.snapshot.cluster.members = members /\ k.records = records
  BY DEF HasFields
<1> QED BY <1>1, <1>2, <1>3 DEF members, bars, records

(* Prices by the cutoff do not see a bar that came later.                  *)
LEMMA PriceBlind ==
    ASSUME NEW i, NEW k, NEW cutoff, cutoff # Absent, NEW instrument, NEW at,
           k.bars = {b \in i.bars : b.available # Absent /\ b.available <= cutoff}
    PROVE  Study!price(i, instrument, at, cutoff) = Study!price(k, instrument, at, cutoff)
  BY DEF Study!price

LEMMA ReturnsBlind ==
    ASSUME NEW i, NEW k, NEW cutoff, cutoff # Absent, NEW start, NEW end, k.plan = i.plan,
           k.bars = {b \in i.bars : b.available # Absent /\ b.available <= cutoff}
    PROVE  Study!returns(i, start, end, cutoff) = Study!returns(k, start, end, cutoff)
<1>1. \A instrument, at : Study!price(i, instrument, at, cutoff) = Study!price(k, instrument, at, cutoff)
  BY PriceBlind
<1> DEFINE instruments == <<i.plan.instrument, "SPY", i.plan.sector>>
           F(n) == Study!price(i, instruments[n], start, cutoff)
           T(n) == Study!price(i, instruments[n], end, cutoff)
           G(n) == Study!price(k, instruments[n], start, cutoff)
           U(n) == Study!price(k, instruments[n], end, cutoff)
<1>2. \A n : F(n) = G(n) /\ T(n) = U(n)
  BY <1>1
<1>3. Study!returns(i, start, end, cutoff)
        = IF \E n \in 1..3 : F(n) = {} \/ T(n) = {} THEN <<>>
          ELSE [n \in 1..3 |-> Study!Bps(Study!Value(F(n)), Study!Value(T(n)))]
  BY DEF Study!returns
<1>4. Study!returns(k, start, end, cutoff)
        = IF \E n \in 1..3 : G(n) = {} \/ U(n) = {} THEN <<>>
          ELSE [n \in 1..3 |-> Study!Bps(Study!Value(G(n)), Study!Value(U(n)))]
  BY DEF Study!returns
<1> HIDE DEF F, T, G, U
<1>5. [n \in 1..3 |-> Study!Bps(Study!Value(F(n)), Study!Value(T(n)))]
        = [n \in 1..3 |-> Study!Bps(Study!Value(G(n)), Study!Value(U(n)))]
  BY <1>2
<1>6. (\E n \in 1..3 : F(n) = {} \/ T(n) = {}) <=> (\E n \in 1..3 : G(n) = {} \/ U(n) = {})
  BY <1>2
<1> QED BY <1>3, <1>4, <1>5, <1>6

(* The record of a member that is known is found among those kept.         *)
LEMMA RecordBlind ==
    ASSUME NEW i, HasFields(i), Study!freezeResearchInput(i), NEW m \in i.snapshot.cluster.members, Known(i, m)
    PROVE  Study!RecordOf(KnownByCutoff(i), m) = Study!RecordOf(i, m)
<1> DEFINE k == KnownByCutoff(i)
           key == Study!researchMemberKey(m)
<1>1. PICK r \in i.records : r.memberKey = key
  BY DEF Study!freezeResearchInput, Study!RecordBound
<1>2. \A s \in i.records : s.memberKey = key => s = r
  BY <1>1 DEF Study!freezeResearchInput
<1>3. k.records \subseteq i.records /\ r \in k.records
  BY <1>1, KnownFields
<1> HIDE DEF key, k
<1>4. (CHOOSE s \in i.records : s.memberKey = key) = r
  BY <1>1, <1>2
<1>5. (CHOOSE s \in k.records : s.memberKey = key) = r
  BY <1>1, <1>2, <1>3
<1> QED BY <1>4, <1>5 DEF Study!RecordOf, key, k

LEMMA DependencyBlind ==
    ASSUME NEW i, HasFields(i), Study!freezeResearchInput(i), NEW m \in i.snapshot.cluster.members, Known(i, m)
    PROVE  Study!Dependency(KnownByCutoff(i), m) = Study!Dependency(i, m)
<1> DEFINE k == KnownByCutoff(i)
<1>1. Study!RecordOf(k, m) = Study!RecordOf(i, m) /\ k.cutoff = i.cutoff
  BY RecordBlind, KnownFields
<1> HIDE DEF k
<1> QED BY <1>1 DEF Study!Dependency, k

Dependencies(i) == {Study!Dependency(i, m) : m \in i.snapshot.cluster.members}

(* What is available does not change without what is not known.            *)
LEMMA AvailableBlind ==
    ASSUME NEW i, HasFields(i), Study!freezeResearchInput(i)
    PROVE  {d \in Dependencies(i) : d.available} = {d \in Dependencies(KnownByCutoff(i)) : d.available}
<1> DEFINE k == KnownByCutoff(i)
           D(m) == Study!Dependency(i, m)
           E(m) == Study!Dependency(k, m)
           members == i.snapshot.cluster.members
           known == k.snapshot.cluster.members
<1>1. \A m : D(m).available => Known(i, m)
  BY DEF Study!Dependency, Known, Study!None
<1>2. known = {m \in members : Known(i, m)}
  BY KnownFields
<1>3. \A m \in known : E(m) = D(m)
  BY <1>2, DependencyBlind
<1>4. Dependencies(i) = {D(m) : m \in members} /\ Dependencies(k) = {E(m) : m \in known}
  BY DEF Dependencies
<1> HIDE DEF k, D, E, members, known
<1>5. {d \in {D(m) : m \in members} : d.available} = {d \in {E(m) : m \in known} : d.available}
  BY <1>1, <1>2, <1>3
<1> QED BY <1>4, <1>5 DEF k

LEMMA TimeBlind ==
    ASSUME NEW D, NEW E, {d \in D : d.available} = {d \in E : d.available}, NEW lane
    PROVE  Study!usableTime(D, lane) = Study!usableTime(E, lane)
<1>1. {e \in D : e.lane = lane /\ e.available} = {e \in E : e.lane = lane /\ e.available}
  OBVIOUS
<1> QED BY <1>1 DEF Study!usableTime

(* The feature of an admitted event is blind to what came after.           *)
LEMMA FeatureIsBlind ==
    ASSUME NEW p, NEW i, HasFields(i), Study!freezeResearchInput(i)
    PROVE  FeatureBlind(p, i)
<1> DEFINE k == KnownByCutoff(i)
           D == Dependencies(i)
           E == Dependencies(k)
           r == Study!returns(i, i.initialStart, i.cutoff, i.cutoff)
           q == Study!returns(k, k.initialStart, k.cutoff, k.cutoff)
           full == Study!feature(p, i)
           known == Study!feature(p, k)
<1>1. Study!usableTime(D, "sec") = Study!usableTime(E, "sec")
      /\ Study!usableTime(D, "issuer-ir") = Study!usableTime(E, "issuer-ir")
  BY AvailableBlind, TimeBlind
<1>2. i.cutoff # Absent
  BY StudyAssumption DEF Study!freezeResearchInput
<1>3. r = q
  BY <1>2, KnownFields, ReturnsBlind
<1>4. /\ full.sourceOrder = Study!sourceOrder(p, Study!usableTime(D, "sec"), Study!usableTime(D, "issuer-ir"))
      /\ full.initialReaction = IF r = <<>> THEN Absent ELSE r[1] - Study!benchmark(p, r)
  BY DEF Study!feature, Dependencies
<1>5. /\ known.sourceOrder = Study!sourceOrder(p, Study!usableTime(E, "sec"), Study!usableTime(E, "issuer-ir"))
      /\ known.initialReaction = IF q = <<>> THEN Absent ELSE q[1] - Study!benchmark(p, q)
  BY DEF Study!feature, Dependencies
<1> HIDE DEF D, E, r, q, full, known, k
<1>6. full.sourceOrder = known.sourceOrder /\ full.initialReaction = known.initialReaction
  BY <1>1, <1>3, <1>4, <1>5
<1>7. \A v : Study!Direction(v, full) = Study!Direction(v, known)
  BY <1>6 DEF Study!Direction
<1> QED BY <1>6, <1>7 DEF FeatureBlind, full, known, k

-----------------------------------------------------------------------------
Protocol(p) == p.boundaries \in [1..4 -> Nat] /\ p.entryDelay \in Nat /\ Study!parseProtocol(p)

(* An event is left out for a reason, or decided in one of the partitions. *)
LEMMA PartitionCases ==
    ASSUME NEW p, Protocol(p), NEW i, i.decision \in Nat
    PROVE  LET split == Study!partition(p, i)
           IN  \/ split.name = "excluded" /\ split.reason # Study!None
               \/ \E n \in 1..3 : /\ split.name = Study!PartitionNames[n] /\ split.name # "excluded"
                                  /\ split.start = p.boundaries[n] /\ split.end = p.boundaries[n + 1]
<1> DEFINE split == Study!partition(p, i)
           out(reason) == [name |-> "excluded", start |-> 0, end |-> 0, reason |-> reason]
           within == {n \in 1..3 : p.boundaries[n] <= i.decision /\ i.decision < p.boundaries[n + 1]}
           Inside(n) == [name |-> Study!PartitionNames[n], start |-> p.boundaries[n],
                         end |-> p.boundaries[n + 1], reason |-> Study!None]
<1>1. ASSUME within # {} PROVE Study!Min(within) \in 1..3
  <2>1. \E n \in within : \A m \in within : n <= m
    BY <1>1
  <2> HIDE DEF within
  <2>2. Study!Min(within) \in within
    BY <2>1 DEF Study!Min
  <2> QED BY <2>2 DEF within
<1> HIDE DEF within
<1>2. \/ \E reason \in {"outside-universe", "operational-repair", "stopped-cluster", "outside-partitions"} :
           split = out(reason)
      \/ within # {} /\ split = Inside(Study!Min(within))
  BY DEF Study!partition, within
<1>3. \A n \in 1..3 : Study!PartitionNames[n] # "excluded"
  BY DEF Study!PartitionNames
<1> HIDE DEF split
<1> QED BY <1>1, <1>2, <1>3 DEF Study!None, split

LEMMA BoundariesRise ==
    ASSUME NEW p, Protocol(p), NEW n \in 1..3, NEW m \in 1..3, n < m
    PROVE  p.boundaries[n + 1] <= p.boundaries[m]
<1>1. /\ \A j \in 1..4 : p.boundaries[j] \in Nat
      /\ p.boundaries[1] < p.boundaries[2] /\ p.boundaries[2] < p.boundaries[3]
      /\ p.boundaries[3] < p.boundaries[4]
  BY DEF Protocol, Study!parseProtocol
<1>2. <<n, m>> \in {<<1, 2>>, <<1, 3>>, <<2, 3>>}
  OBVIOUS
<1> QED BY <1>1, <1>2

(* The entry is at least a minute after the decision.                      *)
LEMMA RoundedUp ==
    ASSUME NEW x \in Nat, NEW k \in Nat \ {0}
    PROVE  (x \div k) * k \in Nat /\ x - k < (x \div k) * k
<1>1. x \div k \in Nat /\ x % k \in 0..(k - 1) /\ x = k * (x \div k) + (x % k)
  OBVIOUS
<1> QED BY <1>1

LEMMA EntryLater ==
    ASSUME NEW p, Protocol(p), NEW i, i.decision \in Nat
    PROVE  Study!EntryOf(p, i) \in Nat /\ i.decision < Study!EntryOf(p, i)
<1> DEFINE x == i.decision + p.entryDelay + Minute - 1
<1>1. Minute \in Nat \ {0} /\ p.entryDelay \in Nat /\ p.entryDelay >= Minute
  BY StudyAssumption DEF Protocol, Study!parseProtocol
<1>2. x \in Nat /\ x - Minute >= i.decision
  BY <1>1
<1>3. Study!EntryOf(p, i) = (x \div Minute) * Minute
  BY DEF Study!EntryOf
<1> HIDE DEF x
<1>4. (x \div Minute) * Minute \in Nat /\ x - Minute < (x \div Minute) * Minute
  BY <1>1, <1>2, RoundedUp
<1> QED BY <1>1, <1>2, <1>3, <1>4

LEMMA LabelStands ==
    ASSUME NEW p, NEW i, NEW h, Study!label(p, i, h).status = "available"
    PROVE  LET split == Study!partition(p, i)
               l == Study!label(p, i, h)
           IN  /\ l.input = i /\ l.entry = Study!EntryOf(p, i) /\ l.exit = Study!ExitOf(i, h)
               /\ split.name # "excluded" /\ ~(l.exit >= split.end) /\ ~(i.initialStart < split.start)
               /\ ~(l.entry >= l.exit)
  BY DEF Study!label

LEMMA ExitTyped ==
    ASSUME NEW i, {i.decision, i.close, i.next} \subseteq Nat, NEW h \in Study!Horizons
    PROVE  Study!ExitOf(i, h) \in Nat
<1>1. CASE h[1] = "close" \/ h[1] = "next-session"
  BY <1>1 DEF Study!ExitOf
<1>2. CASE h[1] # "close" /\ h[1] # "next-session"
  <2>0. h \in {"minutes"} \X Minutes
    BY <1>2 DEF Study!Horizons
  <2>1. h[2] \in Nat /\ Minute \in Nat
    BY <2>0, StudyAssumption
  <2>2. h[2] * Minute \in Nat
    BY <2>1
  <2>3. Study!ExitOf(i, h) = i.decision + h[2] * Minute
    BY <1>2 DEF Study!ExitOf
  <2> QED BY <2>2, <2>3
<1> QED BY <1>1, <1>2

(* The window of an available label lies in the partition of its event.    *)
WindowIn(p, i, l, n) ==
  /\ Study!partition(p, i).name = Study!PartitionNames[n]
  /\ p.boundaries[n] <= i.initialStart /\ l.exit < p.boundaries[n + 1]

LEMMA WindowWithin ==
    ASSUME NEW p, Protocol(p), NEW i, Study!freezeResearchInput(i), NEW h \in Study!Horizons,
           Study!label(p, i, h).status = "available"
    PROVE  LET l == Study!label(p, i, h)
           IN  /\ l.input = i /\ {l.entry, l.exit, i.initialStart} \subseteq Nat
               /\ i.cutoff <= i.decision /\ i.decision < l.entry /\ l.entry < l.exit
               /\ \E n \in 1..3 : WindowIn(p, i, l, n)
<1> DEFINE l == Study!label(p, i, h)
           split == Study!partition(p, i)
<1>1. {i.decision, i.cutoff, i.initialStart, i.close, i.next} \subseteq Nat /\ i.cutoff <= i.decision
  BY DEF Study!freezeResearchInput
<1>2. /\ l.input = i /\ l.entry = Study!EntryOf(p, i) /\ l.exit = Study!ExitOf(i, h)
      /\ split.name # "excluded" /\ ~(l.exit >= split.end) /\ ~(i.initialStart < split.start)
      /\ ~(l.entry >= l.exit)
  BY LabelStands
<1>3. l.entry \in Nat /\ i.decision < l.entry /\ l.exit \in Nat
  BY <1>1, <1>2, EntryLater, ExitTyped
<1>4. PICK n \in 1..3 : /\ split.name = Study!PartitionNames[n]
                        /\ split.start = p.boundaries[n] /\ split.end = p.boundaries[n + 1]
  BY <1>1, <1>2, PartitionCases
<1>5. p.boundaries[n] \in Nat /\ p.boundaries[n + 1] \in Nat
  BY DEF Protocol
<1> HIDE DEF l
<1>6. WindowIn(p, i, l, n)
  BY <1>1, <1>2, <1>3, <1>4, <1>5 DEF WindowIn
<1>7. l.entry < l.exit
  BY <1>2, <1>3
<1> QED BY <1>1, <1>2, <1>3, <1>6, <1>7 DEF l

LEMMA TwoWindows ==
    ASSUME NEW p, Protocol(p), NEW i, NEW l, NEW j, NEW m, NEW a \in 1..3, NEW b \in 1..3,
           {l.exit, m.exit, i.initialStart, j.initialStart} \subseteq Nat,
           WindowIn(p, i, l, a), WindowIn(p, j, m, b),
           Study!partition(p, i).name # Study!partition(p, j).name
    PROVE  l.exit < j.initialStart \/ m.exit < i.initialStart
<1>1. a < b \/ b < a
  BY DEF WindowIn
<1>2. \A n \in 1..4 : p.boundaries[n] \in Nat
  BY DEF Protocol
<1>3. CASE a < b
  <2>1. p.boundaries[a + 1] <= p.boundaries[b]
    BY <1>3, BoundariesRise
  <2> QED BY <1>2, <2>1 DEF WindowIn
<1>4. CASE b < a
  <2>1. p.boundaries[b + 1] <= p.boundaries[a]
    BY <1>4, BoundariesRise
  <2> QED BY <1>2, <2>1 DEF WindowIn
<1> QED BY <1>1, <1>3, <1>4

LEMMA LabelsApart ==
    ASSUME NEW p, Protocol(p), NEW inputs, \A i \in inputs : Study!freezeResearchInput(i)
    PROVE  WindowsApart(p, {Study!label(p, i, h) : i \in inputs, h \in Study!Horizons})
<1> DEFINE labels == {Study!label(p, i, h) : i \in inputs, h \in Study!Horizons}
           used == {l \in labels : l.status = "available"}
<1>1. ASSUME NEW l \in used
      PROVE  /\ {l.entry, l.exit, l.input.initialStart} \subseteq Nat
             /\ l.input.cutoff <= l.input.decision /\ l.input.decision < l.entry /\ l.entry < l.exit
             /\ \E n \in 1..3 : WindowIn(p, l.input, l, n)
  <2>1. PICK i \in inputs, h \in Study!Horizons : l = Study!label(p, i, h)
    OBVIOUS
  <2>2. Study!freezeResearchInput(i) /\ Study!label(p, i, h).status = "available"
    BY <2>1
  <2> QED BY <2>1, <2>2, WindowWithin
<1> HIDE DEF used
<1>2. ASSUME NEW l \in used, NEW m \in used,
             Study!partition(p, l.input).name # Study!partition(p, m.input).name
      PROVE  l.exit < m.input.initialStart \/ m.exit < l.input.initialStart
  <2>1. PICK a \in 1..3 : WindowIn(p, l.input, l, a)
    BY <1>1
  <2>2. PICK b \in 1..3 : WindowIn(p, m.input, m, b)
    BY <1>1
  <2>3. {l.exit, m.exit, l.input.initialStart, m.input.initialStart} \subseteq Nat
    BY <1>1
  <2> QED BY <1>2, <2>1, <2>2, <2>3, TwoWindows
<1> HIDE DEF labels
<1> QED BY <1>1, <1>2 DEF WindowsApart, used, labels

-----------------------------------------------------------------------------
TrialOf(p, v, i, h) == Study!Trial(v, Study!feature(p, i), Study!label(p, i, h))

LEMMA TrialFields ==
    ASSUME NEW p, NEW v, NEW i, NEW h
    PROVE  LET t == TrialOf(p, v, i, h)
           IN  /\ t.variant = v.id /\ t.partition = Study!partition(p, i).name
               /\ t.label.horizon = h /\ t.feature.input = i
<1>1. Study!feature(p, i).partition = Study!partition(p, i).name /\ Study!feature(p, i).input = i
  BY DEF Study!feature
<1>2. Study!label(p, i, h).horizon = h
  BY DEF Study!label
<1> QED BY <1>1, <1>2 DEF TrialOf, Study!Trial

(* A trial of an event that is left out has failed.                        *)
LEMMA ExcludedFails ==
    ASSUME NEW p, Protocol(p), NEW v, NEW i, i.decision \in Nat, NEW h,
           Study!partition(p, i).name = "excluded"
    PROVE  TrialOf(p, v, i, h).net = Absent
<1> DEFINE l == Study!label(p, i, h)
<1>1. Study!partition(p, i).reason # Study!None
  BY PartitionCases
<1>2. l.reason = Study!partition(p, i).reason
  BY DEF Study!label
<1> HIDE DEF l
<1> QED BY <1>1, <1>2 DEF TrialOf, Study!Trial, l

(* The study counts with the same Cardinality.                             *)
LEMMA SameCount == \A S : Study!Cardinality(S) = Cardinality(S)
  BY DEF Study!Cardinality, Cardinality

Trials(p, inputs) ==
  UNION {{TrialOf(p, v, i, h) : v \in p.variants, h \in Study!Horizons} : i \in inputs}

PartOf(p, inputs, part) == {i \in inputs : Study!partition(p, i).name = part}

SignalTrials(p, inputs, v, h, part) ==
  {t \in Trials(p, inputs) : t.variant = v.id /\ t.partition = part /\ t.label.horizon = h}

(* A signal selects one trial of every event of its partition.             *)
LEMMA SelectedTrials ==
    ASSUME NEW p, Protocol(p), NEW inputs, NEW v \in p.variants, NEW h \in Study!Horizons, NEW part
    PROVE  SignalTrials(p, inputs, v, h, part) = {TrialOf(p, v, i, h) : i \in PartOf(p, inputs, part)}
<1> DEFINE I == PartOf(p, inputs, part)
<1>1. ASSUME NEW t \in SignalTrials(p, inputs, v, h, part) PROVE \E i \in I : t = TrialOf(p, v, i, h)
  <2>1. t \in Trials(p, inputs) /\ t.variant = v.id /\ t.partition = part /\ t.label.horizon = h
    BY DEF SignalTrials
  <2>2. PICK i \in inputs, w \in p.variants, g \in Study!Horizons : t = TrialOf(p, w, i, g)
    BY <2>1 DEF Trials
  <2>3. w.id = v.id /\ Study!partition(p, i).name = part /\ g = h
    BY <2>1, <2>2, TrialFields
  <2>4. w = v
    BY <2>3 DEF Protocol, Study!parseProtocol
  <2> QED BY <2>2, <2>3, <2>4 DEF PartOf
<1>2. ASSUME NEW i \in I PROVE TrialOf(p, v, i, h) \in SignalTrials(p, inputs, v, h, part)
  <2>1. i \in inputs /\ Study!partition(p, i).name = part
    BY DEF PartOf
  <2>2. TrialOf(p, v, i, h) \in Trials(p, inputs)
    BY <2>1 DEF Trials
  <2> QED BY <2>1, <2>2, TrialFields DEF SignalTrials
<1> QED BY <1>1, <1>2

LEMMA SelectedCount ==
    ASSUME NEW p, Protocol(p), NEW inputs, IsFiniteSet(inputs), NEW v \in p.variants,
           NEW h \in Study!Horizons, NEW part
    PROVE  Cardinality(SignalTrials(p, inputs, v, h, part)) = Cardinality(PartOf(p, inputs, part))
<1> DEFINE I == PartOf(p, inputs, part)
           T == SignalTrials(p, inputs, v, h, part)
           f == [i \in I |-> TrialOf(p, v, i, h)]
<1>1. IsFiniteSet(I)
  BY FS_Subset DEF PartOf
<1>2. T = {TrialOf(p, v, i, h) : i \in I}
  BY SelectedTrials
<1>3. \A i, j \in I : TrialOf(p, v, i, h) = TrialOf(p, v, j, h) => i = j
  BY TrialFields
<1> HIDE DEF I, T
<1>4. f \in [I -> T] /\ (\A i, j \in I : f[i] = f[j] => i = j) /\ (\A t \in T : \E i \in I : f[i] = t)
  BY <1>2, <1>3
<1> HIDE DEF f
<1>5. f \in Bijection(I, T)
  BY <1>4 DEF Bijection, Injection, Surjection, IsInjective
<1>6. Cardinality(T) = Cardinality(I)
  BY <1>1, <1>5, FS_Bijection DEF ExistsBijection
<1> QED BY <1>6 DEF I, T

SignalOf(p, inputs, v, h, part) == Study!Signal(Trials(p, inputs), v, h, part)

LEMMA SignalFields ==
    ASSUME NEW p, NEW inputs, NEW v, NEW h, NEW part
    PROVE  LET g == SignalOf(p, inputs, v, h, part)
               selected == SignalTrials(p, inputs, v, h, part)
           IN  /\ g.variant = v.id /\ g.horizon = h /\ g.partition = part
               /\ g.attempted = Cardinality(selected)
               /\ g.completed = Cardinality({t \in selected : t.net # Absent})
  BY SameCount DEF SignalOf, Study!Signal, SignalTrials

Parts == {"train", "validation", "untouched-test", "excluded"}

LEMMA SignalsCount ==
    ASSUME NEW p, Protocol(p), NEW inputs, IsFiniteSet(inputs), \A i \in inputs : i.decision \in Nat
    PROVE  TrialsCounted(p, inputs, {SignalOf(p, inputs, v, h, part) :
                                       v \in p.variants, h \in Study!Horizons, part \in Parts})
<1> DEFINE signals == {SignalOf(p, inputs, v, h, part) :
                         v \in p.variants, h \in Study!Horizons, part \in Parts}
<1>1. ASSUME NEW v \in p.variants, NEW h \in Study!Horizons, NEW i \in inputs
      PROVE  \E g \in signals :
               <<g.variant, g.horizon, g.partition>> = <<v.id, h, Study!partition(p, i).name>>
  <2> DEFINE part == Study!partition(p, i).name
  <2>1. part \in Parts
    BY PartitionCases DEF Parts, Study!PartitionNames
  <2>2. \A q : LET g == SignalOf(p, inputs, v, h, q)
               IN  g.variant = v.id /\ g.horizon = h /\ g.partition = q
    BY DEF SignalOf, Study!Signal
  <2> HIDE DEF part
  <2>3. SignalOf(p, inputs, v, h, part) \in signals
    BY <2>1
  <2> HIDE DEF signals
  <2> QED BY <2>2, <2>3 DEF part
<1>2. ASSUME NEW g \in signals
      PROVE  /\ g.attempted = Cardinality(PartOf(p, inputs, g.partition))
             /\ g.partition = "excluded" => g.completed = 0
  <2>1. PICK v \in p.variants, h \in Study!Horizons, part \in Parts : g = SignalOf(p, inputs, v, h, part)
    OBVIOUS
  <2> DEFINE selected == SignalTrials(p, inputs, v, h, part)
  <2>2. /\ g.partition = part /\ g.attempted = Cardinality(selected)
        /\ g.completed = Cardinality({t \in selected : t.net # Absent})
    BY <2>1, SignalFields
  <2>3. g.attempted = Cardinality(PartOf(p, inputs, part))
    BY <2>2, SelectedCount
  <2>4. ASSUME part = "excluded" PROVE g.completed = 0
    <3>1. ASSUME NEW t \in selected PROVE t.net = Absent
      <4>1. PICK i \in PartOf(p, inputs, part) : t = TrialOf(p, v, i, h)
        BY SelectedTrials
      <4>2. i.decision \in Nat /\ Study!partition(p, i).name = "excluded"
        BY <2>4 DEF PartOf
      <4> QED BY <4>1, <4>2, ExcludedFails
    <3> HIDE DEF selected
    <3>2. {t \in selected : t.net # Absent} = {}
      BY <3>1
    <3> QED BY <2>2, <3>2, FS_EmptySet
  <2> QED BY <2>2, <2>3, <2>4
<1> HIDE DEF signals
<1> QED BY <1>1, <1>2 DEF TrialsCounted, signals, PartOf

(* The subject and its setting never change.                               *)
StudyInv == subject = "research" => setting \in Studies

(* Whatever the evidence, the protocol and the cohort of an admitted       *)
(* study: features rest on what their cutoff let be known, labels on later *)
(* prices of their own partition, and every trial is counted.              *)
THEOREM StudiesNeverLookAhead == Spec => []NoLookAhead
<1>1. Init => StudyInv
  BY DEF Init, StudyInv
<1>2. StudyInv /\ [Next]_vars => StudyInv'
  BY DEF StudyInv, Next, vars, Record, GiveToken, GiveNativeEvent, GiveTrade, GiveTimelineEvent,
         GiveCloseFact, Deliver, GiveEvidence, RecordEntry, WriteCheckpoint
<1>3. StudyInv => NoLookAhead
  <2> DEFINE p == setting.protocol
             inputs == {StudyInput} \cup setting.others
             evaluation == Study!evaluateManifest(p, inputs)
  <2> SUFFICES ASSUME StudyInv, subject = "research", Study!freezeManifest(p, inputs)
               PROVE  /\ FeatureBlind(p, StudyInput) /\ WindowsApart(p, evaluation.labels)
                      /\ TrialsCounted(p, inputs, evaluation.signals)
    BY DEF NoLookAhead
  <2>1. setting \in Studies
    BY DEF StudyInv
  <2>2. HasFields(setting.event) /\ IsFiniteSet(setting.others)
        /\ p.boundaries \in [1..4 -> Nat] /\ p.entryDelay \in Nat
    BY <2>1, StudyAssumption DEF HasFields
  <2>3. Protocol(p) /\ \A i \in inputs : Study!freezeResearchInput(i)
    BY <2>2 DEF Protocol, Study!freezeManifest
  <2>4. HasFields(StudyInput)
    BY <2>2 DEF HasFields, StudyInput
  <2>5. FeatureBlind(p, StudyInput)
    BY <2>3, <2>4, FeatureIsBlind
  <2>6. IsFiniteSet(inputs)
    BY <2>2, FS_AddElement
  <2>7. \A i \in inputs : i.decision \in Nat
    BY <2>3 DEF Study!freezeResearchInput
  <2> HIDE DEF p, inputs
  <2>8. /\ evaluation.labels = {Study!label(p, i, h) : i \in inputs, h \in Study!Horizons}
        /\ evaluation.signals = {SignalOf(p, inputs, v, h, part) :
                                   v \in p.variants, h \in Study!Horizons, part \in Parts}
    BY DEF Study!evaluateManifest, SignalOf, Trials, TrialOf, Parts
  <2> HIDE DEF evaluation
  <2> QED BY <2>3, <2>5, <2>6, <2>7, <2>8, LabelsApart, SignalsCount
<1> QED BY <1>1, <1>2, <1>3, PTL DEF Spec
=============================================================================
