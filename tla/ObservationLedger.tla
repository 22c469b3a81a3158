-------------------------- MODULE ObservationLedger --------------------------
(***************************************************************************)
(* The observation ledger (src/providers/observation-ledger.ts): entries   *)
(* that name their causal parents by content hash, checked as a bundle,    *)
(* paged, and replayed under another execution identity.                   *)
(* Every hash is the value it is taken of, so an entry's identity is the   *)
(* entry itself, its parents and their parents nested in it.               *)
(***************************************************************************)
EXTENDS ExactPrices, SequencesExt, FiniteSetsExt

CONSTANTS MaxEntries, MaxEdges, MaxDepth, MaxParents, MaxSymbols, MaxClockBases,
          MaxPerAcquisition, MaxProjectionsPerSubject, MaxLinks

NoClock == [basis |-> Absent, wall |-> Absent, mono |-> Absent]

NormalizationKinds == {"normalization.emitted", "normalization.ignored", "normalization.quarantined"}
CaptureKinds == {"capture.appended", "capture.redelivered"}
RequestKinds == {"request.started", "request.succeeded"}

-----------------------------------------------------------------------------
(* Derived identities.                                                     *)
deriveClockBasisId(b) == <<"clk1", b>>
deriveIssuerMappingId(m) == <<"imap1", m>>
deriveAcquisitionObservationId(f) == <<"aob1", f.provider, f.attempt, f.request, f.route>>
deriveProjectionDigest(projection) == <<"digest", projection>>
deriveRawEvidenceSetHash(links) == {<<l.role, l.digest>> : l \in links}
deriveProjectionId(f) ==
  <<"prj1", f.loader, f.normalizer, deriveRawEvidenceSetHash(f.links), f.projection>>
deriveSourceRecordIdentity(s) == <<"src1", s.provider, s.source, s.record>>
deriveSourceVersionIdentity(s, projection, bundle) ==
  <<"svr1", deriveSourceRecordIdentity(s), s.revision, projection, bundle>>
deriveRevisionFamilyIdentity(s) == <<"rvf1", s.provider, s.source, s.record>>
deriveSourceObservationId(f) ==
  <<"sob1", f.source.version, deriveProjectionId(f), {l.acquisition : l \in f.links}>>
deriveMarketReferenceJoinKey(f) ==
  <<"mrj1", f.subject, f.issuer, f.observation, f.version, f.basis>>

-----------------------------------------------------------------------------
(* Field validation.                                                       *)
validateTrustedObservationBasis(b) ==
  \/ b.kind = "capture" /\ {"event", "received", "logical", "clock"} \subseteq DOMAIN b
  \/ b.kind = "retrieval" /\ {"role", "acquisition", "vault", "retrieved", "clock"} \subseteq DOMAIN b

validateClockBasis(b) ==
  /\ (b.wallClock # "system-utc") <=> (b.synchronization = "not-applicable")
  /\ (b.synchronization = "verified-bound") <=> (b.maximumError # Absent)
  /\ (b.monotonicClock = "none") <=> (b.session = Absent)

validateIssuerMapping(m) ==
  /\ Cardinality(m.symbols) \in 1..MaxSymbols
  /\ m.selected \in m.symbols \cup {Absent}
  /\ (m.from # Absent /\ m.to # Absent) => m.from < m.to

validateClockStamp(c) == c.basis = Absent => c = NoClock

validateRawArtifactLinks(links) ==
  /\ Cardinality(links) \in 1..MaxLinks
  /\ \A l, k \in links : l.role = k.role => l = k

validatePublicationTime(t) ==
  CASE t.confidence = "unknown" -> t.at = Absent /\ t.original = Absent
    [] t.confidence = "inferred" -> t.at # Absent
    [] OTHER -> t.at # Absent /\ t.original # Absent

validateSourceIdentity(s, projection, bundle) ==
  /\ s.recordIdentity = deriveSourceRecordIdentity(s)
  /\ s.version = deriveSourceVersionIdentity(s, projection, bundle)
  /\ s.family = deriveRevisionFamilyIdentity(s)

EmittedFacts(f) ==
  /\ validateIssuerMapping(f.issuer)
  /\ validatePublicationTime(f.publication)
  /\ validateRawArtifactLinks(f.links)
  /\ IF f.primaryKind = "raw-artifact"
     THEN Cardinality({l \in f.links : l.digest = f.primary}) = 1
     ELSE f.primary = f.projection
  /\ validateSourceIdentity(f.source, f.projection, f.bundle)
  /\ f.projectionId = deriveProjectionId(f)
  /\ f.observation = deriveSourceObservationId(f)

OtherNormalizationFacts(f) ==
  /\ validateRawArtifactLinks(f.links)
  /\ (f.normalizer = Absent) <=> (f.transcript = Absent)
  /\ f.kind = "normalization.ignored" => f.normalizer # Absent

SelectionFacts(f) ==
  /\ (f.purpose = "analysis-branch-input") <=> (f.branch # Absent)
  /\ f.selectionBasis = f.basis.kind
  /\ validateTrustedObservationBasis(f.basis)
  /\ f.asOf >= (IF f.basis.kind = "capture" THEN f.basis.received ELSE f.basis.retrieved)
  /\ f.join = IF f.purpose = "market-reference-anchor"
              THEN deriveMarketReferenceJoinKey(f) ELSE Absent

validateFacts(f) ==
  /\ f.kind = "clock-basis.declared" => validateClockBasis(f.basis)
  /\ f.kind = "acquisition.declared" => f.acquisition = deriveAcquisitionObservationId(f)
  /\ f.kind = "artifact.verified" => f.metadataSize = f.consumedSize
  /\ f.kind = "normalization.emitted" => EmittedFacts(f)
  /\ f.kind \in {"normalization.ignored", "normalization.quarantined"} => OtherNormalizationFacts(f)
  /\ f.kind \in CaptureKinds => f.position >= 1
  /\ f.kind = "selection.recorded" => SelectionFacts(f)
  /\ f.kind = "clock.regression" => f.currentWall < f.priorWall

Kind(e) == e.facts.kind

createObservationLedgerEntry(execution, parents, clock, facts) ==
  [execution |-> execution, parents |-> parents, clock |-> clock, facts |-> facts]

EntryValid(e) ==
  /\ Cardinality(e.parents) <= MaxParents
  /\ validateClockStamp(e.clock)
  /\ validateFacts(e.facts)

-----------------------------------------------------------------------------
(* Causality: which kinds of entry an entry follows (one set of kinds per  *)
(* parent) and how its facts agree with theirs.                            *)
requiredCausalKinds(f) ==
  CASE f.kind = "request.started" -> <<{"acquisition.declared"}>>
    [] f.kind = "request.succeeded" -> <<{"request.started"}>>
    [] f.kind = "artifact.committed" ->
         IF f.mode = "live" THEN <<{"acquisition.declared"}, {"request.succeeded"}>>
         ELSE <<{"acquisition.declared"}>>
    [] f.kind = "artifact.verified" -> <<{"artifact.committed"}>>
    [] f.kind \in NormalizationKinds -> [i \in 1..Cardinality(f.links) |-> {"artifact.verified"}]
    [] f.kind \in CaptureKinds -> <<{"normalization.emitted"}>>
    [] f.kind = "selection.recorded" ->
         IF f.selectionBasis = "capture" THEN <<CaptureKinds>>
         ELSE <<{"artifact.verified"}, {"normalization.emitted"}>>
    [] f.kind = "failure.recorded" -> <<{f.failedAfter}>>
    [] OTHER -> <<>>

causalParents(e) == {p \in e.parents : Kind(p) # "clock-basis.declared"}

KindsMatch(e) ==
  LET required == requiredCausalKinds(e.facts)
      parents == causalParents(e)
  IN /\ Cardinality(parents) = Len(required)
     /\ \A kinds \in Range(required) :
          Cardinality({p \in parents : Kind(p) \in kinds})
            = Cardinality({i \in DOMAIN required : required[i] = kinds})

HasAcquisition(f) == "acquisition" \in DOMAIN f

AcquisitionsAgree(e) ==
  (HasAcquisition(e.facts) /\ e.facts.acquisition # Absent) =>
    \A p \in causalParents(e) :
      HasAcquisition(p.facts) => p.facts.acquisition = e.facts.acquisition

RegressionAgrees(e) ==
  LET f == e.facts
      prior == f.prior.clock
      regressing == f.regressing.clock
  IN /\ causalParents(e) = {f.prior, f.regressing}
     /\ prior.basis # Absent
     /\ e.clock = regressing
     /\ prior.basis = regressing.basis
     /\ f.priorWall = prior.wall /\ f.currentWall = regressing.wall
     /\ (prior.mono # Absent /\ regressing.mono # Absent) => prior.mono <= regressing.mono
     /\ f.preserved = (/\ prior.mono # Absent /\ regressing.mono # Absent
                       /\ prior.mono < regressing.mono)

Evidence(f) == <<f.vault, f.digest>>

VerifiedAgrees(e) ==
  \A p \in causalParents(e) :
    /\ Evidence(p.facts) = Evidence(e.facts)
    /\ p.facts.size = e.facts.metadataSize

(* The commit behind a link, if the parents verify that link.              *)
LinkCommits(parents, l) ==
  UNION {{c \in v.parents : /\ Kind(c) = "artifact.committed"
                            /\ c.facts.acquisition = l.acquisition
                            /\ Evidence(c.facts) = Evidence(l)
                            /\ c.facts.vaultHash = l.vaultHash
                            /\ c.facts.size = l.size} :
           v \in {p \in parents : /\ Kind(p) = "artifact.verified"
                                  /\ p.facts.acquisition = l.acquisition
                                  /\ Evidence(p.facts) = Evidence(l)
                                  /\ p.facts.metadataSize = l.size}}

NormalizationAgrees(e) == \A l \in e.facts.links : LinkCommits(causalParents(e), l) # {}

CaptureAgrees(e) ==
  \A p \in causalParents(e) :
    /\ p.facts.observation = e.facts.observation
    /\ p.facts.source.version = e.facts.version

SelectedNormalizations(e) ==
  LET parents == causalParents(e)
  IN {n \in (IF e.facts.selectionBasis = "capture" THEN UNION {c.parents : c \in parents}
             ELSE parents) : Kind(n) = "normalization.emitted"}

SelectionAgrees(e) ==
  LET f == e.facts
      parents == causalParents(e)
  IN \E n \in SelectedNormalizations(e) :
       /\ f.observation = n.facts.observation
       /\ f.version = n.facts.source.version
       /\ f.subject = n.facts.subject
       /\ f.issuer = deriveIssuerMappingId(n.facts.issuer)
       /\ IF f.basis.kind = "capture"
          THEN \E c \in parents :
                 /\ f.basis.event = c.facts.event
                 /\ f.basis.received = c.facts.received /\ f.basis.logical = c.facts.logical
                 /\ f.basis.clock = c.clock.basis
          ELSE \E l \in n.facts.links :
                 /\ l.role = f.basis.role
                 /\ l.acquisition = f.basis.acquisition /\ l.vault = f.basis.vault
                 /\ \E c \in LinkCommits(parents, l) :
                      /\ c.facts.retrieved # Absent /\ c.facts.retrieved = f.basis.retrieved
                      /\ c.clock.basis # Absent /\ c.clock.basis = f.basis.clock

FailureStages ==
  {<<"request", "acquisition.declared">>, <<"request", "request.started">>,
   <<"artifact-store", "request.succeeded">>, <<"verified-read", "artifact.committed">>,
   <<"normalization", "artifact.verified">>, <<"capture", "normalization.emitted">>,
   <<"selection", "normalization.emitted">>, <<"selection", "capture.appended">>,
   <<"selection", "capture.redelivered">>}

FailureAgrees(e) ==
  LET f == e.facts
  IN /\ <<f.stage, f.failedAfter>> \in FailureStages
     /\ \A p \in causalParents(e) :
          IF f.stage \in {"capture", "selection"}
          THEN f.acquisition = Absent /\ f.observation = p.facts.observation
          ELSE f.acquisition = p.facts.acquisition /\ f.observation = Absent

validateParentTransition(e) ==
  IF Kind(e) = "clock.regression" THEN RegressionAgrees(e)
  ELSE /\ KindsMatch(e)
       /\ AcquisitionsAgree(e)
       /\ Kind(e) = "artifact.verified" => VerifiedAgrees(e)
       /\ Kind(e) \in NormalizationKinds => NormalizationAgrees(e)
       /\ Kind(e) \in CaptureKinds => CaptureAgrees(e)
       /\ Kind(e) = "selection.recorded" => SelectionAgrees(e)
       /\ Kind(e) = "failure.recorded" => FailureAgrees(e)

-----------------------------------------------------------------------------
(* The bundle: what an entry may add after the ones before it.             *)
Of(seen, kinds) == {e \in ToSet(seen) : Kind(e) \in kinds}

Acquisitions(f) ==
  (IF HasAcquisition(f) THEN {f.acquisition} \ {Absent} ELSE {})
    \cup (IF f.kind \in NormalizationKinds THEN {l.acquisition : l \in f.links} ELSE {})

Failed(seen, stages) ==
  {e.facts.acquisition : e \in {d \in Of(seen, {"failure.recorded"}) : d.facts.stage \in stages}}

(* depths: of the entries seen so far.                                     *)
DepthBy(depths, seen, parents) ==
  1 + Max({0} \cup {depths[i] : i \in {j \in DOMAIN depths : seen[j] \in parents}})
Depths(seen) ==
  FoldLeft(LAMBDA depths, e : Append(depths, DepthBy(depths, seen, e.parents)), <<>>, seen)

WithinLimits(seen, e) ==
  /\ Len(seen) < MaxEntries
  /\ FoldSeq(LAMBDA d, n : n + Cardinality(d.parents), Cardinality(e.parents), seen) <= MaxEdges
  /\ DepthBy(Depths(seen), seen, e.parents) <= MaxDepth
  /\ \A a \in Acquisitions(e.facts) :
       Cardinality({d \in ToSet(seen) : a \in Acquisitions(d.facts)}) < MaxPerAcquisition
  /\ Kind(e) = "normalization.emitted" =>
       Cardinality({d \in Of(seen, {"normalization.emitted"}) : d.facts.subject = e.facts.subject})
         < MaxProjectionsPerSubject

CommitIdentity(f) == <<f.vault, f.vaultHash, f.digest, f.size>>

RecordedWithoutRequest(f) == f.kind = "artifact.committed" /\ f.mode # "live"

(* Mutant: a later commit may carry another identity.                      *)
LifecycleAllows_Unchecked(seen, e) ==
  e.facts.kind = "artifact.committed" => e.facts.acquisition \notin Failed(seen, {"request"})

(* A request and a recorded commit exclude each other, a failure blocks    *)
(* what follows it, and an acquisition and a vault observation have one    *)
(* commit identity.                                                        *)
LifecycleAllows(seen, e) ==
  LET f == e.facts
      SameAcquisition(d) == d.facts.acquisition = f.acquisition
  IN /\ f.kind \in NormalizationKinds =>
          Acquisitions(f) \cap Failed(seen, {"artifact-store", "verified-read", "normalization"}) = {}
     /\ f.kind \in RequestKinds =>
          ~\E d \in ToSet(seen) : RecordedWithoutRequest(d.facts) /\ SameAcquisition(d)
     /\ f.kind = "artifact.committed" =>
          /\ f.acquisition \notin Failed(seen, {"request"})
          /\ RecordedWithoutRequest(f) => ~\E d \in Of(seen, RequestKinds) : SameAcquisition(d)
          /\ \A d \in Of(seen, {"artifact.committed"}) :
               (SameAcquisition(d) \/ d.facts.vault = f.vault) => CommitIdentity(d.facts) = CommitIdentity(f)

RevisionKey(s) == <<s.provider, s.source, s.record, s.revision>>

RevisionsAgree(seen, e) ==
  Kind(e) = "normalization.emitted" =>
    \A d \in Of(seen, {"normalization.emitted"}) :
      RevisionKey(d.facts.source) = RevisionKey(e.facts.source) =>
        /\ d.facts.projection = e.facts.projection /\ d.facts.bundle = e.facts.bundle
        /\ d.facts.source.version = e.facts.source.version
        /\ d.facts.source.family = e.facts.source.family

-----------------------------------------------------------------------------
(* Clocks: a basis is declared once, its monotonic readings never go back, *)
(* and a wall clock that goes back is witnessed by one entry of its own.   *)
OnBasis(seen, basis) == SelectSeq(seen, LAMBDA e : e.clock.basis = basis)

RequiredRegressions(seen) ==
  UNION {LET s == OnBasis(seen, basis)
         IN {<<s[i - 1], s[i]>> : i \in {j \in 2..Len(s) : /\ Kind(s[j]) # "clock.regression"
                                                          /\ s[j].clock.wall < s[j - 1].clock.wall}} :
           basis \in {e.clock.basis : e \in ToSet(seen)} \ {Absent}}

Witness(e) == <<e.facts.prior, e.facts.regressing>>
WitnessedRegressions(seen) == {Witness(e) : e \in Of(seen, {"clock.regression"})}

ClockAllows(seen, e) ==
  LET bases == {p \in e.parents : Kind(p) = "clock-basis.declared"}
      basis == e.clock.basis
  IN IF Kind(e) = "clock-basis.declared"
     THEN /\ e.clock = NoClock /\ e.parents = {}
          /\ Cardinality(Of(seen, {"clock-basis.declared"})) < MaxClockBases
     ELSE IF basis = Absent THEN bases = {}
     ELSE /\ \E declared \in Of(seen, {"clock-basis.declared"}) :
               /\ deriveClockBasisId(declared.facts.basis) = basis
               /\ bases = {declared}
               /\ e.clock.mono # Absent => declared.facts.basis.monotonicClock # "none"
          /\ e.clock.mono # Absent =>
               \A d \in ToSet(seen) : (d.clock.basis = basis /\ d.clock.mono # Absent) =>
                 d.clock.mono <= e.clock.mono
          /\ Kind(e) = "clock.regression" =>
               Witness(e) \in RequiredRegressions(seen) \ WitnessedRegressions(seen)

EntryAllowed(seen, e) ==
  /\ EntryValid(e)
  /\ \A d \in ToSet(seen) : d.execution = e.execution /\ d # e
  /\ e.parents \subseteq ToSet(seen)
  /\ WithinLimits(seen, e)
  /\ validateParentTransition(e)
  /\ LifecycleAllows(seen, e)
  /\ RevisionsAgree(seen, e)
  /\ ClockAllows(seen, e)

validateObservationLedgerBundle(entries) ==
  /\ \A i \in DOMAIN entries : EntryAllowed(SubSeq(entries, 1, i - 1), entries[i])
  /\ RequiredRegressions(entries) = WitnessedRegressions(entries)

paginateObservationLedger(entries, size) ==
  [k \in 1..((Len(entries) + size - 1) \div size) |->
     SubSeq(entries, (k - 1) * size + 1, Min({k * size, Len(entries)}))]

-----------------------------------------------------------------------------
(* Replay: the same facts under another execution, every identity derived  *)
(* again, parents and witnesses following their entries.                   *)
Replayed(mapped, entries, p) == mapped[CHOOSE i \in DOMAIN mapped : entries[i] = p]

(* Mutant: a witness keeps the identities it was recorded with.            *)
Mapped_KeepsWitness(mapped, entries, e, execution) ==
  createObservationLedgerEntry(
    execution, {Replayed(mapped, entries, p) : p \in e.parents}, e.clock,
    IF Kind(e) = "artifact.committed" THEN [e.facts EXCEPT !.mode = "replay"] ELSE e.facts)

Mapped(mapped, entries, e, execution) ==
  createObservationLedgerEntry(
    execution, {Replayed(mapped, entries, p) : p \in e.parents}, e.clock,
    CASE Kind(e) = "artifact.committed" -> [e.facts EXCEPT !.mode = "replay"]
      [] Kind(e) = "clock.regression" ->
           [e.facts EXCEPT !.prior = Replayed(mapped, entries, @),
                           !.regressing = Replayed(mapped, entries, @)]
      [] OTHER -> e.facts)

ReplayCompatible(entries) == Of(entries, RequestKinds) = {}

replayRecordedObservationLedger(entries, execution) ==
  FoldLeft(LAMBDA mapped, e : Append(mapped, Mapped(mapped, entries, e, execution)), <<>>, entries)

observationLedgerSemanticProjection(entries) ==
  [i \in DOMAIN entries |-> <<entries[i].clock, entries[i].facts>>]
=============================================================================
