-------------------------- MODULE MarketSelection --------------------------
(***************************************************************************)
(* Selecting the reference price of one interval from recorded facts       *)
(* (providers/market-reference/selection.ts): the request is checked       *)
(* against its own corpus and cutoff, revisions are resolved per family,   *)
(* the view's candidates are classified, and the latest eligible one at    *)
(* the target wins or the reference is missing with a reason.  Reasons are *)
(* the market reason codes without their "market." prefix.                 *)
(***************************************************************************)
EXTENDS MarketFacts, TapeReplay

CONSTANTS TrustedPrecision, RevisionDepth, DeliveriesPerObservation, CandidatesPerSelection
ASSUME SelectionBounds ==
  {TrustedPrecision, RevisionDepth, DeliveriesPerObservation, CandidatesPerSelection} \subseteq Nat

-----------------------------------------------------------------------------
(* Reference kinds.                                                        *)
referencePayloadKind(kind) ==
  CASE kind \in {"quote-nbbo-midpoint", "bolo"} -> "quote"
    [] kind \in {"bar-one-minute-completed-close", "daily-bar-close"} -> "bar"
    [] kind = "prior-listing-official-close" -> "prior-close"
    [] kind = "listing-official-open" -> "official-value"
    [] OTHER -> "trade"

SubKind(kind) ==
  CASE kind = "quote-nbbo-midpoint" -> "nbbo"
    [] kind = "bolo" -> "bolo"
    [] kind = "trade-last-eligible-consolidated" -> "last-eligible"
    [] kind = "opening-trade" -> "opening"
    [] kind = "reopening-trade" -> "reopening"
    [] kind = "closing-trade" -> "closing"
    [] kind = "final-eligible-trade-close" -> "final-close"
    [] kind = "bar-one-minute-completed-close" -> "one-minute"
    [] kind = "daily-bar-close" -> "daily"

matchesReferenceKind(p, kind) ==
  /\ p # Absent
  /\ p.kind = referencePayloadKind(kind)
  /\ p.kind \in {"quote", "trade", "bar"} => p.sub = SubKind(kind)

ageLimit(r) ==
  CASE r.session = "regular-continuous" -> RegularTradeAge
    [] r.session \in {"extended-pre", "extended-post"} -> ExtendedTradeAge
    [] OTHER -> -1

applicableTime(r) == IF r.payload.kind = "bar" THEN r.payload.end ELSE r.at

-----------------------------------------------------------------------------
(* classifyPayload, one list of checks per payload kind.                   *)
TrustedSemantics(payloadKind) ==
  {"participant-publication", "provider-documented-event"} \cup
  (IF payloadKind = "trade" THEN {"member-execution"} ELSE {})

SessionChecks(r) ==
  <<<<r.session # "overnight", "overnight-primary-forbidden">>,
    <<r.session # "calendar-closed", "session-closed">>,
    <<r.session # "unknown", "session-unknown">>,
    <<r.payload.kind \in {"quote", "trade"} =>
        r.semantic \in TrustedSemantics(r.payload.kind) /\ r.precision <= TrustedPrecision,
      "timestamp-insufficient">>>>

TimedSession(r) == r.session \in {"regular-continuous", "extended-pre", "extended-post"}

QuoteChecks(r, target) ==
  LET q == r.payload IN
  <<<<~q.halted /\ r.session # "halted", "quote-halt">>,
    <<q.nbbo, "quote-not-consolidated">>, <<q.twoSided, "quote-one-sided">>,
    <<q.condition # "unknown", "condition-unknown">>,
    <<q.condition # "ineligible", "quote-condition-ineligible">>,
    <<q.luld # "non-executable", "quote-luld-nonexecutable">>,
    <<~Crossed(q), "quote-crossed">>,
    <<(target >= r.at /\ TimedSession(r)) => target - r.at <= QuoteAgeLimit(r.session),
      "quote-stale">>>>

TradeChecks(r, target) ==
  <<<<~r.payload.oddLot, "trade-odd-lot">>,
    <<r.payload.updatesLast = "yes", "trade-condition-ineligible">>,
    <<(target >= r.at /\ ageLimit(r) >= 0) => target - r.at <= ageLimit(r),
      "no-eligible-trade">>>>

BarChecks(r, target) ==
  <<<<r.payload.adjustment = "raw", "silent-fallback-forbidden">>,
    <<r.payload.end <= target, "bar-interval-future">>,
    <<target - r.payload.end <= CompletedBarAge, "bar-stale">>>>

classifyPayload(r, target) ==
  FirstFailure(SessionChecks(r) \o
    (CASE r.payload.kind = "quote" -> QuoteChecks(r, target)
       [] r.payload.kind = "trade" -> TradeChecks(r, target)
       [] r.payload.kind = "bar" -> BarChecks(r, target)
       [] OTHER -> <<>>))

Diagnostics(r) ==
  IF r.payload.kind # "quote" THEN {}
  ELSE QualityKinds(r.payload) \cup
       (IF r.sequence # Absent /\ r.sequence.trust = "native-unchecked"
        THEN {"native-sequence-unchecked"} ELSE {})

-----------------------------------------------------------------------------
(* Revision families.                                                      *)
Family(facts, id) == {f \in facts : f.family = id}

ParentOf(members, f) == {p \in members : p.revision = f.record.supersedes}

(* A cycle cannot be derived: a revision identifier is a hash over its     *)
(* parent's, so the code's walk always ends at an original or an orphan.   *)
FamilyDefect(members) ==
  LET later == {f \in members : f.record.kind # "original"}
  IN FirstFailure(
    <<<<Cardinality({f.revision : f \in members}) = Cardinality(members), "reused-key">>,
      <<\A f \in later : ParentOf(members, f) # {}, "orphan">>,
      <<\A f, g \in later : f.record.supersedes = g.record.supersedes => f = g, "fork">>,
      <<\A f \in later : \A p \in ParentOf(members, f) : p.record.kind # "cancellation",
        "unsupported-after-cancellation">>>>)

validateRevisionFamilies(facts) ==
  {f.family : f \in {g \in facts : FamilyDefect(Family(facts, g.family)) # None}}

stableConflictFamilies(facts) ==
  {f.family : f \in {g \in facts : \E h \in facts :
     /\ g.family = h.family
     /\ g.record.revisionKey = h.record.revisionKey
     /\ g.record.kind = h.record.kind
     /\ <<g.observation, g.fact, g.revision>> # <<h.observation, h.fact, h.revision>>}}

applyView(facts, admitted) == {f \in facts : f.revision \in admitted}

cancelledRevisionIds(facts) ==
  {f.record.supersedes : f \in {g \in facts : g.record.kind = "cancellation"}}

correctedRevisionIds(facts) ==
  {f.record.supersedes : f \in {g \in facts : g.record.kind = "correction"}}

-----------------------------------------------------------------------------
(* resolveWinner over the facts tied at the latest time; facts is the      *)
(* sequence in input order, whose order a stable sort keeps.               *)
economicState(f) == f.record.payload

TrustedSequences(facts) ==
  \A f \in facts : /\ f.record.sequence # Absent
                   /\ f.record.sequence.trust \in {"native-gap-checked", "provider-stable-sequence"}
                   /\ \A g \in facts : g.record.sequence.scope = f.record.sequence.scope

LeastNormalized(facts) == CHOOSE f \in facts : TRUE

(* Mutant: the fact read last breaks every tie.                            *)
resolveWinner_LastArrival(tied) == <<tied[Len(tied)]>>

resolveWinner(tied) ==
  LET facts == ToSet(tied)
      last == Max({i \in DOMAIN tied : \A j \in DOMAIN tied :
                     tied[j].record.sequence.value <= tied[i].record.sequence.value})
  IN IF Cardinality({economicState(f) : f \in facts}) = 1 THEN <<LeastNormalized(facts)>>
     ELSE IF TrustedSequences(facts) THEN <<tied[last]>>
     ELSE <<>>

selectedPrice(r) ==
  IF r.payload.kind = "quote" THEN quoteMidpoint(r.payload.bid, r.payload.ask)
  ELSE toFraction(r.payload.price)

-----------------------------------------------------------------------------
(* Why a reference is missing.                                             *)
ReasonPriority ==
  <<"silent-fallback-forbidden", "revision-invalid", "provider-observation-invalid",
    "condition-unknown", "timestamp-insufficient", "sequence-insufficient", "session-unknown",
    "session-closed", "overnight-primary-forbidden", "quote-halt", "quote-luld-nonexecutable",
    "quote-one-sided", "quote-not-consolidated", "quote-condition-ineligible", "quote-crossed",
    "quote-stale", "trade-condition-ineligible", "trade-odd-lot", "trade-cancelled",
    "no-eligible-trade", "bar-interval-future", "bar-stale">>

defaultMissingReason(kind) ==
  CASE referencePayloadKind(kind) = "quote" -> "no-eligible-quote"
    [] referencePayloadKind(kind) = "trade" -> "no-eligible-trade"
    [] referencePayloadKind(kind) = "bar" -> "no-eligible-bar"
    [] OTHER -> "prior-close-missing"

chooseMissingReason(reasons, kind) ==
  LET given == {i \in DOMAIN ReasonPriority : ReasonPriority[i] \in reasons}
  IN IF given = {} THEN defaultMissingReason(kind) ELSE ReasonPriority[Min(given)]

evaluateMarketSelectionContext(context) ==
  FirstFailure(<<<<context.continuity = "proved", "instrument-invalid">>,
                 <<context.action # "unresolved", "corporate-action-unresolved">>,
                 <<context.action # "supported-sensitivity", "corporate-action-crossing">>>>)

-----------------------------------------------------------------------------
(* A request [join, kind, interval, comparator, policy, corpus,            *)
(* recordedSources, cutoff, asOf, target, role, basis, correctedCutoff,    *)
(* context]; the corpus is its rows of evidence, with its source policy.   *)
AsOfAgrees(q) ==
  /\ q.asOf.corpus = deriveRecordedCorpusSnapshotId(q.corpus)
  /\ q.asOf.cutoff = deriveRecordedCorpusCutoffId(q.cutoff)
  /\ q.asOf.admitted = q.cutoff.admitted
  /\ q.asOf.view = q.cutoff.view

PolicyAgrees(q) ==
  /\ deriveSelectionPolicyId(q.policy) # Absent
  /\ q.policy.correction.corpus = deriveRecordedCorpusSnapshotId(q.corpus)
  /\ q.policy.correction.cutoff = deriveRecordedCorpusCutoffId(q.cutoff)
  /\ q.policy.correction.view = q.cutoff.view
  /\ q.policy.sources = q.recordedSources

IntervalAgrees(q) ==
  /\ q.comparator = IntervalRow(q.interval)[3]
  /\ (q.kind = "prior-listing-official-close") <=> (q.interval = "prior-close")

AnchorAgrees(q) ==
  /\ (q.role = "h001-primary-durable-capture") <=> (q.basis.kind = "capture")
  /\ IntervalRow(q.interval)[1] = "h001-selected-basis" =>
       q.target = q.basis.at + IntervalRow(q.interval)[2]

CutoffAgrees(q) ==
  IF q.cutoff.view = "recorded-primary" THEN q.correctedCutoff = Absent
  ELSE /\ q.correctedCutoff = q.cutoff.target
       /\ q.basis.kind = "capture" => q.correctedCutoff = q.basis.at + SevenDays

RequestConsistent(q) ==
  /\ admittedRevisionIds(q.corpus, q.cutoff)
  /\ AsOfAgrees(q) /\ PolicyAgrees(q) /\ IntervalAgrees(q) /\ AnchorAgrees(q) /\ CutoffAgrees(q)

(* The corrected view of a retrieval is anchored at a capture's request.   *)
CaptureAuthority(q, primary) ==
  /\ primary # Absent
  /\ RequestConsistent(primary)
  /\ primary.basis.kind = "capture"
  /\ primary.cutoff = q.cutoff /\ primary.cutoff.view = "recorded-corrected"
  /\ primary.interval = q.interval /\ primary.kind = q.kind
  /\ primary.corpus = q.corpus /\ primary.policy = q.policy /\ primary.join = q.join
  /\ primary.correctedCutoff = q.correctedCutoff /\ primary.context = q.context

validateRequest(q, primary) ==
  /\ RequestConsistent(q)
  /\ (q.cutoff.view = "recorded-corrected" /\ q.basis.kind = "retrieval") =>
       CaptureAuthority(q, primary)

-----------------------------------------------------------------------------
(* selectMarketReferenceForSource.                                         *)
Sources(q) == {q.policy.sources.primary} \cup q.policy.sources.comparisons

EvidenceAgreesWithCorpus(q, input) ==
  /\ Len(input) <= CandidatesPerSelection
  /\ \A i \in DOMAIN input : /\ validateNormalizedMarketFactIdentity(input[i])
                             /\ input[i].record.instrument = q.context.instrument
                             /\ input[i].record.source \in Sources(q)
  /\ Cardinality({input[i].delivery : i \in DOMAIN input}) = Len(input)
  /\ {EvidenceRow(input[i]) : i \in DOMAIN input} = q.corpus

OfSource(input, source) == SelectSeq(input, LAMBDA f : f.record.source = source)

BoundsHold(facts) ==
  /\ \A f \in ToSet(facts) :
       Cardinality({g \in ToSet(facts) : g.observation = f.observation}) <= DeliveriesPerObservation
  /\ \A f \in ToSet(facts) :
       Cardinality({<<g.observation, g.revision>> : g \in Family(ToSet(facts), f.family)})
         <= RevisionDepth

(* Of the deliveries of one revision the first stands for all.             *)
SemanticFacts(facts) ==
  LET First(i) == \A j \in 1..(i - 1) :
        <<facts[j].observation, facts[j].revision>> # <<facts[i].observation, facts[i].revision>>
      kept == SetToSortSeq({i \in DOMAIN facts : First(i)}, LAMBDA i, j : i < j)
  IN [n \in DOMAIN kept |-> facts[kept[n]]]

Candidate(f, q) ==
  f.normalized # Absent /\ matchesReferenceKind(f.record.payload, q.kind)

(* Mutant: only the families are looked at, superseded revisions stay.     *)
CandidateReason_FamiliesOnly(f, facts, view, q) ==
  IF f.family \in validateRevisionFamilies(facts) THEN "revision-invalid"
  ELSE classifyPayload(f.record, q.target)

(* The reason of an ineligible candidate, None for an eligible one and     *)
(* "superseded" for one the code leaves out.                               *)
CandidateReason(f, facts, view, q) ==
  IF f.family \in validateRevisionFamilies(facts) THEN "revision-invalid"
  ELSE IF f.family \in stableConflictFamilies(facts) THEN "provider-observation-invalid"
  ELSE IF f.revision \in cancelledRevisionIds(view)
  THEN (IF f.record.payload.kind = "trade" THEN "trade-cancelled" ELSE "superseded")
  ELSE IF f.revision \in correctedRevisionIds(view) THEN "superseded"
  ELSE classifyPayload(f.record, q.target)

InTime(f, q) ==
  IF q.comparator = "strictly-before" THEN applicableTime(f.record) < q.target
  ELSE applicableTime(f.record) <= q.target

PreferCorrected(tied, q) ==
  LET closes == SelectSeq(tied, LAMBDA f : f.record.payload.sub = "corrected-consolidated-close")
  IN IF q.kind = "prior-listing-official-close" /\ closes # <<>> THEN closes ELSE tied

outcome(f, reason) ==
  [observation |-> f.observation, revision |-> f.revision, normalized |-> f.normalized,
   reason |-> reason, diagnostics |-> IF reason = None THEN Diagnostics(f.record) ELSE {}]

deriveCandidateSetHash(outcomes) == <<"candidates", outcomes>>

AsOfBasis(q) == <<q.role, q.basis, q.target, q.comparator, q.asOf>>

Question(q) == <<q.join, deriveMarketIntervalKey(q.interval), q.kind,
                 deriveSelectionPolicyId(q.policy), AsOfBasis(q)>>

deriveMissingReferenceId(q, reason, outcomes) ==
  <<"mmr1", Question(q), reason, deriveCandidateSetHash(outcomes)>>

deriveSelectedReferenceId(q, status, f, outcomes) ==
  <<"msr1", Question(q), status, f.normalized, f.revision, deriveCandidateSetHash(outcomes)>>

NoReference(q, reason, outcomes) ==
  [status |-> "missing", event |-> <<>>, reason |-> reason,
   id |-> deriveMissingReferenceId(q, reason, outcomes)]

Selected(q, f, outcomes) ==
  LET status == IF Diagnostics(f.record) = {} THEN "selected-complete" ELSE "selected-degraded"
  IN [status |-> status, event |-> <<f>>, reason |-> None,
      id |-> deriveSelectedReferenceId(q, status, f, outcomes)]

Rejected == [status |-> "rejected", event |-> <<>>, reason |-> "input-invalid", id |-> Absent]

(* The latest of the eligible facts, in the order of the facts.            *)
LatestEligible(facts, eligible) ==
  SelectSeq(facts, LAMBDA f : f \in eligible /\ \A g \in eligible :
                                applicableTime(g.record) <= applicableTime(f.record))

(* The verdict, once context, reasons of the candidates, those eligible    *)
(* and the winner are known; missing is the reason if nothing is eligible. *)
Conclude(q, context, eligible, missing, winner, outcomes) ==
  IF context # None THEN NoReference(q, context, outcomes)
  ELSE IF eligible = {} THEN NoReference(q, missing, outcomes)
  ELSE IF winner = <<>> THEN NoReference(q, "sequence-insufficient", outcomes)
  ELSE Selected(q, winner[1], outcomes)

(* reason gives the reason of every candidate that is not superseded.      *)
Weigh(facts, q, reason, eligible) ==
  Conclude(q, evaluateMarketSelectionContext(q.context), eligible,
           chooseMissingReason({reason[f] : f \in DOMAIN reason}, q.kind),
           resolveWinner(PreferCorrected(LatestEligible(facts, eligible), q)),
           {outcome(f, reason[f]) : f \in DOMAIN reason})

(* Superseded revisions are no candidates; the eligible are those in time. *)
WeighCandidates(facts, q, reason) ==
  LET stands == {f \in DOMAIN reason : reason[f] # "superseded"}
  IN Weigh(facts, q, Restrict(reason, stands),
           {f \in DOMAIN reason : reason[f] = None /\ InTime(f, q)})

(* What is to be said of each fact of the view that is of the kind asked.  *)
ReasonsIn(view, all, q) ==
  [f \in {g \in view : Candidate(g, q)} |-> CandidateReason(f, all, view, q)]

Resolve(facts, q) ==
  WeighCandidates(facts, q,
    ReasonsIn(applyView(ToSet(facts), AdmittedRevisions(q.corpus, q.cutoff)), ToSet(facts), q))

selectMarketReferenceForSource(q, input, source, primary) ==
  IF /\ validateRequest(q, primary)
     /\ source \in Sources(q)
     /\ EvidenceAgreesWithCorpus(q, input)
     /\ BoundsHold(OfSource(input, source))
  THEN Resolve(SemanticFacts(OfSource(input, source)), q)
  ELSE Rejected

selectMarketReference(q, input) ==
  selectMarketReferenceForSource(q, input, q.policy.sources.primary, Absent)

selectPairedMarketReferences(primary, retrieval, input) ==
  <<selectMarketReference(primary, input),
    selectMarketReferenceForSource(retrieval, input, retrieval.policy.sources.primary, primary)>>

Discrepancy(q, results, comparison) ==
  [comparison |-> comparison,
   id |-> <<"mdp1", Question(q), {results[i].id : i \in DOMAIN results}, comparison>>]

CompareResults(q, results) ==
  Discrepancy(q, results, compareIndependentSourceReferences(
    [i \in DOMAIN results |-> IF results[i].event = <<>> THEN Absent
                              ELSE selectedPrice(results[i].event[1].record)]))

(* sources is the primary source followed by the comparisons.              *)
evaluateMarketProviderDiscrepancy(q, input, sources) ==
  CompareResults(q, [i \in DOMAIN sources |->
                      selectMarketReferenceForSource(q, input, sources[i], Absent)])
=============================================================================
