---------------------------- MODULE MarketFacts ----------------------------
(***************************************************************************)
(* Recorded market records and the facts normalised from them              *)
(* (providers/market-reference/identity.ts and normalization.ts).  A       *)
(* record is                                                               *)
(*   [source, instrument, recordKey, revisionKey, family, eventKind, at,   *)
(*    semantic, precision, sequence, acquisition, artifact, member,        *)
(*    ordinal, kind, supersedes, session, payload, digestOf, versions,     *)
(*    recordedAt]                                                          *)
(* where digestOf is the payload the provider's digest was taken of, and a *)
(* source is [provider, dataset, feed, channel, entitlement].  Every price *)
(* is in US dollars: snapshotRecord refuses a record in another currency.  *)
(***************************************************************************)
EXTENDS MarketSources

CONSTANT MinuteBar      \* duration of a one-minute bar
ASSUME DurationsAssumption == MinuteBar \in Nat \ {0}

Semantics ==
  {"participant-publication", "member-execution", "sip-publication", "provider-documented-event",
   "provider-receive", "earnings-publication", "peas-retrieval", "peas-durable-capture",
   "correction-effective", "correction-arrival", "bar-start", "bar-end", "calendar-boundary",
   "replay-preserved"}

-----------------------------------------------------------------------------
(* Preimages.                                                              *)
deriveProviderObservationId(r) ==
  <<"mob1", r.source, r.instrument, r.recordKey, r.revisionKey, r.eventKind, r.at, r.semantic,
    r.precision, r.sequence, r.digestOf>>

deriveDeliveryId(r) ==
  <<"mdl1", deriveProviderObservationId(r), r.acquisition, r.artifact, r.member, r.ordinal>>

(* The family leaves out the entitlement, the keys and the event time.     *)
deriveRevisionFamilyId(r) ==
  <<"mrf1", r.source.provider, r.source.dataset, r.source.feed, r.source.channel, r.instrument,
    r.eventKind, r.family>>

deriveMarketFactId(r) ==
  IF r.payload = Absent THEN Absent
  ELSE <<"mft1", r.instrument, r.eventKind, r.at, r.semantic, r.precision, r.session, r.payload>>

(* An original supersedes nothing and states a fact, a correction          *)
(* supersedes and states one, a cancellation supersedes and states none.   *)
RevisionShape(r) ==
  /\ (r.kind = "original") <=> (r.supersedes = Absent)
  /\ (r.kind = "cancellation") <=> (r.payload = Absent)

deriveRevisionId(r) ==
  <<"mrv1", deriveRevisionFamilyId(r), r.kind, r.revisionKey, r.supersedes, deriveMarketFactId(r)>>

deriveNormalizedMarketFactId(r) ==
  IF r.payload = Absent THEN Absent
  ELSE <<"mnf1", deriveMarketFactId(r), deriveProviderObservationId(r), deriveRevisionId(r),
         r.versions>>

deriveDurableRevisionEvidenceHash(r) ==
  <<"evidence", deriveRevisionId(r), deriveDeliveryId(r), r.artifact, r.recordedAt>>

-----------------------------------------------------------------------------
(* Payloads: [kind, sub, ...] as a provider adapter states them.           *)
EventKindsOf(payloadKind) ==
  CASE payloadKind = "prior-close" -> {"prior-close", "official-close", "corrected-close"}
    [] payloadKind = "official-value" -> {"official-open"}
    [] OTHER -> {payloadKind}

validateBar(p) ==
  /\ requirePositiveDecimal(p.price)
  /\ p.sub = "one-minute" => p.end - p.start = MinuteBar
  /\ p.sub = "daily" => p.end > p.start
  /\ p.adjustment # "unknown"

validatePayload(p, eventKind) ==
  /\ eventKind \in EventKindsOf(p.kind)
  /\ CASE p.kind = "quote" -> validateCanonicalDecimal(p.bid) /\ validateCanonicalDecimal(p.ask)
       [] p.kind \in {"trade", "prior-close", "official-value"} -> requirePositiveDecimal(p.price)
       [] p.kind = "bar" -> validateBar(p)
       [] OTHER -> TRUE

validateMarketTimestamp(r) == r.precision > 0 /\ r.semantic \in Semantics

validateProviderSequence(s) ==
  s # Absent => s.trust \in {"native-gap-checked", "provider-stable-sequence", "native-unchecked",
                             "deterministic-artifact-order", "none"}

(* What snapshotRecord and normalizeRecordedMarketRecord refuse.           *)
RecordAccepted(r) ==
  /\ validateMarketSource(r.source)
  /\ validateMarketTimestamp(r)
  /\ validateProviderSequence(r.sequence)
  /\ RevisionShape(r)
  /\ r.payload # Absent => validatePayload(r.payload, r.eventKind)
  /\ r.digestOf = r.payload

normalizeRecordedMarketRecord(r) ==
  [record |-> r,
   observation |-> deriveProviderObservationId(r), delivery |-> deriveDeliveryId(r),
   family |-> deriveRevisionFamilyId(r), revision |-> deriveRevisionId(r),
   fact |-> deriveMarketFactId(r), normalized |-> deriveNormalizedMarketFactId(r),
   evidence |-> deriveDurableRevisionEvidenceHash(r)]

normalizeRecordedMarketRecords(records) ==
  [i \in DOMAIN records |-> normalizeRecordedMarketRecord(records[i])]

(* Every identifier of the fact is derived again from what it carries.     *)
validateNormalizedMarketFactIdentity(f) ==
  RecordAccepted(f.record) /\ f = normalizeRecordedMarketRecord(f.record)

-----------------------------------------------------------------------------
(* The recorded corpus and what of it a view admits.                       *)
(* A row of durable evidence for one delivery of a revision.               *)
EvidenceRow(f) ==
  [revision |-> f.revision, delivery |-> f.delivery, artifact |-> f.record.artifact,
   acquisition |-> f.record.acquisition, recordedAt |-> f.record.recordedAt, hash |-> f.evidence]

deriveRecordedCorpusSnapshotId(corpus) == <<"mcs1", corpus>>

deriveAdmittedRevisionSetHash(revisions) == <<"admitted", revisions>>

CutoffShape(cutoff) ==
  \/ cutoff.view = "recorded-primary" /\ cutoff.target = Absent
  \/ cutoff.view = "recorded-corrected" /\ cutoff.target # Absent

deriveRecordedCorpusCutoffId(cutoff) == <<"mcc1", cutoff>>

(* Mutant: the corrected view admits whatever the corpus holds.            *)
AdmittedRevisions_Everything(corpus, cutoff) == {row.revision : row \in corpus}

AdmittedRevisions(corpus, cutoff) ==
  {row.revision : row \in {e \in corpus : \/ cutoff.view = "recorded-primary"
                                          \/ e.recordedAt <= cutoff.target}}

admittedRevisionIds(corpus, cutoff) ==
  /\ cutoff.corpus = deriveRecordedCorpusSnapshotId(corpus)
  /\ cutoff.admitted = deriveAdmittedRevisionSetHash(AdmittedRevisions(corpus, cutoff))
  /\ CutoffShape(cutoff)
=============================================================================
