--------------------------- MODULE EvidenceReplay ---------------------------
(***************************************************************************)
(* The market reference algorithms and the observation ledger over every   *)
(* bounded input: one behaviour picks a subject and records its evidence   *)
(* item by item, in any order, and the properties compare what the code    *)
(* computes from the evidence with what its documentation promises of it.  *)
(***************************************************************************)
EXTENDS MarketSelection, AcquisitionEvidence

CONSTANTS PrimarySource, OtherSource, Instrument,
          Tokens,          \* decimal tokens <<m, s>>
          NativeEvents, TimelineEvents, CloseFacts, TradeEvents,
          Records,         \* recorded market records
          Requests,        \* [interval, comparator, view, basis] of a selection
          ClockBasis, Digests, PageTokens, \* of an acquisition workflow
          Minute, WeightScale, Minutes, VariantsMax, UniverseMax, CohortMax, \* of a study
          Studies,         \* [protocol, event, others]: the inputs of a study
          StudyItems,      \* [id, bars, members, records]: evidence of its event
          LedgerPools,     \* [drafts, max]: the <<facts, clock>> of a ledger, by name
          MaxInput         \* items recorded per subject: a function of the subject
ASSUME MaxInputAssumption == \A s \in DOMAIN MaxInput : MaxInput[s] \in Nat

(* What the parser of a study leaves no choice about, and the fields that  *)
(* the evidence fills.                                                     *)
ASSUME StudyAssumption ==
  /\ Absent \notin Int /\ Minute \in Nat \ {0} /\ Minutes \subseteq Nat
  /\ \A s \in Studies :
       /\ s.protocol.boundaries \in [1..4 -> Nat] /\ s.protocol.entryDelay \in Nat
       /\ {"bars", "records", "snapshot"} \subseteq DOMAIN s.event
       /\ "cluster" \in DOMAIN s.event.snapshot /\ "members" \in DOMAIN s.event.snapshot.cluster
       /\ IsFiniteSet(s.others)

Study == INSTANCE ResearchStudy

VARIABLES subject, input, setting
vars == <<subject, input, setting>>

Init ==
  /\ input = <<>>
  /\ \/ subject \in {"prices", "native", "timeline", "lanes", "last"} /\ setting = Absent
     \/ subject = "selection" /\ setting \in Requests
     \/ subject = "ledger" /\ setting \in DOMAIN LedgerPools
     \/ subject = "workflow" /\ setting = Absent
     \/ subject = "research" /\ setting \in Studies

Room(s) == subject = s /\ Len(input) < MaxInput[s]

Record(item) == input' = Append(input, item) /\ UNCHANGED <<subject, setting>>

GiveToken == Room("prices") /\ \E t \in Tokens : Record(t)
GiveNativeEvent == Room("native") /\ \E e \in NativeEvents : Record(e)
GiveTrade == Room("last") /\ \E e \in TradeEvents : Record(e)

(* Timelines and closes are sets of events: recorded in the order of ids.  *)
GiveTimelineEvent ==
  /\ Room("timeline")
  /\ \E e \in TimelineEvents : (\A i \in DOMAIN input : input[i].id < e.id) /\ Record(e)
GiveCloseFact ==
  /\ Room("lanes")
  /\ \E e \in CloseFacts : (\A i \in DOMAIN input : input[i].id < e.id) /\ Record(e)

Deliver ==
  /\ Room("selection")
  /\ \E r \in Records : (\A i \in DOMAIN input : input[i] # r) /\ Record(r)

GiveEvidence ==
  /\ Room("research")
  /\ \E e \in StudyItems : (\A i \in DOMAIN input : input[i].id < e.id) /\ Record(e)

(* An entry names its clock's declaration and up to two causes.            *)
Regression(p, r) ==
  [kind |-> "clock.regression", prior |-> p, regressing |-> r, priorWall |-> p.clock.wall,
   currentWall |-> r.clock.wall, preserved |-> p.clock.mono < r.clock.mono]

LedgerDrafts ==
  LET stamped == {e \in ToSet(input) : e.clock.mono # Absent}
  IN LedgerPools[setting].drafts
       \cup {<<Regression(pair[1], pair[2]), pair[2].clock>> :
               pair \in {q \in stamped \X stamped : q[2].clock.wall < q[1].clock.wall}}

RecordEntry ==
  /\ subject = "ledger" /\ Len(input) < LedgerPools[setting].max
  /\ \E draft \in LedgerDrafts :
       LET declared == {e \in Of(input, {"clock-basis.declared"}) :
                          deriveClockBasisId(e.facts.basis) = draft[2].basis}
           causes == ToSet(input) \ Of(input, {"clock-basis.declared"})
       IN \E parents \in UNION {kSubset(k, causes) : k \in 0..2} :
            LET e == createObservationLedgerEntry("run", parents \cup declared, draft[2], draft[1])
            IN EntryAllowed(input, e) /\ Record(e)

(* A workflow's checkpoints, with the ledger entries that each brought.    *)
Identity == [request |-> "r"]
JournalId == deriveMarketAcquisitionJournalId(Identity)
Checkpoints(items) == [i \in DOMAIN items |-> items[i].checkpoint]
WorkflowLedger(items) ==
  <<LedgerDeclaration("run", ClockBasis)>> \o FlattenSeq([i \in DOMAIN items |-> items[i].ledger])

WriteCheckpoint ==
  /\ Room("workflow")
  /\ LET ledger == WorkflowLedger(input)
         clock == nextLedgerClock(ledger, deriveClockBasisId(ClockBasis), 1)
         last == input[Len(input)].checkpoint
     IN IF input = <<>> THEN \E item \in FirstItem(ledger, "r", "c", JournalId, clock) : Record(item)
        ELSE \E kind \in NonterminalTransitions[last.kind], digest \in Digests,
                material \in PageTokens \cup {Absent} :
               \E item \in Items(ledger, last, kind, digest, material, clock) :
                 /\ JournalAppends(Checkpoints(input), item.checkpoint, Identity)
                 /\ Record(item)

Next == \/ GiveToken \/ GiveNativeEvent \/ GiveTrade \/ GiveTimelineEvent \/ GiveCloseFact
        \/ Deliver \/ GiveEvidence \/ RecordEntry \/ WriteCheckpoint
Spec == Init /\ [][Next]_vars

-----------------------------------------------------------------------------
(* One number has one spelling, and midpoints, returns, split and cash     *)
(* adjustments of prices are exact: identifiers hash those spellings.      *)
PricesExact ==
  (subject = "prices" /\ Len(input) = 3) => ArithmeticExact(input[1], input[2], input[3])

(* replayNativeSequence makes market state available exactly when the data *)
(* since the last authoritative reset is there without a gap, regression   *)
(* or reset in between, repeated deliveries aside.                         *)
NativeReplaySound ==
  subject = "native" =>
  LET resets == {i \in DOMAIN input : input[i].kind = "reset" /\ input[i].authoritative}
      start == IF resets = {} THEN 0 ELSE Max(resets)
      tail == (start + 1)..Len(input)
      Continues(i) ==
        /\ input[i].kind = "data"
        /\ IF i = start + 1 THEN start = 0 \/ input[i].sequence = input[start].sequence
           ELSE \/ input[i].sequence = input[i - 1].sequence + 1
                \/ input[i] = input[i - 1]
      result == replayNativeSequence(input)
  IN result.available <=> (tail # {} /\ \A i \in tail : Continues(i))

-----------------------------------------------------------------------------
(* What may select a quote at the target: nothing cleared it since, the    *)
(* market was not halted when it came, and it is fresh and eligible.       *)
Clears(e) == e.kind = "trading-action" /\ e.action # "trade-resume"

QuoteStands(events, e, target) ==
  /\ e.kind = "quote" /\ e.session # "overnight" /\ e.at <= target
  /\ evaluatePrimaryQuoteBoundary(e.quote, e.session, target - e.at) = None
  /\ \A a \in events : (Clears(a) /\ a.at <= target) => a.at <= e.at
  /\ \A h \in events : (h.kind = "trading-action" /\ h.action = "halt" /\ h.at < e.at) =>
       \E a \in events : /\ a.kind = "trading-action" /\ a.action = "quote-resume"
                         /\ h.at <= a.at /\ a.at <= e.at

Target == 2

(* selectQuoteTimelineReference never selects a quote from before a halt,  *)
(* resume or reset, nor one older than a later usable one; and it does     *)
(* select a standing quote when no two events share a time.                *)
TimelineSound ==
  subject = "timeline" =>
  LET events == ToSet(input)
      result == selectQuoteTimelineReference(events, Target)
      standing == {e \in events : QuoteStands(events, e, Target)}
      alone == \A e, f \in events : e.at = f.at => e = f
  IN /\ result.event # <<>> =>
          /\ result.event[1] \in standing
          /\ \A e \in standing : e.at <= result.event[1].at
     /\ (alone /\ standing # {}) => result.event # <<>>

-----------------------------------------------------------------------------
Without(items, kinds) == {f \in items : f.kind \notin kinds}

(* The reference lanes never fill each other: the prior close is the same  *)
(* without the sensitivities and they without it, the NBBO the same        *)
(* without BOLO quotes, official values never move consolidated Last, and  *)
(* the two functions that admit a bar to the point lane admit the same.    *)
LanesIndependent ==
  /\ subject = "lanes" =>
     LET facts == ToSet(input)
         full == selectPriorCloseAndSensitivities(facts, Target)
         closes == Without(facts, {"final-trade", "completed-bar"})
         others == Without(facts, {"corrected-close", "official-close"})
         Quotes(kinds) == {f \in facts : f.lane \in kinds}
     IN /\ full.primary = selectPriorCloseAndSensitivities(closes, Target).primary
        /\ full.finalTrade = selectPriorCloseAndSensitivities(others, Target).finalTrade
        /\ full.completedBar = selectPriorCloseAndSensitivities(others, Target).completedBar
        /\ selectIsolatedQuoteReference(Quotes({"nbbo", "bolo"}), "nbbo", Target)
             = selectIsolatedQuoteReference(Quotes({"nbbo"}), "nbbo", Target)
        /\ LET strict == selectStrictExecutableQuote(Quotes({"nbbo", "bolo"}), Target)
           IN strict.event # <<>> =>
                evaluatePrimaryQuoteBoundary(strict.event[1].quote, "regular-continuous", 0) = None
  /\ subject = "last" =>
     LET trades == SelectSeq(input, LAMBDA e : typedTradeCondition(e.condition)[1] = "trade")
     IN /\ replayConsolidatedLast(input) = replayConsolidatedLast(trades)
        /\ replayConsolidatedLast(input) \in {None} \cup {input[i].id : i \in DOMAIN input}
  /\ (subject = "lanes" /\ input = <<>>) =>
     \A end, target \in 0..(2 + CompletedBarAge), adjustment \in {"raw", "split"} :
       LET bar == [session |-> "regular-continuous",
                   payload |-> [kind |-> "bar", end |-> end, adjustment |-> adjustment]]
       IN (evaluateRecordedBarSensitivity(end, adjustment, target) = None)
            <=> (classifyPayload(bar, target) = None)

(* Prices and the synthetic operations on the tape, taken together.        *)
TapeSound == PricesExact /\ NativeReplaySound /\ TimelineSound /\ LanesIndependent

-----------------------------------------------------------------------------
(* The consistent request of the setting for a corpus.                     *)
Facts == normalizeRecordedMarketRecords(input)

SourcePolicy ==
  [primary |-> PrimarySource, comparisons |-> {OtherSource}, authorization |-> "synthetic-offline-only",
   fallback |-> "none", isolation |-> "per-source"]

PolicyFor(corpus, cutoff) ==
  [sources |-> SourcePolicy,
   priority |-> <<[source |-> PrimarySource, role |-> "primary"],
                  [source |-> OtherSource, role |-> "discrepancy-only"]>>,
   eligibility |-> [primary |-> "quote-nbbo-midpoint", currency |-> "USD",
                    substitution |-> "forbidden", unknownCondition |-> "ineligible",
                    strict |-> {"locked", "luld-limit-state", "slow"}],
   tieBreak |-> [order |-> <<"source-native-total-order", "identical-economic-state", "missing">>,
                 forbidden |-> {"arrival", "artifact", "hash", "page", "provider-priority", "row"}],
   discrepancy |-> [comparison |-> "exact-reduced-rational", missing |-> "not-comparable",
                    mergesProvenance |-> FALSE, changesPrimary |-> FALSE],
   staleness |-> [regularQuote |-> RegularQuoteAge, extendedQuote |-> ExtendedQuoteAge,
                  regularTrade |-> RegularTradeAge, extendedTrade |-> ExtendedTradeAge,
                  completedBar |-> CompletedBarAge, boundary |-> "inclusive", overnight |-> Absent],
   correction |-> [corpus |-> deriveRecordedCorpusSnapshotId(corpus),
                   cutoff |-> deriveRecordedCorpusCutoffId(cutoff), view |-> cutoff.view,
                   offset |-> IF cutoff.view = "recorded-primary" THEN Absent ELSE SevenDays,
                   finalOnly |-> IF cutoff.view = "recorded-primary" THEN "recorded-primary-unavailable"
                                 ELSE "recorded-corrected-only-if-corpus-closed-by-cutoff"],
   intervals |-> {deriveMarketIntervalKey(k) : k \in Intervals}]

RequestFor(facts) ==
  LET corpus == {EvidenceRow(facts[i]) : i \in DOMAIN facts}
      target == IF setting.view = "recorded-primary" THEN Absent
                ELSE setting.captured + SevenDays
      partial == [corpus |-> deriveRecordedCorpusSnapshotId(corpus), view |-> setting.view,
                  target |-> target]
      cutoff == [corpus |-> partial.corpus, view |-> setting.view, target |-> target,
                 admitted |-> deriveAdmittedRevisionSetHash(AdmittedRevisions(corpus, partial))]
  IN [join |-> "join", kind |-> "quote-nbbo-midpoint", interval |-> setting.interval,
      comparator |-> setting.comparator, policy |-> PolicyFor(corpus, cutoff), corpus |-> corpus,
      recordedSources |-> SourcePolicy, cutoff |-> cutoff,
      asOf |-> [corpus |-> partial.corpus, cutoff |-> deriveRecordedCorpusCutoffId(cutoff),
                view |-> setting.view, admitted |-> cutoff.admitted],
      target |-> setting.captured, role |-> "h001-primary-durable-capture",
      basis |-> [kind |-> "capture", at |-> setting.captured], correctedCutoff |-> target,
      context |-> [instrument |-> Instrument, continuity |-> "proved", action |-> "none"]]

(* The mandatory sensitivity: anchored at a retrieval instead.             *)
RetrievalFor(facts) ==
  [RequestFor(facts) EXCEPT !.role = "h001-mandatory-retrieval-sensitivity",
                            !.basis = [kind |-> "retrieval", at |-> setting.captured]]

Result(facts) == selectMarketReference(RequestFor(facts), facts)

Choice(result) ==
  IF result.event = <<>> THEN <<result.status, result.reason>>
  ELSE <<result.status, result.event[1].normalized>>

(* Equal trusted sequence numbers with different content: the one tie that *)
(* the order of the input breaks.                                          *)
SequenceTie(facts) ==
  \E f, g \in ToSet(facts) :
    /\ f.record.sequence # Absent /\ f.record.sequence = g.record.sequence
    /\ f.record.payload # g.record.payload

(* The first record delivered once more, later and in another artifact.    *)
Again == normalizeRecordedMarketRecord([input[1] EXCEPT !.artifact = [@ EXCEPT ![1] = "again"],
                                                        !.recordedAt = @ + 1])

Repeats(facts, again, selected, retrieved) ==
  /\ (selected.status = "rejected") <=> ~BoundsHold(OfSource(facts, PrimarySource))
  /\ selected.id = Result(Reverse(facts)).id
  /\ Choice(retrieved) = Choice(selected)
  /\ selected.id # Absent => retrieved.id # selected.id
  /\ again \notin ToSet(facts) => Choice(selected) = Choice(Result(Append(facts, again)))

(* The selected reference is a function of the evidence: the order in      *)
(* which deliveries are read does not change its identity, nor does        *)
(* delivering a record once more change the choice, and the retrieval of   *)
(* the same instant finds the same fact under an identity of its own.      *)
SelectionRepeatable ==
  (subject = "selection" /\ input # <<>> /\ ~SequenceTie(Facts)) =>
  LET Answered(facts, paired) == Repeats(facts, Again, paired[1], paired[2])
      Asked(facts) ==
        Answered(facts, selectPairedMarketReferences(RequestFor(facts), RetrievalFor(facts), facts))
  IN Asked(Facts)

WellFormed(facts) ==
  /\ validateRevisionFamilies(ToSet(SemanticFacts(facts))) = {}
  /\ stableConflictFamilies(ToSet(SemanticFacts(facts))) = {}

(* No look-ahead: what was recorded after the seven days of the corrected  *)
(* view does not change its reference, families being well formed and the  *)
(* evidence within the limits of a selection before and after.             *)
LateRevisionsInvisible ==
  (subject = "selection" /\ input # <<>> /\ setting.view = "recorded-corrected") =>
  LET facts == Facts
      early == SelectSeq(facts, LAMBDA f : f.record.recordedAt <= setting.captured + SevenDays)
  IN (/\ early \notin {<<>>, facts} /\ WellFormed(facts) /\ WellFormed(early)
      /\ BoundsHold(OfSource(facts, PrimarySource))) =>
       Choice(Result(facts)) = Choice(Result(early))

Isolated(q, facts, result, other, compared) ==
  LET own == SelectSeq(facts, LAMBDA f : f.record.source = PrimarySource)
      Price(r) == selectedPrice(r.event[1].record)
  IN /\ own # <<>> => Choice(result) = Choice(Result(own))
     /\ (compared = "not-comparable") <=> (<<>> \in {result.event, other.event})
     /\ compared = "agree" => Price(result) = Price(other)

(* Another provider's evidence never moves the primary's reference: it can *)
(* only disagree, and it does when the prices do.                          *)
SourcesIsolated ==
  (subject = "selection" /\ \E i \in DOMAIN input : input[i].source # PrimarySource) =>
  LET Asked(q, facts) ==
        Isolated(q, facts, selectMarketReference(q, facts),
                 selectMarketReferenceForSource(q, facts, OtherSource, Absent),
                 evaluateMarketProviderDiscrepancy(q, facts, <<PrimarySource, OtherSource>>).comparison)
  IN Asked(RequestFor(Facts), Facts)

Descendants(facts, f) ==
  LET members == Family(ToSet(facts), f.family)
      children == {g \in members : g.record.supersedes = f.revision}
  IN children \cup {g \in members : \E c \in children : g.record.supersedes = c.revision}

RecordedInOrder(facts) ==
  \A f, g \in ToSet(facts) : g.record.supersedes = f.revision =>
    f.record.recordedAt <= g.record.recordedAt

IsCurrent(q, facts, f, view) ==
  /\ Descendants(facts, f) \cap view = {}
  /\ f.record.at <= q.target
  /\ setting.interval = "publication-pre" => f.record.at < q.target
  /\ \A g \in view :
       (/\ g.record.kind = "original" /\ Family(ToSet(facts), g.family) = {g}
        /\ Candidate(g, q) /\ InTime(g, q) /\ classifyPayload(g.record, q.target) = None)
         => g.record.at <= f.record.at

(* The selected revision is the last word of its family in the view, at or *)
(* before the target, and no other standing quote of the view is later.    *)
SelectedIsCurrent ==
  (subject = "selection" /\ input # <<>>) =>
  LET Asked(q, facts, event) ==
        (event # <<>> /\ RecordedInOrder(facts)) =>
          IsCurrent(q, facts, event[1], applyView({g \in ToSet(facts) : g.record.source = PrimarySource},
                                                AdmittedRevisions(q.corpus, q.cutoff)))
      Answered(q, facts) == Asked(q, facts, selectMarketReference(q, facts).event)
  IN Answered(RequestFor(Facts), Facts)

(* The reference is the current word of the one source that was asked.     *)
SelectionSound == SelectedIsCurrent /\ SourcesIsolated

-----------------------------------------------------------------------------
(* Two commits that differ in nothing but the way they were acquired.      *)
CommitInTwoModes(entries) ==
  \E c, d \in Of(entries, {"artifact.committed"}) :
    c # d /\ [c EXCEPT !.facts.mode = "replay"] = [d EXCEPT !.facts.mode = "replay"]

(* What of an entry does not name another entry or the way it was acquired. *)
Story(entries) ==
  LET projection == observationLedgerSemanticProjection(entries)
  IN [i \in DOMAIN entries |->
        CASE Kind(entries[i]) = "artifact.committed" ->
               <<projection[i][1], [projection[i][2] EXCEPT !.mode = "replay"]>>
          [] Kind(entries[i]) = "clock.regression" ->
               <<projection[i][1], projection[i][2].priorWall, projection[i][2].preserved>>
          [] OTHER -> projection[i]]

(* A witness whose prior entry is a witness between entries left out: the  *)
(* one clock history that the acquisition's replay refuses.                *)
Endpoints(e) == IF Kind(e) = "clock.regression" THEN {e.facts.prior, e.facts.regressing} ELSE {e}
LeftOut(e) == \E f \in Endpoints(e) : shouldOmit(f)
WitnessOfWitness(entries) ==
  \E w \in Of(entries, {"clock.regression"}) :
    Kind(w.facts.prior) = "clock.regression" /\ LeftOut(w.facts.prior) /\ ~LeftOut(w)

(* The acquisition's own replay leaves requests and failures out, and      *)
(* witnesses a clock that went back at once.                               *)
ReplaysWithoutRequests(entries) ==
  LET replayed == replayAcquisitionLedger(entries, "again")
      kept == SelectSeq(entries, LAMBDA e : ~LeftOut(e))
  IN /\ Len(replayed) = Len(kept) /\ ToSet(Story(replayed)) = ToSet(Story(kept))
     /\ replayAcquisitionLedger(replayed, "again") = replayed

(* What the vault has once the workflow has committed its artifacts.       *)
VaultOf(journal) ==
  LET bearing == {e \in ToSet(journal) : e.kind = "artifact-committed"}
      Holder(v) == CHOOSE e \in bearing : e.artifact.vault = v
      persisted == {persistedRetrievalAttemptId(e.attempt) : e \in bearing}
  IN [observations |-> [v \in {e.artifact.vault : e \in bearing} |->
                          [digest |-> Holder(v).artifact.digest, vaultHash |-> Holder(v).artifact.vaultHash,
                           attempt |-> persistedRetrievalAttemptId(Holder(v).attempt),
                           request |-> Holder(v).request]],
      attempts |-> [a \in persisted |-> "r"],
      sizes |-> [d \in {e.artifact.digest : e \in bearing} |-> 1]]

(* A recorded ledger that is accepted can be replayed under a new          *)
(* execution: the replay is accepted too, tells the same story, shares no  *)
(* identity with the original, and replaying it again changes nothing.     *)
(* The pages of a ledger put together are the ledger.  An acquisition is   *)
(* replayed from its verified artifacts only, to the same projection under *)
(* any execution.                                                          *)
LedgerReplays ==
  /\ subject = "workflow" =>
       LET ledger == WorkflowLedger(input)
           required == RequiredArtifacts(ledger)
           From(vault, name) == replayVerifiedAcquisition(vault, required, ledger, name)
           vault == VaultOf(Checkpoints(input))
       IN /\ ReplaysWithoutRequests(ledger)
          /\ From(vault, "again") = replayAcquisitionLedger(ledger, "again")
          /\ canonicalReplayProjection(From(vault, "again"))
               = canonicalReplayProjection(From(vault, "third"))
          /\ required # {} => From(VaultOf(<<>>), "again") = <<>>
  /\ (subject = "ledger" /\ validateObservationLedgerBundle(input)) =>
    /\ (ReplayCompatible(input) /\ ~CommitInTwoModes(input)) =>
         LET replayed == replayRecordedObservationLedger(input, "again")
         IN /\ validateObservationLedgerBundle(replayed)
            /\ Story(replayed) = Story(input)
            /\ ToSet(replayed) \cap ToSet(input) = {}
            /\ replayRecordedObservationLedger(replayed, "again") = replayed
    /\ FlattenSeq(paginateObservationLedger(input, 2)) = input
    /\ ~(CommitInTwoModes(input) \/ WitnessOfWitness(input)) => ReplaysWithoutRequests(input)

CommitsOf(emission) ==
  {CommitIdentity(c.facts) :
     c \in UNION {LinkCommits(causalParents(emission), l) : l \in emission.facts.links}}

(* A source observation identity, derived from roles, digests and          *)
(* acquisitions alone, names one body of committed evidence: two accepted  *)
(* normalizations with that identity rest on the same commits, and no      *)
(* selection rests on anything else.                                       *)
ObservationNamesEvidence ==
  subject = "ledger" =>
  LET emissions == Of(input, {"normalization.emitted"})
  IN /\ \A n, m \in emissions :
          n.facts.observation = m.facts.observation => CommitsOf(n) = CommitsOf(m)
     /\ \A s \in Of(input, {"selection.recorded"}) :
          \E n \in emissions : n.facts.observation = s.facts.observation /\ CommitsOf(n) # {}

-----------------------------------------------------------------------------
(* A workflow may stop anywhere between the write of its ledger and the    *)
(* writes of its checkpoints.  What is found then is accepted, and writing *)
(* the same evidence again completes it.  The restart asks the provider    *)
(* again only for a page of which no artifact is committed, and on the     *)
(* first page the journal takes that attempt while the budget lasts; with  *)
(* an artifact gone from the vault it does nothing.  A later page is asked *)
(* for with the authority of the page before it, and every artifact is the *)
(* first delivery of its page.                                             *)
RestartSafe ==
  (subject = "workflow" /\ input # <<>>) =>
  LET journal == Checkpoints(input)
      ledger == WorkflowLedger(input)
      vault == VaultOf(journal)
      clock == nextLedgerClock(ledger, deriveClockBasisId(ClockBasis), 1)
      DigestsBefore(k) == {journal[i].artifact.digest :
                             i \in {j \in 1..(k - 1) : /\ journal[j].kind = "artifact-committed"
                                                       /\ journal[j].page = journal[k].page}}
  IN \A k \in 1..Len(journal) :
       LET found == SubSeq(journal, 1, k)
           last == found[k]
           produced == ToSet(found) \cup ToSet(ledger)
           Decide(v) == decideAcquisitionRestart(found, ledger, produced, v, Identity, "c")
           decision == Decide(vault)
       IN /\ decision.kind \notin {"refused", "fails"}
          /\ ExtensionAdmitted(found, ledger, journal, ledger, Identity)
          /\ decision.transport =>
               ~\E i \in 1..k : found[i].page = decision.page /\ found[i].artifact # Absent
          /\ (/\ k = Len(journal) /\ decision.kind = "fresh-attempt" /\ decision.page = 0
              /\ last.ordinal + 1 < AttemptsPerPage /\ last.counters.attempts < AttemptsMax) =>
               \E item \in AttemptItems(ledger, last, clock) :
                 JournalAppends(found, item.checkpoint, Identity)
          /\ last.kind = "artifact-committed" =>
               DeliveryDisposition(DigestsBefore(k), last.artifact.digest) = "first-delivery"
          /\ (k > 1 /\ last.page > journal[Max({1, k - 1})].page) =>
               validateContinuationAuthority(found[k - 1], last, {})
          /\ \A e \in ToSet(found) : e.kind = "artifact-committed" =>
               Decide([vault EXCEPT !.sizes = [d \in DOMAIN @ \ {e.artifact.digest} |-> @[d]]]) = Refused

-----------------------------------------------------------------------------
(* The event under study with the evidence given so far.                   *)
StudyInput ==
  LET All(field) == UNION {input[i][field] : i \in DOMAIN input}
  IN [setting.event EXCEPT !.bars = All("bars"), !.records = All("records"),
                           !.snapshot.cluster.members = All("members")]

(* What of an input its cutoff lets be known.                              *)
KnownByCutoff(i) ==
  LET Known(m) == LET d == Study!Dependency(i, m) IN d.reason # "future-information"
      members == {m \in i.snapshot.cluster.members : Known(m)}
      keys == {Study!researchMemberKey(m) : m \in members}
  IN [i EXCEPT !.bars = {b \in @ : b.available # Absent /\ b.available <= i.cutoff},
               !.snapshot.cluster.members = members,
               !.records = {r \in @ : r.memberKey \in keys}]

(* The feature is the same without everything that became known after the  *)
(* cutoff, so no trial's direction rests on it.                            *)
FeatureBlind(p, i) ==
  LET full == Study!feature(p, i)
      known == Study!feature(p, KnownByCutoff(i))
  IN /\ full.initialReaction = known.initialReaction /\ full.sourceOrder = known.sourceOrder
     /\ \A v \in p.variants : Study!Direction(v, full) = Study!Direction(v, known)

(* An available label enters after the decision, and no window, from the   *)
(* first price of a feature to the exit of a label, meets a window of      *)
(* another partition.                                                      *)
WindowsApart(p, labels) ==
  LET used == {l \in labels : l.status = "available"}
      Part(l) == Study!partition(p, l.input).name
  IN /\ \A l \in used : l.input.cutoff <= l.input.decision /\ l.input.decision < l.entry /\ l.entry < l.exit
     /\ \A l, m \in used : Part(l) # Part(m) =>
          l.exit < m.input.initialStart \/ m.exit < l.input.initialStart

(* The trials of a variant and a horizon are counted in the signal of the  *)
(* event's partition, one for every event, failed or not.                  *)
TrialsCounted(p, inputs, signals) ==
  /\ \A v \in p.variants, h \in Study!Horizons, i \in inputs :
       \E g \in signals : <<g.variant, g.horizon, g.partition>> = <<v.id, h, Study!partition(p, i).name>>
  /\ \A g \in signals :
       /\ g.attempted = Cardinality({i \in inputs : Study!partition(p, i).name = g.partition})
       /\ g.partition = "excluded" => g.completed = 0

(* A study never looks ahead and never drops a trial: its features rest on *)
(* what their cutoff let be known, its labels on later prices of their own *)
(* partition, and every trial is counted.                                  *)
NoLookAhead ==
  subject = "research" =>
  LET p == setting.protocol
      inputs == {StudyInput} \cup setting.others
      evaluation == Study!evaluateManifest(p, inputs)
  IN Study!freezeManifest(p, inputs) =>
     /\ FeatureBlind(p, StudyInput)
     /\ WindowsApart(p, evaluation.labels)
     /\ TrialsCounted(p, inputs, evaluation.signals)
=============================================================================
