------------------------- MODULE AcquisitionEvidence -------------------------
(***************************************************************************)
(* The evidence of a market acquisition (src/adapters/market-acquisition): *)
(* the builder of its observation ledger, the hash-chained journal of its  *)
(* checkpoints and how the two are bound (artifact-integration.ts,         *)
(* journal.ts), what a restart may do with them, and their replay under    *)
(* another execution (replay.ts).                                          *)
(* A hash is the value that it is taken of; an operation that throws is    *)
(* one whose guard is false, or that returns <<>>.                         *)
(***************************************************************************)
EXTENDS ObservationLedger, JournalOrder

CONSTANTS PageMax, AttemptsPerPage, AttemptsMax, BytesMax, ArtifactBytesMax, RecordsPerPageMax

NoTokenHash == <<"no-token">>
TerminalTokenHash == <<"terminal">>
Genesis == Absent

-----------------------------------------------------------------------------
(* Identities of journals, pages, attempts, chains and continuations.      *)
deriveMarketAcquisitionJournalId(identity) == <<"journal", identity>>
derivePrivateTokenHash(material) == <<"token", material>>

LogicalPageValid(page, token) == (page = 0) <=> (token = NoTokenHash)
deriveLogicalPageIdentityHash(request, page, token) == <<"page", request, page, token>>
deriveAttemptControlIdentities(logicalPage, ordinal, nonce) == <<"attempt", logicalPage, ordinal, nonce>>

deriveContinuationBindingHash(b) == <<"continuation", b>>

PageChainValid(p) ==
  /\ p.page \in 0..(PageMax - 1)
  /\ p.artifact.size \in 0..ArtifactBytesMax
  /\ p.records \in 0..RecordsPerPageMax
  /\ p.counters.pages \in 0..PageMax /\ p.counters.bytes \in 0..BytesMax
  /\ p.counters.records \in 0..(PageMax * RecordsPerPageMax)
  /\ p.counters.facts = 0 /\ p.counters.attempts \in 0..AttemptsMax
derivePageChainHash(p) == <<"chain", p>>

BindingOf(p, chain, token) ==
  [request |-> p.request, logicalPage |-> p.logicalPage, page |-> p.page,
   vault |-> p.artifact.vault, digest |-> p.artifact.digest, chain |-> chain,
   nextPage |-> p.page + 1, next |-> token]

(* The chain first, then the binding of the next page to it.               *)
planPageAdmission(p, material) ==
  LET token == IF material = Absent THEN TerminalTokenHash ELSE derivePrivateTokenHash(material)
      chain == derivePageChainHash(p @@ [next |-> token])
  IN [chain |-> chain, next |-> token,
      binding |-> IF material = Absent THEN Absent
                  ELSE deriveContinuationBindingHash(BindingOf(p, chain, token))]

(* A page may be asked for: the checkpoint before it names its token and   *)
(* binds it, and the token was not used before.                            *)
validateContinuationAuthority(preceding, next, consumed) ==
  LET token == derivePrivateTokenHash(next.material)
      binding == deriveContinuationBindingHash(BindingOf(preceding, preceding.chain, token))
  IN /\ next.request = preceding.request
     /\ next.page = preceding.page + 1
     /\ token = next.token /\ token = preceding.next /\ token \notin consumed
     /\ binding = preceding.nextBinding /\ binding = next.binding

-----------------------------------------------------------------------------
(* The journal: a chain of checkpoints.                                    *)
createJournalEntry(previous, journalId, kind, body) ==
  body @@ [journal |-> journalId, kind |-> kind,
           sequence |-> IF previous = Genesis THEN 0 ELSE previous.sequence + 1,
           prior |-> previous]

validateCheckpointSemantics(e) ==
  /\ e.page \in 0..(PageMax - 1) /\ e.ordinal \in 0..(AttemptsPerPage - 1)
  /\ e.counters.pages \in 0..PageMax /\ e.counters.bytes \in 0..BytesMax
  /\ e.counters.records \in 0..(PageMax * RecordsPerPageMax)
  /\ e.counters.attempts \in 0..AttemptsMax
  /\ e.records # Absent => e.records \in 0..RecordsPerPageMax
  /\ e.artifact # Absent => e.artifact.size \in 0..ArtifactBytesMax
  /\ IF e.page = 0 THEN e.token = NoTokenHash /\ e.material = Absent /\ e.binding = Absent
     ELSE /\ e.material # Absent /\ e.binding # Absent
          /\ e.token = derivePrivateTokenHash(e.material)
  /\ e.nextMaterial # Absent => e.next = derivePrivateTokenHash(e.nextMaterial)
  /\ (e.terminal = Absent) <=> (e.reason = Absent)

(* A page keeps its artifact, and with it the attempt that fetched it.     *)
pinnedArtifactTuple(e) ==
  IF e.artifact = Absent THEN Absent
  ELSE <<e.acquisition, e.request, e.attempt, e.ordinal, e.artifact>>

NextTokenFields(e) ==
  LET none == e.nextMaterial = Absent /\ e.nextBinding = Absent
  IN CASE e.kind \in BeforeArtifact \cup {"artifact-committed", "artifact-verified"} ->
            e.next = Absent /\ none
       [] e.kind = "page-checkpointed" ->
            e.next # Absent /\ ((e.next = TerminalTokenHash) <=> none)
       [] OTHER -> TRUE

validateCheckpointTransition(previous, e) ==
  /\ e.kind \in ArtifactRequired => e.artifact # Absent
  /\ e.kind \in BeforeArtifact => e.artifact = Absent
  /\ IF previous = Genesis THEN e.kind = "acquisition-declared" /\ e.page = 0
     ELSE LET advances == previous.kind = "page-checkpointed" /\ e.kind = "attempt-started"
          IN /\ e.kind \in NonterminalTransitions[previous.kind]
             /\ e.page = previous.page + (IF advances THEN 1 ELSE 0)
             /\ advances => /\ previous.next \notin {Absent, TerminalTokenHash}
                            /\ previous.nextBinding # Absent
                            /\ e.token = previous.next /\ e.binding = previous.nextBinding
             /\ e.kind = "chain-complete" => previous.next = TerminalTokenHash
             /\ (/\ previous.page = e.page
                 /\ pinnedArtifactTuple(previous) # Absent /\ pinnedArtifactTuple(e) # Absent)
                  => pinnedArtifactTuple(previous) = pinnedArtifactTuple(e)
             /\ NextTokenFields(e)

validateJournalEntries(entries, identity) ==
  LET Before(i) == IF i = 1 THEN Genesis ELSE entries[i - 1]
      Continued(i) == entries[i].page > 0 /\ entries[i].kind = "attempt-started"
  IN /\ entries # <<>>
     /\ \A i \in DOMAIN entries :
          LET e == entries[i]
          IN /\ e.journal = deriveMarketAcquisitionJournalId(identity) /\ e.request = identity.request
             /\ e.sequence = i - 1 /\ e.prior = Before(i)
             /\ validateCheckpointSemantics(e)
             /\ validateCheckpointTransition(Before(i), e)
             /\ i > 1 => /\ entries[i - 1].terminal = Absent
                         /\ \A n \in DOMAIN e.counters :
                              entries[i - 1].counters[n] <= e.counters[n]
     /\ \A i, j \in DOMAIN entries :
          (i # j /\ Continued(i) /\ Continued(j)) => entries[i].token # entries[j].token

-----------------------------------------------------------------------------
(* MarketAcquisitionLedger: an entry with its causal parents and the       *)
(* declaration of its clock, appended if the bundle stays valid.  <<>> is  *)
(* an append that throws.                                                  *)
LedgerDeclaration(execution, basis) ==
  createObservationLedgerEntry(execution, {}, NoClock, [kind |-> "clock-basis.declared", basis |-> basis])

LedgerAppend(ledger, facts, causal, clock) ==
  LET declaration == ledger[1]
      e == createObservationLedgerEntry(declaration.execution, causal \cup {declaration}, clock, facts)
  IN IF /\ clock.basis = deriveClockBasisId(declaration.facts.basis) /\ clock.wall # Absent
        /\ declaration \notin causal
        /\ EntryAllowed(ledger, e) /\ validateObservationLedgerBundle(Append(ledger, e))
     THEN <<e>> ELSE <<>>

declareAcquisition(ledger, facts, clock) == LedgerAppend(ledger, facts, {}, clock)
requestStarted(ledger, acquisition, facts, clock) == LedgerAppend(ledger, facts, {acquisition}, clock)
requestSucceeded(ledger, started, facts, clock) == LedgerAppend(ledger, facts, {started}, clock)
artifactCommitted(ledger, acquisition, succeeded, facts, clock) ==
  IF (facts.mode = "live") <=> (succeeded # {})
  THEN LedgerAppend(ledger, facts, {acquisition} \cup succeeded, clock) ELSE <<>>
artifactVerified(ledger, committed, facts, clock) == LedgerAppend(ledger, facts, {committed}, clock)
normalizationOutcome(ledger, verified, facts, clock) == LedgerAppend(ledger, facts, verified, clock)
failureRecorded(ledger, lastSuccessful, facts, clock) ==
  LedgerAppend(ledger, facts, {lastSuccessful}, clock)

(* The clock of the live adapter: the wall never goes back, the monotonic  *)
(* reading always moves on.                                                *)
nextLedgerClock(ledger, basis, now) ==
  LET stamps == {e.clock : e \in ToSet(OnBasis(ledger, basis))}
  IN [basis |-> basis, wall |-> Max({now} \cup {c.wall : c \in stamps}),
      mono |-> 1 + Max({now} \cup {c.mono : c \in stamps})]

rawArtifactLink(acquisition, artifact) ==
  [role |-> "primary", acquisition |-> acquisition, vault |-> artifact.vault,
   vaultHash |-> artifact.vaultHash, digest |-> artifact.digest, size |-> artifact.size]

-----------------------------------------------------------------------------
(* The checkpoint names the ledger entry of its stage and that entry's     *)
(* causal parents.                                                         *)
attachLedgerEvidence(body, stage) ==
  body @@ (IF stage = Absent THEN [stage |-> Absent, parents |-> {}]
           ELSE [stage |-> stage, parents |-> causalParents(stage)])

StageFits(c, f) ==
  LET own == HasAcquisition(f) /\ f.acquisition = c.acquisition
  IN CASE c.kind = "acquisition-declared" ->
            f.kind = "acquisition.declared" /\ own /\ f.attempt = c.attempt /\ f.request = c.request
       [] c.kind \in {"request-started", "attempt-started"} -> f.kind = "request.started" /\ own
       [] c.kind = "request-succeeded" -> f.kind = "request.succeeded" /\ own
       [] c.kind = "artifact-committed" ->
            f.kind = "artifact.committed" /\ own /\ c.artifact # Absent /\ CommitIdentity(f) = CommitIdentity(c.artifact)
       [] c.kind = "artifact-verified" ->
            /\ f.kind = "artifact.verified" /\ own /\ c.artifact # Absent
            /\ Evidence(f) = Evidence(c.artifact) /\ f.metadataSize = c.artifact.size
       [] c.kind \in {"chain-complete", "normalization-started"} -> f.kind = "artifact.verified"
       [] c.kind \in {"normalization-complete", "selection-started"} -> f.kind \in NormalizationKinds
       [] c.kind = "completed" -> f.kind = "selection.recorded"
       [] c.kind \in TerminalKinds -> f.kind \in {"failure.recorded", "normalization.quarantined"}
       [] OTHER -> FALSE

validateJournalLedgerBindings(journal, ledger) ==
  /\ validateObservationLedgerBundle(ledger)
  /\ \A i \in DOMAIN journal :
       LET c == journal[i]
       IN IF c.stage = Absent THEN c.parents = {}
          ELSE /\ c.stage \in ToSet(ledger)
               /\ causalParents(c.stage) = c.parents
               /\ Cardinality(c.stage.parents \ causalParents(c.stage)) = 1
               /\ StageFits(c, c.stage.facts)

(* The loop that covers more until nothing changes: every round but the    *)
(* last covers one more entry of the ledger, or one that is not in it.     *)
CoveredFrom(ledger, entries) ==
  entries \cup UNION {e.parents : e \in entries}
    \cup {w \in Of(ledger, {"clock.regression"}) :
            w.facts.prior \in entries /\ w.facts.regressing \in entries}
Covered(ledger, entries) == FoldLeft(LAMBDA covered, e : CoveredFrom(ledger, covered), entries, ledger)

(* Nothing is in the ledger but what the checkpoints rest on.              *)
validateExactWorkflowLedgerCoverage(journal, ledger) ==
  Covered(ledger, UNION {({journal[i].stage} \ {Absent}) \cup journal[i].parents : i \in DOMAIN journal})
    = ToSet(ledger)

-----------------------------------------------------------------------------
(* The journal's tables: a checkpoint is appended if the whole chain is    *)
(* valid with it; a ledger if what is stored is a prefix of it.            *)
JournalAppends(stored, e, identity) == validateJournalEntries(Append(stored, e), identity)
appendLedgerEntries(stored, entries) == validateObservationLedgerBundle(entries) /\ IsPrefix(stored, entries)

(* An extension of stored evidence that may be written.                    *)
ExtensionAdmitted(storedJournal, storedLedger, journal, ledger, identity) ==
  /\ validateJournalEntries(journal, identity)
  /\ validateJournalLedgerBindings(journal, ledger)
  /\ validateExactWorkflowLedgerCoverage(journal, ledger)
  /\ IsPrefix(storedJournal, journal) /\ appendLedgerEntries(storedLedger, ledger)

Unstaged == {"attempt-started", "page-checkpointed"}

(* produced: the entries whose proof the journal's producer has stored.    *)
loadWorkflowProducedAcquisitionEvidence(journal, ledger, produced, identity) ==
  /\ validateJournalEntries(journal, identity)
  /\ validateJournalLedgerBindings(journal, ledger)
  /\ ToSet(journal) \cup ToSet(ledger) \subseteq produced
  /\ \A i \in DOMAIN journal : journal[i].stage = Absent => journal[i].kind \in Unstaged

-----------------------------------------------------------------------------
(* The vault as a restart sees it: observations by id, attempts by id,     *)
(* sizes by digest.  The vault may keep an attempt under its own name.     *)
persistedRetrievalAttemptId(attempt) == <<"persisted", attempt>>

artifactExpectation(e) ==
  [vault |-> e.artifact.vault, digest |-> e.artifact.digest, size |-> e.artifact.size,
   vaultHash |-> e.artifact.vaultHash, attempt |-> e.attempt, request |-> e.request]

verifyCommittedArtifact(store, expected) ==
  /\ expected.size \in 0..ArtifactBytesMax
  /\ expected.vault \in DOMAIN store.observations
  /\ LET o == store.observations[expected.vault]
     IN /\ o.digest = expected.digest /\ o.vaultHash = expected.vaultHash
        /\ o.attempt \in {expected.attempt, persistedRetrievalAttemptId(expected.attempt)}
        /\ o.request = expected.request
        /\ o.attempt \in DOMAIN store.attempts /\ store.attempts[o.attempt] = expected.request
  /\ expected.digest \in DOMAIN store.sizes /\ store.sizes[expected.digest] = expected.size

(* Mutant: a committed artifact is fetched again.                          *)
RestartStep_Refetch(e) ==
  IF e.kind \in {"attempt-started", "request-succeeded", "artifact-committed"}
  THEN [kind |-> "fresh-attempt", page |-> e.page, transport |-> TRUE]
  ELSE [kind |-> "preflight", page |-> e.page, transport |-> FALSE]

RestartStep(e) ==
  LET Do(kind, transport) == [kind |-> kind, page |-> e.page, transport |-> transport]
  IN CASE e.terminal # Absent -> Do("terminal", FALSE)
       [] e.kind = "acquisition-declared" -> Do("preflight", TRUE)
       [] e.kind = "request-started" -> Do("load-credentials", FALSE)
       [] e.kind \in {"attempt-started", "request-succeeded"} -> Do("fresh-attempt", TRUE)
       [] e.kind = "artifact-committed" -> Do("append-artifact-verification", FALSE)
       [] e.kind = "artifact-verified" -> Do("append-page-checkpoint", FALSE)
       [] e.kind = "page-checkpointed" /\ e.next = TerminalTokenHash -> Do("close-chain", FALSE)
       [] e.kind = "page-checkpointed" -> [Do("preflight", TRUE) EXCEPT !.page = @ + 1]
       [] e.kind \in {"chain-complete", "normalization-started"} -> Do("restart-normalization", FALSE)
       [] e.kind \in {"normalization-complete", "selection-started"} -> Do("run-selection", FALSE)
       [] OTHER -> Do("fails", FALSE)

Refused == [kind |-> "refused", page |-> 0, transport |-> FALSE]

decideAcquisitionRestart(journal, ledger, produced, store, identity, configuration) ==
  LET bearing == {e \in ToSet(journal) : e.kind \in ArtifactRequired}
      expectations == {artifactExpectation(e) : e \in bearing}
  IN IF /\ loadWorkflowProducedAcquisitionEvidence(journal, ledger, produced, identity)
        /\ \A e \in ToSet(journal) : e.configuration = configuration
        /\ \A x, y \in expectations : x.vault = y.vault => x = y
        /\ \A x \in expectations : verifyCommittedArtifact(store, x)
     THEN RestartStep(journal[Len(journal)]) ELSE Refused

(* DeliveryConflictRegistry.observe: digests is what was seen before.      *)
DeliveryDisposition(digests, digest) ==
  CASE digests = {} -> "first-delivery"
    [] digests = {digest} -> "exact-redelivery"
    [] OTHER -> "conflict-quarantined"

-----------------------------------------------------------------------------
(* replayAcquisitionLedger: requests and failures are left out, a commit   *)
(* keeps its acquisition only, a wall clock that goes back between two     *)
(* retained entries is witnessed anew.                                     *)
shouldOmit(e) == Kind(e) \in RequestKinds \cup {"failure.recorded"}

replayFacts(f) == IF f.kind = "artifact.committed" THEN [f EXCEPT !.mode = "replay"] ELSE f

ReplayedAs(acc, source, e) == [acc EXCEPT !.map = (source :> e) @@ @]
ReplayFails(acc) == [acc EXCEPT !.failed = TRUE]

ReplayWitness(acc, source) ==
  LET prior == acc.map[source.facts.prior]
      regressing == acc.map[source.facts.regressing]
      found == {e \in Of(acc.out, {"clock.regression"}) :
                  e.facts.prior = prior /\ e.facts.regressing = regressing}
  IN CASE shouldOmit(source.facts.prior) \/ shouldOmit(source.facts.regressing) ->
            ReplayedAs(acc, source, regressing)
       [] found # {} -> ReplayedAs(acc, source, CHOOSE e \in found : TRUE)
       [] OTHER -> ReplayFails(acc)

(* What stands for an omitted entry: its causal parent.                    *)
ReplayOmitted(acc, source) ==
  LET stands == {acc.map[p] : p \in source.parents}
      causal == {e \in stands : Kind(e) # "clock-basis.declared"}
  IN IF stands = {} THEN ReplayFails(acc)
     ELSE ReplayedAs(acc, source, CHOOSE e \in (IF causal # {} THEN causal ELSE stands) : TRUE)

ReplayEntry(acc, source, execution) ==
  LET kept == {p \in source.parents :
                 ~(Kind(source) = "artifact.committed" /\ source.facts.mode = "live"
                   /\ Kind(p) = "request.succeeded")}
      e == createObservationLedgerEntry(execution, {acc.map[p] : p \in kept}, source.clock,
                                        replayFacts(source.facts))
      before == OnBasis(acc.out, e.clock.basis)
      prior == before[Len(before)]
      declaration == CHOOSE d \in Of(acc.out, {"clock-basis.declared"}) :
                       deriveClockBasisId(d.facts.basis) = e.clock.basis
      witness == createObservationLedgerEntry(
                   execution, {declaration, prior, e}, e.clock,
                   [kind |-> "clock.regression", prior |-> prior, regressing |-> e,
                    priorWall |-> prior.clock.wall, currentWall |-> e.clock.wall,
                    preserved |-> prior.clock.mono < e.clock.mono])
      regresses == e.clock.basis # Absent /\ before # <<>> /\ e.clock.wall < prior.clock.wall
  IN [ReplayedAs(acc, source, e)
        EXCEPT !.out = @ \o (IF regresses THEN <<e, witness>> ELSE <<e>>)]

ReplayStep(acc, source, execution) ==
  CASE acc.failed -> acc
    [] Kind(source) = "clock.regression" -> ReplayWitness(acc, source)
    [] shouldOmit(source) -> ReplayOmitted(acc, source)
    [] OTHER -> ReplayEntry(acc, source, execution)

replayAcquisitionLedger(ledger, execution) ==
  LET start == [map |-> [e \in {} |-> e], out |-> <<>>, failed |-> FALSE]
      end == FoldLeft(LAMBDA acc, e : ReplayStep(acc, e, execution), start, ledger)
  IN IF end.failed \/ ~validateObservationLedgerBundle(end.out) THEN <<>> ELSE end.out

(* The artifacts that a replay must be given, one per vault observation.   *)
RequiredArtifacts(ledger) ==
  {LET d == CHOOSE d \in Of(ledger, {"acquisition.declared"}) : d.facts.acquisition = c.facts.acquisition
   IN [vault |-> c.facts.vault, digest |-> c.facts.digest, size |-> c.facts.size,
       vaultHash |-> c.facts.vaultHash, attempt |-> d.facts.attempt, request |-> d.facts.request] :
     c \in Of(ledger, {"artifact.committed"})}

replayVerifiedAcquisition(store, artifacts, ledger, execution) ==
  IF /\ \A x, y \in RequiredArtifacts(ledger) : x.vault = y.vault => x = y
     /\ artifacts = RequiredArtifacts(ledger)
     /\ \A x \in artifacts : verifyCommittedArtifact(store, x)
  THEN replayAcquisitionLedger(ledger, execution) ELSE <<>>

canonicalReplayProjection(entries) ==
  observationLedgerSemanticProjection(SelectSeq(entries, LAMBDA e : Kind(e) # "clock-basis.declared"))

-----------------------------------------------------------------------------
(* What a workflow writes next: an item is the new ledger entries and the  *)
(* checkpoint that rests on them.  Items(ledger, last, kind, ...) is empty *)
(* when the ledger refuses the entry.                                      *)
OriginOf(attempt, request) == [provider |-> "alpaca", attempt |-> attempt, request |-> request, route |-> "historical"]

DeclaredFacts(attempt, request) ==
  OriginOf(attempt, request)
    @@ [kind |-> "acquisition.declared",
        acquisition |-> deriveAcquisitionObservationId(OriginOf(attempt, request))]

(* The checkpoint of a new attempt: page, token and counters of the state  *)
(* machine, nothing of an artifact yet.                                    *)
AttemptBody(request, configuration, page, material, binding, ordinal, counters, chain) ==
  LET token == IF material = Absent THEN NoTokenHash ELSE derivePrivateTokenHash(material)
      logicalPage == deriveLogicalPageIdentityHash(request, page, token)
      attempt == deriveAttemptControlIdentities(logicalPage, ordinal, "nonce")
  IN [request |-> request, configuration |-> configuration, logicalPage |-> logicalPage,
      page |-> page, token |-> token, material |-> material, binding |-> binding, next |-> Absent,
      nextMaterial |-> Absent, nextBinding |-> Absent, attempt |-> attempt, ordinal |-> ordinal,
      acquisition |-> DeclaredFacts(attempt, request).acquisition, artifact |-> Absent,
      records |-> Absent, chain |-> chain, counters |-> counters, terminal |-> Absent,
      reason |-> Absent]

NoCounters == [pages |-> 0, bytes |-> 0, records |-> 0, facts |-> 0, attempts |-> 0]

BodyKeys == DOMAIN AttemptBody(Absent, Absent, 0, Absent, Absent, 0, NoCounters, Genesis)
journalEntryBody(e) == [k \in BodyKeys |-> e[k]]

Item(entries, previous, journalId, kind, body, stage) ==
  [ledger |-> entries,
   checkpoint |-> createJournalEntry(previous, journalId, kind, attachLedgerEvidence(body, stage))]

(* One more ledger entry and the checkpoint that names it.                 *)
Staged(entries, previous, kind, body) ==
  IF entries = <<>> THEN {} ELSE {Item(entries, previous, previous.journal, kind, body, entries[1])}

FirstItem(ledger, request, configuration, journalId, clock) ==
  LET body == AttemptBody(request, configuration, 0, Absent, Absent, 0, NoCounters, Genesis)
      entries == declareAcquisition(ledger, DeclaredFacts(body.attempt, request), clock)
  IN {Item(entries, Genesis, journalId, "acquisition-declared", body, entries[1])}

(* A later attempt: the same page again, or the next one.                  *)
NextAttemptBody(last) ==
  LET advances == last.kind = "page-checkpointed"
      counters == [last.counters EXCEPT !.attempts = @ + 1]
  IN IF advances
     THEN AttemptBody(last.request, last.configuration, last.page + 1, last.nextMaterial,
                      last.nextBinding, 0, counters, last.chain)
     ELSE AttemptBody(last.request, last.configuration, last.page, last.material, last.binding,
                      last.ordinal + 1, counters, last.chain)

AttemptItems(ledger, last, clock) ==
  LET body == NextAttemptBody(last)
      declared == declareAcquisition(ledger, DeclaredFacts(body.attempt, body.request), clock)
      more == ledger \o declared
      started == requestStarted(more, declared[1],
                                [kind |-> "request.started", acquisition |-> body.acquisition],
                                nextLedgerClock(more, clock.basis, clock.wall))
  IN IF last.kind = "request-started"
     THEN {Item(<<>>, last, last.journal, "attempt-started",
                [journalEntryBody(last) EXCEPT !.counters.attempts = @ + 1], last.stage)}
     ELSE IF declared = <<>> \/ started = <<>> THEN {}
     ELSE {Item(declared \o started, last, last.journal, "attempt-started", body, started[1])}

PageInput(last, records) ==
  [request |-> last.request, logicalPage |-> last.logicalPage, page |-> last.page,
   artifact |-> last.artifact, token |-> last.token, prior |-> last.chain, records |-> records,
   counters |-> [last.counters EXCEPT !.pages = @ + 1, !.bytes = @ + last.artifact.size,
                                      !.records = @ + records]]

PageItems(last, records, material) ==
  LET p == PageInput(last, records)
      admission == planPageAdmission(p, material)
  IN IF ~PageChainValid(p) THEN {}
     ELSE {Item(<<>>, last, last.journal, "page-checkpointed",
                [journalEntryBody(last) EXCEPT
                   !.next = admission.next, !.nextMaterial = material,
                   !.nextBinding = admission.binding, !.records = records,
                   !.chain = admission.chain, !.counters = p.counters], Absent)}

AcquisitionOf(ledger, e) ==
  CHOOSE d \in Of(ledger, {"acquisition.declared"}) : d.facts.acquisition = e.acquisition

ArtifactItems(ledger, last, digest, clock) ==
  LET artifact == [vault |-> <<"observation", last.attempt>>, vaultHash |-> <<"hash", last.attempt>>,
                   digest |-> digest, size |-> 1]
      facts == artifact @@ [kind |-> "artifact.committed", acquisition |-> last.acquisition,
                            mode |-> "live", retrieved |-> clock.wall]
  IN Staged(artifactCommitted(ledger, AcquisitionOf(ledger, last), {last.stage}, facts, clock),
            last, "artifact-committed", [journalEntryBody(last) EXCEPT !.artifact = artifact])

VerifiedItems(ledger, last, clock) ==
  LET a == last.artifact
  IN Staged(artifactVerified(ledger, last.stage,
              [kind |-> "artifact.verified", acquisition |-> last.acquisition, vault |-> a.vault,
               digest |-> a.digest, metadataSize |-> a.size, consumedSize |-> a.size], clock),
            last, "artifact-verified", journalEntryBody(last))

VerifiedStage(ledger, last) ==
  CHOOSE v \in Of(ledger, {"artifact.verified"}) : v.facts.acquisition = last.acquisition

NormalizedItems(ledger, last, clock) ==
  LET link == rawArtifactLink(last.acquisition, last.artifact)
  IN Staged(normalizationOutcome(ledger, {VerifiedStage(ledger, last)},
              [kind |-> "normalization.quarantined", links |-> {link}, normalizer |-> "n",
               transcript |-> "t"], clock),
            last, "normalization-complete", journalEntryBody(last))

(* The failure stage that follows the last ledger entry.                   *)
FailedItems(ledger, last, kind, clock) ==
  UNION {Staged(failureRecorded(ledger, last.stage,
                  [kind |-> "failure.recorded", stage |-> f[1], failedAfter |-> f[2],
                   acquisition |-> last.acquisition, observation |-> Absent], clock),
                last, kind, [journalEntryBody(last) EXCEPT !.terminal = kind, !.reason = f[1]]) :
           f \in {g \in FailureStages : last.stage # Absent /\ g[2] = Kind(last.stage)}}

Items(ledger, last, kind, digest, material, clock) ==
  CASE kind = "request-started" ->
         Staged(requestStarted(ledger, last.stage, [kind |-> "request.started", acquisition |-> last.acquisition],
                               clock), last, kind, journalEntryBody(last))
    [] kind = "attempt-started" -> AttemptItems(ledger, last, clock)
    [] kind = "request-succeeded" ->
         Staged(requestSucceeded(ledger, last.stage, [kind |-> "request.succeeded", acquisition |-> last.acquisition,
                                                      metadata |-> "m"], clock),
                last, kind, journalEntryBody(last))
    [] kind = "artifact-committed" -> ArtifactItems(ledger, last, digest, clock)
    [] kind = "artifact-verified" -> VerifiedItems(ledger, last, clock)
    [] kind = "page-checkpointed" -> PageItems(last, 1, material)
    [] kind \in {"chain-complete", "normalization-started"} ->
         {Item(<<>>, last, last.journal, kind, journalEntryBody(last), VerifiedStage(ledger, last))}
    [] kind = "normalization-complete" -> NormalizedItems(ledger, last, clock)
    [] kind = "selection-started" ->
         {Item(<<>>, last, last.journal, kind, journalEntryBody(last), last.stage)}
    [] kind \in TerminalKinds -> FailedItems(ledger, last, kind, clock)
    [] OTHER -> {}
=============================================================================
