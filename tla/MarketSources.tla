---------------------------- MODULE MarketSources ----------------------------
(***************************************************************************)
(* Who a market fact comes from and which sources a selection may use      *)
(* (providers/market-reference/identity.ts).  A hash of a preimage is the  *)
(* tuple of its prefix and the preimage, so equal identifiers have equal   *)
(* preimages; a preimage the code refuses has no identifier.               *)
(***************************************************************************)
EXTENDS ExactPrices, SequencesExt

CONSTANTS RegularQuoteAge, ExtendedQuoteAge, RegularTradeAge, ExtendedTradeAge, CompletedBarAge,
          SevenDays,       \* from a capture to the cutoff of its corrected view
          MaxProviders     \* MARKET_BOUNDS.providersPerSelection
ASSUME PolicyConstants ==
  /\ {RegularQuoteAge, ExtendedQuoteAge, RegularTradeAge, ExtendedTradeAge, CompletedBarAge}
       \subseteq Nat
  /\ SevenDays \in Nat \ {0} /\ MaxProviders \in Nat

Identified(prefix, valid, preimage) == IF valid THEN <<prefix, preimage>> ELSE Absent

HasPrefix(id, prefix) == id # Absent /\ id[1] = prefix

-----------------------------------------------------------------------------
(* A source: provider, dataset, feed, channel, and the entitlement to it.  *)
deriveMarketProviderId(p) == Identified("mpv1", Absent \notin {p.provider, p.operator}, p)

deriveMarketDatasetId(d) == Identified("mds1", HasPrefix(d.provider, "mpv1"), d)

deriveMarketFeedId(f) == Identified("mfd1", HasPrefix(f.dataset, "mds1"), f)

FactKinds == {"quote", "trade", "bar", "prior-close", "status", "luld", "corporate-action",
              "correction", "cancellation"}

deriveEndpointChannelId(c) ==
  Identified("mec1", HasPrefix(c.feed, "mfd1") /\ c.facts # {} /\ c.facts \subseteq FactKinds, c)

(* One status per dataset, feed, channel and use.                          *)
deriveEntitlementSnapshotId(e) ==
  Identified("ent1",
    /\ HasPrefix(e.provider, "mpv1")
    /\ e.to # Absent => e.from <= e.to
    /\ \A c, k \in e.capabilities :
         <<c.dataset, c.feed, c.channel, c.use>> = <<k.dataset, k.feed, k.channel, k.use>> => c = k,
    e)

deriveInstrumentId(i) ==
  Identified("min1",
    /\ i.roundLot > 0
    /\ (i.predecessor = Absent) <=> (i.transition = Absent)
    /\ i.predecessor # Absent => HasPrefix(i.predecessor, "min1"),
    i)

validateMarketSource(s) ==
  /\ HasPrefix(s.provider, "mpv1") /\ HasPrefix(s.dataset, "mds1") /\ HasPrefix(s.feed, "mfd1")
  /\ HasPrefix(s.channel, "mec1") /\ HasPrefix(s.entitlement, "ent1")

deriveMarketAcquisitionId(a) ==
  Identified("maq1",
    /\ validateMarketSource(a.source)
    /\ a.instruments # {} /\ \A i \in a.instruments : HasPrefix(i, "min1")
    /\ a.facts # {},
    a)

deriveArtifactContentId(c) == Identified("mac1", c.size >= 0, c)

deriveRawArtifactId(r) == Identified("mar1", HasPrefix(r.content, "mac1"), r)

-----------------------------------------------------------------------------
(* Which sources a selection may use, and the policies it is frozen to.    *)
validateSourcePolicy(p) ==
  /\ \A s \in {p.primary} \cup p.comparisons : validateMarketSource(s)
  /\ p.primary \notin p.comparisons
  /\ p.authorization \in {"p1-09-approved", "synthetic-offline-only"}
  /\ p.fallback = "none" /\ p.isolation = "per-source"

(* entries is the sequence of ranks, each [source, role].                  *)
validateProviderPriority(entries) ==
  /\ entries # <<>> /\ Len(entries) <= MaxProviders
  /\ \A i, j \in DOMAIN entries : entries[i].source = entries[j].source => i = j
  /\ Cardinality({i \in DOMAIN entries : entries[i].role = "primary"}) = 1

(* An interval is one of six rows: anchor, offset, comparator and session. *)
IntervalRow(kind) ==
  CASE kind = "prior-close" ->
         <<"previous-eligible-listing-session", Absent, "authoritative-prior-close", "prior-eligible-session">>
    [] kind = "publication-pre" ->
         <<"earnings-publication", 0, "strictly-before", "cross-session-allowed">>
    [] kind = "t0" -> <<"h001-selected-basis", 0, "at-or-before", "anchor-session">>
    [] kind = "t1" -> <<"h001-selected-basis", 1, "at-or-before", "same-session-as-t0">>
    [] kind = "t5" -> <<"h001-selected-basis", 5, "at-or-before", "same-session-as-t0">>
    [] kind = "t30" -> <<"h001-selected-basis", 30, "at-or-before", "same-session-as-t0">>
Intervals == {"prior-close", "publication-pre", "t0", "t1", "t5", "t30"}

deriveMarketIntervalKey(kind) == <<"mik1", kind, IntervalRow(kind)>>

validateStalenessPolicy(p) ==
  p = [regularQuote |-> RegularQuoteAge, extendedQuote |-> ExtendedQuoteAge,
       regularTrade |-> RegularTradeAge, extendedTrade |-> ExtendedTradeAge,
       completedBar |-> CompletedBarAge, boundary |-> "inclusive", overnight |-> Absent]

validateCorrectionPolicy(p) ==
  IF p.view = "recorded-primary"
  THEN p.offset = Absent /\ p.finalOnly = "recorded-primary-unavailable"
  ELSE /\ p.view = "recorded-corrected" /\ p.offset = SevenDays
       /\ p.finalOnly = "recorded-corrected-only-if-corpus-closed-by-cutoff"

(* The kinds of reference in the code's order are a version of the policy. *)
validateEligibilityPolicy(p) ==
  /\ p.primary = "quote-nbbo-midpoint" /\ p.currency = "USD"
  /\ p.substitution = "forbidden" /\ p.unknownCondition = "ineligible"
  /\ p.strict = {"locked", "luld-limit-state", "slow"}

validateTieBreakPolicy(p) ==
  /\ p.order = <<"source-native-total-order", "identical-economic-state", "missing">>
  /\ p.forbidden = {"arrival", "artifact", "hash", "page", "provider-priority", "row"}

validateDiscrepancyPolicy(p) ==
  /\ p.comparison = "exact-reduced-rational" /\ p.missing = "not-comparable"
  /\ ~p.mergesProvenance /\ ~p.changesPrimary

(* The primary source ranks first and the others are the comparisons.      *)
PriorityAgrees(policy) ==
  /\ policy.priority[1] = [source |-> policy.sources.primary, role |-> "primary"]
  /\ {e.source : e \in {d \in Range(policy.priority) : d.role = "discrepancy-only"}}
       = policy.sources.comparisons

deriveSelectionPolicyId(policy) ==
  Identified("msp1",
    /\ validateSourcePolicy(policy.sources)
    /\ validateProviderPriority(policy.priority)
    /\ PriorityAgrees(policy)
    /\ validateEligibilityPolicy(policy.eligibility)
    /\ validateStalenessPolicy(policy.staleness)
    /\ validateCorrectionPolicy(policy.correction)
    /\ validateTieBreakPolicy(policy.tieBreak)
    /\ validateDiscrepancyPolicy(policy.discrepancy)
    /\ policy.intervals = {deriveMarketIntervalKey(k) : k \in Intervals},
    policy)
=============================================================================
