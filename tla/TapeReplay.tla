----------------------------- MODULE TapeReplay -----------------------------
(***************************************************************************)
(* The provider-neutral replays of providers/market-reference/operations.ts*)
(* as folds over recorded events: native sequences, consolidated last, the *)
(* frozen session calendar, quote boundaries, the quote timeline and the   *)
(* prior close.  Times and sequences are small naturals; a reason is the   *)
(* code of the repository's market reason without its "market." prefix.    *)
(***************************************************************************)
EXTENDS MarketSources

None == "none"
NoSequence == -1

-----------------------------------------------------------------------------
(* replayNativeSequence: data [kind, sequence, digest], reset [kind,       *)
(* sequence, authoritative].                                               *)
NativeStart == [healthy |-> TRUE, available |-> FALSE, next |-> NoSequence,
                previous |-> <<>>, accepted |-> <<>>, last |-> "start"]

(* Mutant: a reset without authority only drops the market state.          *)
NativeReset_KeepsHealth(st, e) ==
  IF e.authoritative
  THEN [st EXCEPT !.healthy = TRUE, !.available = FALSE, !.next = e.sequence, !.previous = <<>>]
  ELSE [st EXCEPT !.available = FALSE]

NativeReset(st, e) ==
  IF e.authoritative
  THEN [st EXCEPT !.healthy = TRUE, !.available = FALSE, !.next = e.sequence, !.previous = <<>>,
                  !.last = "authoritative-reset"]
  ELSE [st EXCEPT !.healthy = FALSE, !.available = FALSE, !.last = "unexpected-reset"]

NativeBroken(st, disposition) ==
  [st EXCEPT !.healthy = FALSE, !.available = FALSE, !.last = disposition]

NativeAccepted(st, e) ==
  [st EXCEPT !.accepted = Append(@, e), !.available = TRUE, !.next = e.sequence + 1,
             !.previous = <<e.sequence, e.digest>>, !.last = "accepted"]

NativeData(st, e) ==
  IF ~st.healthy THEN [st EXCEPT !.last = "suppressed-through-gap"]
  ELSE IF st.previous = <<e.sequence, e.digest>> THEN [st EXCEPT !.last = "duplicate"]
  ELSE IF st.next # NoSequence /\ e.sequence < st.next THEN NativeBroken(st, "regression")
  ELSE IF st.next # NoSequence /\ e.sequence > st.next THEN NativeBroken(st, "gap-opened")
  ELSE NativeAccepted(st, e)

NativeStep(st, e) == IF e.kind = "reset" THEN NativeReset(st, e) ELSE NativeData(st, e)

replayNativeSequence(events) ==
  LET st == FoldLeft(NativeStep, NativeStart, events)
  IN [healthy |-> st.healthy, available |-> st.healthy /\ st.available,
      next |-> IF st.healthy THEN st.next ELSE NoSequence, accepted |-> st.accepted]

-----------------------------------------------------------------------------
(* replayConsolidatedLast: the price of consolidated Last after the events.*)
typedTradeCondition(condition) ==
  CASE condition \in {"official-open", "official-close", "corrected-close"} -> <<condition, None>>
    [] condition \in {"opening", "reopening", "closing"} -> <<"trade", condition>>
    [] OTHER -> <<"trade", "last-eligible">>

UpdatesLast(last, e) ==
  CASE e.condition \in {"regular", "opening", "reopening", "closing"} -> "yes"
    [] e.condition \in {"sold-last", "prior-reference-price", "sold-out-of-sequence"} ->
         IF e.dayState = "unknown" THEN "state-insufficient"
         ELSE IF e.dayState = "qualifying" /\ (e.condition = "sold-last" \/ last = None)
         THEN "yes" ELSE "no"
    [] OTHER -> "no"

LastStep(last, e) == IF UpdatesLast(last, e) = "yes" THEN e.id ELSE last

replayConsolidatedLast(events) == FoldLeft(LastStep, None, events)

(* classifyTapeOfficialTradeCode: event kind and payload kind of a code.   *)
classifyTapeOfficialTradeCode(code) ==
  CASE code = "Q" -> <<"official-open", "listing-official-open">>
    [] code = "O" -> <<"trade", "opening">>
    [] code = "5" -> <<"trade", "reopening">>
    [] code = "6" -> <<"trade", "closing">>
    [] code = "M" -> <<"official-close", "listing-official-close">>
    [] code = "9" -> <<"corrected-close", "corrected-consolidated-close">>

-----------------------------------------------------------------------------
(* classifyFrozenSession: half-open boundaries; a holiday has none.        *)
calendarBoundaries(b) == b = <<>> \/ (Len(b) = 4 /\ \A i \in 1..3 : b[i] < b[i + 1])

classifyFrozenSession(b, target) ==
  IF b = <<>> THEN "calendar-closed"
  ELSE CASE b[1] <= target /\ target < b[2] -> "extended-pre"
         [] b[2] <= target /\ target < b[3] -> "regular-continuous"
         [] b[3] <= target /\ target < b[4] -> "extended-post"
         [] OTHER -> "calendar-closed"

-----------------------------------------------------------------------------
(* Quotes: [nbbo, twoSided, halted, condition, luld, bid, ask, slow].      *)
constructTwoSidedQuote(bid, ask) ==
  {side \in {"bid", "ask"} : LET s == IF side = "bid" THEN bid ELSE ask
                             IN s = Absent \/ s.price[1] = 0 \/ s.size[1] = 0}

(* The first check in the list that does not hold, None if all hold.       *)
FirstFailure(checks) ==
  LET failed == {i \in DOMAIN checks : ~checks[i][1]}
  IN IF failed = {} THEN None ELSE checks[Min(failed)][2]

Crossed(q) == compareCanonicalDecimals(q.bid, q.ask) > 0
Locked(q) == compareCanonicalDecimals(q.bid, q.ask) = 0

QualityKinds(q) == {k \in {"locked", "slow", "luld-limit-state"} :
                      CASE k = "locked" -> Locked(q)
                        [] k = "slow" -> q.slow
                        [] k = "luld-limit-state" -> q.luld = "limit"}

evaluateStrictExecutableQuote(q) ==
  FirstFailure(<<<<q.nbbo, "quote-not-consolidated">>, <<q.twoSided, "quote-one-sided">>,
                 <<~Crossed(q), "quote-crossed">>, <<~q.halted, "quote-halt">>,
                 <<q.condition # "unknown", "condition-unknown">>,
                 <<q.condition # "ineligible", "quote-condition-ineligible">>,
                 <<q.luld # "non-executable", "quote-luld-nonexecutable">>,
                 <<QualityKinds(q) = {}, "no-eligible-quote">>>>)

QuoteAgeLimit(session) ==
  IF session = "regular-continuous" THEN RegularQuoteAge ELSE ExtendedQuoteAge

evaluatePrimaryQuoteBoundary(q, session, age) ==
  FirstFailure(<<<<q.nbbo, "quote-not-consolidated">>, <<q.twoSided, "quote-one-sided">>,
                 <<~q.halted, "quote-halt">>,
                 <<q.condition # "unknown", "condition-unknown">>,
                 <<q.condition # "ineligible", "quote-condition-ineligible">>,
                 <<q.luld # "non-executable", "quote-luld-nonexecutable">>,
                 <<~Crossed(q), "quote-crossed">>,
                 <<age <= QuoteAgeLimit(session), "quote-stale">>>>)

-----------------------------------------------------------------------------
(* selectQuoteTimelineReference: events [kind, id, at, sequence, session,  *)
(* quote, action].  id is the rank of the event identifier.                *)
TotalSequence(group) ==
  /\ \A e \in group : e.sequence # NoSequence
  /\ \A e, f \in group : e.sequence = f.sequence => e = f

PrimaryQuotes(group) == {e \in group : e.kind = "quote" /\ e.session # "overnight"}

EqualTimeConflict(group) ==
  ~TotalSequence(group) /\ Cardinality({e.quote : e \in PrimaryQuotes(group)}) > 1

OrderedGroup(group) ==
  SetToSortSeq(group, LAMBDA e, f : IF TotalSequence(group) THEN e.sequence < f.sequence
                                    ELSE e.id < f.id)

TimelineStart == [halted |-> FALSE, current |-> <<>>, exclusion |-> "no-eligible-quote"]

TradingAction(st, e) ==
  CASE e.action = "halt" ->
         [halted |-> TRUE, current |-> <<>>, exclusion |-> "quote-halt"]
    [] e.action = "quote-resume" ->
         [halted |-> FALSE, current |-> <<>>, exclusion |-> "no-eligible-quote"]
    [] e.action = "reset" ->
         [st EXCEPT !.current = <<>>, !.exclusion = "no-eligible-quote"]
    [] e.action = "trade-resume" -> st

QuoteExclusion(st, e) ==
  IF e.session = "overnight" THEN "overnight-primary-forbidden"
  ELSE IF st.halted THEN "quote-halt"
  ELSE evaluatePrimaryQuoteBoundary(e.quote, e.session, 0)

TimelineStep(st, e) ==
  IF e.kind = "trading-action" THEN TradingAction(st, e)
  ELSE IF QuoteExclusion(st, e) # None THEN [st EXCEPT !.exclusion = QuoteExclusion(st, e)]
  ELSE [st EXCEPT !.current = <<e>>, !.exclusion = None]

Missing(reason) == [status |-> "missing", event |-> <<>>, reason |-> reason]

AtTime(events, t) == {e \in events : e.at = t}

selectQuoteTimelineReference(eventSet, target) ==
  LET admitted == {e \in eventSet : e.at <= target}
      times == SetToSortSeq({e.at : e \in admitted}, LAMBDA s, t : s < t)
      conflicts == \E t \in {e.at : e \in admitted} : EqualTimeConflict(AtTime(admitted, t))
      st == FoldLeft(LAMBDA acc, t : FoldLeft(TimelineStep, acc, OrderedGroup(AtTime(admitted, t))),
                     TimelineStart, times)
      e == st.current[1]
      final == evaluatePrimaryQuoteBoundary(e.quote, e.session, target - e.at)
  IN IF conflicts THEN Missing("sequence-insufficient")
     ELSE IF st.current = <<>> THEN Missing(st.exclusion)
     ELSE IF final # None THEN Missing(final)
     ELSE [status |-> IF QualityKinds(e.quote) = {} THEN "selected-complete" ELSE "selected-degraded",
           event |-> <<e>>, reason |-> None]

-----------------------------------------------------------------------------
(* selectIsolatedQuoteReference: candidates [id, at, lane, quote].         *)
Latest(candidates) ==
  {c \in candidates : \A d \in candidates : d.at <= c.at}

selectIsolatedQuoteReference(candidates, lane, target) ==
  LET tied == Latest({c \in candidates : c.lane = lane /\ c.at <= target})
  IN IF tied = {} THEN Missing("no-eligible-quote")
     ELSE IF Cardinality({c.quote : c \in tied}) > 1 THEN Missing("sequence-insufficient")
     ELSE [status |-> "selected",
           event |-> <<CHOOSE c \in tied : \A d \in tied : c.id <= d.id>>, reason |-> None]

selectStrictExecutableQuote(candidates, target) ==
  selectIsolatedQuoteReference(
    {c \in candidates : c.lane = "nbbo" /\ evaluateStrictExecutableQuote(c.quote) = None},
    "nbbo", target)

(* evaluateRecordedBarSensitivity: a one-minute bar ending at end.         *)
evaluateRecordedBarSensitivity(end, adjustment, target) ==
  FirstFailure(<<<<end <= target, "bar-interval-future">>,
                 <<target - end <= CompletedBarAge, "bar-stale">>,
                 <<adjustment # "unknown", "adjustment-unknown">>,
                 <<adjustment = "raw", "adjusted-sensitivity-only">>>>)

(* selectPriorCloseAndSensitivities: facts [id, kind, at]; of equal times  *)
(* the smallest identifier.                                                *)
latestSensitivityFact(facts, kind, target) ==
  LET tied == Latest({f \in facts : f.kind = kind /\ f.at <= target})
  IN IF tied = {} THEN <<>> ELSE <<CHOOSE f \in tied : \A g \in tied : f.id <= g.id>>

selectPriorCloseAndSensitivities(facts, target) ==
  LET corrected == latestSensitivityFact(facts, "corrected-close", target)
  IN [primary |-> IF corrected # <<>> THEN corrected
                  ELSE latestSensitivityFact(facts, "official-close", target),
      finalTrade |-> latestSensitivityFact(facts, "final-trade", target),
      completedBar |-> latestSensitivityFact(facts, "completed-bar", target)]
=============================================================================
