----------------------------- MODULE MCEvidence -----------------------------
(* Small pools of evidence for TLC.                                        *)
EXTENDS EvidenceReplay

MCTokens == {<<5, 0>>, <<50, 1>>, <<12, 1>>, <<120, 2>>, <<1200, 3>>, <<7, 2>>, <<100, 0>>, <<0, 1>>}

Data(sequence, digest) == [kind |-> "data", sequence |-> sequence, digest |-> digest]
ResetTo(sequence, authoritative) ==
  [kind |-> "reset", sequence |-> sequence, authoritative |-> authoritative]
MCNativeEvents == {Data(n, d) : n \in 1..3, d \in {"x", "y"}} \cup {ResetTo(2, TRUE), ResetTo(2, FALSE)}

Side(price) == [price |-> <<price, 0>>, size |-> <<1, 0>>]
Quote(bid, ask, slow) ==
  [kind |-> "quote", sub |-> "nbbo", nbbo |-> TRUE,
   twoSided |-> constructTwoSidedQuote(Side(bid), Side(ask)) = {}, halted |-> FALSE,
   condition |-> "eligible", luld |-> "executable", bid |-> <<bid, 0>>, ask |-> <<ask, 0>>,
   slow |-> slow]

Day == <<0, 1, 3, 4>>
ASSUME DayAssumption == calendarBoundaries(Day)
TQuote(id, at, sequence, quote) ==
  [kind |-> "quote", id |-> id, at |-> at, sequence |-> sequence,
   session |-> classifyFrozenSession(Day, at), quote |-> quote, action |-> None]
TAction(id, at, sequence, action) ==
  [kind |-> "trading-action", id |-> id, at |-> at, sequence |-> sequence, session |-> None,
   quote |-> Absent, action |-> action]
MCTimelineEvents ==
  {TQuote(1, 0, NoSequence, Quote(1, 2, FALSE)), TQuote(2, 1, 1, Quote(1, 2, FALSE)),
   TQuote(3, 1, 3, Quote(2, 3, TRUE)), TQuote(4, 2, NoSequence, Quote(3, 2, FALSE)),
   TQuote(5, 3, NoSequence, Quote(1, 3, FALSE)),
   TAction(6, 0, NoSequence, "halt"), TAction(7, 1, 2, "halt"),
   TAction(8, 1, NoSequence, "quote-resume"), TAction(9, 2, NoSequence, "reset"),
   TAction(10, 2, 1, "trade-resume"), TQuote(11, 2, 2, Quote(2, 2, FALSE)),
   TAction(12, 2, NoSequence, "quote-resume")}

Close(id, kind, at) == [id |-> id, kind |-> kind, at |-> at, lane |-> "none", quote |-> Absent]
Lane(id, lane, at, quote) == [id |-> id, kind |-> "quote", at |-> at, lane |-> lane, quote |-> quote]
MCCloseFacts ==
  {Close(1, "official-close", 0), Close(2, "corrected-close", 1), Close(3, "final-trade", 2),
   Close(4, "completed-bar", 1), Close(5, "official-close", 1), Close(6, "final-trade", 1),
   Lane(7, "nbbo", 1, Quote(1, 2, FALSE)), Lane(8, "bolo", 2, Quote(2, 3, FALSE)),
   Lane(9, "nbbo", 1, Quote(1, 3, FALSE)), Close(10, "corrected-close", 3)}

Trade(id, condition, dayState) == [id |-> id, condition |-> condition, dayState |-> dayState]
MCTradeEvents ==
  {Trade("a", "regular", "unknown"), Trade("b", "sold-last", "qualifying"),
   Trade("c", "prior-reference-price", "qualifying"), Trade("d", "sold-last", "unknown"),
   Trade("e", classifyTapeOfficialTradeCode("M")[1], "qualifying"), Trade("f", "odd-lot", "qualifying"),
   Trade("g", classifyTapeOfficialTradeCode("O")[2], "unknown")}

SourceOf(code) ==
  LET provider == deriveMarketProviderId([provider |-> code, operator |-> code])
      dataset == deriveMarketDatasetId([provider |-> provider, family |-> "quotes"])
      feed == deriveMarketFeedId([dataset |-> dataset, consolidation |-> "sip-consolidated"])
      channel == deriveEndpointChannelId([feed |-> feed, facts |-> {"quote"}])
  IN [provider |-> provider, dataset |-> dataset, feed |-> feed, channel |-> channel,
      entitlement |-> deriveEntitlementSnapshotId(
        [provider |-> provider, from |-> 0, to |-> Absent,
         capabilities |-> {[dataset |-> dataset, feed |-> feed, channel |-> channel,
                            use |-> "acquire", status |-> "granted"]}])]
MCPrimarySource == SourceOf("p")
MCOtherSource == SourceOf("o")
MCInstrument == deriveInstrumentId([security |-> "i", roundLot |-> 100, predecessor |-> Absent,
                                    transition |-> Absent])
MCAcquisition ==
  deriveMarketAcquisitionId([source |-> MCPrimarySource, instruments |-> {MCInstrument},
                             facts |-> {"quote"}])
RawArtifact(name) ==
  deriveRawArtifactId([content |-> deriveArtifactContentId([digest |-> name, size |-> 1]),
                       vault |-> name, role |-> "body"])
Original(family, at, payload, sequence, recordedAt) ==
  [source |-> MCPrimarySource, instrument |-> MCInstrument, recordKey |-> family, revisionKey |-> Absent,
   family |-> family, eventKind |-> "quote", at |-> at, semantic |-> "participant-publication",
   precision |-> 1, sequence |-> sequence, acquisition |-> MCAcquisition, artifact |-> RawArtifact("first"),
   member |-> "m", ordinal |-> 0, kind |-> "original", supersedes |-> Absent,
   session |-> "regular-continuous", payload |-> payload, digestOf |-> payload, versions |-> "v",
   recordedAt |-> recordedAt]
Revised(r, at, kind, key, payload, recordedAt) ==
  [r EXCEPT !.at = at, !.kind = kind, !.supersedes = deriveRevisionId(r), !.revisionKey = key,
            !.payload = payload, !.digestOf = payload, !.recordedAt = recordedAt]
Numbered(n) == [scope |-> "s", value |-> n, trust |-> "native-gap-checked"]

QA == Original("A", 1, Quote(1, 2, FALSE), Absent, 1)
QAc == Revised(QA, 0, "correction", "k2", Quote(1, 3, FALSE), 3)
QAcc == Revised(QAc, 1, "correction", "k3", Quote(1, 4, FALSE), 3)
QAx == Revised(QAc, 0, "cancellation", "k4", Absent, 6)
MCRecords ==
  {QA, [QA EXCEPT !.artifact = RawArtifact("second"), !.recordedAt = 5], QAc, QAcc, QAx,
   Original("B", 1, Quote(2, 3, FALSE), Numbered(1), 1),
   Original("C", 1, Quote(2, 4, TRUE), Numbered(2), 2),
   Original("D", 2, Quote(2, 2, FALSE), Absent, 5),
   [Original("O", 2, Quote(1, 2, FALSE), Absent, 1) EXCEPT !.source = MCOtherSource],
   Revised(Original("E", 1, Quote(5, 6, FALSE), Absent, 1), 1, "correction", "k9",
           Quote(5, 7, FALSE), 2)}

MCRequests ==
  {[interval |-> i[1], comparator |-> i[2], view |-> i[3], captured |-> 2] :
     i \in {<<"t0", "at-or-before", "recorded-primary">>, <<"t0", "at-or-before", "recorded-corrected">>,
            <<"publication-pre", "strictly-before", "recorded-primary">>}}

-----------------------------------------------------------------------------
Basis == [wallClock |-> "system-utc", synchronization |-> "unspecified", maximumError |-> Absent,
          monotonicClock |-> "process-monotonic-us", session |-> "s"]
Stamp(wall, mono) == [basis |-> deriveClockBasisId(Basis), wall |-> wall, mono |-> mono]
Declaration == [kind |-> "clock-basis.declared", basis |-> Basis]

Origin(attempt) == [provider |-> "p", attempt |-> attempt, request |-> "r", route |-> "t"]
Acquisition(attempt) ==
  [kind |-> "acquisition.declared", provider |-> "p", attempt |-> attempt, request |-> "r",
   route |-> "t", acquisition |-> deriveAcquisitionObservationId(Origin(attempt))]
A1 == Acquisition(1).acquisition
Started == [kind |-> "request.started", acquisition |-> A1]
Succeeded == [kind |-> "request.succeeded", acquisition |-> A1, metadata |-> "m"]
Committed(mode, vaultHash) ==
  [kind |-> "artifact.committed", acquisition |-> A1, vault |-> "v", vaultHash |-> vaultHash,
   digest |-> "d", size |-> 1, mode |-> mode, retrieved |-> 1]
Verified == [kind |-> "artifact.verified", acquisition |-> A1, vault |-> "v", digest |-> "d",
             metadataSize |-> 1, consumedSize |-> 1]
Issuer == [cik |-> "1", symbols |-> {"S"}, selected |-> "S", from |-> Absent, to |-> Absent]
Projection == deriveProjectionDigest("j")
Source ==
  LET s == [provider |-> "p", source |-> "x", record |-> "n", revision |-> "1"]
  IN [provider |-> "p", source |-> "x", record |-> "n", revision |-> "1",
      recordIdentity |-> deriveSourceRecordIdentity(s),
      version |-> deriveSourceVersionIdentity(s, Projection, Absent),
      family |-> deriveRevisionFamilyIdentity(s)]
Normalized(kind, vaultHash) ==
  LET f == [kind |-> kind, source |-> Source, projection |-> Projection, bundle |-> Absent,
            links |-> {[role |-> "body", acquisition |-> A1, vault |-> "v",
                        vaultHash |-> vaultHash, digest |-> "d", size |-> 1]},
            loader |-> "l", normalizer |-> "z", transcript |-> "c", subject |-> "q",
            issuer |-> Issuer, primary |-> "d", primaryKind |-> "raw-artifact",
            publication |-> [confidence |-> "unknown", at |-> Absent, original |-> Absent]]
  IN f @@ [projectionId |-> deriveProjectionId(f), observation |-> deriveSourceObservationId(f)]
Emitted(vaultHash) == Normalized("normalization.emitted", vaultHash)
Captured(kind) == [kind |-> kind, observation |-> Emitted("h").observation, version |-> Source.version,
                   event |-> "e", position |-> 1, received |-> 1, logical |-> 1]
Selection(basis) ==
  LET f == [kind |-> "selection.recorded", purpose |-> "market-reference-anchor",
            selectionBasis |-> basis.kind, basis |-> basis, observation |-> Emitted("h").observation,
            version |-> Source.version, subject |-> "q", issuer |-> deriveIssuerMappingId(Issuer),
            asOf |-> 2, branch |-> Absent]
  IN f @@ [join |-> deriveMarketReferenceJoinKey(f)]
ByCapture == [kind |-> "capture", event |-> "e", received |-> 1, logical |-> 1,
              clock |-> deriveClockBasisId(Basis)]
ByRetrieval == [kind |-> "retrieval", role |-> "body", acquisition |-> A1, vault |-> "v",
                retrieved |-> 1, clock |-> deriveClockBasisId(Basis)]
Failure(stage, after) ==
  [kind |-> "failure.recorded", stage |-> stage, failedAfter |-> after,
   acquisition |-> IF stage \in {"capture", "selection"} THEN Absent ELSE A1,
   observation |-> IF stage \in {"capture", "selection"} THEN Emitted("h").observation ELSE Absent]

MCLedgerPools ==
  [skewed |-> [drafts |-> {<<Declaration, NoClock>>, <<Acquisition(1), Stamp(3, 1)>>,
                           <<Started, Stamp(5, 2)>>, <<Started, Stamp(2, 2)>>, <<Succeeded, Stamp(4, 3)>>,
                           <<Committed("live", "h"), Stamp(3, 4)>>, <<Verified, Stamp(2, 5)>>},
               max |-> 9],
   clocks |-> [drafts |-> {<<Declaration, NoClock>>}
                            \cup {Acquisition(n) : n \in 1..2} \X {Stamp(w, m) : w \in 1..3, m \in 1..2},
               max |-> 5],
   commits |-> [drafts |-> {Acquisition(1), Committed("recorded", "h"), Committed("replay", "h"),
                            Committed("recorded", "g"), Verified, Emitted("h"), Emitted("g"),
                            Normalized("normalization.ignored", "h"),
                            Failure("verified-read", "artifact.committed")} \X {NoClock},
                max |-> 7],
   live |-> [drafts |-> {Acquisition(1), Started, Succeeded, Committed("live", "h"),
                         Committed("recorded", "h"), Verified, Failure("request", "request.started"),
                         Failure("artifact-store", "request.succeeded"),
                         Normalized("normalization.quarantined", "h")} \X {NoClock},
             max |-> 6],
   selection |-> [drafts |-> {<<Declaration, NoClock>>}
                    \cup {Acquisition(1), Committed("recorded", "h"), Verified, Emitted("h"),
                          Captured("capture.appended"), Selection(ByCapture), Selection(ByRetrieval),
                          Failure("selection", "normalization.emitted")} \X {Stamp(1, 1)},
                  max |-> 8]]

-----------------------------------------------------------------------------
Variant(id, hypothesis, direction, threshold) ==
  [id |-> id, hypothesis |-> hypothesis, direction |-> direction, threshold |-> threshold]
StudyProtocol ==
  [variants |-> {Variant("v1", "H1", 1, 0), Variant("v2", "H1", -1, 20000), Variant("v3", "H2", 1, 0)},
   universe |-> {"T"}, simultaneity |-> 1, entryDelay |-> 2, spread |-> 1, slippage |-> 1, fee |-> 0,
   impact |-> 0, weights |-> <<60, 40>>, excludedStatuses |-> {"stopped"},
   boundaries |-> <<2, 9, 18, 22>>]
Event(issuer, start, cutoff, decision, close) ==
  [snapshot |-> [type |-> "event-cluster.snapshot",
                 cluster |-> [planId |-> issuer, planRevision |-> "1", status |-> "complete",
                              members |-> {}, silent |-> {"transcript"}]],
   plan |-> [id |-> issuer, revision |-> "1", effects |-> 0, issuer |-> issuer, period |-> "q",
             ticker |-> "T", instrument |-> "i", sector |-> "XL"],
   records |-> {}, bars |-> {}, initialStart |-> start, cutoff |-> cutoff, decision |-> decision,
   close |-> close, next |-> close + 2, repair |-> FALSE]
Bar(instrument, end, available, close) ==
  [instrument |-> instrument, end |-> end, available |-> available, close |-> close]
BarsAt(end, available, close) ==
  {Bar("i", end, available, close), Bar("SPY", end, available, 2), Bar("XL", end, available, 2)}
Member(n, lane, published, observed, retrieved) ==
  [lane |-> lane, provider |-> lane, record |-> n, revision |-> "1", published |-> published,
   observed |-> observed, retrieved |-> retrieved, artifact |-> n,
   normalization |-> [source |-> n, event |-> n, normalizer |-> "z"]]
RecordOf(m, normalizedAt, readyAt) ==
  [memberKey |-> Study!researchMemberKey(m), artifact |-> m.artifact, event |-> m.normalization.event,
   normalizer |-> "z", normalizedAt |-> normalizedAt, readyAt |-> readyAt, secAcceptance |-> Absent,
   stored |-> [id |-> m.normalization.event, artifact |-> m.artifact, receivedAt |-> m.retrieved]]
MinuteItem(id, bars) == [id |-> id, bars |-> bars, members |-> {}, records |-> {}]
MemberItem(id, m, normalizedAt, readyAt) ==
  [id |-> id, bars |-> {}, members |-> {m}, records |-> {RecordOf(m, normalizedAt, readyAt)}]
MCStudyItems ==
  {MinuteItem(1, BarsAt(2, 2, 2)), MinuteItem(2, BarsAt(4, 4, 4)), MinuteItem(3, BarsAt(4, 6, 1)),
   MinuteItem(4, BarsAt(6, 6, 3)), MinuteItem(5, BarsAt(8, 9, 6)), MinuteItem(6, BarsAt(10, 10, 6)),
   MinuteItem(7, BarsAt(12, Absent, 6)),
   MemberItem(8, Member("m1", "sec", 1, 1, 2), 3, 3), MemberItem(9, Member("m2", "issuer-ir", 1, 1, 1), 1, 1),
   MemberItem(10, Member("m3", "issuer-ir", 1, 2, 2), 5, 5), MemberItem(11, Member("m4", "sec", Absent, 1, 1), 1, 1)}
OtherEvent ==
  [Event("other", 10, 12, 12, 17) EXCEPT
     !.bars = BarsAt(10, 10, 2) \cup BarsAt(12, 12, 4) \cup BarsAt(14, 14, 2) \cup BarsAt(16, 16, 1)]
MCStudies ==
  {[protocol |-> StudyProtocol, event |-> e, others |-> {OtherEvent}] :
     e \in {Event("this", 2, 4, 4, 10), Event("this", 2, 4, 5, 8), Event("this", 6, 8, 8, 12),
            [Event("this", 2, 4, 4, 8) EXCEPT !.repair = TRUE]}}

MCMaxInput ==
  [s \in {"prices", "native", "timeline", "lanes", "last", "selection", "workflow", "research"} |->
     CASE s = "prices" -> 3 [] s = "selection" -> 4 [] s = "workflow" -> 17 [] s = "research" -> 6
       [] s = "native" -> 5 [] s = "timeline" -> 5 [] OTHER -> 4]
=============================================================================
