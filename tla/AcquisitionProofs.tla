------------------------- MODULE AcquisitionProofs -------------------------
(***************************************************************************)
(* Proofs about market acquisitions: the state machine with one holder,    *)
(* and processes that call execute on one database.                        *)
(***************************************************************************)
EXTENDS LiveAttempt, AcquisitionRun, FiniteSetTheorems, TLAPS

-----------------------------------------------------------------------------
(* The state machine.                                                      *)

LEMMA EdgeCases ==
    ASSUME NEW a, NEW b, <<a, b>> \in Edges
    PROVE  \/ a = "declared" /\ b = "preflighting"
           \/ a = "preflighting" /\ b \in {"dispatch-ready", "stopped", "failed-clean"}
           \/ a = "dispatch-ready" /\ b \in {"credential-ready", "stopped"}
           \/ a = "credential-ready" /\ b = "attempt-active"
           \/ a = "attempt-active" /\ b \in {"waiting-retry", "response-accepted", "stopped", "failed-clean"}
           \/ a = "response-accepted" /\ b \in {"artifact-committing", "failed-clean"}
           \/ a = "artifact-committing" /\ b \in {"artifact-committed", "failed-clean"}
           \/ a = "artifact-committed" /\ b = "artifact-verifying"
           \/ a = "artifact-verifying" /\ b \in {"page-verified", "failed-clean", "quarantined"}
           \/ a = "page-verified" /\ b = "checkpointing"
           \/ a = "checkpointing" /\ b \in {"chain-complete", "preflighting", "failed-clean"}
           \/ a = "waiting-retry" /\ b \in {"preflighting", "stopped"}
           \/ a = "chain-complete" /\ b = "normalizing"
           \/ a = "normalizing" /\ b \in {"ready-for-selection", "quarantined", "failed-clean"}
           \/ a = "ready-for-selection" /\ b = "selecting"
           \/ a = "selecting" /\ b \in {"completed", "failed-clean", "quarantined"}
  BY DEF Edges

LEMMA MarksDiffer ==
    /\ NoToken # Terminal /\ NoToken # None /\ Terminal # None
    /\ NoToken \notin Tokens /\ Terminal \notin Tokens /\ None \notin Tokens /\ None \notin Nat
  BY MarksAssumption

LEMMA LimitFacts ==
    /\ successfulPages \in Nat \ {0} /\ attemptsPerLogicalPage \in Nat \ {0}
    /\ attemptsPerAcquisition \in Nat \ {0} /\ normalizedFacts \in Nat \ {0}
    /\ rateAttempts \in Nat \ {0} /\ rateWindowMs \in Nat \ {0}
    /\ attemptDeadlineMs \in Nat \ {0} /\ acquisitionDeadlineMs \in Nat \ {0}
    /\ RetryDelays \in Seq(Nat \ {0}) /\ Len(RetryDelays) = attemptsPerLogicalPage - 1
    /\ RetryAfters \subseteq Nat
  BY LimitsAssumption

(* The payload that an event carries.                                      *)
Carries(ev, x) ==
    /\ ev \in {"preflightStopped", "preflightFailed", "attemptStopped", "attemptFailed", "policyStopped"} =>
           x \in Reasons
    /\ ev = "retryCleanup" => x \in Failures
    /\ ev = "pageCheckpointed" => x \in Tokens \cup {Terminal}
    /\ ev = "normalizationCompleted" => x \in Nat

LEMMA TargetsAreStates == \A ev \in Events : Target[ev] \in States
  BY DEF States

LEMMA InitialSnapshot == createInitialAcquisitionSnapshot \in Snapshot
<1>1. "declared" \in States
  BY DEF States
<1>2. <<>> \in Seq(PageRow) /\ <<>> \in Seq(Nat) /\ {} \in SUBSET Tokens
  OBVIOUS
<1> QED BY <1>1, <1>2 DEF createInitialAcquisitionSnapshot, Snapshot

LEMMA ReasonKnown ==
    ASSUME NEW ev \in Events, NEW x, Carries(ev, x)
    PROVE  terminalReasonForEvent(ev, x) \in Reasons \cup Events \cup {None}
  BY DEF terminalReasonForEvent, Carries

LEMMA DelayKnown ==
    ASSUME NEW s \in Snapshot, NEW x \in Failures, MayRetry(s, x)
    PROVE  /\ retryDelay(s, x) \in Nat /\ s.tries \in 1..(attemptsPerLogicalPage - 1)
           /\ RetryDelays[s.tries] \in Nat \ {0} /\ RetryDelays[s.tries] <= retryDelay(s, x)
<1>1. x \in Nat
  <2>1. x = None \/ x = 0 \/ x \in RetryAfters
    BY Zenon DEF Failures
  <2>2. x # None
    BY DEF MayRetry
  <2>3. x = 0 => x \in Nat
    OBVIOUS
  <2>4. x \in RetryAfters => x \in Nat
    BY LimitFacts
  <2> QED BY <2>1, <2>2, <2>3, <2>4, Zenon
<1>2. s.tries \in 1..(attemptsPerLogicalPage - 1) /\ s.tries \in DOMAIN RetryDelays
  BY LimitFacts DEF MayRetry
<1>3. RetryDelays[s.tries] \in Nat \ {0}
  BY <1>2, LimitFacts
<1> QED BY <1>1, <1>2, <1>3 DEF retryDelay, Most

(* What a transition changes.                                              *)
Changes(s, ev, x, t, n) ==
    /\ n \in Snapshot /\ n.state = Target[ev] /\ n.last = t
    /\ ev # "dispatchStarted" => n.quota = s.quota
    /\ ev \notin {"dispatchStarted", "continueNextPage"} => n.tries = s.tries /\ n.id = s.id
    /\ ev # "continueNextPage" => n.page = s.page /\ n.token = s.token /\ n.consumed = s.consumed
    /\ ev # "pageCheckpointed" => n.chain = s.chain
    /\ ev \notin {"pageCheckpointed", "continueNextPage"} => n.authority = s.authority
    /\ ev \notin {"retryCleanup", "retryDelayElapsed"} => n.delay = s.delay
    /\ ev = "dispatchStarted" =>
           n.tries = s.tries + 1 /\ n.id = AttemptId(s) /\ n.quota = Append(s.quota, t)
    /\ ev = "retryCleanup" => n.delay = retryDelay(s, x) /\ MayRetry(s, x) /\ x \in Failures
    /\ ev = "retryDelayElapsed" => n.delay = None
    /\ ev = "pageCheckpointed" =>
           /\ x \in Tokens \cup {Terminal}
           /\ n.chain = Append(s.chain, [page |-> s.page, token |-> s.token, next |-> x])
           /\ n.authority = IF x = Terminal THEN None ELSE x
    /\ ev = "continueNextPage" =>
           /\ s.authority \in Tokens \ s.consumed
           /\ n.page = s.page + 1 /\ n.tries = 0 /\ n.id = None /\ n.token = s.authority
           /\ n.consumed = s.consumed \cup {s.authority} /\ n.authority = None

LEMMA Derived ==
    ASSUME NEW s \in Snapshot, NEW ev \in Events, NEW x, Carries(ev, x), NEW t \in Nat,
           Permitted(s, ev, x, t)
    PROVE  Changes(s, ev, x, t, deriveNext(s, ev, x, t))
<1> USE DEF Changes
<1> DEFINE m == [s EXCEPT !.state = Target[ev], !.reason = terminalReasonForEvent(ev, x), !.last = t]
<1>1. /\ m \in Snapshot /\ m.state = Target[ev] /\ m.last = t /\ m.quota = s.quota /\ m.tries = s.tries
      /\ m.id = s.id /\ m.page = s.page /\ m.token = s.token /\ m.consumed = s.consumed
      /\ m.chain = s.chain /\ m.authority = s.authority /\ m.delay = s.delay
      /\ m.laneDisabled = s.laneDisabled
  BY TargetsAreStates, ReasonKnown DEF Snapshot
<1> HIDE DEF m
<1>2. CASE ev = "dispatchStarted"
  <2>1. deriveNext(s, ev, x, t) = [m EXCEPT !.tries = @ + 1, !.id = AttemptId(s), !.quota = Append(@, t)]
    BY <1>2 DEF deriveNext, m
  <2>2. AttemptId(s) \in Nat \X (Tokens \cup {NoToken}) \X Nat
    BY DEF AttemptId, Snapshot
  <2>3. Append(m.quota, t) \in Seq(Nat) /\ m.tries + 1 \in Nat
    BY <1>1 DEF Snapshot
  <2> DEFINE n == [m EXCEPT !.tries = @ + 1, !.id = AttemptId(s), !.quota = Append(@, t)]
  <2>4. n \in Snapshot
    BY <1>1, <2>2, <2>3, ZenonT(60) DEF Snapshot
  <2>5. /\ n.tries = s.tries + 1 /\ n.id = AttemptId(s) /\ n.quota = Append(s.quota, t)
        /\ n.state = m.state /\ n.last = m.last /\ n.page = m.page /\ n.token = m.token
        /\ n.consumed = m.consumed /\ n.chain = m.chain /\ n.authority = m.authority /\ n.delay = m.delay
    BY <1>1, <2>2, <2>3 DEF Snapshot
  <2> HIDE DEF n
  <2> QED BY <1>1, <1>2, <2>1, <2>4, <2>5 DEF n
<1>3. CASE ev = "retryCleanup"
  <2>1. deriveNext(s, ev, x, t) = [m EXCEPT !.delay = retryDelay(s, x)]
    BY <1>3 DEF deriveNext, m
  <2>2. x \in Failures /\ MayRetry(s, x) /\ retryDelay(s, x) \in Nat
    BY <1>3, DelayKnown DEF Carries, Permitted
  <2> QED BY <1>1, <1>3, <2>1, <2>2 DEF Snapshot
<1>4. CASE ev = "retryDelayElapsed"
  <2>1. deriveNext(s, ev, x, t) = [m EXCEPT !.delay = None]
    BY <1>4 DEF deriveNext, m
  <2> QED BY <1>1, <1>4, <2>1 DEF Snapshot
<1>5. CASE ev = "pageCheckpointed"
  <2> DEFINE row == [page |-> s.page, token |-> s.token, next |-> x]
             authority == IF x = Terminal THEN None ELSE x
  <2>1. deriveNext(s, ev, x, t) = [m EXCEPT !.chain = Append(@, row), !.authority = authority]
    BY <1>5 DEF deriveNext, m
  <2>2. x \in Tokens \cup {Terminal}
    BY <1>5 DEF Carries
  <2>3. row \in PageRow /\ authority \in Tokens \cup {None}
    BY <2>2 DEF PageRow, Snapshot
  <2> HIDE DEF row, authority
  <2>4. Append(m.chain, row) \in Seq(PageRow)
    BY <1>1, <2>3 DEF Snapshot
  <2>5. /\ [m EXCEPT !.chain = Append(@, row), !.authority = authority] \in Snapshot
        /\ [m EXCEPT !.chain = Append(@, row), !.authority = authority].chain = Append(s.chain, row)
        /\ [m EXCEPT !.chain = Append(@, row), !.authority = authority].authority = authority
    BY <1>1, <2>3, <2>4 DEF Snapshot
  <2> QED BY <1>1, <1>5, <2>1, <2>2, <2>5 DEF Snapshot, row, authority
<1>6. CASE ev = "continueNextPage"
  <2>1. deriveNext(s, ev, x, t) =
          [m EXCEPT !.page = @ + 1, !.tries = 0, !.id = None, !.token = s.authority,
                    !.consumed = @ \cup {s.authority}, !.authority = None]
    BY <1>6 DEF deriveNext, m
  <2>2. s.authority \in Tokens \ s.consumed
    BY <1>6 DEF Permitted, ContinuationAdmitted, Snapshot
  <2>3. m.page + 1 \in Nat /\ m.consumed \cup {s.authority} \in SUBSET Tokens
    BY <1>1, <2>2 DEF Snapshot
  <2> DEFINE n == [m EXCEPT !.page = @ + 1, !.tries = 0, !.id = None, !.token = s.authority,
                            !.consumed = @ \cup {s.authority}, !.authority = None]
  <2>4. n \in Snapshot
    BY <1>1, <2>2, <2>3 DEF Snapshot
  <2>5. /\ n.page = s.page + 1 /\ n.tries = 0 /\ n.id = None /\ n.token = s.authority
        /\ n.consumed = s.consumed \cup {s.authority} /\ n.authority = None
        /\ n.state = m.state /\ n.last = m.last /\ n.quota = m.quota
        /\ n.chain = m.chain /\ n.delay = m.delay
    BY <1>1, <2>2, <2>3 DEF Snapshot
  <2> HIDE DEF n
  <2> QED BY <1>1, <1>6, <2>1, <2>2, <2>4, <2>5 DEF n
<1>7. CASE ev = "normalizationCompleted"
  <2>1. deriveNext(s, ev, x, t) = [m EXCEPT !.facts = x]
    BY <1>7 DEF deriveNext, m
  <2>2. x \in Nat
    BY <1>7 DEF Carries
  <2> QED BY <1>1, <1>7, <2>1, <2>2 DEF Snapshot
<1>8. CASE ev = "attemptStopped"
  <2>1. deriveNext(s, ev, x, t) =
          [m EXCEPT !.laneDisabled = @ \/ x \in {"lane-disabled", "quota-exhausted"}]
    BY <1>8 DEF deriveNext, m
  <2> QED BY <1>1, <1>8, <2>1 DEF Snapshot
<1>9. CASE ev \notin {"dispatchStarted", "retryCleanup", "retryDelayElapsed", "pageCheckpointed",
                      "continueNextPage", "normalizationCompleted", "attemptStopped"}
  <2>1. deriveNext(s, ev, x, t) = m
    BY <1>9 DEF deriveNext, m
  <2> QED BY <1>1, <1>9, <2>1
<1> QED BY <1>2, <1>3, <1>4, <1>5, <1>6, <1>7, <1>8, <1>9

-----------------------------------------------------------------------------
(* The machine with one holder.                                            *)

(* Where the chain of pages stands, in each state.                         *)
Fetching ==
    {"declared", "preflighting", "dispatch-ready", "credential-ready", "attempt-active", "waiting-retry",
     "response-accepted", "artifact-committing", "artifact-committed", "artifact-verifying", "page-verified"}

Linear(chain) ==
    \A i \in DOMAIN chain :
        /\ chain[i].page = i - 1
        /\ chain[i].token = (IF i = 1 THEN NoToken ELSE chain[i - 1].next)
        /\ \A j \in 1..(i - 1) : chain[j].token # chain[i].token

Chained(s) ==
    /\ Linear(s.chain)
    /\ s.token \in s.consumed \cup {NoToken}
    /\ \A i \in DOMAIN s.chain : s.chain[i].token \in s.consumed \cup {NoToken}
    /\ s.state \in Fetching =>
           /\ Len(s.chain) = s.page /\ s.authority = None
           /\ s.token = (IF s.page = 0 THEN NoToken ELSE s.chain[s.page].next)
           /\ \A i \in DOMAIN s.chain : s.chain[i].token # s.token
    /\ s.state = "checkpointing" =>
           /\ Len(s.chain) = s.page + 1
           /\ s.chain[s.page + 1].next = (IF s.authority = None THEN Terminal ELSE s.authority)
    /\ s.state \in Late => Len(s.chain) = s.page + 1 /\ s.chain[s.page + 1].next = Terminal
    /\ s.delay # None => s.state \in {"waiting-retry"} \cup TerminalStates

LEMMA EventOf ==
    ASSUME NEW ev \in Events
    PROVE  /\ Target[ev] = "preflighting" => ev \in {"beginPreflight", "retryDelayElapsed", "continueNextPage"}
           /\ Target[ev] = "dispatch-ready" => ev = "approvePreflight"
           /\ Target[ev] = "credential-ready" => ev = "credentialsLoaded"
           /\ Target[ev] = "attempt-active" => ev = "dispatchStarted"
           /\ Target[ev] = "waiting-retry" => ev = "retryCleanup"
           /\ Target[ev] = "response-accepted" => ev = "responseAccepted"
           /\ Target[ev] = "artifact-committing" => ev = "artifactStoreStarted"
           /\ Target[ev] = "artifact-committed" => ev = "artifactStoreCommitted"
           /\ Target[ev] = "artifact-verifying" => ev = "artifactVerificationStarted"
           /\ Target[ev] = "page-verified" => ev = "pageVerified"
           /\ Target[ev] = "checkpointing" => ev = "pageCheckpointed"
           /\ Target[ev] = "chain-complete" => ev = "terminalPageAdmitted"
           /\ Target[ev] = "normalizing" => ev = "normalizationStarted"
           /\ Target[ev] = "ready-for-selection" => ev = "normalizationCompleted"
           /\ Target[ev] = "selecting" => ev = "selectionStarted"
           /\ Target[ev] # "declared"
  BY DEF Events, Target

LEMMA TargetOf ==
    /\ Target["dispatchStarted"] = "attempt-active" /\ Target["retryCleanup"] = "waiting-retry"
    /\ Target["retryDelayElapsed"] = "preflighting" /\ Target["beginPreflight"] = "preflighting"
    /\ Target["continueNextPage"] = "preflighting" /\ Target["pageCheckpointed"] = "checkpointing"
    /\ Target["terminalPageAdmitted"] = "chain-complete" /\ Target["approvePreflight"] = "dispatch-ready"
    /\ Target["credentialsLoaded"] = "credential-ready" /\ Target["responseAccepted"] = "response-accepted"
    /\ Target["attemptFailed"] = "failed-clean" /\ Target["artifactStoreFailed"] = "failed-clean"
    /\ Target["artifactStoreStarted"] = "artifact-committing"
    /\ Target["artifactStoreCommitted"] = "artifact-committed"
    /\ Target["artifactVerificationStarted"] = "artifact-verifying"
    /\ Target["pageVerified"] = "page-verified"
    /\ {"dispatchStarted", "retryCleanup", "retryDelayElapsed", "beginPreflight", "continueNextPage",
        "pageCheckpointed", "terminalPageAdmitted", "approvePreflight", "credentialsLoaded", "responseAccepted",
        "attemptFailed", "artifactStoreFailed", "artifactStoreStarted", "artifactStoreCommitted",
        "artifactVerificationStarted", "pageVerified"} \subseteq Events
  BY DEF Target, Events

LEMMA SnapshotFields ==
    ASSUME NEW s \in Snapshot
    PROVE  /\ s.page \in Nat /\ s.tries \in Nat /\ s.last \in Nat /\ s.state \in States
           /\ s.chain \in Seq(PageRow) /\ Len(s.chain) \in Nat /\ DOMAIN s.chain = 1..Len(s.chain)
           /\ s.quota \in Seq(Nat) /\ Len(s.quota) \in Nat /\ DOMAIN s.quota = 1..Len(s.quota)
           /\ s.token \in Tokens \cup {NoToken} /\ s.authority \in Tokens \cup {None}
           /\ s.consumed \subseteq Tokens /\ s.delay \in Nat \cup {None}
           /\ \A i \in 1..Len(s.chain) : s.chain[i] \in PageRow
           /\ \A i \in 1..Len(s.quota) : s.quota[i] \in Nat
  BY DEF Snapshot

(* A page admitted continues the chain.                                    *)
LEMMA ChainGrows ==
    ASSUME NEW s \in Snapshot, NEW x \in Tokens \cup {Terminal}, NEW t \in Nat,
           Permitted(s, "pageCheckpointed", x, t), Chained(s)
    PROVE  Chained(deriveNext(s, "pageCheckpointed", x, t))
<1> DEFINE n == deriveNext(s, "pageCheckpointed", x, t)
           row == [page |-> s.page, token |-> s.token, next |-> x]
<1>1. /\ n \in Snapshot /\ n.state = "checkpointing" /\ n.page = s.page /\ n.token = s.token
      /\ n.consumed = s.consumed /\ n.chain = Append(s.chain, row) /\ n.delay = s.delay
      /\ n.authority = IF x = Terminal THEN None ELSE x
  <2>1. Carries("pageCheckpointed", x)
    BY DEF Carries
  <2>2. Changes(s, "pageCheckpointed", x, t, n)
    BY <2>1, Derived, TargetOf
  <2> QED BY <2>2, TargetOf DEF Changes
<1>2. <<s.state, "checkpointing">> \in Edges
  BY TargetOf DEF Permitted
<1>3. s.state = "page-verified"
  BY <1>2, EdgeCases
<1>4. /\ Len(s.chain) = s.page /\ s.token = (IF s.page = 0 THEN NoToken ELSE s.chain[s.page].next)
      /\ \A i \in DOMAIN s.chain : s.chain[i].token # s.token
      /\ s.delay = None
  BY <1>3 DEF Chained, Fetching, TerminalStates
<1>5. row.page = s.page /\ row.token = s.token /\ row.next = x
  OBVIOUS
<1> HIDE DEF n, row
<1>6. /\ DOMAIN n.chain = 1..(s.page + 1) /\ Len(n.chain) = s.page + 1 /\ n.chain[s.page + 1] = row
      /\ \A i \in 1..s.page : n.chain[i] = s.chain[i]
  BY <1>1, <1>4, SnapshotFields
<1>7. Linear(n.chain)
  <2> SUFFICES ASSUME NEW i \in 1..(s.page + 1)
               PROVE  /\ n.chain[i].page = i - 1
                      /\ n.chain[i].token = (IF i = 1 THEN NoToken ELSE n.chain[i - 1].next)
                      /\ \A j \in 1..(i - 1) : n.chain[j].token # n.chain[i].token
    BY <1>6 DEF Linear
  <2>1. CASE i = s.page + 1
    <3>1. n.chain[i] = row
      BY <2>1, <1>6
    <3>2. s.page # 0 => n.chain[i - 1] = s.chain[s.page]
      <4> SUFFICES ASSUME s.page # 0 PROVE n.chain[s.page] = s.chain[s.page]
        BY <2>1, SnapshotFields
      <4>1. s.page \in Nat
        BY SnapshotFields
      <4>2. s.page \in 1..s.page
        BY <4>1
      <4> QED BY <4>2, <1>6
    <3>3. \A j \in 1..(i - 1) : n.chain[j] = s.chain[j] /\ j \in DOMAIN s.chain
      <4>1. s.page \in Nat /\ DOMAIN s.chain = 1..s.page
        BY <1>4, SnapshotFields
      <4>2. i - 1 = s.page
        BY <2>1, <4>1
      <4> QED BY <4>1, <4>2, <1>6
    <3> QED BY <2>1, <3>1, <3>2, <3>3, <1>4, <1>5, SnapshotFields
  <2>2. CASE i # s.page + 1
    <3>1. i \in DOMAIN s.chain /\ i \in 1..s.page
      BY <2>2, <1>4, SnapshotFields
    <3>2. n.chain[i] = s.chain[i] /\ \A j \in 1..(i - 1) : n.chain[j] = s.chain[j]
      BY <3>1, <1>6, SnapshotFields
    <3>3. i # 1 => n.chain[i - 1] = s.chain[i - 1]
      BY <3>1, <3>2
    <3> QED BY <3>1, <3>2, <3>3 DEF Chained, Linear
  <2> QED BY <2>1, <2>2
<1>8. \A i \in DOMAIN n.chain : n.chain[i].token \in n.consumed \cup {NoToken}
  BY <1>1, <1>4, <1>5, <1>6, SnapshotFields, SMTT(30) DEF Chained
<1>9. n.chain[n.page + 1].next = (IF n.authority = None THEN Terminal ELSE n.authority)
  BY <1>1, <1>5, <1>6, MarksDiffer
<1> QED BY <1>1, <1>4, <1>6, <1>7, <1>8, <1>9 DEF Chained, Fetching, Late, n

(* The next page has a token of its own.                                   *)
LEMMA ChainContinues ==
    ASSUME NEW s \in Snapshot, NEW x, NEW t \in Nat,
           Permitted(s, "continueNextPage", x, t), Chained(s)
    PROVE  Chained(deriveNext(s, "continueNextPage", x, t))
<1> DEFINE n == deriveNext(s, "continueNextPage", x, t)
<1>1. /\ n \in Snapshot /\ n.state = "preflighting" /\ n.page = s.page + 1 /\ n.token = s.authority
      /\ n.consumed = s.consumed \cup {s.authority} /\ n.authority = None /\ n.chain = s.chain
      /\ n.delay = s.delay /\ s.authority \in Tokens \ s.consumed
  <2>1. Carries("continueNextPage", x)
    BY DEF Carries
  <2>2. Changes(s, "continueNextPage", x, t, n)
    BY <2>1, Derived, TargetOf
  <2> QED BY <2>2, TargetOf DEF Changes
<1>2. <<s.state, "preflighting">> \in Edges
  BY TargetOf DEF Permitted
<1>3. s.state = "checkpointing"
  <2>1. s.state \in {"declared", "waiting-retry", "checkpointing"}
    BY <1>2, EdgeCases
  <2> QED BY <2>1, <1>1, MarksDiffer DEF Chained, Fetching
<1>4. Len(s.chain) = s.page + 1 /\ s.chain[s.page + 1].next = s.authority /\ s.delay = None
  BY <1>1, <1>3, MarksDiffer DEF Chained, TerminalStates
<1> HIDE DEF n
<1>5. \A i \in DOMAIN n.chain : n.chain[i].token \in n.consumed \cup {NoToken} /\ n.chain[i].token # n.token
  BY <1>1, MarksDiffer DEF Chained
<1> QED BY <1>1, <1>4, <1>5, SnapshotFields DEF Chained, Fetching, Late, n

LEMMA ChainStays ==
    ASSUME NEW s \in Snapshot, NEW ev \in Events, NEW x, Carries(ev, x), NEW t \in Nat,
           Permitted(s, ev, x, t), ev \notin {"pageCheckpointed", "continueNextPage"},
           ev = "beginPreflight" => s.state = "declared", Chained(s)
    PROVE  Chained(deriveNext(s, ev, x, t))
<1> DEFINE n == deriveNext(s, ev, x, t)
<1>1. /\ n \in Snapshot /\ n.state = Target[ev] /\ n.page = s.page /\ n.token = s.token
      /\ n.consumed = s.consumed /\ n.authority = s.authority /\ n.chain = s.chain
      /\ ev \notin {"retryCleanup", "retryDelayElapsed"} => n.delay = s.delay
      /\ ev = "retryDelayElapsed" => n.delay = None
  <2>1. Changes(s, ev, x, t, n)
    BY Derived
  <2> QED BY <2>1 DEF Changes
<1>2. <<s.state, n.state>> \in Edges
  BY <1>1 DEF Permitted
<1> HIDE DEF n
<1>3. s.state \notin TerminalStates
  BY <1>2, EdgeCases DEF TerminalStates
<1>4. n.delay # None => n.state \in {"waiting-retry"} \cup TerminalStates
  <2>1. CASE ev = "retryCleanup"
    BY <2>1, <1>1, TargetOf
  <2>2. CASE ev = "retryDelayElapsed"
    BY <2>2, <1>1
  <2>3. CASE ev \notin {"retryCleanup", "retryDelayElapsed"} /\ s.delay # None
    <3>1. s.state = "waiting-retry"
      BY <2>3, <1>3 DEF Chained
    <3>2. n.state \in {"preflighting", "stopped"}
      BY <3>1, <1>2, EdgeCases
    <3>3. n.state # "preflighting"
      BY <1>1, <2>3, <3>1, EventOf
    <3> QED BY <3>2, <3>3 DEF TerminalStates
  <2> QED BY <2>1, <2>2, <2>3, <1>1
<1>5. n.state \in Fetching => s.state \in Fetching
  <2>1. n.state = "preflighting" => s.state \in {"declared", "waiting-retry"}
    <3>1. CASE ev = "beginPreflight"
      BY <3>1
    <3>2. CASE ev = "retryDelayElapsed"
      BY <3>2, <1>3 DEF Permitted, Chained
    <3> QED BY <3>1, <3>2, <1>1, EventOf
  <2>2. n.state \in Fetching \ {"preflighting"} => s.state \in Fetching
    BY <1>2, EdgeCases DEF Fetching
  <2> QED BY <2>1, <2>2 DEF Fetching
<1>6. n.state # "checkpointing"
  BY <1>1, EventOf
<1>7. n.state \in Late => Len(s.chain) = s.page + 1 /\ s.chain[s.page + 1].next = Terminal
  <2>1. CASE n.state = "chain-complete"
    <3>1. s.authority = None
      BY <2>1, <1>1, EventOf DEF Permitted
    <3>2. s.state = "checkpointing"
      BY <2>1, <1>2, EdgeCases
    <3> QED BY <3>1, <3>2 DEF Chained
  <2>2. CASE n.state \in Late \ {"chain-complete"}
    <3>1. s.state \in Late
      BY <2>2, <1>2, EdgeCases DEF Late
    <3> QED BY <3>1 DEF Chained
  <2> QED BY <2>1, <2>2
<1> QED BY <1>1, <1>4, <1>5, <1>6, <1>7 DEF Chained, n

(* The checkpoints that a state may follow.                                *)
First(s) == s.page = 0 /\ s.quota = <<>>

LastKinds(s) ==
    CASE s.state = "preflighting" ->
             IF First(s) THEN {"acquisition-declared"} ELSE {"attempt-started", "page-checkpointed"}
      [] s.state \in {"dispatch-ready", "credential-ready"} ->
             IF First(s) THEN {"request-started"} ELSE {"attempt-started", "page-checkpointed"}
      [] s.state \in {"attempt-active", "waiting-retry"} -> {"attempt-started"}
      [] s.state \in {"response-accepted", "artifact-committing"} -> {"request-succeeded"}
      [] s.state \in {"artifact-committed", "artifact-verifying"} -> {"artifact-committed"}
      [] s.state = "page-verified" -> {"artifact-verified"}
      [] s.state = "checkpointing" -> {"page-checkpointed"}
      [] s.state = "chain-complete" -> {"chain-complete"}
      [] s.state = "normalizing" -> {"normalization-started"}
      [] s.state = "ready-for-selection" -> {"normalization-complete"}
      [] s.state = "selecting" -> {"selection-started"}
      [] OTHER -> {s.state}

Recorded(s) ==
    /\ s.state = "declared" => kinds = <<>> /\ First(s)
    /\ s.state # "declared" => kinds # <<>> /\ kinds[Len(kinds)] \in LastKinds(s)
    /\ s.state \in {"attempt-active", "waiting-retry"} => s.quota # <<>>

Kinds == DOMAIN NonterminalTransitions

(* The inductive invariant: the holder has what is stored, and the pages   *)
(* and the rows of what is stored are in order.                            *)
HolderInv ==
    /\ clock \in Nat /\ kinds \in Seq(Kinds)
    /\ saved \in Snapshot \cup {None} /\ held \in {None, LoadedSnapshot}
    /\ Chained(LoadedSnapshot) /\ Recorded(LoadedSnapshot)
    /\ JournalTakes

LEMMA KindsKnown ==
    ASSUME NEW s \in Snapshot, NEW ev \in Events, checkpointForEvent(s, ev) # None
    PROVE  checkpointForEvent(s, ev) \in Kinds
<1>1. \A e \in Ends : Target[e] \in TerminalStates
  BY DEF Ends
<1>2. TerminalStates \subseteq Kinds
  BY DEF TerminalStates, Kinds, NonterminalTransitions, ArtifactRequired, TerminalKinds, BeforeArtifact
<1>3. \A e \in DOMAIN CheckpointOf : CheckpointOf[e] \in Kinds
  BY DEF CheckpointOf, Kinds, NonterminalTransitions, ArtifactRequired, TerminalKinds, BeforeArtifact
<1> QED BY <1>1, <1>2, <1>3 DEF checkpointForEvent

(* What the journal takes after each checkpoint.                           *)
LEMMA Takes ==
    /\ \A k \in {"acquisition-declared", "request-started", "attempt-started", "request-succeeded",
                 "artifact-committed", "artifact-verified", "chain-complete", "normalization-started",
                 "normalization-complete", "selection-started"} :
           TerminalKinds \subseteq NonterminalTransitions[k]
    /\ {"stopped", "failed-clean", "attempt-started", "chain-complete"} \subseteq NonterminalTransitions["page-checkpointed"]
    /\ "request-started" \in NonterminalTransitions["acquisition-declared"]
    /\ "attempt-started" \in NonterminalTransitions["request-started"]
    /\ "attempt-started" \in NonterminalTransitions["attempt-started"]
    /\ "request-succeeded" \in NonterminalTransitions["attempt-started"]
    /\ "artifact-committed" \in NonterminalTransitions["request-succeeded"]
    /\ "artifact-verified" \in NonterminalTransitions["artifact-committed"]
    /\ "page-checkpointed" \in NonterminalTransitions["artifact-verified"]
    /\ "normalization-started" \in NonterminalTransitions["chain-complete"]
    /\ "normalization-complete" \in NonterminalTransitions["normalization-started"]
    /\ "selection-started" \in NonterminalTransitions["normalization-complete"]
    /\ "completed" \in NonterminalTransitions["selection-started"]
  BY DEF NonterminalTransitions, ArtifactRequired, TerminalKinds, BeforeArtifact

LEMMA KindOf ==
    ASSUME NEW s \in Snapshot, NEW ev \in Events
    PROVE  LET k == checkpointForEvent(s, ev)
           IN  /\ Target[ev] \in TerminalStates => k = Target[ev]
               /\ ev = "approvePreflight" => k = IF First(s) THEN "request-started" ELSE None
               /\ ev \in {"credentialsLoaded", "retryCleanup", "retryDelayElapsed", "artifactStoreStarted",
                         "artifactVerificationStarted", "continueNextPage"} => k = None
               /\ ev = "beginPreflight" => k = "acquisition-declared"
               /\ ev = "dispatchStarted" => k = "attempt-started"
               /\ ev = "responseAccepted" => k = "request-succeeded"
               /\ ev = "artifactStoreCommitted" => k = "artifact-committed"
               /\ ev = "pageVerified" => k = "artifact-verified"
               /\ ev = "pageCheckpointed" => k = "page-checkpointed"
               /\ ev = "terminalPageAdmitted" => k = "chain-complete"
               /\ ev = "normalizationStarted" => k = "normalization-started"
               /\ ev = "normalizationCompleted" => k = "normalization-complete"
               /\ ev = "selectionStarted" => k = "selection-started"
<1>1. ev \in Ends <=> Target[ev] \in TerminalStates
  BY DEF Ends
<1>2. "approvePreflight" \notin Ends
  BY TargetOf DEF Ends, TerminalStates
<1>3. Target[ev] \in TerminalStates => checkpointForEvent(s, ev) = Target[ev]
  BY <1>1, <1>2 DEF checkpointForEvent
<1>4. ev = "approvePreflight" => checkpointForEvent(s, ev) = IF First(s) THEN "request-started" ELSE None
  BY <1>2 DEF checkpointForEvent, CheckpointOf, First
<1>5. Target[ev] \notin TerminalStates /\ ev # "approvePreflight" =>
        checkpointForEvent(s, ev) = IF ev \in DOMAIN CheckpointOf THEN CheckpointOf[ev] ELSE None
  BY <1>1 DEF checkpointForEvent
<1>6. ev \in {"credentialsLoaded", "retryCleanup", "retryDelayElapsed", "artifactStoreStarted",
             "artifactVerificationStarted", "continueNextPage", "beginPreflight", "dispatchStarted",
             "responseAccepted", "artifactStoreCommitted", "pageVerified", "pageCheckpointed",
             "terminalPageAdmitted", "normalizationStarted", "normalizationCompleted", "selectionStarted"} =>
        Target[ev] \notin TerminalStates
  BY DEF Target, TerminalStates
<1> QED BY <1>3, <1>4, <1>5, <1>6 DEF CheckpointOf

LEMMA NoneIsNoKind ==
    /\ None \notin TerminalStates
    /\ None \notin {"acquisition-declared", "request-started", "attempt-started", "request-succeeded",
                    "artifact-committed", "artifact-verified", "page-checkpointed", "chain-complete",
                    "normalization-started", "normalization-complete", "selection-started"}
<1>1. \A ev \in DOMAIN CheckpointOf : None # CheckpointOf[ev]
  BY KindsAssumption DEF CheckpointKinds
<1> QED BY <1>1, KindsAssumption DEF CheckpointOf, CheckpointKinds

(* The next row is one that the journal takes, and the state agrees with   *)
(* the last row again.                                                     *)
Fits(s, k, n) ==
    /\ k # None => k \in LastKinds(n)
    /\ k # None /\ s.state # "declared" => k \in NonterminalTransitions[kinds[Len(kinds)]]
    /\ s.state = "declared" => k = "acquisition-declared"
    /\ k = None => kinds[Len(kinds)] \in LastKinds(n)
    /\ n.state # "declared"
    /\ n.state \in {"attempt-active", "waiting-retry"} => n.quota # <<>>

LEMMA RowFits ==
    ASSUME NEW s \in Snapshot, NEW ev \in Events, NEW x, Carries(ev, x), NEW t \in Nat,
           Permitted(s, ev, x, t), ev = "beginPreflight" => s.state = "declared",
           Chained(s), Recorded(s)
    PROVE  Fits(s, checkpointForEvent(s, ev), deriveNext(s, ev, x, t))
<1> DEFINE k == checkpointForEvent(s, ev)
           n == deriveNext(s, ev, x, t)
           last == kinds[Len(kinds)]
<1>1. Changes(s, ev, x, t, n)
  BY Derived
<1>2. n.state = Target[ev] /\ <<s.state, n.state>> \in Edges
  BY <1>1 DEF Changes, Permitted
<1>3. s.state # "declared" => last \in LastKinds(s)
  BY DEF Recorded
<1>4. ev # "continueNextPage" => n.page = s.page
  BY <1>1 DEF Changes
<1>5. ev # "dispatchStarted" => n.quota = s.quota
  BY <1>1 DEF Changes
<1>6. ev \notin {"continueNextPage", "dispatchStarted"} => (First(n) <=> First(s))
  BY <1>4, <1>5 DEF First
<1>7. s.state \notin TerminalStates
  BY <1>2, EdgeCases DEF TerminalStates
<1> HIDE DEF k, n, last
<1> SUFFICES Fits(s, k, n)
  BY DEF k, n
<1>9. n.state # "declared"
  BY <1>2, EdgeCases
<1>10. CASE n.state \in TerminalStates
  <2>1. k = n.state
    BY <1>2, <1>10, KindOf DEF k
  <2>2. LastKinds(n) = {n.state}
    BY <1>10 DEF LastKinds, TerminalStates
  <2>3. n.state \in NonterminalTransitions[last] /\ s.state # "declared"
    <3>1. s.state # "declared" /\ s.state # "chain-complete" /\ s.state # "page-verified"
      BY <1>2, <1>10, EdgeCases DEF TerminalStates
    <3>2. last \in LastKinds(s)
      BY <1>3, <3>1
    <3>3. CASE n.state = "completed"
      <4>1. s.state = "selecting"
        BY <1>2, <3>3, EdgeCases
      <4> QED BY <3>2, <3>3, <4>1, Takes DEF LastKinds
    <3>4. CASE n.state = "quarantined"
      <4>1. s.state \in {"artifact-verifying", "normalizing", "selecting"}
        BY <1>2, <3>4, EdgeCases
      <4>2. last \in {"artifact-committed", "normalization-started", "selection-started"}
        BY <3>2, <4>1 DEF LastKinds
      <4> QED BY <3>1, <3>4, <4>2, Takes DEF TerminalKinds
    <3>5. CASE n.state \in {"stopped", "failed-clean"}
      <4>1. s.state \in {"preflighting", "dispatch-ready", "attempt-active", "response-accepted",
                        "artifact-committing", "artifact-verifying", "checkpointing", "waiting-retry",
                        "normalizing", "selecting"}
        BY <1>2, <3>5, EdgeCases
      <4>2. last \in {"acquisition-declared", "request-started", "attempt-started", "page-checkpointed",
                     "request-succeeded", "artifact-committed", "normalization-started",
                     "selection-started"}
        BY <3>2, <4>1 DEF LastKinds
      <4> QED BY <3>1, <3>5, <4>2, Takes DEF TerminalKinds
    <3> QED BY <1>10, <3>1, <3>3, <3>4, <3>5 DEF TerminalStates
  <2>4. n.state \notin {"attempt-active", "waiting-retry"}
    BY <1>10 DEF TerminalStates
  <2> QED BY <1>9, <1>10, <2>1, <2>2, <2>3, <2>4, NoneIsNoKind DEF Fits, last
<1>11. CASE ev = "beginPreflight"
  <2>1. s.state = "declared" /\ k = "acquisition-declared" /\ n.state = "preflighting"
    BY <1>11, <1>2, KindOf, TargetOf DEF k
  <2>2. First(s)
    BY <2>1 DEF Recorded
  <2>3. k \in LastKinds(n)
    BY <1>6, <1>11, <2>1, <2>2 DEF LastKinds
  <2> QED BY <2>1, <2>3, NoneIsNoKind DEF Fits
<1>12. CASE ev = "retryDelayElapsed"
  <2>1. k = None /\ n.state = "preflighting" /\ s.state = "waiting-retry"
    BY <1>12, <1>2, <1>7, KindOf, TargetOf DEF k, Permitted, Chained
  <2>2. last = "attempt-started" /\ ~First(s)
    BY <1>3, <2>1 DEF LastKinds, Recorded, First
  <2>3. last \in LastKinds(n)
    BY <1>6, <1>12, <2>1, <2>2 DEF LastKinds
  <2> QED BY <2>1, <2>3 DEF Fits, last
<1>13. CASE ev = "continueNextPage"
  <2>1. k = None /\ n.state = "preflighting" /\ n.page = s.page + 1
    BY <1>13, <1>1, <1>2, KindOf, TargetOf DEF k, Changes
  <2>2. s.state = "checkpointing"
    <3>1. s.state \in {"declared", "waiting-retry", "checkpointing"}
      BY <1>2, <2>1, EdgeCases
    <3>2. s.authority \in Tokens
      BY <1>1, <1>13 DEF Changes
    <3> QED BY <3>1, <3>2, MarksDiffer DEF Chained, Fetching
  <2>3. last = "page-checkpointed" /\ ~First(n)
    BY <1>3, <2>1, <2>2, SnapshotFields DEF LastKinds, First
  <2>4. last \in LastKinds(n)
    BY <2>1, <2>3 DEF LastKinds
  <2> QED BY <2>1, <2>2, <2>4 DEF Fits, last
<1>14. CASE n.state = "dispatch-ready"
  <2>1. ev = "approvePreflight" /\ s.state = "preflighting"
    BY <1>14, <1>2, EventOf, EdgeCases
  <2>2. k = IF First(s) THEN "request-started" ELSE None
    BY <2>1, KindOf DEF k
  <2>3. First(s) => k \in LastKinds(n) /\ last = "acquisition-declared"
    BY <1>3, <1>6, <1>14, <2>1, <2>2 DEF LastKinds
  <2>4. ~First(s) => last \in LastKinds(n)
    BY <1>3, <1>6, <1>14, <2>1 DEF LastKinds
  <2> QED BY <1>14, <2>1, <2>2, <2>3, <2>4, Takes, NoneIsNoKind DEF Fits, last
<1>15. CASE n.state = "credential-ready"
  <2>1. ev = "credentialsLoaded" /\ s.state = "dispatch-ready"
    BY <1>15, <1>2, EventOf, EdgeCases
  <2>2. k = None
    BY <2>1, KindOf DEF k
  <2>3. last \in LastKinds(n)
    BY <1>3, <1>6, <1>15, <2>1 DEF LastKinds
  <2> QED BY <1>15, <2>1, <2>2, <2>3 DEF Fits, last
<1>16. CASE n.state = "attempt-active"
  <2>1. ev = "dispatchStarted" /\ s.state = "credential-ready"
    BY <1>16, <1>2, EventOf, EdgeCases
  <2>2. k = "attempt-started" /\ k \in LastKinds(n)
    BY <1>16, <2>1, KindOf DEF k, LastKinds
  <2>3. last \in {"request-started", "attempt-started", "page-checkpointed"}
    BY <1>3, <2>1 DEF LastKinds
  <2>4. n.quota # <<>>
    <3>1. n.quota = Append(s.quota, t)
      BY <1>1, <2>1 DEF Changes
    <3>2. Len(n.quota) = Len(s.quota) + 1 /\ Len(s.quota) \in Nat
      BY <3>1, SnapshotFields
    <3> QED BY <3>2
  <2> QED BY <1>16, <2>1, <2>2, <2>3, <2>4, Takes, NoneIsNoKind DEF Fits, last
<1>17. CASE n.state = "waiting-retry"
  <2>1. ev = "retryCleanup" /\ s.state = "attempt-active"
    BY <1>17, <1>2, EventOf, EdgeCases
  <2>2. k = None
    BY <2>1, KindOf DEF k
  <2>3. last \in LastKinds(n) /\ n.quota # <<>>
    BY <1>3, <1>5, <1>17, <2>1 DEF LastKinds, Recorded
  <2> QED BY <1>17, <2>1, <2>2, <2>3 DEF Fits, last
<1>18. CASE n.state = "response-accepted"
  <2>1. ev = "responseAccepted" /\ s.state = "attempt-active"
    BY <1>18, <1>2, EventOf, EdgeCases
  <2>2. last = "attempt-started"
    BY <1>3, <2>1 DEF LastKinds
  <2>3. k = "request-succeeded" /\ k \in LastKinds(n)
    BY <1>18, <2>1, KindOf DEF k, LastKinds
  <2> QED BY <1>18, <2>1, <2>2, <2>3, Takes, NoneIsNoKind DEF Fits, last
<1>19. CASE n.state = "artifact-committing"
  <2>1. ev = "artifactStoreStarted" /\ s.state = "response-accepted"
    BY <1>19, <1>2, EventOf, EdgeCases
  <2>2. last = "request-succeeded"
    BY <1>3, <2>1 DEF LastKinds
  <2>3. k = None /\ last \in LastKinds(n)
    BY <1>19, <2>1, <2>2, KindOf DEF k, LastKinds
  <2> QED BY <1>19, <2>1, <2>3 DEF Fits, last
<1>20. CASE n.state = "artifact-committed"
  <2>1. ev = "artifactStoreCommitted" /\ s.state = "artifact-committing"
    BY <1>20, <1>2, EventOf, EdgeCases
  <2>2. last = "request-succeeded"
    BY <1>3, <2>1 DEF LastKinds
  <2>3. k = "artifact-committed" /\ k \in LastKinds(n)
    BY <1>20, <2>1, KindOf DEF k, LastKinds
  <2> QED BY <1>20, <2>1, <2>2, <2>3, Takes, NoneIsNoKind DEF Fits, last
<1>21. CASE n.state = "artifact-verifying"
  <2>1. ev = "artifactVerificationStarted" /\ s.state = "artifact-committed"
    BY <1>21, <1>2, EventOf, EdgeCases
  <2>2. last = "artifact-committed"
    BY <1>3, <2>1 DEF LastKinds
  <2>3. k = None /\ last \in LastKinds(n)
    BY <1>21, <2>1, <2>2, KindOf DEF k, LastKinds
  <2> QED BY <1>21, <2>1, <2>3 DEF Fits, last
<1>22. CASE n.state = "page-verified"
  <2>1. ev = "pageVerified" /\ s.state = "artifact-verifying"
    BY <1>22, <1>2, EventOf, EdgeCases
  <2>2. last = "artifact-committed"
    BY <1>3, <2>1 DEF LastKinds
  <2>3. k = "artifact-verified" /\ k \in LastKinds(n)
    BY <1>22, <2>1, KindOf DEF k, LastKinds
  <2> QED BY <1>22, <2>1, <2>2, <2>3, Takes, NoneIsNoKind DEF Fits, last
<1>23. CASE n.state = "checkpointing"
  <2>1. ev = "pageCheckpointed" /\ s.state = "page-verified"
    BY <1>23, <1>2, EventOf, EdgeCases
  <2>2. last = "artifact-verified"
    BY <1>3, <2>1 DEF LastKinds
  <2>3. k = "page-checkpointed" /\ k \in LastKinds(n)
    BY <1>23, <2>1, KindOf DEF k, LastKinds
  <2> QED BY <1>23, <2>1, <2>2, <2>3, Takes, NoneIsNoKind DEF Fits, last
<1>24. CASE n.state = "chain-complete"
  <2>1. ev = "terminalPageAdmitted" /\ s.state = "checkpointing"
    BY <1>24, <1>2, EventOf, EdgeCases
  <2>2. last = "page-checkpointed"
    BY <1>3, <2>1 DEF LastKinds
  <2>3. k = "chain-complete" /\ k \in LastKinds(n)
    BY <1>24, <2>1, KindOf DEF k, LastKinds
  <2> QED BY <1>24, <2>1, <2>2, <2>3, Takes, NoneIsNoKind DEF Fits, last
<1>25. CASE n.state = "normalizing"
  <2>1. ev = "normalizationStarted" /\ s.state = "chain-complete"
    BY <1>25, <1>2, EventOf, EdgeCases
  <2>2. last = "chain-complete"
    BY <1>3, <2>1 DEF LastKinds
  <2>3. k = "normalization-started" /\ k \in LastKinds(n)
    BY <1>25, <2>1, KindOf DEF k, LastKinds
  <2> QED BY <1>25, <2>1, <2>2, <2>3, Takes, NoneIsNoKind DEF Fits, last
<1>26. CASE n.state = "ready-for-selection"
  <2>1. ev = "normalizationCompleted" /\ s.state = "normalizing"
    BY <1>26, <1>2, EventOf, EdgeCases
  <2>2. last = "normalization-started"
    BY <1>3, <2>1 DEF LastKinds
  <2>3. k = "normalization-complete" /\ k \in LastKinds(n)
    BY <1>26, <2>1, KindOf DEF k, LastKinds
  <2> QED BY <1>26, <2>1, <2>2, <2>3, Takes, NoneIsNoKind DEF Fits, last
<1>27. CASE n.state = "selecting"
  <2>1. ev = "selectionStarted" /\ s.state = "ready-for-selection"
    BY <1>27, <1>2, EventOf, EdgeCases
  <2>2. last = "normalization-complete"
    BY <1>3, <2>1 DEF LastKinds
  <2>3. k = "selection-started" /\ k \in LastKinds(n)
    BY <1>27, <2>1, KindOf DEF k, LastKinds
  <2> QED BY <1>27, <2>1, <2>2, <2>3, Takes, NoneIsNoKind DEF Fits, last
<1>28. n.state = "preflighting" => ev \in {"beginPreflight", "retryDelayElapsed", "continueNextPage"}
  BY <1>2, EventOf
<1> QED
  BY <1>2, EdgeCases, <1>10, <1>11, <1>12, <1>13, <1>14, <1>15, <1>16, <1>17, <1>18, <1>19, <1>20, <1>21, <1>22, <1>23, <1>24, <1>25, <1>26, <1>27, <1>28 DEF TerminalStates

LEMMA PayloadCarried ==
    ASSUME NEW ev \in Events, NEW x \in Payloads(ev)
    PROVE  Carries(ev, x)
  BY LimitFacts DEF Payloads, Carries

LEMMA LoadedIs ==
    ASSUME saved \in Snapshot \cup {None}
    PROVE  LoadedSnapshot \in Snapshot /\ (saved # None => LoadedSnapshot = saved)
  BY InitialSnapshot DEF LoadedSnapshot

LEMMA HolderInit == RunInit => HolderInv
<1> SUFFICES ASSUME RunInit PROVE HolderInv
  OBVIOUS
<1>1. LoadedSnapshot = createInitialAcquisitionSnapshot
  BY DEF RunInit, LoadedSnapshot
<1> DEFINE s == createInitialAcquisitionSnapshot
<1>2. /\ s.state = "declared" /\ s.page = 0 /\ s.quota = <<>> /\ s.chain = <<>> /\ s.token = NoToken
      /\ s.authority = None /\ s.delay = None
  BY DEF createInitialAcquisitionSnapshot
<1> HIDE DEF s
<1>3. Chained(s)
  BY <1>2 DEF Chained, Linear, Fetching, Late
<1>4. Recorded(s)
  BY <1>2 DEF Recorded, First, RunInit
<1>5. kinds = <<>> /\ kinds \in Seq(Kinds) /\ JournalTakes
  BY DEF RunInit, JournalTakes
<1> QED BY <1>1, <1>3, <1>4, <1>5 DEF HolderInv, RunInit, s

(* Storing a row keeps the chain and the order of the rows.                *)
LEMMA RowStored ==
    ASSUME HolderInv, NEW ev \in Events, NEW x \in Payloads(ev), StoreRow(ev, x),
           held' \in {None, saved'}
    PROVE  HolderInv'
<1> DEFINE s == LoadedSnapshot
           k == checkpointForEvent(s, ev)
           n == deriveNext(s, ev, x, clock)
<1>1. held = s /\ s \in Snapshot /\ clock \in Nat
  BY LoadedIs DEF StoreRow, HolderInv
<1>2. Permitted(s, ev, x, clock) /\ (ev = "beginPreflight" => s.state = "declared") /\ Carries(ev, x)
  BY <1>1, PayloadCarried DEF StoreRow
<1>3. saved' = n /\ kinds' = (IF k = None THEN kinds ELSE Append(kinds, k)) /\ clock' = clock
  BY <1>1 DEF StoreRow
<1>4. Chained(s) /\ Recorded(s) /\ kinds \in Seq(Kinds)
  BY DEF HolderInv
<1>5. Changes(s, ev, x, clock, n)
  BY <1>1, <1>2, Derived
<1>6. n \in Snapshot /\ n # None
  BY <1>5, SnapshotAssumption DEF Changes
<1>7. LoadedSnapshot' = n
  BY <1>3, <1>6 DEF LoadedSnapshot
<1>8. Chained(n)
  <2>1. CASE ev = "pageCheckpointed"
    <3>1. x \in Tokens \cup {Terminal}
      BY <2>1, <1>2 DEF Carries
    <3> QED BY <2>1, <3>1, <1>1, <1>2, <1>4, ChainGrows
  <2>2. CASE ev = "continueNextPage"
    BY <2>2, <1>1, <1>2, <1>4, ChainContinues
  <2> QED BY <2>1, <2>2, <1>1, <1>2, <1>4, ChainStays
<1>9. Fits(s, k, n)
  BY <1>1, <1>2, <1>4, RowFits
<1>10. k # None => k \in Kinds
  BY <1>1, KindsKnown
<1> HIDE DEF s, k, n
<1>11. kinds' \in Seq(Kinds)
  BY <1>3, <1>4, <1>10
<1>12. k = None => kinds # <<>> /\ kinds' = kinds
  BY <1>3, <1>4, <1>9, NoneIsNoKind DEF Fits, Recorded
<1>13. k # None => /\ kinds' # <<>> /\ kinds'[Len(kinds')] = k /\ Len(kinds') = Len(kinds) + 1
                   /\ \A i \in 1..Len(kinds) : kinds'[i] = kinds[i]
  <2> SUFFICES ASSUME k # None
               PROVE  /\ kinds' # <<>> /\ kinds'[Len(kinds')] = k /\ Len(kinds') = Len(kinds) + 1
                      /\ \A i \in 1..Len(kinds) : kinds'[i] = kinds[i]
    OBVIOUS
  <2>1. kinds' = Append(kinds, k) /\ Len(kinds) \in Nat
    BY <1>3, <1>4
  <2>2. Len(kinds') = Len(kinds) + 1 /\ kinds'[Len(kinds) + 1] = k
    BY <2>1, <1>4
  <2> QED BY <2>1, <2>2, <1>4
<1>14. kinds' # <<>> /\ kinds'[Len(kinds')] \in LastKinds(n)
  BY <1>9, <1>12, <1>13 DEF Fits
<1>15. Recorded(LoadedSnapshot)' /\ Chained(LoadedSnapshot)'
  <2>1. Recorded(LoadedSnapshot)'
    BY <1>7, <1>9, <1>14 DEF Fits, Recorded, LastKinds, First
  <2>2. Chained(LoadedSnapshot)'
    BY <1>7, <1>8 DEF Chained, Linear
  <2> QED BY <2>1, <2>2
<1>16. JournalTakes'
  <2>1. CASE k = None
    BY <2>1, <1>12 DEF HolderInv, JournalTakes
  <2>2. CASE k # None
    <3> SUFFICES ASSUME NEW i \in 1..(Len(kinds) + 1)
                 PROVE  IF i = 1 THEN kinds'[i] = "acquisition-declared"
                        ELSE kinds'[i] \in NonterminalTransitions[kinds'[i - 1]]
      BY <1>11, <1>13, <2>2 DEF JournalTakes
    <3>1. CASE i \in 1..Len(kinds)
      <4>1. kinds'[i] = kinds[i] /\ (i # 1 => kinds'[i - 1] = kinds[i - 1])
        BY <1>4, <1>13, <2>2, <3>1
      <4>2. i \in DOMAIN kinds /\ JournalTakes
        BY <3>1, <1>4 DEF HolderInv
      <4>3. IF i = 1 THEN kinds[i] = "acquisition-declared"
            ELSE kinds[i] \in NonterminalTransitions[kinds[i - 1]]
        BY <4>2, Zenon DEF JournalTakes
      <4> QED BY <4>1, <4>3
    <3>2. CASE i = Len(kinds) + 1
      <4>1. kinds'[i] = k
        BY <1>13, <2>2, <3>2
      <4>2. CASE s.state = "declared"
        <5>1. i = 1 /\ k = "acquisition-declared"
          BY <4>2, <3>2, <1>4, <1>9 DEF Recorded, Fits
        <5> QED BY <4>1, <5>1
      <4>3. CASE s.state # "declared"
        <5>1. kinds # <<>> /\ k \in NonterminalTransitions[kinds[Len(kinds)]]
          BY <2>2, <4>3, <1>4, <1>9 DEF Recorded, Fits
        <5>2. Len(kinds) \in Nat /\ Len(kinds) # 0
          BY <5>1, <1>4
        <5>3. kinds'[i - 1] = kinds[Len(kinds)] /\ i # 1
          BY <5>2, <3>2, <1>13, <2>2
        <5> QED BY <4>1, <5>1, <5>3
      <4> QED BY <4>2, <4>3
    <3> QED BY <3>1, <3>2, <1>4
  <2> QED BY <2>1, <2>2
<1>17. clock' \in Nat /\ saved' \in Snapshot \cup {None} /\ held' \in {None, LoadedSnapshot'}
  BY <1>1, <1>3, <1>6, <1>7
<1> QED BY <1>11, <1>15, <1>16, <1>17 DEF HolderInv

LEMMA HolderStep == HolderInv /\ [RunNext]_runVars => HolderInv'
<1> SUFFICES ASSUME HolderInv, [RunNext]_runVars PROVE HolderInv'
  OBVIOUS
<1>1. ASSUME NEW ev \in Events, NEW x \in Payloads(ev), ApplyEvent(ev, x) \/ DieAfterStore(ev, x)
      PROVE  HolderInv'
  BY <1>1, RowStored DEF ApplyEvent, DieAfterStore
<1>2. ASSUME UNCHANGED <<saved, kinds>>, clock' \in Nat, held' \in {None, LoadedSnapshot}
      PROVE  HolderInv'
  <2>1. LoadedSnapshot' = LoadedSnapshot
    BY <1>2 DEF LoadedSnapshot
  <2>2. Recorded(LoadedSnapshot)' /\ Chained(LoadedSnapshot)' /\ JournalTakes'
    BY <1>2, <2>1 DEF HolderInv, Recorded, Chained, Linear, LastKinds, First, JournalTakes
  <2> QED BY <1>2, <2>1, <2>2 DEF HolderInv
<1>3. CASE Open
  BY <1>2, <1>3 DEF Open, HolderInv
<1>4. CASE Die
  BY <1>2, <1>4 DEF Die, HolderInv
<1>5. CASE Pass
  BY <1>2, <1>5 DEF Pass, HolderInv
<1>6. CASE UNCHANGED runVars
  BY <1>2, <1>6 DEF runVars, HolderInv
<1> QED BY <1>1, <1>3, <1>4, <1>5, <1>6 DEF RunNext

(* AcquisitionSound, for every holder: the pages of an acquisition are one *)
(* chain with no token twice, nothing is normalized or selected before the *)
(* last page, and the journal takes the rows, whatever events are applied  *)
(* and wherever a holder dies.                                             *)
THEOREM AcquisitionsAreSound == RunSpec => []AcquisitionSound
<1>1. HolderInv => AcquisitionSound
  <2> SUFFICES ASSUME HolderInv PROVE PagesChained
    BY DEF HolderInv, AcquisitionSound
  <2>1. CASE saved # None
    <3>1. LoadedSnapshot = saved /\ saved \in Snapshot
      BY <2>1, LoadedIs DEF HolderInv
    <3>2. Chained(saved)
      BY <3>1 DEF HolderInv
    <3>3. saved.state \in Late =>
            saved.chain # <<>> /\ saved.chain[Len(saved.chain)].next = Terminal
      <4> SUFFICES ASSUME saved.state \in Late
                   PROVE  saved.chain # <<>> /\ saved.chain[Len(saved.chain)].next = Terminal
        OBVIOUS
      <4>1. Len(saved.chain) = saved.page + 1 /\ saved.chain[saved.page + 1].next = Terminal
        BY <3>2 DEF Chained
      <4>2. saved.page \in Nat
        BY <3>1, SnapshotFields
      <4> QED BY <4>1, <4>2
    <3> QED BY <3>2, <3>3 DEF PagesChained, Chained, Linear
  <2> QED BY <2>1 DEF PagesChained
<1> QED BY <1>1, HolderInit, HolderStep, PTL DEF RunSpec

-----------------------------------------------------------------------------
(* Processes that call execute.                                            *)

Ids == Nat \X (Tokens \cup {NoToken}) \X Nat
AClaim == [id : Ids, at : Nat]
Permit == [id : Ids, until : Nat]
Request == [id : Ids, page : Nat, start : Nat, at : Nat]
Entry ==
    [kind : CheckpointKinds, id : Ids \cup {None}, page : Nat, token : Tokens \cup {NoToken}, pages : Nat,
     quota : Seq(Nat), next : Tokens \cup {Terminal, None}]

(* The states that the snapshot of a call may be in, at each place.        *)
At(label, state) ==
    \/ label = "page" /\ state \in States
    \/ label = "delay" /\ state = "waiting-retry"
    \/ label \in {"rebegin", "approve"} /\ state = "preflighting"
    \/ label = "ready" /\ state \in {"declared", "preflighting"}
    \/ label \in {"claim", "secrets"} /\ state = "dispatch-ready"
    \/ label = "dispatch" /\ state = "credential-ready"
    \/ label \in {"send", "inflight"} /\ state = "attempt-active"
    \/ /\ label = "store"
       /\ state \in {"response-accepted", "artifact-committing", "artifact-committed", "artifact-verifying"}
    \/ label \in {"evidence", "link evidence", "admit"} /\ state = "page-verified"
    \/ label \in {"page entry", "link page", "close"} /\ state = "checkpointing"
    \/ label \in {"chain entry", "link chain"} /\ state = "chain-complete"

Labels ==
    {"idle", "page", "delay", "rebegin", "approve", "ready", "claim", "secrets", "dispatch", "send", "inflight",
     "store", "evidence", "link evidence", "admit", "page entry", "link page", "close", "chain entry", "link chain"}

LiveTyped ==
    /\ durable \in Snapshot \cup {None} /\ rows \in Seq(Entry) /\ claims \in Seq(AClaim)
    /\ pc \in [Callers -> Labels] /\ machine \in [Callers -> Snapshot \cup {None}]
    /\ page \in [Callers -> Nat] /\ permit \in [Callers -> Permit \cup {None}] /\ wake \in [Callers -> Nat]
    /\ now \in Nat /\ skew \in [Callers -> Nat] /\ sent \in Seq(Request)

Placed ==
    \A c \in Callers :
        IF machine[c] = None THEN pc[c] \in {"idle", "claim"} ELSE At(pc[c], machine[c].state)

(* The snapshots that somebody may go on with.                             *)
Current == IF durable = None THEN createInitialAcquisitionSnapshot ELSE durable
InUse == ({Current} \cup {machine[c] : c \in Callers}) \ {None}

(* What a call may do with what is stored: leave it, load it, go on        *)
(* without an event, apply an event and go on, apply one and end, claim.   *)
Still == UNCHANGED <<durable, rows, claims>>

Quits(c) == Still /\ pc'[c] = "idle" /\ machine'[c] = None

Loads(c) ==
    /\ Still /\ pc[c] = "idle" /\ machine'[c] = Loaded
    /\ pc'[c] = (IF Loaded = None THEN "claim" ELSE "page")

Paths ==
    {<<"page", "delay">>, <<"page", "approve">>, <<"page", "claim">>,
     <<"evidence", "link evidence">>, <<"link evidence", "admit">>,
     <<"page entry", "link page">>, <<"link page", "close">>, <<"chain entry", "link chain">>}

Walks(c) ==
    /\ Still /\ machine[c] # None /\ machine'[c] = machine[c] /\ permit'[c] = permit[c]
    /\ <<pc[c], pc'[c]>> \in Paths /\ At(pc'[c], machine[c].state)
    /\ pc'[c] = "delay" => wake'[c] = now + machine[c].delay

Turns ==
    {<<"page", "continueNextPage", "approve">>, <<"delay", "retryDelayElapsed", "rebegin">>,
     <<"ready", "beginPreflight", "ready">>, <<"approve", "approvePreflight", "claim">>,
     <<"ready", "approvePreflight", "secrets">>, <<"secrets", "credentialsLoaded", "dispatch">>,
     <<"dispatch", "dispatchStarted", "send">>, <<"inflight", "responseAccepted", "store">>,
     <<"store", "artifactStoreStarted", "store">>, <<"store", "artifactStoreCommitted", "store">>,
     <<"store", "artifactVerificationStarted", "store">>, <<"store", "pageVerified", "evidence">>,
     <<"admit", "pageCheckpointed", "page entry">>, <<"close", "terminalPageAdmitted", "chain entry">>}

Acts(c, ev, x) ==
    /\ CanApply(c, ev, x) /\ Record(c, ev, x) /\ UNCHANGED claims
    /\ machine[c] # None /\ machine'[c] = durable' /\ permit'[c] = permit[c]
    /\ <<pc[c], ev, pc'[c]>> \in Turns
    /\ ev = "dispatchStarted" => AttemptId(machine[c]) = permit[c].id
    /\ ev = "retryDelayElapsed" => wake[c] <= now
    /\ ev = "continueNextPage" =>
           machine[c].state = "checkpointing" /\ Continues(machine[c].page + 1, machine[c].authority)

Stops ==
    {<<"dispatch", "dispatchStarted">>, <<"send", "retryCleanup">>, <<"send", "attemptFailed">>,
     <<"inflight", "retryCleanup">>, <<"inflight", "attemptFailed">>, <<"store", "artifactStoreFailed">>}

Lasts(c, ev, x) ==
    /\ CanApply(c, ev, x) /\ Record(c, ev, x) /\ UNCHANGED claims
    /\ machine[c] # None /\ machine'[c] = None /\ pc'[c] = "idle"
    /\ <<pc[c], ev>> \in Stops

Claims(c) ==
    /\ pc[c] = "claim" /\ Claimable(Clock(c)) /\ UNCHANGED <<durable, rows>>
    /\ claims' = Append(claims, [id |-> NextAttempt, at |-> Clock(c)])
    /\ permit'[c] = [id |-> NextAttempt,
                     until |-> Clock(c) + Least(attemptDeadlineMs, acquisitionDeadlineMs - Clock(c))]
    /\ machine'[c] = (IF machine[c] # None THEN machine[c] ELSE Current)
    /\ pc'[c] = (IF machine'[c].state = "dispatch-ready" THEN "secrets" ELSE "ready")

Others(c) ==
    /\ \A d \in Callers \ {c} :
           pc'[d] = pc[d] /\ machine'[d] = machine[d] /\ permit'[d] = permit[d] /\ wake'[d] = wake[d]
    /\ pc' = [d \in Callers |-> pc'[d]] /\ machine' = [d \in Callers |-> machine'[d]]
    /\ permit' = [d \in Callers |-> permit'[d]] /\ wake' = [d \in Callers |-> wake'[d]]
    /\ permit'[c] \in {permit[c], None} \/ Claims(c)
    /\ wake'[c] \in {wake[c], 0} \/ (pc'[c] = "delay" /\ wake'[c] = now + machine[c].delay)

Kind(c) ==
    /\ Others(c)
    /\ \/ Quits(c) \/ Loads(c) \/ Walks(c) \/ Claims(c)
       \/ \E ev \in Events : \E x \in Reasons \cup Failures \cup Tokens \cup {Terminal, None} :
              Carries(ev, x) /\ (Acts(c, ev, x) \/ Lasts(c, ev, x))

LEMMA LiveFields ==
    ASSUME LiveTyped, NEW c \in Callers
    PROVE  /\ pc[c] \in Labels /\ machine[c] \in Snapshot \cup {None} /\ permit[c] \in Permit \cup {None}
           /\ wake[c] \in Nat /\ skew[c] \in Nat /\ Clock(c) \in Nat
           /\ machine[c] # None => machine[c] \in Snapshot
  BY DEF LiveTyped, Clock

LEMMA ReturnsQuits ==
    ASSUME LiveTyped, NEW c \in Callers, Returns(c)
    PROVE  pc'[c] = "idle" /\ machine'[c] = None /\ Others(c)
  BY DEF LiveTyped, Returns, Goto, Others

LEMMA StepKind ==
    ASSUME LiveTyped, NEW c \in Callers, NEW ev, NEW x, NEW label,
           Step(c, ev, x, label)
    PROVE  /\ Others(c)
           /\ \/ Quits(c)
              \/ /\ CanApply(c, ev, x) /\ Record(c, ev, x) /\ UNCHANGED claims
                 /\ machine'[c] = durable' /\ permit'[c] = permit[c] /\ pc'[c] = label /\ wake' = wake
<1>1. CASE CanApply(c, ev, x)
  BY <1>1 DEF Step, Apply, Record, Goto, LiveTyped, Others
<1>2. CASE ~CanApply(c, ev, x)
  BY <1>2, ReturnsQuits DEF Step, stored, Quits, Still
<1> QED BY <1>1, <1>2

LEMMA LastKind ==
    ASSUME LiveTyped, NEW c \in Callers, NEW ev, NEW x, LastStep(c, ev, x)
    PROVE  /\ Others(c) /\ pc'[c] = "idle" /\ machine'[c] = None
           /\ Quits(c) \/ (CanApply(c, ev, x) /\ Record(c, ev, x) /\ UNCHANGED claims)
  BY ReturnsQuits DEF LastStep, Quits, Still

LEMMA WriteKind ==
    ASSUME LiveTyped, NEW c \in Callers, NEW new, NEW label, Write(c, new, label)
    PROVE  /\ Others(c)
           /\ Quits(c) \/ (Still /\ machine' = machine /\ permit' = permit /\ pc'[c] = label)
<1>1. CASE Returns(c) /\ UNCHANGED stored
  BY <1>1, ReturnsQuits DEF stored, Quits, Still
<1>2. CASE ~(Returns(c) /\ UNCHANGED stored)
  BY <1>2 DEF Write, Goto, LiveTyped, Others, Still
<1> QED BY <1>1, <1>2
(* Every step of a call is of one of these kinds.                          *)
LEMMA MoveKind ==
    ASSUME LiveTyped, Placed, NEW c \in Callers, Moves(c)
    PROVE  Kind(c)
<1> DEFINE m == machine[c]
           X == Reasons \cup Failures \cup Tokens \cup {Terminal, None}
<1>1. /\ pc[c] \in Labels /\ m \in Snapshot \cup {None} /\ (m # None => m \in Snapshot)
      /\ (m = None => pc[c] \in {"idle", "claim"}) /\ (m # None => At(pc[c], m.state))
  BY LiveFields DEF Placed
<1>2. ASSUME NEW ev \in Events, NEW x \in X, NEW label, Carries(ev, x), m # None, Step(c, ev, x, label),
             <<pc[c], ev, label>> \in Turns,
             ev = "dispatchStarted" => AttemptId(m) = permit[c].id,
             ev = "retryDelayElapsed" => wake[c] <= now,
             ev # "continueNextPage"
      PROVE  Kind(c)
  BY <1>2, StepKind DEF Kind, Acts
<1>3. ASSUME NEW ev \in Events, NEW x \in X, Carries(ev, x), m # None, LastStep(c, ev, x), <<pc[c], ev>> \in Stops
      PROVE  Kind(c)
  BY <1>3, LastKind DEF Kind, Lasts
<1>4. ASSUME Returns(c), UNCHANGED stored
      PROVE  Kind(c)
  BY <1>4, ReturnsQuits DEF Kind, Quits, Still, stored
<1>5. None \in X /\ \A ev \in Events : ev \notin {"preflightStopped", "preflightFailed", "attemptStopped",
          "attemptFailed", "policyStopped", "retryCleanup", "pageCheckpointed", "normalizationCompleted"} =>
              Carries(ev, None)
  BY DEF Carries
<1>6. CASE Call(c)
  BY <1>6 DEF Call, Goto, Kind, Loads, Still, stored, Others, LiveTyped
<1>7. CASE ChoosePage(c)
  <2>1. pc[c] = "page" /\ m # None /\ m \in Snapshot
    BY <1>1, <1>7 DEF ChoosePage
  <2>2. CASE Returns(c) /\ UNCHANGED stored
    BY <1>4, <2>2
  <2>3. CASE ~(Returns(c) /\ UNCHANGED stored) /\ m.state = "checkpointing"
    <3>1. /\ (m.page + 1 > 0 => Continues(m.page + 1, m.authority))
          /\ CanApply(c, "continueNextPage", None) /\ Apply(c, "continueNextPage", None)
          /\ Goto(c, "approve") /\ wake' = [wake EXCEPT ![c] = 0] /\ UNCHANGED <<claims, permit>>
      BY <1>7, <2>3 DEF ChoosePage
    <3>2. Continues(m.page + 1, m.authority)
      BY <2>1, <3>1, SnapshotFields
    <3>3. Others(c) /\ Acts(c, "continueNextPage", None)
      BY <2>1, <2>3, <3>1, <3>2 DEF Acts, Apply, Record, Goto, Turns, Others, LiveTyped
    <3>4. "continueNextPage" \in Events
      BY TargetOf
    <3> QED BY <3>3, <3>4, <1>5 DEF Kind
  <2>4. CASE ~(Returns(c) /\ UNCHANGED stored) /\ m.state # "checkpointing"
    <3>1. /\ Route(m.state) # "fail" /\ UNCHANGED <<durable, rows, machine, claims, permit>>
          /\ Goto(c, Route(m.state))
          /\ wake' = [wake EXCEPT ![c] = IF m.state = "waiting-retry" THEN now + m.delay ELSE 0]
      BY <1>7, <2>4 DEF ChoosePage
    <3>2. <<"page", Route(m.state)>> \in Paths /\ At(Route(m.state), m.state)
          /\ (Route(m.state) = "delay" <=> m.state = "waiting-retry")
      BY <3>1 DEF Route, Paths, At
    <3>3. pc'[c] = Route(m.state) /\ Others(c)
          /\ wake'[c] = IF m.state = "waiting-retry" THEN now + m.delay ELSE 0
      BY <3>1, <3>2 DEF Goto, Others, LiveTyped
    <3> QED BY <2>1, <3>1, <3>2, <3>3 DEF Kind, Walks, Still
  <2> QED BY <2>2, <2>3, <2>4
<1>8. CASE DelayOver(c)
  <2>1. m # None /\ "retryDelayElapsed" \in Events
    BY <1>1, <1>8, TargetOf DEF DelayOver
  <2> QED BY <2>1, <1>2, <1>5, <1>8 DEF DelayOver, Turns
<1>9. CASE Rebegin(c)
  BY <1>4, <1>9 DEF Rebegin
<1>10. CASE Begin(c)
  <2>1. m # None /\ "beginPreflight" \in Events
    BY <1>1, <1>10, TargetOf DEF Begin
  <2> QED BY <2>1, <1>2, <1>5, <1>10 DEF Begin, Turns
<1>11. CASE Approve(c)
  <2>1. m # None /\ "approvePreflight" \in Events
    BY <1>1, <1>11, TargetOf DEF Approve
  <2> QED BY <2>1, <1>2, <1>5, <1>11 DEF Approve, Turns
<1>12. CASE Claim(c)
  <2>1. CASE Claimable(Clock(c))
    BY <1>12, <2>1 DEF Claim, Claims, Kind, Goto, Others, LiveTyped, Current
  <2>2. CASE ~Claimable(Clock(c))
    BY <1>4, <1>12, <2>2 DEF Claim
  <2> QED BY <2>1, <2>2
<1>13. CASE Secrets(c)
  <2>1. m # None /\ "credentialsLoaded" \in Events
    BY <1>1, <1>13, TargetOf DEF Secrets
  <2> QED BY <2>1, <1>2, <1>5, <1>13 DEF Secrets, Turns
<1>14. CASE NoSecrets(c)
  BY <1>4, <1>14 DEF NoSecrets
<1>15. CASE Dispatch(c)
  <2>1. m # None /\ "dispatchStarted" \in Events
    BY <1>1, <1>15, TargetOf DEF Dispatch
  <2> QED BY <2>1, <1>2, <1>3, <1>5, <1>15 DEF Dispatch, Turns, Stops
<1>16. CASE Fail(c)
  <2>1. m # None /\ {"retryCleanup", "attemptFailed"} \subseteq Events
    BY <1>1, <1>16, TargetOf DEF Fail
  <2>2. PICK failure \in Failures :
           IF MayRetry(m, failure) THEN LastStep(c, "retryCleanup", failure)
           ELSE LastStep(c, "attemptFailed", "request-failed")
    BY <1>16 DEF Fail
  <2>3. Carries("retryCleanup", failure) /\ Carries("attemptFailed", "request-failed")
    BY <2>2, ReasonsAssumption DEF Carries
  <2>4. failure \in X /\ "request-failed" \in X
    BY ReasonsAssumption
  <2> QED BY <2>1, <2>2, <2>3, <2>4, <1>3, <1>16 DEF Fail, Stops
<1>17. CASE Accept(c)
  <2>1. m # None /\ "responseAccepted" \in Events
    BY <1>1, <1>17, TargetOf DEF Accept
  <2> QED BY <2>1, <1>2, <1>5, <1>17 DEF Accept, Turns
<1>18. CASE Store(c)
  <2>1. m # None /\ m.state \in {"response-accepted", "artifact-committing", "artifact-committed",
                                "artifact-verifying"}
    BY <1>1, <1>18 DEF Store, At
  <2> DEFINE ev == StoreEvent(m.state)
             label == IF m.state = "artifact-verifying" THEN "evidence" ELSE "store"
  <2>2. ev \in {"artifactStoreStarted", "artifactStoreCommitted", "artifactVerificationStarted", "pageVerified"}
        /\ <<"store", ev, label>> \in Turns
    BY <2>1 DEF StoreEvent, Turns
  <2>3. ev \in Events
    BY <2>2, TargetOf
  <2>4. Step(c, ev, None, label) /\ pc[c] = "store"
    BY <1>18 DEF Store
  <2> HIDE DEF ev, label
  <2> QED BY <2>1, <2>2, <2>3, <2>4, <1>2, <1>5
<1>19. CASE StoreFails(c)
  <2>1. m # None /\ "artifactStoreFailed" \in Events
    BY <1>1, <1>19, TargetOf DEF StoreFails
  <2> QED BY <2>1, <1>3, <1>5, <1>19 DEF StoreFails, Stops
<1>20. ASSUME NEW new, NEW label, Write(c, new, label), <<pc[c], label>> \in Paths, m # None, At(label, m.state),
              label # "delay"
       PROVE  Kind(c)
  BY <1>20, WriteKind DEF Kind, Walks
<1>21. CASE Evidence(c)
  BY <1>1, <1>20, <1>21 DEF Evidence, At, Paths
<1>22. CASE Link(c)
  <2>1. m # None
    BY <1>1, <1>22 DEF Link
  <2>2. CASE Returns(c)
    BY <1>22, <2>2, ReturnsQuits DEF Link, Kind, Quits, Still
  <2>3. CASE ~Returns(c)
    <3>1. /\ UNCHANGED <<durable, rows, claims, machine, permit, wake>>
          /\ Goto(c, IF pc[c] = "link evidence" THEN "admit" ELSE "close")
          /\ pc[c] \in {"link evidence", "link page"}
      BY <1>22, <2>3 DEF Link
    <3> QED BY <1>1, <2>1, <3>1 DEF Goto, Kind, Walks, Still, Paths, At, Others, LiveTyped
  <2> QED BY <2>2, <2>3
<1>23. CASE AdmitPage(c)
  <2>1. m # None /\ "pageCheckpointed" \in Events
    BY <1>1, <1>23, TargetOf DEF AdmitPage
  <2>2. PICK next \in Tokens \cup {Terminal} : Step(c, "pageCheckpointed", next, "page entry")
    BY <1>23 DEF AdmitPage
  <2>3. Carries("pageCheckpointed", next)
    BY DEF Carries
  <2> QED BY <2>1, <2>2, <2>3, <1>2, <1>23 DEF AdmitPage, Turns
<1>24. CASE RefusePage(c)
  BY <1>4, <1>24 DEF RefusePage
<1>25. CASE PageEntry(c)
  BY <1>1, <1>20, <1>25 DEF PageEntry, At, Paths
<1>26. CASE Close(c)
  <2>1. m # None /\ "terminalPageAdmitted" \in Events
    BY <1>1, <1>26, TargetOf DEF Close
  <2> QED BY <2>1, <1>2, <1>4, <1>5, <1>26 DEF Close, Turns
<1>27. CASE ChainEntry(c)
  BY <1>1, <1>20, <1>27 DEF ChainEntry, At, Paths
<1> QED
  BY <1>6, <1>7, <1>8, <1>9, <1>10, <1>11, <1>12, <1>13, <1>14, <1>15, <1>16, <1>17, <1>18, <1>19, <1>21,
     <1>22, <1>23, <1>24, <1>25, <1>26, <1>27 DEF Moves
-----------------------------------------------------------------------------
(* Types.                                                                  *)

LEMMA KindDiffers ==
    ASSUME NEW s \in Snapshot, NEW ev \in Events, checkpointForEvent(s, ev) # None
    PROVE  checkpointForEvent(s, ev) \in CheckpointKinds
  BY DEF checkpointForEvent, CheckpointKinds, Ends

LEMMA EntryOf ==
    ASSUME NEW s \in Snapshot, NEW k \in CheckpointKinds
    PROVE  Checkpoint(k, s) \in Entry /\ Checkpoint(k, s).kind = k /\ Checkpoint(k, s).id = s.id
<1>1. s.id \in Ids \cup {None}
  BY DEF Snapshot, Ids
<1>2. Len(s.chain) \in Nat /\ s.page \in Nat /\ s.token \in Tokens \cup {NoToken} /\ s.quota \in Seq(Nat)
      /\ s.authority \in Tokens \cup {None}
  BY SnapshotFields
<1> QED BY <1>1, <1>2 DEF Checkpoint, Entry

(* The row that an event stores.                                           *)
LEMMA RowOf ==
    ASSUME LiveTyped, NEW c \in Callers, NEW ev \in Events, NEW x, Carries(ev, x), machine[c] # None,
           CanApply(c, ev, x), Record(c, ev, x)
    PROVE  /\ Changes(machine[c], ev, x, Clock(c), durable') /\ durable' \in Snapshot
           /\ <<machine[c].state, Target[ev]>> \in Edges
           /\ machine[c].state = (IF durable = None THEN "declared" ELSE durable.state)
           /\ \/ rows' = rows /\ checkpointForEvent(machine[c], ev) = None
              \/ \E e \in Entry : /\ rows' = Append(rows, e) /\ e.id = durable'.id
                                  /\ e.kind = checkpointForEvent(machine[c], ev)
           /\ Permitted(machine[c], ev, x, Clock(c))
<1>1. machine[c] \in Snapshot /\ Clock(c) \in Nat
  BY LiveFields
<1>2. Permitted(machine[c], ev, x, Clock(c)) /\ Persistable(machine[c], Clock(c))
  BY DEF CanApply
<1>3. durable' = deriveNext(machine[c], ev, x, Clock(c))
  BY DEF Record
<1>4. Changes(machine[c], ev, x, Clock(c), durable') /\ durable' \in Snapshot
  <2>1. Changes(machine[c], ev, x, Clock(c), deriveNext(machine[c], ev, x, Clock(c)))
    BY <1>1, <1>2, Derived, ZenonT(30)
  <2> QED BY <1>3, <2>1 DEF Changes
<1>5. CASE checkpointForEvent(machine[c], ev) = None
  BY <1>2, <1>4, <1>5 DEF Record, Permitted, Persistable
<1>6. CASE checkpointForEvent(machine[c], ev) # None
  <2> DEFINE k == checkpointForEvent(machine[c], ev)
             e == Checkpoint(k, durable')
  <2>1. k \in CheckpointKinds
    BY <1>1, <1>6, KindDiffers
  <2>2. e \in Entry /\ e.kind = k /\ e.id = durable'.id
    BY <1>4, <2>1, EntryOf
  <2>3. rows' = Append(rows, e)
    BY <1>3, <1>6 DEF Record
  <2> HIDE DEF e, k
  <2> QED BY <1>2, <1>4, <2>2, <2>3 DEF Permitted, Persistable, k
<1> QED BY <1>5, <1>6
(* What is in use after a step: what was, or what was stored.              *)
LEMMA InUseAfter ==
    ASSUME LiveTyped, NEW c \in Callers, Others(c),
           \/ Quits(c) \/ Loads(c) \/ Walks(c) \/ Claims(c)
    PROVE  InUse' \subseteq InUse
<1>1. Current' = Current
  BY DEF Current, Quits, Loads, Walks, Claims, Still
<1>2. machine'[c] \in InUse \cup {None}
  BY DEF Quits, Loads, Walks, Claims, Loaded, Current, InUse
<1>3. \A d \in Callers : machine'[d] \in InUse \cup {None}
  BY <1>2 DEF Others, InUse
<1> QED BY <1>1, <1>3 DEF InUse

LEMMA InUseStored ==
    ASSUME LiveTyped, NEW c \in Callers, Others(c), durable' \in Snapshot, machine'[c] \in {None, durable'}
    PROVE  InUse' \subseteq InUse \cup {durable'} /\ durable' \in InUse'
<1>1. Current' = durable' /\ durable' # None
  BY SnapshotAssumption DEF Current
<1>2. \A d \in Callers : machine'[d] \in InUse \cup {None, durable'}
  BY DEF Others, InUse
<1> QED BY <1>1, <1>2 DEF InUse

LEMMA UsedSnapshots ==
    ASSUME LiveTyped
    PROVE  /\ InUse \subseteq Snapshot /\ Current \in InUse
           /\ \A c \in Callers : machine[c] # None => machine[c] \in InUse
           /\ durable # None => durable \in InUse
  BY InitialSnapshot, SnapshotAssumption DEF LiveTyped, InUse, Current

(* Where a turn leads.                                                     *)
LEMMA TurnAt ==
    ASSUME NEW a, NEW ev \in Events, NEW b, NEW state, <<a, ev, b>> \in Turns, At(a, state),
           <<state, Target[ev]>> \in Edges
    PROVE  At(b, Target[ev]) /\ b \in Labels /\ a \in Labels
  BY EdgeCases, TargetOf, ZenonT(60) DEF Turns, At, Labels

Delays == \A s \in InUse : s.state = "waiting-retry" => s.delay # None

LEMMA TypedMove ==
    ASSUME LiveTyped, Placed, Delays, NEW c \in Callers, Kind(c), page' \in [Callers -> Nat],
           UNCHANGED <<now, skew, sent>>
    PROVE  LiveTyped' /\ Placed'
<1>1. NextAttempt \in Ids /\ Current \in Snapshot /\ Clock(c) \in Nat
  <2>1. Current \in Snapshot /\ NextAttempt = AttemptId(Current)
    BY UsedSnapshots DEF NextAttempt, Current
  <2> QED BY <2>1, LiveFields DEF AttemptId, Ids, Snapshot
<1>2. /\ durable' \in Snapshot \cup {None} /\ rows' \in Seq(Entry) /\ claims' \in Seq(AClaim)
      /\ pc'[c] \in Labels /\ machine'[c] \in Snapshot \cup {None} /\ permit'[c] \in Permit \cup {None}
      /\ IF machine'[c] = None THEN pc'[c] \in {"idle", "claim"} ELSE At(pc'[c], machine'[c].state)
  <2>0. permit'[c] \in Permit \cup {None} \/ Claims(c)
    BY LiveFields DEF Kind, Others
  <2>1. CASE Quits(c)
    BY <2>1, <2>0 DEF Quits, Still, LiveTyped, Labels, Claims
  <2>2. CASE Loads(c)
    <3>1. Loaded \in Snapshot \cup {None} /\ (Loaded # None => Loaded.state \in States)
      BY InitialSnapshot, SnapshotFields DEF Loaded, LiveTyped
    <3> QED BY <2>2, <2>0, <3>1 DEF Loads, Still, LiveTyped, Labels, At, Claims
  <2>3. CASE Walks(c)
    BY <2>3, <2>0 DEF Walks, Still, LiveTyped, Labels, Paths, Claims
  <2>4. CASE Claims(c)
    <3> DEFINE until == Clock(c) + Least(attemptDeadlineMs, acquisitionDeadlineMs - Clock(c))
    <3>1. until \in Nat
      BY <1>1, <2>4, LimitFacts DEF Claims, Claimable, Least
    <3> HIDE DEF until
    <3>2. permit'[c] \in Permit
      BY <1>1, <2>4, <3>1 DEF Claims, Permit, until
    <3>3. [id |-> NextAttempt, at |-> Clock(c)] \in AClaim
      BY <1>1 DEF AClaim
    <3>4. claims' \in Seq(AClaim) /\ UNCHANGED <<durable, rows>>
      BY <2>4, <3>3 DEF Claims, LiveTyped
    <3>5. machine'[c] \in Snapshot
      BY <1>1, <2>4, LiveFields DEF Claims
    <3>6. machine'[c].state \in {"declared", "dispatch-ready"}
      <4>1. CASE machine[c] # None
        BY <2>4, <4>1 DEF Claims, Placed, At
      <4>2. CASE machine[c] = None
        BY <2>4, <4>2 DEF Claims, Claimable, Current, createInitialAcquisitionSnapshot
      <4> QED BY <4>1, <4>2
    <3> QED BY <2>4, <3>2, <3>4, <3>5, <3>6, SnapshotAssumption DEF Claims, LiveTyped, Labels, At
  <2>5. ASSUME NEW ev \in Events, NEW x, Carries(ev, x), Acts(c, ev, x) \/ Lasts(c, ev, x)
        PROVE  /\ durable' \in Snapshot \cup {None} /\ rows' \in Seq(Entry) /\ claims' \in Seq(AClaim)
               /\ pc'[c] \in Labels /\ machine'[c] \in Snapshot \cup {None} /\ permit'[c] \in Permit \cup {None}
               /\ IF machine'[c] = None THEN pc'[c] \in {"idle", "claim"} ELSE At(pc'[c], machine'[c].state)
    <3>1. CanApply(c, ev, x) /\ Record(c, ev, x) /\ claims' = claims /\ machine[c] # None
          /\ machine'[c] \in {None, durable'}
      BY <2>5 DEF Acts, Lasts
    <3>2. /\ durable' \in Snapshot /\ durable'.state = Target[ev] /\ <<machine[c].state, Target[ev]>> \in Edges
          /\ rows' = rows \/ \E e \in Entry : rows' = Append(rows, e)
      BY <2>5, <3>1, RowOf DEF Changes
    <3>3. rows' \in Seq(Entry)
      <4>1. rows \in Seq(Entry)
        BY DEF LiveTyped
      <4>2. ASSUME NEW e \in Entry, rows' = Append(rows, e) PROVE rows' \in Seq(Entry)
        BY <4>1, <4>2
      <4> QED BY <3>2, <4>1, <4>2
    <3>4. At(pc[c], machine[c].state)
      BY <3>1 DEF Placed
    <3>5. CASE Acts(c, ev, x)
      <4>1. At(pc'[c], Target[ev]) /\ pc'[c] \in Labels
        <5>1. <<pc[c], ev, pc'[c]>> \in Turns
          BY <3>5 DEF Acts
        <5> QED BY <3>2, <3>4, <5>1, TurnAt, ZenonT(30)
      <4>2. machine'[c] = durable' /\ permit'[c] = permit[c]
        BY <3>5 DEF Acts
      <4>3. durable' # None /\ claims \in Seq(AClaim) /\ permit[c] \in Permit \cup {None}
        BY <3>2, SnapshotAssumption, LiveFields DEF LiveTyped
      <4> QED BY <3>1, <3>2, <3>3, <4>1, <4>2, <4>3
    <3>6. CASE Lasts(c, ev, x)
      <4>1. pc[c] # "claim"
        BY <3>6 DEF Lasts, Stops
      <4> QED BY <2>0, <3>1, <3>2, <3>3, <3>6, <4>1 DEF Lasts, LiveTyped, Labels, Claims
    <3> QED BY <2>5, <3>5, <3>6
  <2> QED BY <2>1, <2>2, <2>3, <2>4, <2>5 DEF Kind
<1>3. wake'[c] \in Nat
  <2>1. CASE pc'[c] = "delay" /\ wake'[c] = now + machine[c].delay
    <3>1. Walks(c)
      BY <2>1 DEF Kind, Quits, Loads, Walks, Claims, Acts, Lasts, Turns
    <3>2. machine[c] \in InUse /\ machine[c].state = "waiting-retry" /\ machine[c] \in Snapshot
      BY <2>1, <3>1, UsedSnapshots DEF Walks, At
    <3>3. machine[c].delay \in Nat
      BY <3>2, SnapshotFields DEF Delays
    <3> QED BY <2>1, <3>3 DEF LiveTyped
  <2> QED BY <2>1, LiveFields DEF Kind, Others
<1>4. Others(c)
  BY DEF Kind
<1>5. pc' \in [Callers -> Labels] /\ machine' \in [Callers -> Snapshot \cup {None}]
      /\ permit' \in [Callers -> Permit \cup {None}] /\ wake' \in [Callers -> Nat]
  <2>1. \A d \in Callers : pc'[d] \in Labels /\ machine'[d] \in Snapshot \cup {None}
                         /\ permit'[d] \in Permit \cup {None} /\ wake'[d] \in Nat
    BY <1>2, <1>3, <1>4, LiveFields DEF Others
  <2> QED BY <1>4, <2>1 DEF Others
<1>6. Placed'
  <2>1. ASSUME NEW d \in Callers
        PROVE  IF machine'[d] = None THEN pc'[d] \in {"idle", "claim"} ELSE At(pc'[d], machine'[d].state)
    <3>1. CASE d = c
      BY <1>2, <3>1
    <3>2. CASE d # c
      BY <1>4, <3>2 DEF Placed, Others
    <3> QED BY <3>1, <3>2
  <2> QED BY <2>1 DEF Placed, At
<1> QED BY <1>2, <1>5, <1>6 DEF LiveTyped
-----------------------------------------------------------------------------
(* Whose turn it is.                                                       *)

Spending == {"send", "inflight", "store", "evidence", "link evidence", "admit"}
Owning == {"dispatch"} \cup Spending
Holding == {"ready", "secrets", "dispatch"}

(* Who has begun an attempt has what is stored, and is alone.              *)
Owned ==
    \A c \in Callers : pc[c] \in Owning =>
        durable = machine[c] /\ \A d \in Callers : pc[d] \in Owning => c = d

Permits(c) ==
    /\ permit[c] \in Permit /\ claims # <<>> /\ permit[c].id = claims[Len(claims)].id
    /\ permit[c].until <= acquisitionDeadlineMs

(* At most one claim is not dispatched, and at most one call has it.       *)
Ticketed ==
    /\ Dispatches <= Len(claims) /\ Len(claims) <= Dispatches + 1 /\ Len(claims) <= attemptsPerAcquisition
    /\ \A c \in Callers :
           /\ pc[c] \in Holding =>
                  /\ Len(claims) = Dispatches + 1 /\ Permits(c)
                  /\ \A d \in Callers : pc[d] \in Holding => c = d
           /\ pc[c] = "send" => Permits(c)

(* A snapshot that another attempt may come of, and that attempt.          *)
Heading(s) ==
    /\ s.state \in {"declared", "preflighting", "dispatch-ready", "credential-ready", "waiting-retry", "checkpointing"}
    /\ s.state = "checkpointing" => s.authority # None

NextId(s) == IF s.state = "checkpointing" THEN <<s.page + 1, s.authority, 0>> ELSE AttemptId(s)

Precedes(a, b) == a[1] < b[1] \/ (a[1] = b[1] /\ a[2] = b[2] /\ a[3] < b[3])
Follower(a, b) == (b[1] = a[1] /\ b[2] = a[2] /\ b[3] = a[3] + 1) \/ (b[1] = a[1] + 1 /\ b[3] = 0)

Ordered == \A l \in DOMAIN claims : \A k \in 1..(l - 1) : Precedes(claims[k].id, claims[l].id)

(* A snapshot with the starts of n attempts heads for the attempt that is  *)
(* claimed as number n + 1, or, if there is none yet, for one that follows *)
(* the last, and all such snapshots for the same one.                      *)
InLine(s) ==
    Heading(s) =>
        /\ Len(s.quota) <= Dispatches
        /\ Len(s.quota) < Len(claims) => NextId(s) = claims[Len(s.quota) + 1].id
        /\ Len(s.quota) = Len(claims) /\ claims # <<>> => Follower(claims[Len(claims)].id, NextId(s))

Fresh(s) == Heading(s) /\ Len(s.quota) = Len(claims)

Lined ==
    /\ \A s \in InUse : InLine(s)
    /\ \A r, s \in InUse : Fresh(r) /\ Fresh(s) => NextId(r) = NextId(s)

(* An attempt that is under way is the last one claimed, and nobody heads  *)
(* for another.                                                            *)
Spent ==
    \A c \in Callers : pc[c] \in Spending =>
        /\ Len(claims) = Dispatches /\ claims # <<>>
        /\ Len(machine[c].quota) = Dispatches /\ machine[c].tries > 0
        /\ claims[Len(claims)].id = <<machine[c].page, machine[c].token, machine[c].tries - 1>>
        /\ \A s \in InUse : Heading(s) => Len(s.quota) < Dispatches

TurnInv == LiveTyped /\ Placed /\ Delays /\ Owned /\ Ticketed /\ Ordered /\ Lined /\ Spent

LEMMA DispatchCount ==
    ASSUME LiveTyped
    PROVE  /\ Dispatches \in Nat
           /\ rows' = rows => Dispatches' = Dispatches
           /\ \A e \in Entry : rows' = Append(rows, e) =>
                  Dispatches' = IF e.kind = "attempt-started" THEN Dispatches + 1 ELSE Dispatches
<1> DEFINE D == {i \in DOMAIN rows : rows[i].kind = "attempt-started"}
<1>1. DOMAIN rows = 1..Len(rows) /\ Len(rows) \in Nat
  BY DEF LiveTyped
<1>2. IsFiniteSet(D) /\ Cardinality(D) \in Nat
  <2>1. IsFiniteSet(1..Len(rows))
    BY <1>1, FS_Interval
  <2> QED BY <1>1, <2>1, FS_Subset, FS_CardinalityType
<1>3. ASSUME NEW e \in Entry, rows' = Append(rows, e)
      PROVE  Dispatches' = IF e.kind = "attempt-started" THEN Dispatches + 1 ELSE Dispatches
  <2>1. /\ DOMAIN rows' = 1..(Len(rows) + 1) /\ rows'[Len(rows) + 1] = e
        /\ \A i \in 1..Len(rows) : rows'[i] = rows[i]
    BY <1>1, <1>3 DEF LiveTyped
  <2> DEFINE E == {i \in DOMAIN rows' : rows'[i].kind = "attempt-started"}
  <2>2. E = IF e.kind = "attempt-started" THEN D \cup {Len(rows) + 1} ELSE D
    BY <1>1, <2>1
  <2>3. Len(rows) + 1 \notin D
    BY <1>1
  <2>4. Dispatches' = Cardinality(E) /\ Dispatches = Cardinality(D)
    BY DEF Dispatches
  <2> HIDE DEF D, E
  <2> QED BY <1>2, <2>2, <2>3, <2>4, FS_AddElement
<1>4. rows' = rows => Dispatches' = Dispatches
  BY DEF Dispatches
<1> QED BY <1>2, <1>3, <1>4 DEF Dispatches

LEMMA StartedByDispatch ==
    ASSUME NEW s \in Snapshot, NEW ev \in Events
    PROVE  checkpointForEvent(s, ev) = "attempt-started" <=> ev = "dispatchStarted"
<1>1. "dispatchStarted" \notin Ends /\ \A e \in Ends : Target[e] # "attempt-started"
  BY TargetOf DEF Ends, TerminalStates
<1>2. "dispatchStarted" \in DOMAIN CheckpointOf /\ CheckpointOf["dispatchStarted"] = "attempt-started"
      /\ \A e \in DOMAIN CheckpointOf : CheckpointOf[e] = "attempt-started" => e = "dispatchStarted"
  BY DEF CheckpointOf
<1>3. None # "attempt-started"
  BY <1>2, KindsAssumption DEF CheckpointKinds
<1> QED BY <1>1, <1>2, <1>3 DEF checkpointForEvent

(* A row counts as a dispatch if its event starts an attempt.              *)
LEMMA DispatchesAfter ==
    ASSUME LiveTyped, NEW c \in Callers, NEW ev \in Events, NEW x, Carries(ev, x), machine[c] # None,
           CanApply(c, ev, x), Record(c, ev, x)
    PROVE  Dispatches' = IF ev = "dispatchStarted" THEN Dispatches + 1 ELSE Dispatches
<1>1. machine[c] \in Snapshot
  BY LiveFields
<1>2. checkpointForEvent(machine[c], ev) = "attempt-started" <=> ev = "dispatchStarted"
  BY <1>1, StartedByDispatch
<1>3. \/ rows' = rows /\ checkpointForEvent(machine[c], ev) = None
      \/ \E e \in Entry : rows' = Append(rows, e) /\ e.kind = checkpointForEvent(machine[c], ev)
  BY RowOf
<1>4. None # "attempt-started"
  BY KindsAssumption DEF CheckpointKinds, CheckpointOf
<1>5. CASE rows' = rows /\ checkpointForEvent(machine[c], ev) = None
  BY <1>2, <1>4, <1>5, DispatchCount
<1>6. ASSUME NEW e \in Entry, rows' = Append(rows, e), e.kind = checkpointForEvent(machine[c], ev)
      PROVE  Dispatches' = IF ev = "dispatchStarted" THEN Dispatches + 1 ELSE Dispatches
  BY <1>2, <1>6, DispatchCount
<1> QED BY <1>3, <1>5, <1>6

(* A step that stores nothing changes nobody's turn.                       *)
LEMMA StillTurn ==
    ASSUME TurnInv, NEW c \in Callers, Others(c), Still, InUse' \subseteq InUse,
           pc'[c] \notin Holding \cup {"send"},
           pc'[c] \in Spending => pc[c] \in Spending /\ machine'[c] = machine[c]
    PROVE  Owned' /\ Ticketed' /\ Ordered' /\ Lined' /\ Spent'
<1>1. claims' = claims /\ durable' = durable /\ Dispatches' = Dispatches
  BY DispatchCount DEF TurnInv, Still
<1>2. \A d \in Callers :
          /\ pc'[d] \in Owning => pc[d] \in Owning /\ machine'[d] = machine[d]
          /\ pc'[d] \in Spending => pc[d] \in Spending
          /\ pc'[d] \in Holding \cup {"send"} => pc'[d] = pc[d] /\ permit'[d] = permit[d]
  BY DEF Others, Owning, Holding
<1>3. Owned'
  <2>1. \A d, e \in Callers : pc'[d] \in Owning => durable' = machine'[d] /\ (pc'[e] \in Owning => d = e)
    BY <1>1, <1>2 DEF TurnInv, Owned
  <2> QED BY <2>1 DEF Owned, Owning, Spending
<1>4. Ticketed'
  <2>1. \A d \in Callers : pc[d] \in Holding \cup {"send"} =>
          /\ permit[d] \in Permit /\ claims # <<>> /\ permit[d].id = claims[Len(claims)].id
          /\ permit[d].until <= acquisitionDeadlineMs
    BY DEF TurnInv, Ticketed, Permits
  <2>2. \A d, e \in Callers : pc'[d] \in Holding => Len(claims) = Dispatches + 1 /\ (pc'[e] \in Holding => d = e)
    BY <1>2 DEF TurnInv, Ticketed
  <2> QED BY <1>1, <1>2, <2>1, <2>2 DEF TurnInv, Ticketed, Permits, Holding, Permit, Ids
<1>5. Ordered'
  BY <1>1 DEF TurnInv, Ordered, Precedes
<1>6. Lined'
  BY <1>1 DEF TurnInv, Lined, InLine, Fresh, Heading, NextId, AttemptId, Follower
<1>7. Spent'
  <2>1. ASSUME NEW d \in Callers, pc'[d] \in Spending
        PROVE  /\ Len(claims) = Dispatches /\ claims # <<>>
               /\ Len(machine'[d].quota) = Dispatches /\ machine'[d].tries > 0
               /\ claims[Len(claims)].id = <<machine'[d].page, machine'[d].token, machine'[d].tries - 1>>
               /\ \A s \in InUse' : Heading(s) => Len(s.quota) < Dispatches
    <3>1. pc[d] \in Spending /\ machine'[d] = machine[d]
      BY <1>2, <2>1 DEF Owning
    <3> QED BY <3>1 DEF TurnInv, Spent
  <2> QED BY <1>1, <2>1 DEF Spent, Spending, Heading
<1> QED BY <1>3, <1>4, <1>5, <1>6, <1>7
(* Who has begun an attempt finds it stored.                               *)
LEMMA OwnerState ==
    ASSUME TurnInv, NEW d \in Callers, pc[d] \in Owning
    PROVE  /\ durable = machine[d] /\ durable # None /\ durable \in Snapshot
           /\ pc[d] = "dispatch" => durable.state = "credential-ready"
           /\ pc[d] \in {"send", "inflight"} => durable.state = "attempt-active"
           /\ pc[d] \in Spending =>
                  durable.state \in {"attempt-active", "response-accepted", "artifact-committing",
                                    "artifact-committed", "artifact-verifying", "page-verified"}
<1>1. durable = machine[d]
  BY DEF TurnInv, Owned
<1>2. machine[d] # None
  BY DEF TurnInv, Placed, Owning, Spending
<1>3. At(pc[d], machine[d].state)
  BY <1>2 DEF TurnInv, Placed
<1> QED BY <1>1, <1>2, <1>3, LiveFields DEF TurnInv, At, Owning, Spending

(* On the way to an attempt.                                               *)
Toward == {"beginPreflight", "approvePreflight", "credentialsLoaded", "retryDelayElapsed", "continueNextPage"}

LEMMA TowardKeeps ==
    ASSUME TurnInv, NEW c \in Callers, NEW ev \in Toward, NEW x, Carries(ev, x), Acts(c, ev, x)
    PROVE  /\ Heading(machine[c]) /\ Heading(durable') /\ NextId(durable') = NextId(machine[c])
           /\ durable'.quota = machine[c].quota
           /\ machine[c].state \in {"declared", "preflighting", "dispatch-ready", "waiting-retry", "checkpointing"}
<1> DEFINE m == machine[c]
           n == durable'
<1>1. m # None /\ At(pc[c], m.state) /\ <<pc[c], ev, pc'[c]>> \in Turns /\ ev \in Events
  BY TargetOf DEF Acts, TurnInv, Placed, Toward
<1>2. Changes(m, ev, x, Clock(c), n) /\ <<m.state, Target[ev]>> \in Edges /\ Permitted(m, ev, x, Clock(c))
  BY <1>1, RowOf DEF TurnInv, Acts
<1>3. /\ ev = "beginPreflight" => m.state = "declared" /\ n.state = "preflighting"
      /\ ev = "approvePreflight" => m.state = "preflighting" /\ n.state = "dispatch-ready"
      /\ ev = "credentialsLoaded" => m.state = "dispatch-ready" /\ n.state = "credential-ready"
      /\ ev = "retryDelayElapsed" => m.state = "waiting-retry" /\ n.state = "preflighting"
      /\ ev = "continueNextPage" => m.state = "checkpointing" /\ n.state = "preflighting"
  BY <1>1, <1>2, EdgeCases, TargetOf, ZenonT(60) DEF Changes, Turns, At, Acts
<1>4. CASE ev = "continueNextPage"
  BY <1>2, <1>3, <1>4, MarksDiffer DEF Changes, Heading, NextId, AttemptId
<1>5. CASE ev # "continueNextPage"
  BY <1>2, <1>3, <1>5 DEF Changes, Heading, NextId, AttemptId, Toward
<1> QED BY <1>4, <1>5

LEMMA TowardTurn ==
    ASSUME TurnInv, NEW c \in Callers, NEW ev \in Toward, NEW x, Carries(ev, x), Others(c), Acts(c, ev, x)
    PROVE  Owned' /\ Ticketed' /\ Ordered' /\ Lined' /\ Spent'
<1> DEFINE m == machine[c]
           n == durable'
<1>1. m # None /\ m \in Snapshot /\ m \in InUse /\ ev \in Events /\ CanApply(c, ev, x) /\ Record(c, ev, x)
      /\ claims' = claims /\ machine'[c] = n /\ permit'[c] = permit[c] /\ <<pc[c], ev, pc'[c]>> \in Turns
  BY LiveFields, UsedSnapshots, TargetOf DEF Acts, TurnInv, Toward
<1>2. n \in Snapshot /\ Dispatches' = Dispatches
      /\ m.state = (IF durable = None THEN "declared" ELSE durable.state)
  BY <1>1, RowOf, DispatchesAfter DEF TurnInv, Toward
<1>3. /\ Heading(m) /\ Heading(n) /\ NextId(n) = NextId(m) /\ n.quota = m.quota
      /\ m.state \in {"declared", "preflighting", "dispatch-ready", "waiting-retry", "checkpointing"}
  BY TowardKeeps
<1>4. InUse' \subseteq InUse \cup {n}
  BY <1>1, <1>2, InUseStored DEF TurnInv
<1>5. \A d \in Callers : pc[d] \notin Owning
  BY <1>2, <1>3, OwnerState DEF Owning
<1>6. pc'[c] \notin Spending /\ (pc'[c] \in Holding => pc[c] \in Holding)
  BY <1>1 DEF Turns, Toward, Spending, Holding
<1>7. \A d \in Callers :
          /\ pc'[d] \notin Spending
          /\ pc'[d] \in Owning => d = c
          /\ pc'[d] \in Holding => pc[d] \in Holding /\ permit'[d] = permit[d]
  BY <1>1, <1>5, <1>6 DEF Others, Owning
<1> HIDE DEF m, n
<1>8. Owned'
  <2>1. \A d, e \in Callers : pc'[d] \in Owning => n = machine'[d] /\ (pc'[e] \in Owning => d = e)
    BY <1>1, <1>7
  <2> QED BY <2>1 DEF Owned, Owning, Spending, n
<1>9. Ticketed'
  <2>1. \A d \in Callers : pc[d] \in Holding =>
          /\ permit[d] \in Permit /\ claims # <<>> /\ permit[d].id = claims[Len(claims)].id
          /\ permit[d].until <= acquisitionDeadlineMs
    BY DEF TurnInv, Ticketed, Permits
  <2>2. \A d, e \in Callers : pc'[d] \in Holding => Len(claims) = Dispatches + 1 /\ (pc'[e] \in Holding => d = e)
    BY <1>7 DEF TurnInv, Ticketed
  <2>3. \A d \in Callers : pc'[d] # "send"
    BY <1>7 DEF Spending
  <2> QED BY <1>1, <1>2, <1>7, <2>1, <2>2, <2>3 DEF TurnInv, Ticketed, Permits, Holding, Permit, Ids
<1>10. Ordered'
  BY <1>1 DEF TurnInv, Ordered, Precedes
<1>11. Lined'
  <2>1. InLine(n)
    BY <1>1, <1>3 DEF TurnInv, Lined, InLine
  <2>2. \A s \in InUse' : InLine(s)
    BY <1>4, <2>1 DEF TurnInv, Lined
  <2>3. \A s \in InUse' : Fresh(s) => \E r \in InUse : Fresh(r) /\ NextId(r) = NextId(s)
    BY <1>1, <1>3, <1>4 DEF Fresh
  <2>4. \A r, s \in InUse' : Fresh(r) /\ Fresh(s) => NextId(r) = NextId(s)
    BY <2>3 DEF TurnInv, Lined
  <2> QED BY <1>1, <1>2, <2>2, <2>4 DEF Lined, InLine, Fresh, Heading, NextId, AttemptId, Follower
<1>12. Spent'
  BY <1>7 DEF Spent, Spending
<1> QED BY <1>8, <1>9, <1>10, <1>11, <1>12
LEMMA ClaimFacts ==
    ASSUME TurnInv
    PROVE  /\ Len(claims) \in Nat /\ DOMAIN claims = 1..Len(claims) /\ (claims # <<>> => Len(claims) > 0)
           /\ \A k \in 1..Len(claims) : claims[k].id \in Ids
           /\ \A k, l \in 1..Len(claims) : claims[k].id = claims[l].id => k = l
<1>1. /\ claims \in Seq(AClaim) /\ Len(claims) \in Nat /\ DOMAIN claims = 1..Len(claims)
      /\ (claims # <<>> => Len(claims) > 0)
      /\ \A k \in 1..Len(claims) : claims[k].id \in Ids
  <2>1. claims \in Seq(AClaim)
    BY DEF TurnInv, LiveTyped
  <2>2. \A k \in 1..Len(claims) : claims[k] \in AClaim
    BY <2>1
  <2> QED BY <2>1, <2>2 DEF AClaim
<1>2. ASSUME NEW k \in 1..Len(claims), NEW l \in 1..Len(claims), k < l PROVE claims[k].id # claims[l].id
  <2>1. k \in 1..(l - 1)
    BY <1>1, <1>2
  <2>2. Precedes(claims[k].id, claims[l].id)
    BY <1>1, <2>1 DEF TurnInv, Ordered
  <2> QED BY <1>1, <2>2 DEF Precedes, Ids
<1> QED BY <1>1, <1>2

(* The row of a start is stored, for the attempt claimed or for another.   *)
LEMMA DispatchTurn ==
    ASSUME TurnInv, NEW c \in Callers, NEW x, Others(c),
           Acts(c, "dispatchStarted", x) \/ Lasts(c, "dispatchStarted", x)
    PROVE  /\ Owned' /\ Ticketed' /\ Ordered' /\ Lined' /\ Spent'
           /\ Acts(c, "dispatchStarted", x) => Len(machine[c].quota) = Dispatches
<1> DEFINE m == machine[c]
           n == durable'
           ev == "dispatchStarted"
<1>1. /\ m # None /\ m \in Snapshot /\ m \in InUse /\ ev \in Events /\ CanApply(c, ev, x) /\ Record(c, ev, x)
      /\ claims' = claims /\ machine'[c] \in {None, n} /\ Carries(ev, x) /\ pc[c] = "dispatch"
  BY LiveFields, UsedSnapshots, TargetOf DEF Acts, Lasts, TurnInv, Turns, Stops, Carries
<1>2. /\ n \in Snapshot /\ Dispatches' = Dispatches + 1 /\ Dispatches \in Nat
      /\ n.state = "attempt-active" /\ n.tries = m.tries + 1 /\ n.page = m.page /\ n.token = m.token
      /\ n.quota = Append(m.quota, Clock(c))
  BY <1>1, RowOf, DispatchesAfter, DispatchCount, TargetOf DEF TurnInv, Changes
<1>3. pc'[c] \in {"send", "idle"} /\ (pc'[c] = "send" => Acts(c, ev, x) /\ machine'[c] = n /\ permit'[c] = permit[c])
  BY DEF Acts, Lasts, Turns
<1>4. Len(claims) = Dispatches + 1 /\ Permits(c)
  BY <1>1 DEF TurnInv, Ticketed, Holding
<1>5. \A d \in Callers : d # c => pc'[d] \notin Owning /\ pc'[d] \notin Holding
  <2>1. \A d \in Callers : d # c => pc[d] \notin Owning /\ pc[d] \notin Holding
    BY <1>1 DEF TurnInv, Owned, Ticketed, Owning, Holding
  <2> QED BY <2>1 DEF Others
<1>6. InUse' \subseteq InUse \cup {n} /\ ~Heading(n)
  BY <1>1, <1>2, InUseStored DEF TurnInv, Heading
<1>7. \A s \in InUse' : Heading(s) => s \in InUse /\ Len(s.quota) < Dispatches + 1 /\ Len(s.quota) \in Nat
  BY <1>2, <1>6, UsedSnapshots, SnapshotFields DEF TurnInv, Lined, InLine
<1>8. Acts(c, ev, x) => Len(m.quota) = Dispatches /\ AttemptId(m) = claims[Len(claims)].id
  <2> SUFFICES ASSUME Acts(c, ev, x) PROVE Len(m.quota) = Dispatches /\ AttemptId(m) = claims[Len(claims)].id
    OBVIOUS
  <2>1. AttemptId(m) = claims[Len(claims)].id
    BY <1>4 DEF Acts, Permits
  <2>2. m.state = "credential-ready"
    BY <1>1 DEF TurnInv, Placed, At
  <2>3. Heading(m) /\ NextId(m) = AttemptId(m)
    BY <2>2 DEF Heading, NextId
  <2>4. Len(m.quota) <= Dispatches /\ (Len(m.quota) < Len(claims) => NextId(m) = claims[Len(m.quota) + 1].id)
    BY <1>1, <2>3 DEF TurnInv, Lined, InLine
  <2>5. Len(m.quota) \in Nat
    BY <1>1, SnapshotFields
  <2>6. claims[Len(m.quota) + 1].id = claims[Len(claims)].id
    BY <1>2, <1>4, <2>1, <2>3, <2>4, <2>5
  <2>7. Len(m.quota) + 1 \in 1..Len(claims) /\ Len(claims) \in 1..Len(claims)
    BY <1>2, <1>4, <2>4, <2>5
  <2>8. Len(m.quota) + 1 = Len(claims)
    BY <2>6, <2>7, ClaimFacts
  <2> QED BY <1>2, <1>4, <2>1, <2>5, <2>8
<1> HIDE DEF m, n
<1>9. Owned'
  <2>1. \A d, e \in Callers : pc'[d] \in Owning => n = machine'[d] /\ (pc'[e] \in Owning => d = e)
    BY <1>3, <1>5 DEF Owning, Spending
  <2> QED BY <2>1 DEF Owned, Owning, Spending, n
<1>10. Ticketed'
  <2>1. \A d \in Callers : pc'[d] \notin Holding /\ (pc'[d] = "send" => d = c /\ permit'[d] = permit[c])
    BY <1>3, <1>5 DEF Holding, Owning, Spending
  <2>2. Dispatches + 1 <= Len(claims) /\ Len(claims) <= Dispatches + 2 /\ Len(claims) <= attemptsPerAcquisition
    BY <1>2, <1>4 DEF TurnInv, Ticketed
  <2>3. \A d \in Callers : pc'[d] = "send" =>
          /\ permit'[d] \in Permit /\ claims # <<>> /\ permit'[d].id = claims[Len(claims)].id
          /\ permit'[d].until <= acquisitionDeadlineMs
    BY <1>4, <2>1 DEF Permits
  <2> QED BY <1>1, <1>2, <2>1, <2>2, <2>3 DEF Ticketed, Permits, Holding, Permit, Ids
<1>11. Ordered'
  BY <1>1 DEF TurnInv, Ordered, Precedes
<1>12. Lined'
  <2>1. \A s \in InUse' : Heading(s) =>
          /\ Len(s.quota) <= Dispatches + 1 /\ Len(s.quota) # Len(claims)
          /\ Len(s.quota) < Len(claims) => NextId(s) = claims[Len(s.quota) + 1].id
    BY <1>2, <1>4, <1>7 DEF TurnInv, Lined, InLine
  <2> QED BY <1>1, <1>2, <2>1 DEF Lined, InLine, Fresh, Heading, NextId, AttemptId, Follower
<1>13. Spent'
  <2>1. ASSUME NEW d \in Callers, pc'[d] \in Spending
        PROVE  /\ Len(claims) = Dispatches + 1 /\ claims # <<>>
               /\ Len(machine'[d].quota) = Dispatches + 1 /\ machine'[d].tries > 0
               /\ claims[Len(claims)].id = <<machine'[d].page, machine'[d].token, machine'[d].tries - 1>>
               /\ \A s \in InUse' : Heading(s) => Len(s.quota) < Dispatches + 1
    <3>1. d = c /\ pc'[c] = "send"
      BY <1>3, <1>5, <2>1 DEF Owning, Spending
    <3>2. Len(m.quota) = Dispatches /\ AttemptId(m) = claims[Len(claims)].id /\ machine'[d] = n
      BY <1>3, <1>8, <3>1
    <3>3. m.quota \in Seq(Nat) /\ m.tries \in Nat
      BY <1>1, SnapshotFields
    <3>4. Len(n.quota) = Dispatches + 1
      BY <1>2, <3>2, <3>3
    <3>5. n.tries > 0 /\ n.tries - 1 = m.tries
      <4>1. n.tries = m.tries + 1 /\ m.tries \in Nat
        BY <1>2, <3>3
      <4> QED BY <4>1
    <3> QED BY <1>2, <1>4, <1>7, <3>2, <3>4, <3>5 DEF AttemptId, Permits
  <2> QED BY <1>1, <1>2, <2>1 DEF Spent, Spending, Heading
<1> QED BY <1>8, <1>9, <1>10, <1>11, <1>12, <1>13 DEF m
(* The attempt goes on, or ends and leads to another or to none.           *)
LEMMA AttemptEvent ==
    ASSUME TurnInv, NEW c \in Callers, NEW ev \in Events \ (Toward \cup {"dispatchStarted"}), NEW x, Carries(ev, x),
           Acts(c, ev, x) \/ Lasts(c, ev, x)
    PROVE  /\ machine[c] # None /\ (pc[c] \in Spending \/ (pc[c] = "close" /\ ev = "terminalPageAdmitted"))
           /\ pc'[c] \notin Holding \cup {"send"}
           /\ durable'.quota = machine[c].quota /\ durable'.page = machine[c].page
           /\ durable'.token = machine[c].token /\ durable'.tries = machine[c].tries
           /\ pc'[c] \in Spending => machine'[c] = durable' /\ ev \notin {"retryCleanup", "pageCheckpointed"}
           /\ Heading(durable') =>
                  /\ pc[c] \in Spending
                  /\ \/ ev = "retryCleanup" /\ durable'.state = "waiting-retry"
                     \/ ev = "pageCheckpointed" /\ durable'.state = "checkpointing"
           /\ pc[c] = "close" => machine[c].state = "checkpointing"
<1> DEFINE m == machine[c]
           n == durable'
<1>1. m # None /\ At(pc[c], m.state) /\ CanApply(c, ev, x) /\ Record(c, ev, x)
  BY DEF Acts, Lasts, TurnInv, Placed, Turns, Stops, At
<1>2. Changes(m, ev, x, Clock(c), n)
  BY <1>1, RowOf DEF TurnInv
<1>3. CASE Acts(c, ev, x)
  <2>1. /\ <<pc[c], ev, pc'[c]>> \in Turns /\ machine'[c] = n
    BY <1>3 DEF Acts
  <2>2. ev \in {"responseAccepted", "artifactStoreStarted", "artifactStoreCommitted",
                "artifactVerificationStarted", "pageVerified", "pageCheckpointed", "terminalPageAdmitted"}
    BY <2>1 DEF Turns, Toward
  <2>3. /\ pc[c] \in Spending \/ (pc[c] = "close" /\ ev = "terminalPageAdmitted")
        /\ pc'[c] \notin Holding \cup {"send"}
        /\ pc'[c] \in Spending => ev \notin {"retryCleanup", "pageCheckpointed"}
        /\ ev = "pageCheckpointed" => pc[c] \in Spending
    BY <2>1, <2>2 DEF Turns, Spending, Holding
  <2>4. Heading(n) => ev = "pageCheckpointed" /\ n.state = "checkpointing"
    BY <1>2, <2>2, TargetOf DEF Changes, Heading
  <2> QED BY <1>1, <1>2, <2>1, <2>2, <2>3, <2>4 DEF Changes, At, Toward
<1>4. CASE Lasts(c, ev, x)
  <2>1. /\ <<pc[c], ev>> \in Stops /\ pc'[c] = "idle"
    BY <1>4 DEF Lasts
  <2>2. /\ pc[c] \in Spending /\ pc'[c] \notin Holding \cup {"send"} \cup Spending /\ pc[c] # "close"
        /\ ev \in {"retryCleanup", "attemptFailed", "artifactStoreFailed"}
    BY <2>1 DEF Stops, Spending, Holding
  <2>3. Heading(n) => ev = "retryCleanup" /\ n.state = "waiting-retry"
    BY <1>2, <2>2, TargetOf DEF Changes, Heading
  <2> QED BY <1>1, <1>2, <2>2, <2>3 DEF Changes, Toward
<1> QED BY <1>3, <1>4

LEMMA AttemptTurn ==
    ASSUME TurnInv, NEW c \in Callers, NEW ev \in Events \ (Toward \cup {"dispatchStarted"}), NEW x, Carries(ev, x),
           Others(c), Acts(c, ev, x) \/ Lasts(c, ev, x)
    PROVE  /\ Owned' /\ Ticketed' /\ Ordered' /\ Lined' /\ Spent'
           /\ Heading(durable') => \A s \in InUse : ~Fresh(s)
<1> DEFINE m == machine[c]
           n == durable'
<1>1. /\ m # None /\ m \in Snapshot /\ m \in InUse /\ CanApply(c, ev, x) /\ Record(c, ev, x)
      /\ claims' = claims /\ machine'[c] \in {None, n}
  BY LiveFields, UsedSnapshots DEF Acts, Lasts, TurnInv
<1>2. n \in Snapshot /\ Dispatches' = Dispatches /\ Dispatches \in Nat
      /\ m.state = (IF durable = None THEN "declared" ELSE durable.state)
  BY <1>1, RowOf, DispatchesAfter, DispatchCount DEF TurnInv
<1>3. /\ pc[c] \in Spending \/ pc[c] = "close"
      /\ pc'[c] \notin Holding \cup {"send"}
      /\ n.quota = m.quota /\ n.page = m.page /\ n.token = m.token /\ n.tries = m.tries
      /\ pc'[c] \in Spending => pc[c] \in Spending /\ machine'[c] = n /\ ~Heading(n)
      /\ Heading(n) => /\ pc[c] \in Spending /\ pc'[c] \notin Spending
                       /\ n.state \in {"waiting-retry", "checkpointing"}
      /\ pc[c] = "close" => m.state = "checkpointing"
  <2>1. pc[c] = "close" /\ ev = "terminalPageAdmitted" => pc'[c] \notin Spending
    BY DEF Acts, Lasts, Turns, Stops, Spending
  <2> QED BY <2>1, AttemptEvent
<1>4. \A d \in Callers : d # c => pc[d] \notin Owning
  <2>1. CASE pc[c] \in Spending
    BY <2>1 DEF TurnInv, Owned, Owning
  <2>2. CASE pc[c] = "close"
    BY <1>2, <1>3, <2>2, OwnerState DEF Owning
  <2> QED BY <1>3, <2>1, <2>2
<1>5. \A d \in Callers :
          /\ d # c => pc'[d] \notin Owning
          /\ pc'[d] \in Holding \cup {"send"} => pc'[d] = pc[d] /\ permit'[d] = permit[d]
  BY <1>3, <1>4 DEF Others
<1>6. InUse' \subseteq InUse \cup {n}
  BY <1>1, <1>2, InUseStored DEF TurnInv
<1>7. pc[c] \in Spending =>
          /\ Len(claims) = Dispatches /\ claims # <<>> /\ Len(m.quota) = Dispatches /\ m.tries > 0
          /\ claims[Len(claims)].id = <<m.page, m.token, m.tries - 1>>
          /\ \A s \in InUse : Heading(s) => Len(s.quota) < Dispatches
  BY DEF TurnInv, Spent
<1>8. pc'[c] \notin Holding /\ pc'[c] # "dispatch"
  BY <1>3 DEF Holding
<1>9. m.page \in Nat /\ m.tries \in Nat
  BY <1>1, SnapshotFields
<1> HIDE DEF m, n
<1>10. Owned'
  <2>1. \A d, e \in Callers : pc'[d] \in Owning => n = machine'[d] /\ (pc'[e] \in Owning => d = e)
    BY <1>3, <1>5, <1>8 DEF Owning
  <2> QED BY <2>1 DEF Owned, Owning, Spending, n
<1>11. Ticketed'
  <2>1. \A d \in Callers : pc[d] \in Holding \cup {"send"} =>
          /\ permit[d] \in Permit /\ claims # <<>> /\ permit[d].id = claims[Len(claims)].id
          /\ permit[d].until <= acquisitionDeadlineMs
    BY DEF TurnInv, Ticketed, Permits
  <2>2. \A d, e \in Callers : pc'[d] \in Holding => Len(claims) = Dispatches + 1 /\ (pc'[e] \in Holding => d = e)
    BY <1>5 DEF TurnInv, Ticketed
  <2> QED BY <1>1, <1>2, <1>5, <2>1, <2>2 DEF TurnInv, Ticketed, Permits, Holding, Permit, Ids
<1>12. Ordered'
  BY <1>1 DEF TurnInv, Ordered, Precedes
<1>13. Heading(n) => \A s \in InUse : ~Fresh(s)
  BY <1>2, <1>3, <1>7 DEF Fresh
<1>14. Lined'
  <2>1. Heading(n) => /\ Len(n.quota) = Dispatches /\ Len(n.quota) = Len(claims)
                      /\ Follower(claims[Len(claims)].id, NextId(n))
    <3> SUFFICES ASSUME Heading(n)
                 PROVE  /\ Len(n.quota) = Dispatches /\ Len(n.quota) = Len(claims)
                        /\ Follower(claims[Len(claims)].id, NextId(n))
      OBVIOUS
    <3>1. NextId(n) = IF n.state = "checkpointing" THEN <<m.page + 1, n.authority, 0>>
                      ELSE <<m.page, m.token, m.tries>>
      BY <1>3 DEF NextId, AttemptId
    <3>2. claims[Len(claims)].id = <<m.page, m.token, m.tries - 1>>
      BY <1>3, <1>7
    <3>3. Follower(<<m.page, m.token, m.tries - 1>>, NextId(n))
      BY <1>9, <3>1 DEF Follower
    <3> QED BY <1>3, <1>7, <3>2, <3>3
  <2>2. InLine(n)
    BY <1>2, <2>1 DEF InLine
  <2>3. \A s \in InUse' : InLine(s)
    BY <1>6, <2>2 DEF TurnInv, Lined
  <2>4. \A r, s \in InUse' : Fresh(r) /\ Fresh(s) => NextId(r) = NextId(s)
    BY <1>6, <1>13 DEF TurnInv, Lined, Fresh
  <2> QED BY <1>1, <1>2, <2>3, <2>4 DEF Lined, InLine, Fresh, Heading, NextId, AttemptId, Follower
<1>15. Spent'
  <2>1. ASSUME NEW d \in Callers, pc'[d] \in Spending
        PROVE  /\ Len(claims) = Dispatches /\ claims # <<>>
               /\ Len(machine'[d].quota) = Dispatches /\ machine'[d].tries > 0
               /\ claims[Len(claims)].id = <<machine'[d].page, machine'[d].token, machine'[d].tries - 1>>
               /\ \A s \in InUse' : Heading(s) => Len(s.quota) < Dispatches
    <3>1. d = c /\ pc[c] \in Spending /\ machine'[d] = n /\ ~Heading(n)
      BY <1>3, <1>5, <2>1 DEF Owning
    <3> QED BY <1>3, <1>6, <1>7, <3>1
  <2> QED BY <1>1, <1>2, <2>1 DEF Spent, Spending, Heading
<1> QED BY <1>10, <1>11, <1>12, <1>13, <1>14, <1>15 DEF n

(* A claim takes the attempt that all fresh snapshots head for.            *)
LEMMA ClaimTurn ==
    ASSUME TurnInv, NEW c \in Callers, Others(c), Claims(c)
    PROVE  Owned' /\ Ticketed' /\ Ordered' /\ Lined' /\ Spent'
<1> DEFINE N == Len(claims)
           new == [id |-> NextAttempt, at |-> Clock(c)]
<1>1. /\ Dispatches' = Dispatches /\ Dispatches = N /\ N \in Nat /\ durable' = durable
      /\ claims' = Append(claims, new) /\ N < attemptsPerAcquisition /\ InUse' \subseteq InUse
      /\ \A i \in DOMAIN claims : claims[i].id # NextAttempt
  BY DispatchCount, ClaimFacts, InUseAfter DEF Claims, Claimable, TurnInv
<1>2. /\ Len(claims') = N + 1 /\ claims' # <<>> /\ DOMAIN claims' = 1..(N + 1) /\ claims'[N + 1].id = NextAttempt
      /\ \A k \in 1..N : claims'[k] = claims[k]
  BY <1>1 DEF TurnInv, LiveTyped
<1>3. Current \in InUse /\ Current \in Snapshot /\ NextAttempt = AttemptId(Current)
  BY UsedSnapshots DEF TurnInv, NextAttempt, Current
<1>4. Current.state \in {"declared", "dispatch-ready"} /\ (durable # None => durable.state = "dispatch-ready")
  BY DEF Claims, Claimable, Current, createInitialAcquisitionSnapshot
<1>5. Heading(Current) /\ NextId(Current) = NextAttempt
  BY <1>3, <1>4 DEF Heading, NextId
<1>6. Len(Current.quota) = N
  <2>1. Len(Current.quota) \in Nat
    BY <1>3, SnapshotFields
  <2>2. Len(Current.quota) <= N /\ (Len(Current.quota) < N => NextAttempt = claims[Len(Current.quota) + 1].id)
    BY <1>1, <1>3, <1>5 DEF TurnInv, Lined, InLine
  <2>3. Len(Current.quota) < N => Len(Current.quota) + 1 \in DOMAIN claims
    BY <1>1, <2>1, ClaimFacts
  <2> QED BY <1>1, <2>1, <2>2, <2>3
<1>7. Fresh(Current)
  BY <1>5, <1>6 DEF Fresh
<1>8. \A d \in Callers : pc[d] \notin Owning /\ pc[d] \notin Holding
  <2>1. \A d \in Callers : pc[d] \notin Holding
    BY <1>1 DEF TurnInv, Ticketed
  <2> QED BY <1>4, <2>1, OwnerState DEF Owning, Holding
<1>9. pc'[c] \in {"secrets", "ready"}
  BY DEF Claims
<1>10. \A d \in Callers : pc'[d] \notin Owning /\ (pc'[d] \in Holding => d = c)
  BY <1>8, <1>9 DEF Others, Owning, Spending
<1>11. permit'[c] \in Permit /\ permit'[c].id = NextAttempt /\ permit'[c].until <= acquisitionDeadlineMs
  <2> DEFINE until == Clock(c) + Least(attemptDeadlineMs, acquisitionDeadlineMs - Clock(c))
  <2>1. Clock(c) \in Nat /\ Clock(c) < acquisitionDeadlineMs
    BY LiveFields DEF TurnInv, Claims, Claimable
  <2>2. until \in Nat /\ until <= acquisitionDeadlineMs
    BY <2>1, LimitFacts DEF Least
  <2>3. NextAttempt \in Ids
    BY <1>3, SnapshotFields DEF AttemptId, Ids
  <2> HIDE DEF until
  <2>4. permit'[c] = [id |-> NextAttempt, until |-> until]
    BY DEF Claims, until
  <2> QED BY <2>2, <2>3, <2>4 DEF Permit
<1> HIDE DEF N, new
<1>12. Owned'
  BY <1>10 DEF Owned, Owning, Spending
<1>13. Ticketed'
  <2>1. \A d \in Callers : pc'[d] # "send"
    BY <1>10 DEF Owning, Spending
  <2>2. \A d \in Callers : pc'[d] \in Holding =>
          /\ permit'[d] \in Permit /\ claims' # <<>> /\ permit'[d].id = claims'[Len(claims')].id
          /\ permit'[d].until <= acquisitionDeadlineMs
    BY <1>2, <1>10, <1>11
  <2>3. N \in Nat /\ N + 1 <= attemptsPerAcquisition /\ Dispatches' = N /\ Len(claims') = N + 1
    BY <1>1, <1>2, LimitFacts
  <2> QED BY <1>10, <2>1, <2>2, <2>3 DEF Ticketed, Permits, Holding, Permit, Ids
<1>14. \A s \in InUse : Fresh(s) => NextId(s) = NextAttempt
  BY <1>3, <1>5, <1>7 DEF TurnInv, Lined
<1>15. Ordered'
  <2>1. ASSUME NEW l \in 1..(N + 1), NEW k \in 1..(l - 1) PROVE Precedes(claims'[k].id, claims'[l].id)
    <3>1. CASE l \in 1..N
      <4>1. k \in 1..N /\ l \in DOMAIN claims
        BY <1>1, <3>1, ClaimFacts DEF N
      <4> QED BY <1>2, <3>1, <4>1 DEF TurnInv, Ordered
    <3>2. CASE l = N + 1
      <4>1. k \in 1..N /\ N \in 1..N /\ claims # <<>>
        BY <1>1, <3>2, ClaimFacts DEF N, TurnInv, LiveTyped
      <4>2. Follower(claims[N].id, NextAttempt)
        BY <1>3, <1>5, <1>6, <4>1 DEF TurnInv, Lined, InLine, N
      <4>3. claims[k].id \in Ids /\ claims[N].id \in Ids /\ NextAttempt \in Ids
        <5>1. NextAttempt \in Ids
          BY <1>3, SnapshotFields DEF AttemptId, Ids
        <5> QED BY <4>1, <5>1, ClaimFacts DEF N
      <4>4. k = N \/ Precedes(claims[k].id, claims[N].id)
        <5>1. k # N => k \in 1..(N - 1) /\ N \in DOMAIN claims
          BY <1>1, <4>1, ClaimFacts DEF N
        <5> QED BY <5>1 DEF TurnInv, Ordered
      <4>5. Precedes(claims[k].id, NextAttempt)
        BY <4>2, <4>3, <4>4 DEF Precedes, Follower, Ids
      <4> QED BY <1>2, <3>2, <4>1, <4>5
    <3>3. N \in Nat
      BY <1>1
    <3>4. l \in 1..N \/ l = N + 1
      BY <3>3
    <3> QED BY <3>1, <3>2, <3>4
  <2> QED BY <1>2, <2>1 DEF Ordered, Precedes
<1>16. Lined'
  <2>1. ASSUME NEW s \in InUse', Heading(s)
        PROVE  /\ Len(s.quota) <= Dispatches /\ Len(s.quota) # Len(claims')
               /\ Len(s.quota) < Len(claims') => NextId(s) = claims'[Len(s.quota) + 1].id
    <3>1. s \in InUse /\ Len(s.quota) \in Nat
      BY <1>1, UsedSnapshots, SnapshotFields DEF TurnInv
    <3>2. Len(s.quota) <= N /\ (Len(s.quota) < N => NextId(s) = claims[Len(s.quota) + 1].id)
      BY <1>1, <2>1, <3>1 DEF TurnInv, Lined, InLine, N
    <3>3. Len(s.quota) = N => NextId(s) = NextAttempt
      BY <1>14, <2>1, <3>1 DEF Fresh, N
    <3>4. Len(s.quota) < N => claims'[Len(s.quota) + 1] = claims[Len(s.quota) + 1]
      BY <1>1, <1>2, <3>1
    <3> QED BY <1>1, <1>2, <3>1, <3>2, <3>3, <3>4
  <2> QED BY <1>1, <2>1 DEF Lined, InLine, Fresh, Heading, NextId, AttemptId, Follower
<1>17. Spent'
  BY <1>10 DEF Spent, Spending, Owning
<1> QED BY <1>12, <1>13, <1>15, <1>16, <1>17
-----------------------------------------------------------------------------
(* The steps of a call, and the others.                                    *)

LEMMA DelayOf ==
    ASSUME TurnInv, NEW c \in Callers, NEW ev \in Events, NEW x, Carries(ev, x), Acts(c, ev, x) \/ Lasts(c, ev, x)
    PROVE  durable'.state = "waiting-retry" =>
               /\ durable'.delay \in Nat /\ ev = "retryCleanup"
               /\ durable'.tries \in 1..(attemptsPerLogicalPage - 1)
               /\ RetryDelays[durable'.tries] \in Nat \ {0} /\ RetryDelays[durable'.tries] <= durable'.delay
<1> DEFINE m == machine[c]
           n == durable'
<1> SUFFICES ASSUME n.state = "waiting-retry"
             PROVE  /\ n.delay \in Nat /\ ev = "retryCleanup" /\ n.tries \in 1..(attemptsPerLogicalPage - 1)
                    /\ RetryDelays[n.tries] \in Nat \ {0} /\ RetryDelays[n.tries] <= n.delay
  OBVIOUS
<1>1. m # None /\ m \in Snapshot /\ CanApply(c, ev, x) /\ Record(c, ev, x)
  BY LiveFields DEF Acts, Lasts, TurnInv
<1>2. Changes(m, ev, x, Clock(c), n)
  BY <1>1, RowOf DEF TurnInv
<1>3. ev = "retryCleanup"
  BY <1>2, EventOf DEF Changes
<1>4. n.delay = retryDelay(m, x) /\ MayRetry(m, x) /\ x \in Failures /\ n.tries = m.tries
  BY <1>2, <1>3 DEF Changes
<1> QED BY <1>1, <1>3, <1>4, DelayKnown

LEMMA DelaysMove ==
    ASSUME TurnInv, NEW c \in Callers, Kind(c)
    PROVE  Delays'
<1>1. CASE Quits(c) \/ Loads(c) \/ Walks(c) \/ Claims(c)
  BY <1>1, InUseAfter DEF Kind, TurnInv, Delays
<1>2. ASSUME NEW ev \in Events, NEW x, Carries(ev, x), Acts(c, ev, x) \/ Lasts(c, ev, x) PROVE Delays'
  <2>1. durable' \in Snapshot /\ machine'[c] \in {None, durable'}
    BY <1>2, RowOf DEF Acts, Lasts, TurnInv
  <2>2. InUse' \subseteq InUse \cup {durable'}
    BY <2>1, InUseStored DEF Kind, TurnInv
  <2>3. durable'.state = "waiting-retry" => durable'.delay # None
    BY <1>2, DelayOf, MarksDiffer
  <2> QED BY <2>2, <2>3 DEF Delays, TurnInv
<1> QED BY <1>1, <1>2 DEF Kind

LEMMA TurnMove ==
    ASSUME TurnInv, NEW c \in Callers, Kind(c), page' \in [Callers -> Nat], UNCHANGED <<now, skew, sent>>
    PROVE  TurnInv'
<1>1. LiveTyped' /\ Placed'
  BY TypedMove DEF TurnInv
<1>2. Delays'
  BY DelaysMove
<1>3. Others(c)
  BY DEF Kind
<1>4. CASE Quits(c) \/ Loads(c) \/ Walks(c)
  <2>1. Still /\ InUse' \subseteq InUse
    BY <1>3, <1>4, InUseAfter DEF Quits, Loads, Walks, TurnInv
  <2>2. pc'[c] \notin Holding \cup {"send"} /\ (pc'[c] \in Spending => pc[c] \in Spending /\ machine'[c] = machine[c])
    BY <1>4 DEF Quits, Loads, Walks, Paths, Holding, Spending
  <2> QED BY <1>1, <1>2, <1>3, <2>1, <2>2, StillTurn DEF TurnInv
<1>5. CASE Claims(c)
  BY <1>1, <1>2, <1>3, <1>5, ClaimTurn DEF TurnInv
<1>6. ASSUME NEW ev \in Events, NEW x, Carries(ev, x), Acts(c, ev, x) \/ Lasts(c, ev, x) PROVE TurnInv'
  <2>1. CASE ev \in Toward
    <3>1. Acts(c, ev, x)
      BY <1>6, <2>1 DEF Lasts, Stops, Toward
    <3> QED BY <1>1, <1>2, <1>3, <1>6, <2>1, <3>1, TowardTurn DEF TurnInv
  <2>2. CASE ev = "dispatchStarted"
    BY <1>1, <1>2, <1>3, <1>6, <2>2, DispatchTurn DEF TurnInv
  <2>3. CASE ev \notin Toward \cup {"dispatchStarted"}
    BY <1>1, <1>2, <1>3, <1>6, <2>3, AttemptTurn DEF TurnInv
  <2> QED BY <2>1, <2>2, <2>3
<1> QED BY <1>4, <1>5, <1>6 DEF Kind

LEMMA PageTyped ==
    ASSUME LiveTyped, Placed, NEW c \in Callers, Moves(c)
    PROVE  page' \in [Callers -> Nat]
<1>1. Returns(c) => page' \in [Callers -> Nat]
  BY DEF Returns, LiveTyped
<1>2. UNCHANGED page => page' \in [Callers -> Nat]
  BY DEF LiveTyped
<1>3. CASE ChoosePage(c)
  <2>1. machine[c] \in Snapshot
    BY <1>3, LiveFields DEF ChoosePage, Placed
  <2>2. machine[c].page \in Nat /\ machine[c].page + 1 \in Nat
    BY <2>1, SnapshotFields
  <2> DEFINE p == machine[c].page + (IF machine[c].state = "checkpointing" THEN 1 ELSE 0)
  <2>3. p \in Nat
    BY <2>2
  <2>4. Returns(c) \/ page' = [page EXCEPT ![c] = p]
    BY <1>3 DEF ChoosePage
  <2> HIDE DEF p
  <2> QED BY <1>1, <2>3, <2>4 DEF LiveTyped
<1>4. \A ev, x, label : Step(c, ev, x, label) => page' \in [Callers -> Nat]
  BY <1>1, <1>2 DEF Step
<1>5. \A ev, x : LastStep(c, ev, x) => page' \in [Callers -> Nat]
  BY <1>1 DEF LastStep
<1>6. \A new, label : Write(c, new, label) => page' \in [Callers -> Nat]
  BY <1>1, <1>2 DEF Write
<1>7. CASE Call(c) \/ DelayOver(c) \/ Rebegin(c) \/ Begin(c) \/ Approve(c) \/ Claim(c) \/ Secrets(c) \/ NoSecrets(c)
  BY <1>1, <1>2, <1>4, <1>7 DEF Call, DelayOver, Rebegin, Begin, Approve, Claim, Secrets, NoSecrets
<1>8. CASE Dispatch(c) \/ Fail(c) \/ Accept(c) \/ Store(c) \/ StoreFails(c)
  BY <1>4, <1>5, <1>8 DEF Dispatch, Fail, Accept, Store, StoreFails
<1>9. CASE Evidence(c) \/ Link(c) \/ AdmitPage(c) \/ RefusePage(c) \/ PageEntry(c) \/ Close(c) \/ ChainEntry(c)
  BY <1>1, <1>2, <1>4, <1>6, <1>9 DEF Evidence, Link, AdmitPage, RefusePage, PageEntry, Close, ChainEntry
<1> QED BY <1>3, <1>7, <1>8, <1>9 DEF Moves
LEMMA TurnInit == Init => TurnInv
<1> SUFFICES ASSUME Init PROVE TurnInv
  OBVIOUS
<1>1. LiveTyped /\ Placed
  BY DEF Init, LiveTyped, Placed, Labels
<1>2. InUse = {createInitialAcquisitionSnapshot}
  BY InitialSnapshot, SnapshotAssumption DEF Init, InUse, Current
<1>3. createInitialAcquisitionSnapshot.quota = <<>> /\ createInitialAcquisitionSnapshot.state = "declared"
  BY DEF createInitialAcquisitionSnapshot
<1>4. Dispatches = 0
  <2>1. {i \in DOMAIN rows : rows[i].kind = "attempt-started"} = {}
    BY DEF Init
  <2> QED BY <2>1, FS_EmptySet DEF Dispatches
<1>5. Delays
  BY <1>2, <1>3 DEF Delays
<1>6. Owned /\ Spent /\ Ordered
  BY DEF Owned, Spent, Ordered, Owning, Spending, Init
<1>7. Ticketed
  BY <1>4, LimitFacts DEF Ticketed, Init, Holding
<1>8. Lined
  BY <1>2, <1>3, <1>4 DEF Lined, InLine, Fresh, Init
<1> QED BY <1>1, <1>5, <1>6, <1>7, <1>8 DEF TurnInv

(* A request is sent: its call goes on, and nothing is stored.             *)
LEMMA SendTurn ==
    ASSUME TurnInv, NEW c \in Callers, Send(c), UNCHANGED <<now, skew, crashes>>
    PROVE  /\ TurnInv' /\ Others(c) /\ Still /\ InUse' = InUse /\ pc'[c] = "inflight"
           /\ machine' = machine /\ wake' = wake
           /\ \E r \in Request : /\ sent' = Append(sent, r) /\ r.id = permit[c].id
                                 /\ r.start = machine[c].last /\ r.at = now
           /\ machine[c] \in Snapshot
<1>1. Others(c) /\ Still /\ pc'[c] = "inflight" /\ machine' = machine /\ wake' = wake /\ permit' = permit
      /\ pc' = [pc EXCEPT ![c] = "inflight"] /\ page' = page
  BY DEF TurnInv, LiveTyped, Send, Goto, Others, Still, stored
<1>2. InUse' = InUse
  BY <1>1 DEF InUse, Current, Still
<1>3. pc[c] = "send" /\ Permits(c) /\ machine[c] # None /\ machine[c] \in Snapshot
  BY LiveFields DEF Send, TurnInv, Ticketed, Placed
<1> DEFINE r == [id |-> permit[c].id, page |-> page[c], start |-> machine[c].last, at |-> now]
<1>4. r \in Request
  <2>1. permit[c].id \in Ids
    BY <1>3 DEF Permits, Permit
  <2>2. machine[c].last \in Nat
    BY <1>3, SnapshotFields
  <2> QED BY <2>1, <2>2 DEF Request, TurnInv, LiveTyped
<1>5. sent' = Append(sent, r)
  BY DEF Send
<1>6. sent' \in Seq(Request)
  BY <1>4, <1>5 DEF TurnInv, LiveTyped
<1>7. LiveTyped'
  BY <1>1, <1>6 DEF TurnInv, LiveTyped, Still, Labels
<1>8. Placed'
  <2>1. ASSUME NEW d \in Callers
        PROVE  IF machine'[d] = None THEN pc'[d] \in {"idle", "claim"} ELSE At(pc'[d], machine'[d].state)
    <3>1. CASE d = c
      <4>1. machine'[c] # None /\ machine'[c] = machine[c] /\ At("send", machine[c].state)
        BY <1>1, <1>3 DEF TurnInv, Placed
      <4>2. At("inflight", machine[c].state)
        BY <4>1 DEF At
      <4> QED BY <1>1, <3>1, <4>1, <4>2
    <3>2. CASE d # c
      BY <1>1, <3>2 DEF TurnInv, Placed, Others
    <3> QED BY <3>1, <3>2
  <2> QED BY <2>1 DEF Placed, At
<1>9. Delays'
  BY <1>2 DEF TurnInv, Delays
<1>10. Owned' /\ Ticketed' /\ Ordered' /\ Lined' /\ Spent'
  BY <1>1, <1>2, <1>3, StillTurn DEF Holding, Spending
<1> QED BY <1>1, <1>2, <1>3, <1>4, <1>5, <1>7, <1>8, <1>9, <1>10 DEF TurnInv

(* A process dies.                                                         *)
LEMMA CrashTurn ==
    ASSUME TurnInv, NEW c \in Callers, Crash(c)
    PROVE  TurnInv' /\ Others(c) /\ Quits(c) /\ UNCHANGED <<now, sent>>
<1>1. Returns(c) /\ UNCHANGED <<durable, rows, claims, now, sent>>
  BY DEF Crash, stored
<1>2. Others(c) /\ pc'[c] = "idle" /\ machine'[c] = None /\ Quits(c)
  BY <1>1, ReturnsQuits DEF TurnInv, Quits, Still
<1>3. InUse' \subseteq InUse
  BY <1>2, InUseAfter DEF TurnInv
<1>4. skew' \in [Callers -> Nat]
  BY BoundsAssumption DEF Crash, TurnInv, LiveTyped
<1>5. LiveTyped'
  BY <1>1, <1>4 DEF TurnInv, LiveTyped, Returns, Goto, Labels
<1>6. Placed'
  <2>1. \A d \in Callers : IF machine'[d] = None THEN pc'[d] \in {"idle", "claim"} ELSE At(pc'[d], machine'[d].state)
    BY <1>2 DEF TurnInv, Placed, Others
  <2> QED BY <2>1 DEF Placed, At
<1>7. Delays'
  BY <1>3 DEF TurnInv, Delays
<1>8. Owned' /\ Ticketed' /\ Ordered' /\ Lined' /\ Spent'
  BY <1>1, <1>2, <1>3, StillTurn DEF Holding, Spending, Still
<1> QED BY <1>1, <1>2, <1>5, <1>6, <1>7, <1>8 DEF TurnInv

(* Time passes, or nothing happens.                                        *)
LEMMA IdleTurn ==
    ASSUME TurnInv, now' \in Nat, UNCHANGED <<stored, local, skew, sent>>
    PROVE  TurnInv' /\ InUse' = InUse /\ Dispatches' = Dispatches
<1>1. /\ UNCHANGED <<durable, rows, claims, pc, machine, page, permit, wake, skew, sent>>
      /\ Dispatches' = Dispatches /\ InUse' = InUse
  BY DEF stored, local, Dispatches, InUse, Current
<1>2. LiveTyped' /\ Delays'
  BY <1>1 DEF TurnInv, LiveTyped, Delays
<1>7. Placed'
  <2>1. \A d \in Callers : IF machine'[d] = None THEN pc'[d] \in {"idle", "claim"} ELSE At(pc'[d], machine'[d].state)
    BY <1>1 DEF TurnInv, Placed
  <2> QED BY <2>1 DEF Placed, At
<1>3. Owned' /\ Ordered'
  BY <1>1 DEF TurnInv, Owned, Owning, Spending, Ordered, Precedes
<1>4. Ticketed'
  BY <1>1 DEF TurnInv, Ticketed, Permits, Holding, Permit, Ids
<1>5. Lined'
  BY <1>1 DEF TurnInv, Lined, InLine, Fresh, Heading, NextId, AttemptId, Follower
<1>6. Spent'
  BY <1>1 DEF TurnInv, Spent, Spending, Heading
<1> QED BY <1>1, <1>2, <1>3, <1>4, <1>5, <1>6, <1>7 DEF TurnInv

-----------------------------------------------------------------------------
(* What a step of a call keeps.                                            *)

LEMMA Grows ==
    ASSUME TurnInv, NEW c \in Callers, Kind(c)
    PROVE  /\ Dispatches \in Nat /\ Dispatches' \in Nat /\ Dispatches <= Dispatches'
           /\ Len(claims) \in Nat /\ Len(claims') \in Nat /\ Len(claims) <= Len(claims')
           /\ \A k \in 1..Len(claims) : claims'[k] = claims[k]
           /\ DOMAIN rows \subseteq DOMAIN rows' /\ \A k \in DOMAIN rows : rows'[k] = rows[k]
<1>1. /\ Dispatches \in Nat /\ claims \in Seq(AClaim) /\ Len(claims) \in Nat /\ rows \in Seq(Entry)
      /\ Len(rows) \in Nat /\ DOMAIN rows = 1..Len(rows)
  BY DispatchCount DEF TurnInv, LiveTyped
<1>2. CASE Quits(c) \/ Loads(c) \/ Walks(c)
  <2>1. Still
    BY <1>2 DEF Quits, Loads, Walks
  <2>2. rows' = rows /\ claims' = claims
    BY <2>1 DEF Still
  <2>3. Dispatches' = Dispatches
    BY <2>2, DispatchCount DEF TurnInv
  <2> QED BY <1>1, <2>2, <2>3
<1>3. CASE Claims(c)
  <2> DEFINE new == [id |-> NextAttempt, at |-> Clock(c)]
  <2>1. claims' = Append(claims, new) /\ rows' = rows
    BY <1>3 DEF Claims
  <2> HIDE DEF new
  <2>2. Len(claims') = Len(claims) + 1 /\ \A k \in 1..Len(claims) : claims'[k] = claims[k]
    BY <1>1, <2>1
  <2>3. Dispatches' = Dispatches
    BY <2>1, DispatchCount DEF TurnInv
  <2> QED BY <1>1, <2>1, <2>2, <2>3
<1>4. ASSUME NEW ev \in Events, NEW x, Carries(ev, x), Acts(c, ev, x) \/ Lasts(c, ev, x)
      PROVE  /\ Dispatches' \in Nat /\ Dispatches <= Dispatches' /\ claims' = claims
             /\ DOMAIN rows \subseteq DOMAIN rows' /\ \A k \in DOMAIN rows : rows'[k] = rows[k]
  <2>1. CanApply(c, ev, x) /\ Record(c, ev, x) /\ machine[c] # None /\ claims' = claims
    BY <1>4 DEF Acts, Lasts
  <2>2. Dispatches' = IF ev = "dispatchStarted" THEN Dispatches + 1 ELSE Dispatches
    BY <1>4, <2>1, DispatchesAfter DEF TurnInv
  <2>3. rows' = rows \/ \E e \in Entry : rows' = Append(rows, e)
    BY <1>4, <2>1, RowOf DEF TurnInv
  <2>4. ASSUME NEW e \in Entry, rows' = Append(rows, e)
        PROVE  DOMAIN rows \subseteq DOMAIN rows' /\ \A k \in DOMAIN rows : rows'[k] = rows[k]
    BY <1>1, <2>4
  <2> QED BY <1>1, <2>1, <2>2, <2>3, <2>4
<1> QED BY <1>1, <1>2, <1>3, <1>4 DEF Kind

(* Where a snapshot with all the starts, and the snapshot of an attempt    *)
(* under way, come from.                                                   *)
LEMMA Origin ==
    ASSUME TurnInv, NEW c \in Callers, Kind(c)
    PROVE  /\ \A s \in InUse' : Heading(s) /\ Len(s.quota) = Dispatches' =>
                  /\ Dispatches' = Dispatches
                  /\ \/ \E r \in InUse : Heading(r) /\ r.quota = s.quota
                     \/ \E d \in Callers : pc[d] \in Spending /\ machine[d].quota = s.quota
           /\ \A d \in Callers : pc'[d] \in Spending =>
                  \/ pc[d] \in Spending /\ machine'[d].quota = machine[d].quota /\ Dispatches' = Dispatches
                  \/ d = c /\ pc'[c] = "send" /\ \E x : Acts(c, "dispatchStarted", x)
           /\ \A d \in Callers : pc'[d] = "send" =>
                  \/ pc[d] = "send" /\ machine'[d] = machine[d] /\ permit'[d] = permit[d]
                  \/ d = c /\ \E x : Acts(c, "dispatchStarted", x)
<1>1. Others(c)
  BY DEF Kind
<1>2. CASE Quits(c) \/ Loads(c) \/ Walks(c) \/ Claims(c)
  <2>1. InUse' \subseteq InUse /\ Dispatches' = Dispatches
    BY <1>1, <1>2, InUseAfter, DispatchCount DEF TurnInv, Quits, Loads, Walks, Claims, Still
  <2>2. pc'[c] # "send" /\ (pc'[c] \in Spending => pc[c] \in Spending /\ machine'[c] = machine[c])
    BY <1>2 DEF Quits, Loads, Walks, Claims, Paths, Spending
  <2> QED BY <1>1, <2>1, <2>2 DEF Others
<1>3. ASSUME NEW ev \in Events, NEW x, Carries(ev, x), Acts(c, ev, x) \/ Lasts(c, ev, x)
      PROVE  /\ \A s \in InUse' : Heading(s) /\ Len(s.quota) = Dispatches' =>
                    /\ Dispatches' = Dispatches
                    /\ \/ \E r \in InUse : Heading(r) /\ r.quota = s.quota
                       \/ \E d \in Callers : pc[d] \in Spending /\ machine[d].quota = s.quota
             /\ \A d \in Callers : pc'[d] \in Spending =>
                    \/ pc[d] \in Spending /\ machine'[d].quota = machine[d].quota /\ Dispatches' = Dispatches
                    \/ d = c /\ pc'[c] = "send" /\ \E y : Acts(c, "dispatchStarted", y)
             /\ \A d \in Callers : pc'[d] = "send" =>
                    \/ pc[d] = "send" /\ machine'[d] = machine[d] /\ permit'[d] = permit[d]
                    \/ d = c /\ \E y : Acts(c, "dispatchStarted", y)
  <2>1. CanApply(c, ev, x) /\ Record(c, ev, x) /\ machine[c] # None /\ machine'[c] \in {None, durable'}
        /\ machine[c] \in InUse
    BY <1>3, UsedSnapshots DEF Acts, Lasts, TurnInv
  <2>2. Dispatches' = (IF ev = "dispatchStarted" THEN Dispatches + 1 ELSE Dispatches) /\ durable' \in Snapshot
        /\ Dispatches \in Nat
    BY <1>3, <2>1, DispatchesAfter, RowOf, DispatchCount DEF TurnInv
  <2>3. InUse' \subseteq InUse \cup {durable'}
    BY <1>1, <2>1, <2>2, InUseStored DEF TurnInv
  <2>4. CASE ev \in Toward
    <3>1. Acts(c, ev, x)
      BY <1>3, <2>4 DEF Lasts, Stops, Toward
    <3>2. Heading(machine[c]) /\ durable'.quota = machine[c].quota
      BY <1>3, <2>4, <3>1, TowardKeeps
    <3>3. pc'[c] \notin Spending /\ pc'[c] # "send" /\ ev # "dispatchStarted"
      BY <2>4, <3>1 DEF Acts, Turns, Toward, Spending
    <3> QED BY <1>1, <2>1, <2>2, <2>3, <3>2, <3>3 DEF Others
  <2>5. CASE ev = "dispatchStarted"
    <3>1. durable'.state = "attempt-active" /\ pc[c] = "dispatch" /\ (pc'[c] \in Spending => pc'[c] = "send")
      BY <1>3, <2>1, <2>5, RowOf, TargetOf DEF TurnInv, Changes, Acts, Lasts, Turns, Stops, Spending
    <3>2. \A d \in Callers : d # c => pc[d] \notin Spending
      BY <3>1 DEF TurnInv, Owned, Owning
    <3>3. \A s \in InUse' : Heading(s) => Len(s.quota) <= Dispatches /\ Len(s.quota) \in Nat
      BY <2>3, <3>1, UsedSnapshots, SnapshotFields DEF Heading, TurnInv, Lined, InLine
    <3>4. pc'[c] = "send" => Acts(c, "dispatchStarted", x)
      BY <1>3, <2>5 DEF Lasts
    <3>5. \A d \in Callers : pc'[d] \in Spending \cup {"send"} => d = c /\ pc'[c] = "send"
      BY <1>1, <3>1, <3>2 DEF Others, Spending
    <3>6. \A s \in InUse' : ~(Heading(s) /\ Len(s.quota) = Dispatches')
      BY <2>2, <2>5, <3>3
    <3> QED BY <3>4, <3>5, <3>6
  <2>6. CASE ev \notin Toward \cup {"dispatchStarted"}
    <3>1. /\ pc'[c] \notin Holding \cup {"send"} /\ durable'.quota = machine[c].quota
          /\ (pc'[c] \in Spending => machine'[c] = durable')
          /\ (Heading(durable') => pc[c] \in Spending)
          /\ (pc'[c] \in Spending => pc[c] \in Spending)
      <4>1. pc[c] = "close" /\ ev = "terminalPageAdmitted" => pc'[c] \notin Spending
        BY <1>3 DEF Acts, Lasts, Turns, Stops, Spending
      <4> QED BY <1>3, <2>6, <4>1, AttemptEvent
    <3>2. Dispatches' = Dispatches
      BY <2>2, <2>6
    <3> QED BY <1>1, <2>3, <3>1, <3>2 DEF Others
  <2> QED BY <2>4, <2>5, <2>6
<1> QED BY <1>2, <1>3 DEF Kind

-----------------------------------------------------------------------------
(* The requests that were sent.                                            *)

Started(id) == \E k \in DOMAIN rows : rows[k].kind = "attempt-started" /\ rows[k].id = id

LEMMA SentFacts ==
    ASSUME TurnInv
    PROVE  /\ sent \in Seq(Request) /\ Len(sent) \in Nat /\ DOMAIN sent = 1..Len(sent) /\ now \in Nat
           /\ \A i \in DOMAIN sent :
                  /\ sent[i] \in Request /\ sent[i].at \in Nat /\ sent[i].start \in Nat /\ sent[i].id \in Ids
                  /\ sent[i].id[1] \in Nat /\ sent[i].id[3] \in Nat
<1>1. sent \in Seq(Request) /\ now \in Nat
  BY DEF TurnInv, LiveTyped
<1>2. \A i \in DOMAIN sent : sent[i] \in Request
  BY <1>1
<1>3. \A id \in Ids : id[1] \in Nat /\ id[3] \in Nat
  BY DEF Ids
<1>4. \A i \in DOMAIN sent : sent[i].at \in Nat /\ sent[i].start \in Nat /\ sent[i].id \in Ids
  BY <1>2 DEF Request
<1> QED BY <1>1, <1>2, <1>3, <1>4

(* An attempt is dispatched: what its row says, and who has it.            *)
LEMMA Dispatched ==
    ASSUME TurnInv, NEW c \in Callers, Others(c), NEW x, Acts(c, "dispatchStarted", x)
    PROVE  /\ machine[c] \in Snapshot /\ machine[c] \in InUse /\ machine[c].state = "credential-ready"
           /\ Heading(machine[c]) /\ Len(machine[c].quota) = Dispatches /\ Dispatches \in Nat
           /\ Len(claims) = Dispatches + 1 /\ claims' = claims /\ Dispatches' = Dispatches + 1
           /\ permit'[c] = permit[c] /\ permit[c] \in Permit /\ permit[c].id = claims[Len(claims)].id
           /\ permit[c].id = AttemptId(machine[c])
           /\ machine'[c] = durable' /\ durable'.quota = Append(machine[c].quota, Clock(c))
           /\ durable'.last = Clock(c) /\ durable'.tries = machine[c].tries + 1
           /\ durable'.page = machine[c].page /\ DispatchAdmitted(machine[c], Clock(c)) /\ Clock(c) \in Nat
           /\ \E k \in DOMAIN rows' : rows'[k].kind = "attempt-started" /\ rows'[k].id = permit[c].id
<1> DEFINE m == machine[c]
           ev == "dispatchStarted"
<1>1. /\ m # None /\ m \in Snapshot /\ m \in InUse /\ ev \in Events /\ CanApply(c, ev, x) /\ Record(c, ev, x)
      /\ claims' = claims /\ machine'[c] = durable' /\ permit'[c] = permit[c] /\ Carries(ev, x)
      /\ pc[c] = "dispatch" /\ AttemptId(m) = permit[c].id /\ Clock(c) \in Nat
  BY LiveFields, UsedSnapshots, TargetOf DEF Acts, TurnInv, Turns, Carries
<1>2. /\ Changes(m, ev, x, Clock(c), durable') /\ Permitted(m, ev, x, Clock(c)) /\ durable' \in Snapshot
      /\ \/ rows' = rows /\ checkpointForEvent(m, ev) = None
         \/ \E e \in Entry : rows' = Append(rows, e) /\ e.id = durable'.id /\ e.kind = checkpointForEvent(m, ev)
  BY <1>1, RowOf DEF TurnInv
<1>3. checkpointForEvent(m, ev) = "attempt-started" /\ None # "attempt-started"
  <2>1. checkpointForEvent(m, ev) = "attempt-started"
    BY <1>1, StartedByDispatch
  <2> QED BY <1>1, <2>1, KindsAssumption DEF CheckpointKinds, CheckpointOf
<1>4. durable'.id = permit[c].id
  BY <1>1, <1>2 DEF Changes
<1>5. \E k \in DOMAIN rows' : rows'[k].kind = "attempt-started" /\ rows'[k].id = permit[c].id
  <2>1. PICK e \in Entry : rows' = Append(rows, e) /\ e.id = durable'.id /\ e.kind = "attempt-started"
    BY <1>2, <1>3
  <2>2. rows \in Seq(Entry) /\ Len(rows) \in Nat
    BY DEF TurnInv, LiveTyped
  <2>3. Len(rows) + 1 \in DOMAIN rows' /\ rows'[Len(rows) + 1] = e
    BY <2>1, <2>2
  <2> QED BY <1>4, <2>1, <2>3
<1>6. m.state = "credential-ready" /\ Heading(m)
  BY <1>1 DEF TurnInv, Placed, At, Heading
<1>7. Len(claims) = Dispatches + 1 /\ Permits(c)
  BY <1>1 DEF TurnInv, Ticketed, Holding
<1>8. Len(m.quota) = Dispatches
  BY DispatchTurn
<1>9. Dispatches \in Nat /\ Dispatches' = Dispatches + 1
  BY <1>1, DispatchCount, DispatchesAfter DEF TurnInv
<1> QED BY <1>1, <1>2, <1>5, <1>6, <1>7, <1>8, <1>9 DEF Changes, Permitted, Permits

(* A request is of an attempt that is claimed and started, once, and in    *)
(* time.                                                                   *)
Known ==
    /\ \A i \in DOMAIN sent :
           /\ \E k \in 1..Dispatches : claims[k].id = sent[i].id
           /\ \A j \in DOMAIN sent : sent[i].id = sent[j].id => i = j
           /\ Started(sent[i].id)
           /\ sent[i].at <= now /\ sent[i].at < acquisitionDeadlineMs
           /\ sent[i].id[3] < attemptsPerLogicalPage
    /\ \A c \in Callers : pc[c] = "send" =>
           /\ Started(permit[c].id) /\ permit[c].id[3] < attemptsPerLogicalPage
           /\ \A i \in DOMAIN sent : sent[i].id # permit[c].id

LEMMA KnownMove ==
    ASSUME TurnInv, Known, NEW c \in Callers, Kind(c), UNCHANGED <<now, sent>>
    PROVE  Known'
<1>1. Others(c) /\ sent' = sent /\ now' = now
  BY DEF Kind
<1>2. \A id : Started(id) => \E k \in DOMAIN rows' : rows'[k].kind = "attempt-started" /\ rows'[k].id = id
  BY Grows DEF Started
<1>3. ASSUME NEW i \in DOMAIN sent PROVE \E k \in 1..Dispatches' : claims'[k].id = sent[i].id
  <2>1. PICK k \in 1..Dispatches : claims[k].id = sent[i].id
    BY DEF Known
  <2>2. Dispatches <= Len(claims) /\ Len(claims) \in Nat /\ Dispatches \in Nat /\ Dispatches' \in Nat
        /\ Dispatches <= Dispatches' /\ \A j \in 1..Len(claims) : claims'[j] = claims[j]
    BY Grows DEF TurnInv, Ticketed
  <2>3. k \in 1..Len(claims) /\ k \in 1..Dispatches'
    BY <2>2
  <2> QED BY <2>1, <2>2, <2>3
<1>4. ASSUME NEW d \in Callers, pc'[d] = "send"
      PROVE  /\ \E k \in DOMAIN rows' : rows'[k].kind = "attempt-started" /\ rows'[k].id = permit'[d].id
             /\ permit'[d].id[3] < attemptsPerLogicalPage
             /\ \A i \in DOMAIN sent : sent[i].id # permit'[d].id
  <2>1. CASE pc[d] = "send" /\ machine'[d] = machine[d] /\ permit'[d] = permit[d]
    BY <1>2, <2>1 DEF Known
  <2>2. ASSUME d = c, NEW x, Acts(c, "dispatchStarted", x)
        PROVE  /\ \E k \in DOMAIN rows' : rows'[k].kind = "attempt-started" /\ rows'[k].id = permit'[d].id
               /\ permit'[d].id[3] < attemptsPerLogicalPage
               /\ \A i \in DOMAIN sent : sent[i].id # permit'[d].id
    <3>1. /\ \E k \in DOMAIN rows' : rows'[k].kind = "attempt-started" /\ rows'[k].id = permit[c].id
          /\ permit'[c] = permit[c] /\ permit[c].id = AttemptId(machine[c])
          /\ permit[c].id = claims[Len(claims)].id
          /\ DispatchAdmitted(machine[c], Clock(c)) /\ Len(claims) = Dispatches + 1 /\ Dispatches \in Nat
      BY <1>1, <2>2, Dispatched
    <3>2. permit[c].id[3] < attemptsPerLogicalPage
      BY <3>1 DEF AttemptId, DispatchAdmitted
    <3>3. ASSUME NEW i \in DOMAIN sent PROVE sent[i].id # permit[c].id
      <4>1. PICK k \in 1..Dispatches : claims[k].id = sent[i].id
        BY DEF Known
      <4>2. k \in 1..Len(claims) /\ Len(claims) \in 1..Len(claims) /\ k # Len(claims)
        BY <3>1
      <4> QED BY <3>1, <4>1, <4>2, ClaimFacts
    <3> QED BY <2>2, <3>1, <3>2, <3>3
  <2> QED BY <1>4, <2>1, <2>2, Origin
<1>5. \A i \in DOMAIN sent :
          /\ \A j \in DOMAIN sent : sent[i].id = sent[j].id => i = j
          /\ \E k \in DOMAIN rows' : rows'[k].kind = "attempt-started" /\ rows'[k].id = sent[i].id
          /\ sent[i].at <= now /\ sent[i].at < acquisitionDeadlineMs
          /\ sent[i].id[3] < attemptsPerLogicalPage
  BY <1>2 DEF Known
<1> QED BY <1>1, <1>3, <1>4, <1>5 DEF Known, Started

LEMMA KnownSend ==
    ASSUME TurnInv, Known, NEW c \in Callers, Send(c), UNCHANGED <<now, skew, crashes>>
    PROVE  Known'
<1>1. /\ Others(c) /\ Still /\ pc'[c] = "inflight"
      /\ \E r \in Request : sent' = Append(sent, r) /\ r.id = permit[c].id /\ r.at = now
  BY SendTurn
<1>2. PICK r \in Request : sent' = Append(sent, r) /\ r.id = permit[c].id /\ r.at = now
  BY <1>1
<1>3. sent \in Seq(Request) /\ Len(sent) \in Nat /\ DOMAIN sent = 1..Len(sent)
  BY DEF TurnInv, LiveTyped
<1>4. /\ DOMAIN sent' = 1..(Len(sent) + 1) /\ sent'[Len(sent) + 1] = r /\ \A i \in DOMAIN sent : sent'[i] = sent[i]
  BY <1>2, <1>3
<1>5. pc[c] = "send" /\ Permits(c) /\ Len(claims) = Dispatches /\ claims # <<>> /\ Len(claims) \in Nat
  BY ClaimFacts DEF Send, TurnInv, Ticketed, Spent, Spending
<1>6. Len(claims) \in 1..Dispatches /\ claims[Len(claims)].id = r.id
  BY <1>2, <1>5, ClaimFacts DEF Permits
<1>7. now < acquisitionDeadlineMs /\ now \in Nat
  <2>1. now + skew[c] < permit[c].until /\ permit[c].until \in Nat /\ permit[c].until <= acquisitionDeadlineMs
        /\ now \in Nat /\ skew[c] \in Nat
    BY <1>5, LiveFields DEF Send, InTime, Clock, Permits, Permit, TurnInv, LiveTyped
  <2> QED BY <2>1, LimitFacts
<1>8. /\ Started(r.id) /\ r.id[3] < attemptsPerLogicalPage /\ \A i \in DOMAIN sent : sent[i].id # r.id
  BY <1>2, <1>5 DEF Known
<1>9. \A d \in Callers : pc'[d] # "send"
  BY <1>1, <1>5 DEF Others, TurnInv, Owned, Owning, Spending
<1>10. now' = now /\ claims' = claims /\ rows' = rows /\ Dispatches' = Dispatches
  BY <1>1, DispatchCount DEF Still, TurnInv
<1>11. ASSUME NEW i \in DOMAIN sent'
       PROVE  /\ \E k \in 1..Dispatches : claims[k].id = sent'[i].id
              /\ \A j \in DOMAIN sent' : sent'[i].id = sent'[j].id => i = j
              /\ Started(sent'[i].id)
              /\ sent'[i].at <= now /\ sent'[i].at < acquisitionDeadlineMs
              /\ sent'[i].id[3] < attemptsPerLogicalPage
  <2>1. CASE i = Len(sent) + 1
    BY <1>2, <1>3, <1>4, <1>6, <1>7, <1>8, <2>1
  <2>2. CASE i \in DOMAIN sent
    BY <1>2, <1>3, <1>4, <1>8, <2>2 DEF Known
  <2> QED BY <1>3, <1>4, <2>1, <2>2
<1> QED BY <1>9, <1>10, <1>11 DEF Known, Started

LEMMA KnownTick ==
    ASSUME TurnInv, Known, now' \in Nat, now <= now', UNCHANGED <<stored, local, skew, sent>>
    PROVE  Known'
<1>1. UNCHANGED <<rows, claims, pc, permit, sent>> /\ Dispatches' = Dispatches
  BY IdleTurn DEF stored, local
<1>2. \A i \in DOMAIN sent : sent[i].at \in Nat /\ now \in Nat
  BY SentFacts
<1>3. \A i \in DOMAIN sent : sent[i].at <= now'
  BY <1>2 DEF Known
<1> QED BY <1>1, <1>3 DEF Known, Started

(* A snapshot has the start of every attempt that was sent.                *)
Counted(s) ==
    \A i \in DOMAIN sent : \E k \in DOMAIN s.quota : claims[k].id = sent[i].id /\ s.quota[k] = sent[i].start

Near(t) == {i \in DOMAIN sent : sent[i].start > t - rateWindowMs}

(* Who may still dispatch has all the starts, so that the quota that it    *)
(* checks is the quota of all.                                             *)
HeadsCount == \A s \in InUse : Heading(s) /\ Len(s.quota) = Dispatches => Counted(s)

SpendersCount == \A c \in Callers : pc[c] \in Spending => Counted(machine[c])

SendersFew ==
    \A c \in Callers : pc[c] = "send" =>
        /\ machine[c].quota[Len(claims)] = machine[c].last
        /\ Cardinality(Near(machine[c].last)) < rateAttempts

WindowKept ==
    \A i \in DOMAIN sent :
        Cardinality({j \in 1..i : sent[j].start > sent[i].start - rateWindowMs}) <= rateAttempts

Rated == HeadsCount /\ SpendersCount /\ SendersFew /\ WindowKept

(* An attempt that the quota admits, on all the starts, has few near it.   *)
LEMMA FewNear ==
    ASSUME TurnInv, Known, NEW s \in Snapshot, Counted(s), Len(s.quota) <= Len(claims), NEW t \in Nat,
           QuotaAdmits(s.quota, t)
    PROVE  Cardinality(Near(t)) < rateAttempts
<1> DEFINE R == Recent(s.quota, t)
           f == [i \in Near(t) |-> CHOOSE k \in DOMAIN s.quota : claims[k].id = sent[i].id /\ s.quota[k] = sent[i].start]
<1>1. \A i \in Near(t) : /\ f[i] \in DOMAIN s.quota /\ claims[f[i]].id = sent[i].id /\ s.quota[f[i]] = sent[i].start
                         /\ i \in DOMAIN sent /\ sent[i].start > t - rateWindowMs
  BY DEF Counted, Near
<1> HIDE DEF f
<1>2. \A i \in Near(t) : f[i] \in R
  BY <1>1 DEF Recent
<1>3. \A i, j \in Near(t) : f[i] = f[j] => i = j
  <2>1. ASSUME NEW i \in Near(t), NEW j \in Near(t), f[i] = f[j] PROVE i = j
    <3>1. sent[i].id = sent[j].id /\ i \in DOMAIN sent /\ j \in DOMAIN sent
      BY <1>1, <2>1
    <3> QED BY <3>1 DEF Known
  <2> QED BY <2>1
<1>4. f \in Injection(Near(t), R)
  <2>1. f \in [Near(t) -> R]
    BY <1>2 DEF f
  <2> QED BY <1>3, <2>1 DEF Injection, IsInjective
<1>5. IsFiniteSet(R) /\ Cardinality(R) \in Nat
  <2>1. R \subseteq 1..Len(s.quota) /\ Len(s.quota) \in Nat
    BY SnapshotFields DEF Recent
  <2>2. IsFiniteSet(1..Len(s.quota))
    BY <2>1, FS_Interval
  <2> QED BY <2>1, <2>2, FS_Subset, FS_CardinalityType
<1>6. Cardinality(Near(t)) <= Cardinality(R) /\ IsFiniteSet(Near(t))
  BY <1>4, <1>5, FS_Injection
<1>7. Cardinality(Near(t)) \in Nat /\ Cardinality(R) < rateAttempts
  BY <1>6, FS_CardinalityType DEF QuotaAdmits
<1> QED BY <1>5, <1>6, <1>7, LimitFacts

(* What counts goes on counting.                                           *)
LEMMA CountedOn ==
    ASSUME TurnInv, NEW c \in Callers, Kind(c), sent' = sent, NEW s \in Snapshot, Counted(s), NEW n,
           Len(s.quota) <= Len(claims), DOMAIN s.quota \subseteq DOMAIN n.quota,
           \A k \in DOMAIN s.quota : n.quota[k] = s.quota[k]
    PROVE  \A i \in DOMAIN sent : \E k \in DOMAIN n.quota : claims'[k].id = sent[i].id /\ n.quota[k] = sent[i].start
<1>1. /\ DOMAIN s.quota = 1..Len(s.quota) /\ Len(s.quota) \in Nat /\ Len(claims) \in Nat
      /\ \A k \in 1..Len(claims) : claims'[k] = claims[k]
  BY SnapshotFields, Grows
<1>2. \A k \in DOMAIN s.quota : claims'[k] = claims[k]
  BY <1>1
<1> QED BY <1>2 DEF Counted

LEMMA RatedMove ==
    ASSUME TurnInv, Known, Rated, NEW c \in Callers, Kind(c), UNCHANGED <<now, sent>>, TurnInv'
    PROVE  Rated'
<1>1. Others(c) /\ sent' = sent
  BY DEF Kind
<1>2. Len(claims) \in Nat /\ Dispatches \in Nat /\ Dispatches <= Len(claims)
      /\ \A k \in 1..Len(claims) : claims'[k] = claims[k]
  BY Grows DEF TurnInv, Ticketed
<1>3. \A d \in Callers : pc[d] \in Spending =>
          /\ machine[d] \in Snapshot /\ Len(machine[d].quota) = Dispatches /\ Counted(machine[d])
  BY OwnerState DEF TurnInv, Spent, Owning, Rated, SpendersCount
<1>4. ASSUME NEW s \in InUse', Heading(s), Len(s.quota) = Dispatches'
      PROVE  \A i \in DOMAIN sent : \E k \in DOMAIN s.quota : claims'[k].id = sent[i].id /\ s.quota[k] = sent[i].start
  <2>1. Dispatches' = Dispatches
    BY <1>4, Origin
  <2>2. ASSUME NEW r \in InUse, Heading(r), r.quota = s.quota
        PROVE  \A i \in DOMAIN sent : \E k \in DOMAIN s.quota : claims'[k].id = sent[i].id /\ s.quota[k] = sent[i].start
    <3>1. r \in Snapshot /\ Counted(r)
      BY <1>4, <2>1, <2>2, UsedSnapshots DEF TurnInv, Rated, HeadsCount
    <3> QED BY <1>1, <1>2, <1>4, <2>1, <2>2, <3>1, CountedOn
  <2>3. ASSUME NEW d \in Callers, pc[d] \in Spending, machine[d].quota = s.quota
        PROVE  \A i \in DOMAIN sent : \E k \in DOMAIN s.quota : claims'[k].id = sent[i].id /\ s.quota[k] = sent[i].start
    BY <1>1, <1>2, <1>3, <2>3, CountedOn
  <2> QED BY <1>4, <2>2, <2>3, Origin
<1>5. ASSUME NEW x, Acts(c, "dispatchStarted", x)
      PROVE  /\ \A i \in DOMAIN sent : \E k \in DOMAIN machine'[c].quota :
                    claims'[k].id = sent[i].id /\ machine'[c].quota[k] = sent[i].start
             /\ machine'[c].quota[Len(claims')] = machine'[c].last
             /\ Cardinality(Near(machine'[c].last)) < rateAttempts
  <2> DEFINE m == machine[c]
             n == machine'[c]
  <2>1. /\ m \in Snapshot /\ m \in InUse /\ Heading(m) /\ Len(m.quota) = Dispatches
        /\ Len(claims) = Dispatches + 1 /\ claims' = claims
        /\ n.quota = Append(m.quota, Clock(c)) /\ n.last = Clock(c)
        /\ DispatchAdmitted(m, Clock(c)) /\ Clock(c) \in Nat
    BY <1>1, <1>5, Dispatched
  <2>2. Counted(m)
    BY <2>1 DEF Rated, HeadsCount
  <2>3. m.quota \in Seq(Nat)
    BY <2>1, SnapshotFields
  <2> HIDE DEF m, n
  <2>4. /\ DOMAIN m.quota \subseteq DOMAIN n.quota /\ \A k \in DOMAIN m.quota : n.quota[k] = m.quota[k]
        /\ n.quota[Dispatches + 1] = Clock(c)
    BY <2>1, <2>3
  <2>5. \A i \in DOMAIN sent : \E k \in DOMAIN n.quota : claims'[k].id = sent[i].id /\ n.quota[k] = sent[i].start
    BY <1>1, <1>2, <2>1, <2>2, <2>4, CountedOn
  <2>6. Cardinality(Near(Clock(c))) < rateAttempts
    <3>1. QuotaAdmits(m.quota, Clock(c)) /\ Len(m.quota) <= Len(claims)
      BY <1>2, <2>1 DEF DispatchAdmitted
    <3> QED BY <2>1, <2>2, <3>1, FewNear
  <2> QED BY <2>1, <2>4, <2>5, <2>6 DEF n
<1>6. ASSUME NEW d \in Callers, pc'[d] \in Spending
      PROVE  \A i \in DOMAIN sent : \E k \in DOMAIN machine'[d].quota :
                 claims'[k].id = sent[i].id /\ machine'[d].quota[k] = sent[i].start
  <2>1. CASE pc[d] \in Spending /\ machine'[d].quota = machine[d].quota
    BY <1>1, <1>2, <1>3, <2>1, CountedOn
  <2> QED BY <1>5, <1>6, <2>1, Origin
<1>7. ASSUME NEW d \in Callers, pc'[d] = "send"
      PROVE  /\ machine'[d].quota[Len(claims')] = machine'[d].last
             /\ Cardinality(Near(machine'[d].last)) < rateAttempts
  <2>1. CASE pc[d] = "send" /\ machine'[d] = machine[d]
    <3>1. Len(claims) = Dispatches /\ Len(machine[d].quota) = Dispatches
      BY <2>1 DEF TurnInv, Spent, Spending
    <3>2. Len(claims') = Dispatches' /\ Len(machine'[d].quota) = Dispatches'
      BY <1>7 DEF TurnInv, Spent, Spending
    <3>3. machine[d].quota[Len(claims)] = machine[d].last /\ Cardinality(Near(machine[d].last)) < rateAttempts
      BY <2>1 DEF Rated, SendersFew
    <3> QED BY <2>1, <3>1, <3>2, <3>3
  <2> QED BY <1>5, <1>7, <2>1, Origin
<1>8. HeadsCount'
  BY <1>1, <1>4 DEF HeadsCount, Counted, Heading
<1>9. SpendersCount'
  <2>1. \A d \in Callers : pc'[d] \in Spending =>
            \A i \in DOMAIN sent' : \E k \in DOMAIN machine'[d].quota :
                claims'[k].id = sent'[i].id /\ machine'[d].quota[k] = sent'[i].start
    BY <1>1, <1>6
  <2> QED BY <2>1 DEF SpendersCount, Counted, Spending
<1>10. SendersFew'
  <2>1. ASSUME NEW d \in Callers, pc'[d] = "send"
        PROVE  /\ machine'[d].quota[Len(claims')] = machine'[d].last
               /\ Cardinality({i \in DOMAIN sent' : sent'[i].start > machine'[d].last - rateWindowMs}) < rateAttempts
    BY <1>1, <1>7, <2>1 DEF Near
  <2> QED BY <2>1 DEF SendersFew, Near
<1>11. WindowKept'
  BY <1>1 DEF Rated, WindowKept
<1> QED BY <1>8, <1>9, <1>10, <1>11 DEF Rated

LEMMA RatedSend ==
    ASSUME TurnInv, Rated, NEW c \in Callers, Send(c), UNCHANGED <<now, skew, crashes>>
    PROVE  Rated'
<1>1. /\ Others(c) /\ Still /\ pc'[c] = "inflight" /\ InUse' = InUse /\ machine' = machine
      /\ \E r \in Request : sent' = Append(sent, r) /\ r.id = permit[c].id /\ r.start = machine[c].last
      /\ machine[c] \in Snapshot
  BY SendTurn
<1>2. PICK r \in Request : sent' = Append(sent, r) /\ r.id = permit[c].id /\ r.start = machine[c].last
  BY <1>1
<1>3. sent \in Seq(Request) /\ Len(sent) \in Nat /\ DOMAIN sent = 1..Len(sent)
  BY SentFacts
<1>4. /\ DOMAIN sent' = 1..(Len(sent) + 1) /\ sent'[Len(sent) + 1] = r /\ \A i \in 1..Len(sent) : sent'[i] = sent[i]
  BY <1>2, <1>3
<1>5. /\ pc[c] = "send" /\ Permits(c) /\ Len(claims) = Dispatches /\ Len(machine[c].quota) = Dispatches
      /\ claims # <<>> /\ Len(claims) \in Nat
      /\ \A s \in InUse : Heading(s) => Len(s.quota) < Dispatches
  BY ClaimFacts DEF Send, TurnInv, Ticketed, Spent, Spending
<1>6. \A d \in Callers : d # c => pc'[d] \notin Spending
  BY <1>1, <1>5 DEF Others, TurnInv, Owned, Owning, Spending
<1>7. claims' = claims /\ Dispatches' = Dispatches /\ Dispatches \in Nat
  BY <1>1, DispatchCount DEF Still, TurnInv
<1>8. \A s \in InUse : ~(Heading(s) /\ Len(s.quota) = Dispatches)
  <2>1. \A s \in InUse : Len(s.quota) \in Nat
    BY UsedSnapshots, SnapshotFields DEF TurnInv
  <2> QED BY <1>5, <1>7, <2>1
<1>9. ASSUME NEW i \in DOMAIN sent'
      PROVE  \E k \in DOMAIN machine[c].quota : claims[k].id = sent'[i].id /\ machine[c].quota[k] = sent'[i].start
  <2>1. CASE i = Len(sent) + 1
    <3>1. Len(claims) \in DOMAIN machine[c].quota
      BY <1>1, <1>5, ClaimFacts, SnapshotFields
    <3>2. claims[Len(claims)].id = r.id /\ machine[c].quota[Len(claims)] = r.start
      BY <1>2, <1>5 DEF Permits, Rated, SendersFew
    <3> QED BY <1>4, <2>1, <3>1, <3>2
  <2>2. CASE i \in DOMAIN sent
    <3>1. Counted(machine[c])
      BY <1>5 DEF Rated, SpendersCount, Spending
    <3> QED BY <1>3, <1>4, <2>2, <3>1 DEF Counted
  <2> QED BY <1>3, <1>4, <2>1, <2>2
<1>10. ASSUME NEW i \in DOMAIN sent'
       PROVE  Cardinality({j \in 1..i : sent'[j].start > sent'[i].start - rateWindowMs}) <= rateAttempts
  <2>1. CASE i \in DOMAIN sent
    <3>1. \A j \in 1..i : sent'[j] = sent[j]
      BY <1>3, <1>4, <2>1
    <3>2. sent'[i] = sent[i]
      BY <1>3, <1>4, <2>1
    <3>3. {j \in 1..i : sent'[j].start > sent'[i].start - rateWindowMs}
          = {j \in 1..i : sent[j].start > sent[i].start - rateWindowMs}
      BY <3>1, <3>2
    <3> QED BY <2>1, <3>3 DEF Rated, WindowKept
  <2>2. CASE i = Len(sent) + 1
    <3> DEFINE A == Near(r.start)
               B == {j \in 1..i : sent'[j].start > sent'[i].start - rateWindowMs}
    <3>1. Cardinality(A) < rateAttempts
      BY <1>2, <1>5 DEF Rated, SendersFew
    <3>2. IsFiniteSet(A) /\ Cardinality(A) \in Nat
      <4>1. A \subseteq 1..Len(sent)
        BY <1>3 DEF Near
      <4>2. IsFiniteSet(1..Len(sent))
        BY <1>3, FS_Interval
      <4> QED BY <4>1, <4>2, FS_Subset, FS_CardinalityType
    <3>3. B \subseteq A \cup {i}
      <4>1. sent'[i] = r /\ \A j \in 1..i : j # i => j \in 1..Len(sent)
        BY <1>3, <1>4, <2>2
      <4> QED BY <1>3, <1>4, <4>1 DEF Near
    <3>4. IsFiniteSet(A \cup {i}) /\ Cardinality(A \cup {i}) <= Cardinality(A) + 1 /\ Cardinality(A \cup {i}) \in Nat
      <4> HIDE DEF A
      <4>1. IsFiniteSet(A \cup {i}) /\ Cardinality(A \cup {i}) = IF i \in A THEN Cardinality(A) ELSE Cardinality(A) + 1
        BY <3>2, FS_AddElement
      <4> QED BY <3>2, <4>1
    <3>5. Cardinality(B) <= Cardinality(A \cup {i}) /\ Cardinality(B) \in Nat
      <4> HIDE DEF A, B
      <4> QED BY <3>3, <3>4, FS_Subset, FS_CardinalityType
    <3> HIDE DEF A, B
    <3>6. Cardinality(B) <= rateAttempts
      BY <3>1, <3>2, <3>4, <3>5, LimitFacts
    <3> QED BY <3>6 DEF B
  <2>3. i \in DOMAIN sent \/ i = Len(sent) + 1
    BY <1>3, <1>4
  <2> QED BY <2>1, <2>2, <2>3
<1>11. \A d \in Callers : pc'[d] # "send" /\ (pc'[d] \in Spending => d = c)
  BY <1>1, <1>6 DEF Spending
<1>12. HeadsCount'
  BY <1>1, <1>7, <1>8 DEF HeadsCount, Heading
<1>13. SpendersCount'
  BY <1>1, <1>7, <1>9, <1>11, ZenonT(60) DEF SpendersCount, Counted, Spending
<1>14. SendersFew'
  BY <1>11 DEF SendersFew
<1>15. WindowKept'
  BY <1>10 DEF WindowKept
<1> QED BY <1>12, <1>13, <1>14, <1>15 DEF Rated

LEMMA RatedTick ==
    ASSUME TurnInv, Rated, now' \in Nat, UNCHANGED <<stored, local, skew, sent>>
    PROVE  Rated'
<1>1. UNCHANGED <<rows, claims, pc, machine, sent>> /\ Dispatches' = Dispatches /\ InUse' = InUse
  BY IdleTurn DEF stored, local
<1>2. HeadsCount'
  BY <1>1 DEF Rated, HeadsCount, Counted, Heading
<1>5. SpendersCount'
  <2>1. \A d \in Callers : pc'[d] \in Spending =>
            \A i \in DOMAIN sent' : \E k \in DOMAIN machine'[d].quota :
                claims'[k].id = sent'[i].id /\ machine'[d].quota[k] = sent'[i].start
    BY <1>1 DEF Rated, SpendersCount, Counted
  <2> QED BY <2>1 DEF SpendersCount, Counted, Spending
<1>3. SendersFew'
  BY <1>1 DEF Rated, SendersFew, Near
<1>4. WindowKept'
  BY <1>1 DEF Rated, WindowKept
<1> QED BY <1>2, <1>3, <1>4, <1>5 DEF Rated

(* At t the delay after attempt k of page p is over.                       *)
Since(p, k, t) == \A i \in DOMAIN sent : sent[i].id[1] = p => sent[i].at + RetryDelays[k] <= t

Before == {"declared", "preflighting", "dispatch-ready", "credential-ready"}

(* An attempt is left to a snapshot on its way to one, and it has waited.  *)
Patient(s) ==
    /\ s.state \in Before \cup {"waiting-retry"} => s.tries < attemptsPerLogicalPage
    /\ s.state = "waiting-retry" => s.tries > 0 /\ s.delay \in Nat /\ RetryDelays[s.tries] <= s.delay

Waited(s) == s.state \in Before /\ s.tries > 0 /\ Len(s.quota) = Dispatches => Since(s.page, s.tries, now)

Sleepers ==
    \A c \in Callers : pc[c] = "delay" /\ Len(machine[c].quota) = Dispatches =>
        Since(machine[c].page, machine[c].tries, wake[c])

Senders == \A c \in Callers : pc[c] = "send" /\ machine[c].tries > 1 => Since(machine[c].page, machine[c].tries - 1, now)

Delayed == (\A s \in InUse : Patient(s) /\ Waited(s)) /\ Sleepers /\ Senders /\ RetrySpaced

LEMMA DelayFacts ==
    ASSUME NEW s \in Snapshot, Patient(s), s.state \in Before \cup {"waiting-retry"}, s.tries > 0
    PROVE  s.tries \in 1..(attemptsPerLogicalPage - 1) /\ RetryDelays[s.tries] \in Nat
<1>1. s.tries \in 1..(attemptsPerLogicalPage - 1)
  BY SnapshotFields, LimitFacts DEF Patient
<1> QED BY <1>1, LimitFacts

(* A step on the way to an attempt.                                        *)
LEMMA TowardPatient ==
    ASSUME TurnInv, Delayed, NEW c \in Callers, NEW ev \in Toward, NEW x, Carries(ev, x), Acts(c, ev, x)
    PROVE  Patient(durable') /\ Waited(durable')
<1> DEFINE m == machine[c]
           n == durable'
<1>1. /\ m # None /\ m \in Snapshot /\ m \in InUse /\ At(pc[c], m.state) /\ ev \in Events
      /\ <<pc[c], ev, pc'[c]>> \in Turns
  BY LiveFields, UsedSnapshots, TargetOf DEF Acts, TurnInv, Placed, Toward
<1>2. Changes(m, ev, x, Clock(c), n) /\ <<m.state, Target[ev]>> \in Edges /\ n \in Snapshot
  BY <1>1, RowOf DEF TurnInv, Acts
<1>3. /\ n.state \in Before /\ n.state # "waiting-retry"
      /\ ev = "beginPreflight" => m.state = "declared"
      /\ ev = "approvePreflight" => m.state = "preflighting"
      /\ ev = "credentialsLoaded" => m.state = "dispatch-ready"
      /\ ev = "retryDelayElapsed" => m.state = "waiting-retry" /\ pc[c] = "delay"
  BY <1>1, <1>2, EdgeCases, TargetOf, ZenonT(60) DEF Changes, Turns, At, Before, Toward
<1>4. n.quota = m.quota
  BY <1>2 DEF Changes, Toward
<1>5. CASE ev = "continueNextPage"
  <2>1. n.tries = 0
    BY <1>2, <1>5 DEF Changes
  <2> QED BY <1>3, <2>1, LimitFacts DEF Patient, Waited
<1>6. CASE ev # "continueNextPage"
  <2>1. n.tries = m.tries /\ n.page = m.page
    BY <1>2, <1>6 DEF Changes, Toward
  <2>2. m.state \in Before \cup {"waiting-retry"} /\ Patient(m) /\ Waited(m)
    BY <1>1, <1>3, <1>6 DEF Toward, Before, Delayed
  <2>3. Patient(n)
    BY <1>3, <2>1, <2>2 DEF Patient
  <2>4. CASE ev # "retryDelayElapsed"
    BY <1>3, <1>4, <1>6, <2>1, <2>2, <2>3, <2>4 DEF Waited, Toward, Before
  <2>5. CASE ev = "retryDelayElapsed"
    <3>1. wake[c] <= now /\ wake[c] \in Nat /\ now \in Nat
      BY <2>5, LiveFields DEF Acts, TurnInv, LiveTyped
    <3>2. m.tries > 0 /\ RetryDelays[m.tries] \in Nat
      BY <1>1, <1>3, <2>2, <2>5, DelayFacts DEF Patient
    <3>3. Len(m.quota) = Dispatches => Since(m.page, m.tries, wake[c])
      BY <1>3, <2>5 DEF Delayed, Sleepers
    <3>4. Len(m.quota) = Dispatches => Since(m.page, m.tries, now)
      BY <3>1, <3>2, <3>3, SentFacts DEF Since
    <3> QED BY <1>4, <2>1, <2>3, <3>4 DEF Waited
  <2> QED BY <2>4, <2>5
<1> QED BY <1>5, <1>6

LEMMA DelayedMove ==
    ASSUME TurnInv, Known, Delayed, NEW c \in Callers, Kind(c), UNCHANGED <<now, sent>>
    PROVE  Delayed'
<1>1. Others(c) /\ sent' = sent /\ now' = now /\ Dispatches \in Nat /\ Dispatches' \in Nat /\ Dispatches <= Dispatches'
  BY Grows DEF Kind
<1>2. \A s \in InUse : s.state \in Before \cup {"waiting-retry"} => Len(s.quota) <= Dispatches /\ Len(s.quota) \in Nat
  BY UsedSnapshots, SnapshotFields DEF TurnInv, Lined, InLine, Heading, Before
<1>3. \A s \in InUse : s.state \in Before \cup {"waiting-retry"} /\ Len(s.quota) = Dispatches' => Dispatches' = Dispatches
  BY <1>1, <1>2
<1>4. ASSUME NEW s \in InUse'
      PROVE  /\ Patient(s)
             /\ s.state \in Before /\ s.tries > 0 /\ Len(s.quota) = Dispatches' => Since(s.page, s.tries, now)
  <2>1. CASE s \in InUse
    BY <1>3, <2>1 DEF Delayed, Waited
  <2>2. CASE s \notin InUse
    <3>1. ~(Quits(c) \/ Loads(c) \/ Walks(c) \/ Claims(c))
      BY <1>1, <2>2, InUseAfter DEF TurnInv
    <3>2. PICK ev \in Events, x \in Reasons \cup Failures \cup Tokens \cup {Terminal, None} :
              Carries(ev, x) /\ (Acts(c, ev, x) \/ Lasts(c, ev, x))
      BY <3>1 DEF Kind
    <3>3. CanApply(c, ev, x) /\ Record(c, ev, x) /\ machine[c] # None /\ machine'[c] \in {None, durable'}
      BY <3>2 DEF Acts, Lasts
    <3>4. durable' \in Snapshot /\ Changes(machine[c], ev, x, Clock(c), durable')
      BY <3>2, <3>3, RowOf DEF TurnInv
    <3>5. s = durable'
      BY <1>1, <2>2, <3>3, <3>4, InUseStored DEF TurnInv
    <3>6. CASE ev \in Toward
      <4>1. Acts(c, ev, x)
        BY <3>2, <3>6 DEF Lasts, Stops, Toward
      <4>2. Dispatches' = Dispatches
        BY <3>2, <3>3, <3>6, DispatchesAfter DEF TurnInv, Toward
      <4> QED BY <3>2, <3>5, <3>6, <4>1, <4>2, TowardPatient DEF Waited
    <3>7. CASE ev \notin Toward
      <4>1. s.state \notin Before
        BY <3>4, <3>5, <3>7, EventOf, TargetOf DEF Changes, Toward, Before
      <4>2. s.state = "waiting-retry" => /\ s.delay \in Nat /\ s.tries \in 1..(attemptsPerLogicalPage - 1)
                                         /\ RetryDelays[s.tries] <= s.delay
        BY <3>2, <3>5, DelayOf
      <4> QED BY <4>1, <4>2, LimitFacts DEF Patient
    <3> QED BY <3>6, <3>7
  <2> QED BY <2>1, <2>2
<1>5. ASSUME NEW d \in Callers, pc'[d] = "delay", Len(machine'[d].quota) = Dispatches'
      PROVE  Since(machine'[d].page, machine'[d].tries, wake'[d])
  <2>1. ASSUME pc[d] = "delay", machine'[d] = machine[d], wake'[d] = wake[d]
        PROVE  Since(machine'[d].page, machine'[d].tries, wake'[d])
    <3>1. machine[d] \in InUse /\ machine[d].state = "waiting-retry"
      BY <2>1, UsedSnapshots DEF TurnInv, Placed, At
    <3>2. Dispatches' = Dispatches
      BY <1>3, <1>5, <2>1, <3>1
    <3> QED BY <1>5, <2>1, <3>2 DEF Delayed, Sleepers
  <2>2. CASE d = c
    <3>1. Walks(c) /\ pc[c] = "page"
      BY <1>5, <2>2 DEF Kind, Quits, Loads, Walks, Claims, Acts, Lasts, Turns, Paths
    <3>2. /\ machine'[c] = machine[c] /\ wake'[c] = now + machine[c].delay /\ machine[c].state = "waiting-retry"
          /\ machine[c] \in InUse /\ machine[c] \in Snapshot
      BY <1>5, <2>2, <3>1, UsedSnapshots DEF Walks, At, TurnInv
    <3>3. Patient(machine[c]) /\ machine[c].tries > 0
      BY <3>2 DEF Delayed, Patient
    <3>4. machine[c].delay \in Nat /\ RetryDelays[machine[c].tries] <= machine[c].delay
          /\ RetryDelays[machine[c].tries] \in Nat
      BY <3>2, <3>3, DelayFacts DEF Patient
    <3>5. \A i \in DOMAIN sent : sent[i].at <= now
      BY DEF Known
    <3> QED BY <2>2, <3>2, <3>4, <3>5, SentFacts DEF Since
  <2>3. CASE d # c
    BY <1>1, <1>5, <2>1, <2>3 DEF Others
  <2> QED BY <2>2, <2>3
<1>6. ASSUME NEW d \in Callers, pc'[d] = "send", machine'[d].tries > 1
      PROVE  Since(machine'[d].page, machine'[d].tries - 1, now)
  <2>1. CASE pc[d] = "send" /\ machine'[d] = machine[d]
    BY <1>6, <2>1 DEF Delayed, Senders
  <2>2. ASSUME d = c, NEW x, Acts(c, "dispatchStarted", x)
        PROVE  Since(machine'[d].page, machine'[d].tries - 1, now)
    <3>1. /\ machine[c] \in Snapshot /\ machine[c] \in InUse /\ machine[c].state = "credential-ready"
          /\ Len(machine[c].quota) = Dispatches /\ machine'[c].tries = machine[c].tries + 1
          /\ machine'[c].page = machine[c].page
      BY <1>1, <2>2, Dispatched
    <3>2. machine[c].tries \in Nat
      BY <3>1, SnapshotFields
    <3>3. machine[c].tries > 0 /\ machine'[c].tries - 1 = machine[c].tries
      BY <1>6, <2>2, <3>1, <3>2
    <3> QED BY <2>2, <3>1, <3>3 DEF Delayed, Waited, Before
  <2> QED BY <1>6, <2>1, <2>2, Origin
<1>7. \A s \in InUse' : Patient(s)' /\ Waited(s)'
  BY <1>1, <1>4 DEF Patient, Waited, Since, Before
<1>8. Sleepers'
  BY <1>1, <1>5 DEF Sleepers, Since
<1>9. Senders'
  BY <1>1, <1>6 DEF Senders, Since
<1>10. RetrySpaced'
  BY <1>1 DEF Delayed, RetrySpaced
<1> QED BY <1>7, <1>8, <1>9, <1>10 DEF Delayed

LEMMA DelayedSend ==
    ASSUME TurnInv, Known, Delayed, NEW c \in Callers, Send(c), UNCHANGED <<now, skew, crashes>>
    PROVE  Delayed'
<1>1. /\ Others(c) /\ Still /\ pc'[c] = "inflight" /\ InUse' = InUse /\ machine' = machine
      /\ \E r \in Request : sent' = Append(sent, r) /\ r.id = permit[c].id /\ r.at = now
      /\ machine[c] \in Snapshot
  BY SendTurn
<1>2. PICK r \in Request : sent' = Append(sent, r) /\ r.id = permit[c].id /\ r.at = now
  BY <1>1
<1>3. sent \in Seq(Request) /\ Len(sent) \in Nat /\ DOMAIN sent = 1..Len(sent) /\ now \in Nat
  BY SentFacts
<1>4. /\ DOMAIN sent' = 1..(Len(sent) + 1) /\ sent'[Len(sent) + 1] = r /\ \A i \in 1..Len(sent) : sent'[i] = sent[i]
  BY <1>2, <1>3
<1>5. /\ pc[c] = "send" /\ Permits(c) /\ Len(claims) = Dispatches /\ claims # <<>> /\ Len(claims) \in Nat
      /\ claims[Len(claims)].id = <<machine[c].page, machine[c].token, machine[c].tries - 1>>
      /\ machine[c].tries > 0 /\ \A s \in InUse : Heading(s) => Len(s.quota) < Dispatches
  BY ClaimFacts DEF Send, TurnInv, Ticketed, Spent, Spending
<1>6. Dispatches' = Dispatches /\ Dispatches \in Nat /\ now' = now
  BY <1>1, DispatchCount DEF Still, TurnInv
<1>7. \A s \in InUse : s.state \in Before \cup {"waiting-retry"} => Len(s.quota) # Dispatches
  <2>1. \A s \in InUse : Len(s.quota) \in Nat
    BY UsedSnapshots, SnapshotFields DEF TurnInv
  <2> QED BY <1>5, <1>6, <2>1 DEF Heading, Before
<1>8. \A s \in InUse' : Patient(s)' /\ Waited(s)'
  BY <1>1, <1>6, <1>7 DEF Delayed, Patient, Waited, Before
<1>9. \A d \in Callers : pc'[d] # "send" /\ (pc'[d] = "delay" => Len(machine'[d].quota) # Dispatches)
  <2>1. \A d \in Callers : pc'[d] # "send"
    BY <1>1, <1>5 DEF Others, TurnInv, Owned, Owning, Spending
  <2>2. \A d \in Callers : pc[d] = "delay" => machine[d] \in InUse /\ machine[d].state = "waiting-retry"
    BY UsedSnapshots DEF TurnInv, Placed, At
  <2>3. \A d \in Callers : pc'[d] = "delay" => pc[d] = "delay"
    BY <1>1 DEF Others
  <2> QED BY <1>1, <1>7, <2>1, <2>2, <2>3
<1>10. Sleepers' /\ Senders'
  BY <1>6, <1>9 DEF Sleepers, Senders
<1>11. r.id = <<machine[c].page, machine[c].token, machine[c].tries - 1>> /\ r.id[1] = machine[c].page
       /\ r.id[3] = machine[c].tries - 1
  BY <1>2, <1>5 DEF Permits
<1>12. ASSUME NEW i \in DOMAIN sent, sent[i].id[1] = r.id[1]
       PROVE  r.at - sent[i].at >= RetryDelays[r.id[3]]
  <2>1. CASE machine[c].tries > 1
    <3>1. sent[i].at + RetryDelays[machine[c].tries - 1] <= now
      BY <1>5, <1>11, <1>12, <2>1 DEF Delayed, Senders, Since
    <3>2. machine[c].tries - 1 \in 1..(attemptsPerLogicalPage - 1)
      <4>1. permit[c].id[3] < attemptsPerLogicalPage
        BY <1>5 DEF Known
      <4>2. machine[c].tries \in Nat
        BY <1>1, SnapshotFields
      <4>3. machine[c].tries - 1 < attemptsPerLogicalPage
        BY <1>2, <1>11, <4>1
      <4> QED BY <2>1, <4>2, <4>3, LimitFacts
    <3>3. RetryDelays[machine[c].tries - 1] \in Nat
      BY <3>2, LimitFacts
    <3> QED BY <1>2, <1>3, <1>11, <3>1, <3>3, SentFacts
  <2>2. CASE ~(machine[c].tries > 1)
    <3>1. r.id[3] = 0
      BY <1>1, <1>5, <1>11, <2>2, SnapshotFields
    <3>2. PICK k \in 1..Dispatches : claims[k].id = sent[i].id
      BY DEF Known
    <3>3. sent[i].id # r.id
      BY <1>2, <1>5 DEF Known
    <3>4. claims[Len(claims)].id = r.id
      BY <1>5, <1>11
    <3>5. k # Len(claims) /\ k \in 1..(Len(claims) - 1) /\ Len(claims) \in DOMAIN claims
      BY <1>5, <3>2, <3>3, <3>4, ClaimFacts
    <3>6. Precedes(sent[i].id, r.id)
      BY <3>2, <3>4, <3>5 DEF TurnInv, Ordered
    <3>7. sent[i].id[3] \in Nat /\ r.id[1] \in Nat /\ sent[i].id[1] \in Nat
      BY <1>1, <1>11, SentFacts, SnapshotFields
    <3>8. FALSE
      BY <1>12, <3>1, <3>6, <3>7 DEF Precedes
    <3> QED BY <3>8
  <2> QED BY <2>1, <2>2
<1>13. RetrySpaced'
  <2>1. ASSUME NEW i \in DOMAIN sent', NEW j \in DOMAIN sent', i < j, sent'[i].id[1] = sent'[j].id[1]
        PROVE  sent'[j].at - sent'[i].at >= RetryDelays[sent'[j].id[3]]
    <3>1. i \in DOMAIN sent /\ sent'[i] = sent[i]
      BY <1>3, <1>4, <2>1
    <3>2. CASE j \in DOMAIN sent
      BY <1>3, <1>4, <2>1, <3>1, <3>2 DEF Delayed, RetrySpaced
    <3>3. CASE j = Len(sent) + 1
      BY <1>4, <1>12, <2>1, <3>1, <3>3
    <3>4. j \in DOMAIN sent \/ j = Len(sent) + 1
      BY <1>3, <1>4
    <3> QED BY <3>2, <3>3, <3>4
  <2> QED BY <2>1 DEF RetrySpaced
<1> QED BY <1>8, <1>10, <1>13 DEF Delayed

LEMMA DelayedTick ==
    ASSUME TurnInv, Known, Delayed, now' \in Nat, now <= now', UNCHANGED <<stored, local, skew, sent>>
    PROVE  Delayed'
<1>1. UNCHANGED <<pc, machine, wake, sent>> /\ Dispatches' = Dispatches /\ InUse' = InUse
  BY IdleTurn DEF stored, local
<1>2. \A p, k : RetryDelays[k] \in Nat /\ Since(p, k, now) => Since(p, k, now')
  BY SentFacts DEF Since
<1>3. \A s \in InUse : Patient(s) /\ (s.state \in Before /\ s.tries > 0 /\ Len(s.quota) = Dispatches =>
                                         Since(s.page, s.tries, now'))
  BY <1>2, UsedSnapshots, DelayFacts DEF TurnInv, Delayed, Waited
<1>4. \A s \in InUse' : Patient(s)' /\ Waited(s)'
  BY <1>1, <1>3 DEF Patient, Waited, Since, Before
<1>5. Sleepers'
  BY <1>1 DEF Delayed, Sleepers, Since
<1>6. Senders'
  <2>1. ASSUME NEW d \in Callers, pc[d] = "send", machine[d].tries > 1
        PROVE  Since(machine[d].page, machine[d].tries - 1, now')
    <3>1. machine[d] \in Snapshot /\ Len(claims) = Dispatches
          /\ claims[Len(claims)].id = <<machine[d].page, machine[d].token, machine[d].tries - 1>>
          /\ permit[d].id = claims[Len(claims)].id
      BY <2>1, OwnerState DEF TurnInv, Spent, Spending, Owning, Ticketed, Permits
    <3>2. machine[d].tries - 1 < attemptsPerLogicalPage /\ machine[d].tries \in Nat
      BY <2>1, <3>1, SnapshotFields DEF Known
    <3>3. machine[d].tries - 1 \in 1..(attemptsPerLogicalPage - 1)
      BY <2>1, <3>2, LimitFacts, SMTT(30)
    <3>4. RetryDelays[machine[d].tries - 1] \in Nat
      BY <3>3, LimitFacts
    <3>5. Since(machine[d].page, machine[d].tries - 1, now)
      BY <2>1 DEF Delayed, Senders
    <3> QED BY <1>2, <3>4, <3>5
  <2> QED BY <1>1, <2>1 DEF Senders, Since
<1>7. RetrySpaced'
  BY <1>1 DEF Delayed, RetrySpaced
<1> QED BY <1>4, <1>5, <1>6, <1>7 DEF Delayed

-----------------------------------------------------------------------------
(* The theorem.                                                            *)

LiveInv == TurnInv /\ Known /\ Rated /\ Delayed

LEMMA LiveInit == Init => LiveInv
<1> SUFFICES ASSUME Init PROVE LiveInv
  OBVIOUS
<1>1. TurnInv
  BY TurnInit
<1>2. sent = <<>> /\ DOMAIN sent = {} /\ \A c \in Callers : pc[c] = "idle"
  BY DEF Init
<1>3. Known
  BY <1>2 DEF Known
<1>4. Rated
  BY <1>2 DEF Rated, HeadsCount, SpendersCount, SendersFew, WindowKept, Counted, Spending
<1>5. InUse = {createInitialAcquisitionSnapshot}
  BY InitialSnapshot, SnapshotAssumption DEF Init, InUse, Current
<1>6. createInitialAcquisitionSnapshot.tries = 0 /\ createInitialAcquisitionSnapshot.state = "declared"
  BY DEF createInitialAcquisitionSnapshot
<1>7. \A s \in InUse : Patient(s) /\ Waited(s)
  BY <1>5, <1>6, LimitFacts DEF Patient, Waited, Before
<1>8. Delayed
  BY <1>2, <1>7 DEF Delayed, Sleepers, Senders, RetrySpaced
<1> QED BY <1>1, <1>3, <1>4, <1>8 DEF LiveInv

LEMMA LiveStep == LiveInv /\ [Next]_vars => LiveInv'
<1> SUFFICES ASSUME LiveInv, [Next]_vars PROVE LiveInv'
  OBVIOUS
<1> USE DEF LiveInv
<1>1. ASSUME NEW c \in Callers, Moves(c), UNCHANGED <<now, skew, crashes, sent>> PROVE LiveInv'
  <2>1. Kind(c) /\ page' \in [Callers -> Nat]
    BY <1>1, MoveKind, PageTyped DEF TurnInv
  <2>2. TurnInv'
    BY <1>1, <2>1, TurnMove
  <2> QED BY <1>1, <2>1, <2>2, KnownMove, RatedMove, DelayedMove
<1>2. ASSUME NEW c \in Callers, Send(c), UNCHANGED <<now, skew, crashes>> PROVE LiveInv'
  <2>1. TurnInv'
    BY <1>2, SendTurn
  <2> QED BY <1>2, <2>1, KnownSend, RatedSend, DelayedSend
<1>3. ASSUME NEW c \in Callers, Crash(c) PROVE LiveInv'
  <2>1. TurnInv' /\ Kind(c) /\ UNCHANGED <<now, sent>>
    BY <1>3, CrashTurn DEF Kind
  <2> QED BY <1>3, <2>1, KnownMove, RatedMove, DelayedMove
<1>4. ASSUME UNCHANGED <<stored, local, skew, sent>>, now' \in Nat, now <= now' PROVE LiveInv'
  <2>1. TurnInv'
    BY <1>4, IdleTurn
  <2> QED BY <1>4, <2>1, KnownTick, RatedTick, DelayedTick
<1>5. now \in Nat
  BY DEF TurnInv, LiveTyped
<1>6. CASE Tick
  BY <1>4, <1>5, <1>6 DEF Tick
<1>7. CASE UNCHANGED vars
  BY <1>4, <1>5, <1>7 DEF vars
<1> QED BY <1>1, <1>2, <1>3, <1>6, <1>7 DEF Next

(* Two claims for a page differ in the attempt, and only there.            *)
LEMMA PageAttempts ==
    ASSUME TurnInv, NEW k \in 1..Len(claims), NEW l \in 1..Len(claims),
           claims[k].id[1] = claims[l].id[1], claims[k].id[3] = claims[l].id[3]
    PROVE  k = l
<1>1. Len(claims) \in Nat /\ DOMAIN claims = 1..Len(claims) /\ claims[k].id \in Ids /\ claims[l].id \in Ids
  BY ClaimFacts
<1>2. \A id \in Ids : id[1] \in Nat /\ id[3] \in Nat
  BY DEF Ids
<1>3. ASSUME NEW a \in 1..Len(claims), NEW b \in 1..Len(claims), a < b
      PROVE  Precedes(claims[a].id, claims[b].id)
  <2>1. a \in 1..(b - 1) /\ b \in DOMAIN claims
    BY <1>1, <1>3
  <2> QED BY <2>1 DEF TurnInv, Ordered
<1>4. ~(k < l) /\ ~(l < k)
  BY <1>1, <1>2, <1>3 DEF Precedes
<1> QED BY <1>1, <1>4

LEMMA Intervals ==
    ASSUME NEW n \in Nat
    PROVE  /\ IsFiniteSet(1..n) /\ Cardinality(1..n) = n
           /\ IsFiniteSet(0..(n - 1)) /\ Cardinality(0..(n - 1)) = n
<1>1. IsFiniteSet(1..n) /\ Cardinality(1..n) = IF 1 > n THEN 0 ELSE n - 1 + 1
  BY FS_Interval
<1>2. IsFiniteSet(0..(n - 1)) /\ Cardinality(0..(n - 1)) = IF 0 > n - 1 THEN 0 ELSE (n - 1) - 0 + 1
  BY FS_Interval
<1> QED BY <1>1, <1>2

LEMMA LimitsKept ==
    ASSUME LiveInv
    PROVE  LimitsHold
<1> USE DEF LiveInv
<1>1. Len(sent) \in Nat /\ DOMAIN sent = 1..Len(sent) /\ Len(claims) \in Nat /\ Dispatches \in Nat
      /\ Dispatches <= Len(claims) /\ Len(claims) <= attemptsPerAcquisition
  BY SentFacts, ClaimFacts, DispatchCount DEF TurnInv, Ticketed
<1> DEFINE f == [i \in DOMAIN sent |-> CHOOSE k \in 1..Dispatches : claims[k].id = sent[i].id]
<1>2. \A i \in DOMAIN sent : f[i] \in 1..Dispatches /\ claims[f[i]].id = sent[i].id
  BY DEF Known
<1>3. f \in [DOMAIN sent -> 1..Dispatches]
  BY <1>2
<1> HIDE DEF f
<1>4. Len(sent) <= attemptsPerAcquisition
  <2>1. \A i, j \in DOMAIN sent : f[i] = f[j] => i = j
    BY <1>2 DEF Known
  <2>2. f \in Injection(1..Len(sent), 1..Dispatches)
    BY <1>1, <1>3, <2>1 DEF Injection, IsInjective
  <2>3. IsFiniteSet(1..Dispatches) /\ Cardinality(1..Dispatches) = Dispatches /\ Cardinality(1..Len(sent)) = Len(sent)
    BY <1>1, Intervals
  <2>4. Cardinality(1..Len(sent)) <= Cardinality(1..Dispatches)
    BY <2>2, <2>3, FS_Injection
  <2> QED BY <1>1, <2>3, <2>4, LimitFacts
<1>5. ASSUME NEW i \in DOMAIN sent
      PROVE  Cardinality({j \in DOMAIN sent : sent[j].id[1] = sent[i].id[1]}) <= attemptsPerLogicalPage
  <2> DEFINE S == {j \in DOMAIN sent : sent[j].id[1] = sent[i].id[1]}
             T == 0..(attemptsPerLogicalPage - 1)
             g == [j \in S |-> sent[j].id[3]]
  <2>1. \A j \in S : sent[j].id[3] \in T
    BY SentFacts, LimitFacts DEF Known
  <2>2. ASSUME NEW j \in S, NEW k \in S, sent[j].id[3] = sent[k].id[3] PROVE j = k
    <3>1. f[j] \in 1..Len(claims) /\ f[k] \in 1..Len(claims)
      BY <1>1, <1>2
    <3>2. claims[f[j]].id = sent[j].id /\ claims[f[k]].id = sent[k].id
      BY <1>2
    <3>3. f[j] = f[k]
      BY <2>2, <3>1, <3>2, PageAttempts
    <3> QED BY <3>2, <3>3 DEF Known
  <2>3. g \in Injection(S, T)
    BY <2>1, <2>2 DEF Injection, IsInjective
  <2>4. IsFiniteSet(T) /\ Cardinality(T) = attemptsPerLogicalPage
    BY LimitFacts, Intervals
  <2> HIDE DEF S, T, g
  <2>5. Cardinality(S) <= Cardinality(T)
    BY <2>3, <2>4, FS_Injection
  <2> QED BY <2>4, <2>5 DEF S
<1>6. \A i \in DOMAIN sent :
          /\ sent[i].at < acquisitionDeadlineMs
          /\ Cardinality({j \in 1..i : sent[j].start > sent[i].start - rateWindowMs}) <= rateAttempts
  BY DEF Known, Rated, WindowKept
<1> QED BY <1>4, <1>5, <1>6 DEF LimitsHold

(* A claimed attempt is sent at most once, after its claim and its row are *)
(* stored, by one process at a time; attempts of a page are apart by the   *)
(* delay of decideRetry; and no limit of the acquisition is passed: for    *)
(* every number of processes, pages, attempts and crashes, and whatever    *)
(* the clocks of the processes show.                                       *)
THEOREM RequestsAreBounded == Spec => []RequestsBounded
<1>1. LiveInv => RequestsBounded
  <2> SUFFICES ASSUME LiveInv PROVE RequestsBounded
    OBVIOUS
  <2> USE DEF LiveInv
  <2>1. \A c, d \in Callers : pc[c] = "inflight" /\ pc[d] = "inflight" => c = d
    BY DEF TurnInv, Owned, Owning, Spending
  <2>2. ASSUME NEW i \in DOMAIN sent PROVE \E k \in DOMAIN claims : claims[k].id = sent[i].id
    <3>1. PICK k \in 1..Dispatches : claims[k].id = sent[i].id
      BY DEF Known
    <3>2. k \in DOMAIN claims
      BY ClaimFacts, DispatchCount DEF TurnInv, Ticketed
    <3> QED BY <3>1, <3>2
  <2>3. OneRequestPerAttempt
    BY <2>1, <2>2 DEF OneRequestPerAttempt, Known, Started
  <2> QED BY <2>3, LimitsKept DEF RequestsBounded, Delayed
<1> QED BY <1>1, LiveInit, LiveStep, PTL DEF Spec

-----------------------------------------------------------------------------
(* Sets of numbers, and the place of a number in one.                      *)

LEMMA LeastOf ==
    ASSUME NEW T \in SUBSET Nat, T # {}
    PROVE  \E x \in T : \A y \in T : x <= y
<1> DEFINE R == OpToRel(<, Nat)
<1>1. R = {ss \in Nat \X Nat : ss[1] < ss[2]}
  BY Zenon DEF OpToRel
<1>2. IsWellFoundedOn(R, Nat)
  BY Zenon, NatLessThanWellFounded
<1> HIDE DEF R
<1>3. PICK x \in T : \A y \in T : ~(<<y, x>> \in R)
  BY <1>2, WFMin
<1>4. ASSUME NEW y \in T PROVE x <= y
  <2>1. y \in Nat /\ x \in Nat
    OBVIOUS
  <2>2. <<y, x>> \notin {ss \in Nat \X Nat : ss[1] < ss[2]}
    BY <1>1, <1>3
  <2>3. ~(y < x)
    BY <2>1, <2>2
  <2> QED BY <2>1, <2>3
<1> QED BY <1>4

LEMMA GreatestOf ==
    ASSUME NEW N \in Nat, NEW T \in SUBSET (0..N), T # {}
    PROVE  \E x \in T : \A y \in T : y <= x
<1> DEFINE U == {N - y : y \in T}
<1>1. \A y \in T : y \in Nat /\ y <= N /\ N - y \in Nat
  OBVIOUS
<1>2. U \in SUBSET Nat /\ U # {}
  BY <1>1
<1> HIDE DEF U
<1>3. PICK u \in U : \A v \in U : u <= v
  BY <1>2, LeastOf
<1>4. PICK x \in T : u = N - x
  BY DEF U
<1>5. ASSUME NEW y \in T PROVE y <= x
  <2>1. N - y \in U
    BY DEF U
  <2>2. N - x <= N - y
    BY <1>3, <1>4, <2>1
  <2> QED BY <1>1, <2>2
<1> QED BY <1>5

Upto(A, i) == {k \in A : k <= i}

LEMMA UptoHas ==
    ASSUME NEW N \in Nat, NEW A \in SUBSET (1..N)
    PROVE  /\ \A k \in A : k \in Nat /\ k > 0 /\ k <= N
           /\ \A i, k : k \in Upto(A, i) <=> k \in A /\ k <= i
  BY DEF Upto

LEMMA UptoFinite ==
    ASSUME NEW N \in Nat, NEW A \in SUBSET (1..N), NEW i
    PROVE  /\ IsFiniteSet(A) /\ Cardinality(A) \in Nat
           /\ IsFiniteSet(Upto(A, i)) /\ Cardinality(Upto(A, i)) \in Nat
<1>1. IsFiniteSet(1..N)
  BY Intervals
<1>2. Upto(A, i) \in SUBSET (1..N)
  BY DEF Upto
<1> QED BY <1>1, <1>2, FS_Subset, FS_CardinalityType

LEMMA UptoGrows ==
    ASSUME NEW N \in Nat, NEW A \in SUBSET (1..N), NEW i \in A, NEW j \in A, i < j
    PROVE  Cardinality(Upto(A, i)) < Cardinality(Upto(A, j))
<1>1. /\ IsFiniteSet(Upto(A, i)) /\ Cardinality(Upto(A, i)) \in Nat
      /\ IsFiniteSet(Upto(A, j)) /\ Cardinality(Upto(A, j)) \in Nat
  BY UptoFinite
<1>2. i \in Nat /\ j \in Nat
  OBVIOUS
<1>3. Upto(A, i) \in SUBSET Upto(A, j)
  <2>1. ASSUME NEW k \in Upto(A, i) PROVE k \in Upto(A, j)
    <3>1. k \in A /\ k <= i /\ k \in Nat
      BY UptoHas
    <3> QED BY <1>2, <3>1, UptoHas
  <2> QED BY <2>1
<1>4. j \in Upto(A, j) /\ j \notin Upto(A, i)
  BY <1>2 DEF Upto
<1>5. /\ Cardinality(Upto(A, i)) <= Cardinality(Upto(A, j))
      /\ Cardinality(Upto(A, j)) = Cardinality(Upto(A, i)) => Upto(A, j) = Upto(A, i)
  BY <1>1, <1>3, FS_Subset
<1> QED BY <1>1, <1>4, <1>5

LEMMA UptoPlace ==
    ASSUME NEW N \in Nat, NEW A \in SUBSET (1..N), NEW i \in A
    PROVE  Cardinality(Upto(A, i)) > 0
<1>1. i \in Upto(A, i)
  BY DEF Upto
<1>2. IsFiniteSet(Upto(A, i)) /\ Cardinality(Upto(A, i)) \in Nat
  BY UptoFinite
<1>3. Cardinality(Upto(A, i)) # 0
  BY <1>1, <1>2, FS_EmptySet
<1> QED BY <1>2, <1>3

(* The n-th member is there.                                               *)
LEMMA NthIs ==
    ASSUME NEW N \in Nat, NEW A \in SUBSET (1..N), NEW n \in 1..Cardinality(A)
    PROVE  Nth(A, n) \in A /\ Cardinality(Upto(A, Nth(A, n))) = n
<1> DEFINE G == {i \in 0..N : Cardinality(Upto(A, i)) >= n}
<1>0. Cardinality(A) \in Nat
  BY UptoFinite
<1>1. Cardinality(A) \in Nat /\ n \in Nat /\ n > 0 /\ n <= Cardinality(A)
  BY <1>0
<1>2. N \in G
  <2>1. \A k : k \in Upto(A, N) <=> k \in A
    BY UptoHas
  <2>2. Upto(A, N) = A
    BY <2>1
  <2> QED BY <1>1, <2>2
<1>3. G \in SUBSET Nat /\ G # {}
  BY <1>2
<1>4. PICK i \in G : \A j \in G : i <= j
  BY <1>3, LeastOf
<1>5. i \in 0..N /\ Cardinality(Upto(A, i)) >= n
  OBVIOUS
<1>6. i # 0
  <2>1. Upto(A, 0) = {}
    <3>1. ASSUME NEW k \in Upto(A, 0) PROVE FALSE
      <4>1. k \in A /\ k <= 0
        BY UptoHas
      <4>2. k \in Nat /\ k > 0
        BY <4>1, UptoHas
      <4> QED BY <4>1, <4>2
    <3> QED BY <3>1
  <2>2. Cardinality(Upto(A, 0)) = 0
    BY <2>1, FS_EmptySet
  <2> QED BY <1>1, <1>5, <2>2
<1>7. i - 1 \in 0..N /\ ~(Cardinality(Upto(A, i - 1)) >= n)
  BY <1>4, <1>5, <1>6
<1>8. IsFiniteSet(Upto(A, i - 1)) /\ Cardinality(Upto(A, i - 1)) \in Nat /\ Cardinality(Upto(A, i)) \in Nat
  BY UptoFinite
<1>9. i \in A /\ Cardinality(Upto(A, i)) = n
  <2>1. CASE i \in A
    <3>0. i \in Nat /\ i - 1 \in Int /\ \A k \in A : k \in Nat
      BY <1>5, UptoHas
    <3>1. Upto(A, i) = Upto(A, i - 1) \cup {i} /\ i \notin Upto(A, i - 1)
      <4>1. \A k \in A : k <= i <=> k <= i - 1 \/ k = i
        BY <3>0
      <4>2. ~(i <= i - 1)
        BY <3>0
      <4>3. \A k : k \in Upto(A, i) <=> k \in Upto(A, i - 1) \/ k = i
        BY <2>1, <4>1, UptoHas
      <4>4. i \notin Upto(A, i - 1)
        BY <4>2, UptoHas
      <4> QED BY <4>3, <4>4
    <3>2. Cardinality(Upto(A, i)) = Cardinality(Upto(A, i - 1)) + 1
      BY <1>8, <3>1, FS_AddElement
    <3> QED BY <1>1, <1>5, <1>7, <1>8, <2>1, <3>2
  <2>2. CASE i \notin A
    <3>0. i \in Nat /\ i - 1 \in Int /\ \A k \in A : k \in Nat /\ k # i
      BY <1>5, <2>2, UptoHas
    <3>1. \A k \in A : k <= i <=> k <= i - 1
      BY <3>0
    <3>2. \A k : k \in Upto(A, i) <=> k \in Upto(A, i - 1)
      BY <3>1, UptoHas
    <3>3. Upto(A, i) = Upto(A, i - 1)
      BY <3>2
    <3> QED BY <1>5, <1>7, <3>3
  <2> QED BY <2>1, <2>2
<1>10. i \in A /\ Cardinality({k \in A : k <= i}) = n
  BY <1>9 DEF Upto
<1> QED BY <1>10 DEF Nth, Upto

(* B are the first m members of A.                                         *)
Leads(A, B, m) ==
    /\ \A i \in A : i \in B <=> Cardinality(Upto(A, i)) <= m
    /\ \A j \in 1..m : \E i \in B : Cardinality(Upto(A, i)) = j

(* If the first m members are taken, the place of another is its place     *)
(* among those left, and m.                                                *)
LEMMA PlaceLeft ==
    ASSUME NEW N \in Nat, NEW A \in SUBSET (1..N), NEW m \in Nat, NEW B \in SUBSET A,
           Leads(A, B, m), NEW i \in A \ B
    PROVE  Cardinality(Upto(A, i)) = m + Cardinality(Upto(A \ B, i))
<1> USE DEF Leads
<1>1. \A k \in A : Cardinality(Upto(A, k)) \in Nat /\ Cardinality(Upto(A, k)) > 0
  BY UptoFinite, UptoPlace
<1>2. \A k \in B : k < i
  <2>1. ASSUME NEW k \in B PROVE k < i
    <3>1. Cardinality(Upto(A, k)) < Cardinality(Upto(A, i)) /\ k \in A /\ k \in Nat /\ i \in Nat
      BY <1>1, UptoHas
    <3>2. i < k => Cardinality(Upto(A, i)) < Cardinality(Upto(A, k))
      BY <3>1, UptoGrows
    <3>3. k # i
      OBVIOUS
    <3>4. Cardinality(Upto(A, k)) \in Nat /\ Cardinality(Upto(A, i)) \in Nat
      BY <1>1, <3>1
    <3> QED BY <3>1, <3>2, <3>3, <3>4
  <2> QED BY <2>1
<1> DEFINE C == Upto(A \ B, i)
<1>3. Upto(A, i) = B \cup C /\ B \cap C = {}
  <2>1. \A k \in A : k \in Nat /\ i \in Nat
    BY UptoHas
  <2>2. \A k \in B : k \in A /\ k <= i
    BY <1>2, <2>1
  <2>3. \A k : k \in C <=> k \in A /\ k \notin B /\ k <= i
    BY DEF Upto
  <2>4. \A k : k \in Upto(A, i) <=> k \in B \/ k \in C
    BY <2>2, <2>3, UptoHas
  <2> HIDE DEF C
  <2> QED BY <2>3, <2>4
<1>4. IsFiniteSet(B) /\ Cardinality(B) = m
  <2> DEFINE f == [k \in B |-> Cardinality(Upto(A, k))]
  <2>1. f \in [B -> 1..m]
    BY <1>1
  <2>2. ASSUME NEW k \in B, NEW l \in B, f[k] = f[l] PROVE k = l
    <3>1. k \in Nat /\ l \in Nat /\ k \in A /\ l \in A /\ Cardinality(Upto(A, k)) = Cardinality(Upto(A, l))
      BY <2>2, UptoHas
    <3>2. /\ k < l => Cardinality(Upto(A, k)) < Cardinality(Upto(A, l))
          /\ l < k => Cardinality(Upto(A, l)) < Cardinality(Upto(A, k))
      BY <3>1, UptoGrows
    <3>3. Cardinality(Upto(A, k)) \in Nat /\ Cardinality(Upto(A, l)) \in Nat
      BY <1>1, <3>1
    <3> QED BY <3>1, <3>2, <3>3
  <2>3. f \in Injection(B, 1..m)
    BY <2>1, <2>2 DEF Injection, IsInjective
  <2>4. f \in Surjection(B, 1..m)
    BY <2>1 DEF Surjection
  <2> HIDE DEF f
  <2>5. IsFiniteSet(1..m) /\ Cardinality(1..m) = m
    BY Intervals
  <2> QED BY <2>3, <2>4, <2>5, FS_Injection
<1>5. IsFiniteSet(C) /\ Cardinality(C) \in Nat
  <2>1. A \ B \in SUBSET (1..N)
    OBVIOUS
  <2> QED BY <2>1, UptoFinite
<1> HIDE DEF C
<1>6. Cardinality(B \cup C) = Cardinality(B) + Cardinality(C) - Cardinality(B \cap C)
  BY <1>4, <1>5, FS_Union
<1>7. Cardinality(Upto(A, i)) = m + Cardinality(C)
  BY <1>3, <1>4, <1>5, <1>6, FS_EmptySet
<1> QED BY <1>7 DEF C

-----------------------------------------------------------------------------
(* The links between rows and journal entries.                             *)

(* The rows that may have an entry, and the place of a row among them.     *)
Linkable == {i \in DOMAIN rows : rows[i].kind \notin {"acquisition-declared", "request-started"}}
Rank(i) == Cardinality(Upto(Linkable, i))

(* A link pairs the n-th of these rows with the n-th entry, which repeats  *)
(* it.                                                                     *)
Right(l) == l \in Linkable \X DOMAIN journal /\ Rank(l[1]) = l[2] /\ rows[l[1]] = journal[l[2]]

JournalTyped == journal \in Seq(Entry) /\ todo \in [Callers -> SUBSET (Nat \X Nat)]

LinksRight == \A l \in links \cup UNION {todo[c] : c \in Callers} : Right(l)

LEMMA RowsAre ==
    ASSUME LiveTyped
    PROVE  /\ Len(rows) \in Nat /\ DOMAIN rows = 1..Len(rows) /\ Linkable \in SUBSET (1..Len(rows))
           /\ \A i \in Linkable : i \in Nat /\ i > 0 /\ i <= Len(rows) /\ Rank(i) \in Nat /\ Rank(i) > 0
           /\ \A i, k \in Linkable : i < k <=> Rank(i) < Rank(k)
<1>1. Len(rows) \in Nat /\ DOMAIN rows = 1..Len(rows)
  BY DEF LiveTyped
<1>2. Linkable \in SUBSET (1..Len(rows))
  BY <1>1 DEF Linkable
<1>3. \A i \in Linkable : i \in Nat /\ i > 0 /\ i <= Len(rows)
  BY <1>1, <1>2, UptoHas
<1>4. \A i \in Linkable : Rank(i) \in Nat /\ Rank(i) > 0
  BY <1>1, <1>2, UptoFinite, UptoPlace DEF Rank
<1>5. ASSUME NEW i \in Linkable, NEW k \in Linkable PROVE i < k <=> Rank(i) < Rank(k)
  <2>1. /\ i < k => Rank(i) < Rank(k)
        /\ k < i => Rank(k) < Rank(i)
    BY <1>1, <1>2, UptoGrows DEF Rank
  <2>2. i \in Nat /\ k \in Nat /\ Rank(i) \in Nat /\ Rank(k) \in Nat
    BY <1>3, <1>4
  <2>3. i = k => Rank(i) = Rank(k)
    OBVIOUS
  <2> QED BY <2>1, <2>2, <2>3
<1> QED BY <1>1, <1>2, <1>3, <1>4, <1>5

(* More rows and more entries leave a link right.                          *)
LEMMA RightKept ==
    ASSUME LiveTyped, LiveTyped', NEW l, Right(l),
           DOMAIN rows \subseteq DOMAIN rows', \A k \in DOMAIN rows : rows'[k] = rows[k],
           DOMAIN journal \subseteq DOMAIN journal', \A k \in DOMAIN journal : journal'[k] = journal[k]
    PROVE  Right(l)'
<1>1. /\ l \in Linkable \X DOMAIN journal /\ l[1] \in Linkable /\ l[2] \in DOMAIN journal
      /\ Rank(l[1]) = l[2] /\ rows[l[1]] = journal[l[2]]
  BY DEF Right
<1>2. DOMAIN rows = 1..Len(rows) /\ Len(rows) \in Nat /\ l[1] \in Nat /\ l[1] <= Len(rows)
  BY <1>1, RowsAre
<1>3. DOMAIN rows' = 1..Len(rows') /\ Len(rows') \in Nat
  BY DEF LiveTyped
<1>4. \A i \in DOMAIN rows : i \in Linkable' <=> i \in Linkable
  BY DEF Linkable
<1>5. \A i \in Linkable' : i \in Nat /\ i > 0
  BY <1>3 DEF Linkable
<1>6. \A i \in Linkable' : i <= l[1] => i \in DOMAIN rows
  BY <1>2, <1>5
<1>7. \A i : i \in Upto(Linkable', l[1]) <=> i \in Upto(Linkable, l[1])
  BY <1>4, <1>6 DEF Upto, Linkable
<1>8. Upto(Linkable', l[1]) = Upto(Linkable, l[1])
  BY <1>7
<1>9. Rank(l[1])' = l[2]
  BY <1>1, <1>8 DEF Rank
<1>10. l[1] \in DOMAIN rows /\ l[1] \in Linkable' /\ l \in Linkable' \X DOMAIN journal'
  BY <1>1, <1>4 DEF Linkable
<1> QED BY <1>1, <1>9, <1>10 DEF Right

LEMMA Between ==
    ASSUME NEW a \in Nat, NEW b \in Nat, a <= b
    PROVE  Cardinality((a + 1)..b) = b - a
<1>1. a + 1 \in Int /\ b \in Int
  OBVIOUS
<1>2. Cardinality((a + 1)..b) = IF a + 1 > b THEN 0 ELSE b - (a + 1) + 1
  BY <1>1, FS_Interval
<1> QED BY <1>2

(* The entries that have a link are the first ones, and their rows the     *)
(* first that may have one.                                                *)
LEMMA LinkedFirst ==
    ASSUME LiveTyped, JournalTyped, LinksRight, \A j \in Pending : (j..Len(journal)) \subseteq Pending
    PROVE  \E m \in 0..Len(journal) :
               /\ LinkedEntries = 1..m
               /\ LinkedRows \in SUBSET Linkable /\ Available = Linkable \ LinkedRows
               /\ \A i \in Linkable : i \in LinkedRows <=> Rank(i) <= m
               /\ \A j \in 1..m : \E i \in LinkedRows : Rank(i) = j
<1>1. Len(journal) \in Nat /\ DOMAIN journal = 1..Len(journal)
  BY DEF JournalTyped
<1>2. \A l \in links : l[1] \in Linkable /\ l[2] \in 1..Len(journal) /\ Rank(l[1]) = l[2]
  BY <1>1 DEF LinksRight, Right
<1>3. LinkedEntries \subseteq 1..Len(journal) /\ LinkedRows \in SUBSET Linkable
  BY <1>2 DEF LinkedEntries, LinkedRows
<1>4. \E m \in 0..Len(journal) : LinkedEntries = 1..m
  <2>1. \A j \in 1..Len(journal) : j \in Pending <=> j \notin LinkedEntries
    BY <1>1 DEF Pending
  <2>2. CASE Pending = {}
    <3>1. LinkedEntries = 1..Len(journal)
      BY <1>3, <2>1, <2>2
    <3>2. Len(journal) \in 0..Len(journal)
      BY <1>1
    <3> QED BY <3>1, <3>2
  <2>3. CASE Pending # {}
    <3>1. Pending \in SUBSET Nat
      BY <1>1 DEF Pending
    <3>2. PICK q \in Pending : \A j \in Pending : q <= j
      BY <2>3, <3>1, LeastOf
    <3>3. q \in 1..Len(journal) /\ q \in Nat /\ q - 1 \in 0..Len(journal)
      BY <1>1 DEF Pending
    <3>4. \A j \in 1..Len(journal) : j \in Pending <=> q <= j
      <4>1. ASSUME NEW j \in 1..Len(journal), q <= j PROVE j \in Pending
        <5>1. j \in q..Len(journal)
          BY <1>1, <3>3, <4>1
        <5> QED BY <5>1
      <4> QED BY <3>2, <4>1
    <3>5. \A j \in 1..Len(journal) : j \in LinkedEntries <=> ~(q <= j)
      BY <2>1, <3>4
    <3>6. \A j : j \in LinkedEntries <=> j \in 1..(q - 1)
      <4>1. ASSUME NEW j \in LinkedEntries PROVE j \in 1..(q - 1)
        <5>1. j \in 1..Len(journal) /\ ~(q <= j)
          BY <1>3, <3>5
        <5> QED BY <1>1, <3>3, <5>1
      <4>2. ASSUME NEW j \in 1..(q - 1) PROVE j \in LinkedEntries
        <5>1. j \in 1..Len(journal) /\ ~(q <= j)
          BY <1>1, <3>3
        <5> QED BY <3>5, <5>1
      <4> QED BY <4>1, <4>2
    <3>7. LinkedEntries = 1..(q - 1)
      BY <3>6
    <3> QED BY <3>3, <3>7
  <2> QED BY <2>2, <2>3
<1>5. PICK m \in 0..Len(journal) : LinkedEntries = 1..m
  BY <1>4
<1>6. ASSUME NEW j \in 1..m PROVE \E i \in LinkedRows : Rank(i) = j
  <2>1. PICK l \in links : l[2] = j
    BY <1>5 DEF LinkedEntries
  <2> QED BY <1>2, <2>1 DEF LinkedRows
<1>7. ASSUME NEW i \in Linkable PROVE i \in LinkedRows <=> Rank(i) <= m
  <2>1. ASSUME i \in LinkedRows PROVE Rank(i) <= m
    <3>1. PICK l \in links : l[1] = i
      BY <2>1 DEF LinkedRows
    <3>2. l[2] \in 1..m
      BY <1>5 DEF LinkedEntries
    <3> QED BY <1>1, <1>2, <3>1, <3>2
  <2>2. ASSUME Rank(i) <= m PROVE i \in LinkedRows
    <3>1. Rank(i) \in 1..m
      BY <1>1, <2>2, RowsAre
    <3>2. PICK k \in LinkedRows : Rank(k) = Rank(i)
      BY <1>6, <3>1
    <3>3. k \in Linkable
      BY <1>3
    <3>4. ~(i < k) /\ ~(k < i) /\ i \in Nat /\ k \in Nat
      <4>1. Rank(i) \in Nat /\ i \in Nat /\ k \in Nat
        BY <3>3, RowsAre
      <4>2. (i < k <=> Rank(i) < Rank(k)) /\ (k < i <=> Rank(k) < Rank(i))
        BY <3>3, RowsAre
      <4> QED BY <3>2, <4>1, <4>2
    <3>5. i = k
      BY <3>4
    <3> QED BY <3>5
  <2> QED BY <2>1, <2>2
<1>8. Available = Linkable \ LinkedRows
  BY DEF Available, Linkable
<1> QED BY <1>3, <1>5, <1>6, <1>7, <1>8

(* So the links that a call is to store are right, in the journal with the *)
(* entries that it writes.                                                 *)
LEMMA NewRight ==
    ASSUME LiveTyped, LiveTyped', JournalTyped, LinksRight, rows' = rows,
           \A j \in Pending : (j..Len(journal)) \subseteq Pending,
           journal' \in Seq(Entry), Len(journal) <= Len(journal'), Provable(journal'),
           NEW l \in NewLinks(journal')
    PROVE  Right(l)'
<1>1. PICK m \in 0..Len(journal) :
          /\ LinkedEntries = 1..m
          /\ LinkedRows \in SUBSET Linkable /\ Available = Linkable \ LinkedRows
          /\ \A i \in Linkable : i \in LinkedRows <=> Rank(i) <= m
          /\ \A j \in 1..m : \E i \in LinkedRows : Rank(i) = j
  BY LinkedFirst
<1> DEFINE N == Len(journal')
           U == DOMAIN journal' \ LinkedEntries
<1>2. N \in Nat /\ Len(journal) \in Nat /\ m \in Nat /\ m <= N /\ DOMAIN journal' = 1..N
  BY DEF JournalTyped
<1>3. U = (m + 1)..N
  BY <1>1, <1>2
<1>4. PICK j \in U : l = <<Nth(Available, Cardinality({k \in U : k <= j})), j>>
  BY DEF NewLinks
<1>5. j \in Nat /\ m < j /\ j <= N /\ j - m \in Nat /\ j - m > 0
  BY <1>2, <1>3
<1>6. Cardinality({k \in U : k <= j}) = j - m
  <2>1. {k \in U : k <= j} = (m + 1)..j
    BY <1>2, <1>3, <1>5
  <2>2. Cardinality((m + 1)..j) = j - m
    BY <1>2, <1>5, Between
  <2> QED BY <2>1, <2>2
<1>7. Cardinality(U) = N - m
  <2> HIDE DEF N
  <2>1. Cardinality((m + 1)..N) = N - m
    BY <1>2, Between
  <2> QED BY <1>3, <2>1
<1>8. Cardinality(U) <= Cardinality(Available) /\ rows[l[1]] = journal'[l[2]]
  BY DEF Provable
<1>9. Len(rows) \in Nat /\ Linkable \in SUBSET (1..Len(rows)) /\ Available \in SUBSET (1..Len(rows))
  BY <1>1, RowsAre
<1>10. j - m \in 1..Cardinality(Available)
  <2>1. Cardinality(Available) \in Nat
    BY <1>9, UptoFinite
  <2> QED BY <1>2, <1>5, <1>7, <1>8, <2>1
<1>0. PICK i : i = Nth(Available, j - m)
  OBVIOUS
<1>11. i \in Available /\ Cardinality(Upto(Available, i)) = j - m
  BY <1>0, <1>9, <1>10, NthIs
<1>12. l[1] = i /\ l[2] = j /\ l = <<i, j>>
  BY <1>0, <1>4, <1>6
<1> HIDE DEF U, N
<1>13. i \in Linkable \ LinkedRows
  BY <1>1, <1>11
<1>14. Rank(i) = m + Cardinality(Upto(Linkable \ LinkedRows, i))
  <2>1. Leads(Linkable, LinkedRows, m)
    BY <1>1 DEF Leads, Rank
  <2>2. LinkedRows \in SUBSET Linkable
    BY <1>1
  <2>3. Cardinality(Upto(Linkable, i)) = m + Cardinality(Upto(Linkable \ LinkedRows, i))
    <3>1. Len(rows) \in Nat /\ Linkable \in SUBSET (1..Len(rows)) /\ m \in Nat
      BY <1>2, <1>9
    <3> QED BY <1>13, <2>1, <2>2, <3>1, PlaceLeft, ZenonT(30)
  <2> QED BY <2>3 DEF Rank
<1>15. Rank(i) = j
  BY <1>1, <1>2, <1>5, <1>11, <1>14
<1>16. Linkable' = Linkable
  BY DEF Linkable
<1>17. Rank(i)' = Rank(i)
  BY <1>16 DEF Rank
<1>18. i \in Linkable' /\ j \in DOMAIN journal'
  BY <1>2, <1>5, <1>13, <1>16
<1> QED BY <1>8, <1>12, <1>15, <1>17, <1>18 DEF Right

(* What a call may do with the journal: leave it, store links, write.      *)
Leaves(c) == journal' = journal /\ links' = links /\ todo' \in {todo, [todo EXCEPT ![c] = {}]}

Stores(c) == journal' = journal /\ links' \in SUBSET (links \cup todo[c]) /\ todo' = [todo EXCEPT ![c] = {}]

Writes(c) ==
    /\ rows' = rows /\ links' = links /\ journal' \in Seq(Entry) /\ Len(journal) <= Len(journal')
    /\ \A k \in 1..Len(journal) : journal'[k] = journal[k]
    /\ \A j \in Pending : (j..Len(journal)) \subseteq Pending
    /\ Provable(journal') /\ todo' = [todo EXCEPT ![c] = NewLinks(journal')]

LEMMA WriteJournals ==
    ASSUME JournalTyped, NEW c \in Callers, NEW new \in Seq(Entry), NEW label, Write(c, new, label)
    PROVE  Leaves(c) \/ Writes(c)
<1>1. CASE Returns(c) /\ UNCHANGED stored
  BY <1>1 DEF Returns, stored, Leaves
<1>2. CASE ~(Returns(c) /\ UNCHANGED stored)
  <2>1. /\ journal' = journal \o new /\ Provable(journal \o new) /\ rows' = rows /\ links' = links
        /\ \A j \in Pending : (j..Len(journal)) \subseteq Pending
        /\ todo' = [todo EXCEPT ![c] = NewLinks(journal \o new)]
    BY <1>2 DEF Write
  <2>2. journal \in Seq(Entry)
    BY DEF JournalTyped
  <2>3. journal' \in Seq(Entry) /\ Len(journal) <= Len(journal') /\ \A k \in 1..Len(journal) : journal'[k] = journal[k]
    BY <2>1, <2>2
  <2> QED BY <2>1, <2>3 DEF Writes
<1> QED BY <1>1, <1>2

LEMMA JournalMove ==
    ASSUME LiveTyped, Placed, JournalTyped, NEW c \in Callers, Moves(c)
    PROVE  Leaves(c) \/ Stores(c) \/ Writes(c)
<1>1. Returns(c) /\ UNCHANGED <<journal, links>> => Leaves(c)
  BY DEF Returns, Leaves
<1>2. UNCHANGED <<journal, links, todo>> => Leaves(c)
  BY DEF Leaves
<1>3. \A ev, x, label : Step(c, ev, x, label) => Leaves(c)
  BY <1>1, <1>2 DEF Step, stored
<1>4. \A ev, x : LastStep(c, ev, x) => Leaves(c)
  BY <1>1 DEF LastStep
<1>5. CASE Call(c) \/ ChoosePage(c) \/ DelayOver(c) \/ Rebegin(c) \/ Begin(c) \/ Approve(c) \/ Claim(c)
  BY <1>1, <1>2, <1>3, <1>5 DEF Call, ChoosePage, DelayOver, Rebegin, Begin, Approve, Claim, stored
<1>6. CASE Secrets(c) \/ NoSecrets(c) \/ Dispatch(c) \/ Fail(c) \/ Accept(c) \/ Store(c) \/ StoreFails(c)
  BY <1>1, <1>3, <1>4, <1>6 DEF Secrets, NoSecrets, Dispatch, Fail, Accept, Store, StoreFails, stored
<1>7. CASE AdmitPage(c) \/ RefusePage(c) \/ Close(c)
  BY <1>1, <1>3, <1>7 DEF AdmitPage, RefusePage, Close, stored
<1>8. CASE Link(c)
  <2>1. links' \in SUBSET (links \cup todo[c]) /\ journal' = journal
    BY <1>8 DEF Link
  <2>2. todo' = [todo EXCEPT ![c] = {}]
    BY <1>8 DEF Link, Returns
  <2> QED BY <2>1, <2>2 DEF Stores
<1>9. CASE Evidence(c) \/ PageEntry(c) \/ ChainEntry(c)
  <2>1. machine[c] \in Snapshot
    BY <1>9, LiveFields DEF Placed, Evidence, PageEntry, ChainEntry
  <2>2. {"attempt-started", "request-succeeded", "artifact-committed", "artifact-verified", "page-checkpointed",
         "chain-complete"} \subseteq CheckpointKinds
    BY DEF CheckpointKinds, CheckpointOf
  <2>3. \A k \in {"attempt-started", "request-succeeded", "artifact-committed", "artifact-verified", "page-checkpointed",
                  "chain-complete"} : Checkpoint(k, machine[c]) \in Entry
    BY <2>1, <2>2, EntryOf
  <2>4. \E new \in Seq(Entry) : \E label : Write(c, new, label)
    <3>1. CASE Evidence(c)
      <4> DEFINE new == <<Checkpoint("attempt-started", machine[c]), Checkpoint("request-succeeded", machine[c]),
                          Checkpoint("artifact-committed", machine[c]), Checkpoint("artifact-verified", machine[c])>>
      <4>1. new \in Seq(Entry)
        BY <2>3
      <4>2. Write(c, new, "link evidence")
        BY <3>1 DEF Evidence
      <4> HIDE DEF new
      <4> QED BY <4>1, <4>2
    <3>2. CASE PageEntry(c)
      <4> DEFINE new == <<Checkpoint("page-checkpointed", machine[c])>>
      <4>1. new \in Seq(Entry)
        BY <2>3
      <4>2. Write(c, new, "link page")
        BY <3>2 DEF PageEntry
      <4> HIDE DEF new
      <4> QED BY <4>1, <4>2
    <3>3. CASE ChainEntry(c)
      <4> DEFINE new == <<Checkpoint("chain-complete", machine[c])>>
      <4>1. new \in Seq(Entry)
        BY <2>3
      <4>2. Write(c, new, "link chain")
        BY <3>3 DEF ChainEntry
      <4> HIDE DEF new
      <4> QED BY <4>1, <4>2
    <3> QED BY <1>9, <3>1, <3>2, <3>3
  <2> QED BY <2>4, WriteJournals
<1> QED BY <1>5, <1>6, <1>7, <1>8, <1>9 DEF Moves

LEMMA LinksMove ==
    ASSUME LiveTyped, LiveTyped', JournalTyped, LinksRight, NEW c \in Callers,
           Leaves(c) \/ Stores(c) \/ Writes(c),
           DOMAIN rows \subseteq DOMAIN rows', \A k \in DOMAIN rows : rows'[k] = rows[k]
    PROVE  /\ JournalTyped' /\ LinksRight' /\ DOMAIN journal \subseteq DOMAIN journal'
           /\ \A k \in DOMAIN journal : journal'[k] = journal[k]
<1>1. journal \in Seq(Entry) /\ todo \in [Callers -> SUBSET (Nat \X Nat)] /\ DOMAIN journal = 1..Len(journal)
      /\ Len(journal) \in Nat
  BY DEF JournalTyped
<1>2. /\ journal' \in Seq(Entry) /\ DOMAIN journal \subseteq DOMAIN journal'
      /\ \A k \in DOMAIN journal : journal'[k] = journal[k]
  <2>1. CASE journal' = journal
    BY <1>1, <2>1
  <2>2. CASE Writes(c)
    BY <1>1, <2>2 DEF Writes
  <2> QED BY <2>1, <2>2 DEF Leaves, Stores
<1>3. \A l : Right(l) => Right(l)'
  BY <1>2, RightKept
<1>4. \A l \in links : Right(l)'
  BY <1>3 DEF LinksRight
<1>5. \A d \in Callers : \A l \in todo[d] : Right(l)'
  BY <1>3 DEF LinksRight
<1>6. \A l \in links' : Right(l)'
  BY <1>4, <1>5 DEF Leaves, Stores, Writes
<1>7. ASSUME NEW d \in Callers PROVE \A l \in todo'[d] : Right(l)'
  <2>1. CASE Leaves(c) \/ Stores(c)
    <3>1. todo'[d] \in {todo[d], {}}
      BY <1>1, <2>1 DEF Leaves, Stores
    <3> QED BY <1>5, <3>1
  <2>2. CASE Writes(c)
    <3>1. todo'[d] = IF d = c THEN NewLinks(journal') ELSE todo[d]
      BY <1>1, <2>2 DEF Writes
    <3>2. \A l \in NewLinks(journal') : Right(l)'
      BY <2>2, NewRight DEF Writes
    <3> QED BY <1>5, <3>1, <3>2
  <2> QED BY <2>1, <2>2
<1>8. LinksRight'
  BY <1>6, <1>7 DEF LinksRight
<1>9. todo' \in [Callers -> SUBSET (Nat \X Nat)]
  <2>1. ASSUME NEW l, Right(l)' PROVE l \in Nat \X Nat
    <3>1. l \in Linkable' \X DOMAIN journal'
      BY <2>1 DEF Right
    <3>2. DOMAIN journal' \subseteq Nat /\ Linkable' \subseteq Nat
      <4>1. rows' \in Seq(Entry)
        BY DEF LiveTyped
      <4> QED BY <1>2, <4>1 DEF Linkable
    <3> QED BY <3>1, <3>2
  <2>2. \A d \in Callers : todo'[d] \in SUBSET (Nat \X Nat)
    BY <1>7, <2>1
  <2>3. todo' = [d \in Callers |-> todo'[d]]
    BY <1>1 DEF Leaves, Stores, Writes
  <2> QED BY <2>2, <2>3
<1> QED BY <1>2, <1>8, <1>9 DEF JournalTyped

-----------------------------------------------------------------------------
(* What a snapshot and a claim rest on.                                    *)

(* No counter is over its limit.                                           *)
Within(s) ==
    /\ s.page \in 0..(successfulPages - 1) /\ s.tries \in 0..attemptsPerLogicalPage
    /\ Len(s.chain) \in 0..successfulPages /\ Len(s.quota) <= attemptsPerAcquisition
    /\ s.id \in AttemptIds \cup {None}

(* The journal names the token of page p.                                  *)
Backed(p, token) ==
    p > 0 => \E j \in DOMAIN journal : /\ journal[j].kind = "page-checkpointed"
                                       /\ journal[j].page = p - 1 /\ journal[j].next = token

Granted(id) == id \in AttemptIds /\ Backed(id[1], id[2])

Reached ==
    /\ \A s \in InUse : Within(s) /\ Backed(s.page, s.token)
    /\ \A k \in DOMAIN claims : Granted(claims[k].id)
    /\ \A c \in Callers : permit[c] # None => permit[c].id \in AttemptIds

LEMMA BackedKept ==
    ASSUME NEW p, NEW token, Backed(p, token),
           DOMAIN journal \subseteq DOMAIN journal', \A k \in DOMAIN journal : journal'[k] = journal[k]
    PROVE  Backed(p, token)'
  BY DEF Backed

LEMMA ContinuesBacked ==
    ASSUME JournalTyped, NEW p \in Nat, NEW token, Continues(p + 1, token)
    PROVE  Backed(p + 1, token)
<1> DEFINE found == {j \in DOMAIN journal : journal[j].kind = "page-checkpointed" /\ journal[j].page = p}
<1>1. p + 1 - 1 = p
  OBVIOUS
<1>2. CheckpointOfPage(p) # 0 /\ journal[CheckpointOfPage(p)].next = token
  BY <1>1 DEF Continues
<1>3. found # {} /\ CheckpointOfPage(p) = CHOOSE j \in found : \A k \in found : k <= j
  BY <1>2 DEF CheckpointOfPage
<1>4. found \in SUBSET (0..Len(journal)) /\ Len(journal) \in Nat
  BY DEF JournalTyped
<1> HIDE DEF found
<1>5. \E j \in found : \A k \in found : k <= j
  BY <1>3, <1>4, GreatestOf
<1>6. CheckpointOfPage(p) \in found
  BY <1>3, <1>5
<1> QED BY <1>1, <1>2, <1>6 DEF Backed, found

LEMMA AttemptWithin ==
    ASSUME NEW s \in Snapshot, Within(s), s.tries < attemptsPerLogicalPage
    PROVE  AttemptId(s) \in AttemptIds
<1>1. s.page \in 0..(successfulPages - 1) /\ s.token \in Tokens \cup {NoToken}
  BY SnapshotFields DEF Within
<1>2. s.tries \in 0..(attemptsPerLogicalPage - 1)
  BY SnapshotFields, LimitFacts
<1> QED BY <1>1, <1>2 DEF AttemptIds, AttemptId

(* What an event stores.                                                   *)
LEMMA StoredReached ==
    ASSUME LiveInv, JournalTyped, Reached, NEW c \in Callers, NEW ev \in Events, NEW x, Carries(ev, x),
           Acts(c, ev, x) \/ Lasts(c, ev, x)
    PROVE  /\ durable' \in Snapshot /\ machine'[c] \in {None, durable'} /\ claims' = claims
           /\ Within(durable') /\ Backed(durable'.page, durable'.token)
<1> DEFINE m == machine[c]
           n == durable'
<1>0. LiveTyped
  BY DEF LiveInv, TurnInv
<1>1. m # None /\ CanApply(c, ev, x) /\ Record(c, ev, x) /\ n = deriveNext(m, ev, x, Clock(c))
      /\ machine'[c] \in {None, n} /\ claims' = claims
  BY DEF Acts, Lasts, Record
<1>2. Changes(m, ev, x, Clock(c), n) /\ n \in Snapshot /\ Permitted(m, ev, x, Clock(c))
  BY <1>0, <1>1, RowOf
<1>3. m \in Snapshot /\ m \in InUse
  BY <1>0, <1>1, LiveFields, UsedSnapshots
<1>4. Within(m) /\ Backed(m.page, m.token)
  BY <1>3 DEF Reached
<1>5. validateSnapshot(n) /\ (ev = "dispatchStarted" => m.tries < attemptsPerLogicalPage)
  BY <1>1, <1>2 DEF Permitted, DispatchAdmitted
<1> HIDE DEF n, m
<1>6. n.id \in AttemptIds \cup {None}
  <2>1. CASE ev = "dispatchStarted"
    <3>1. n.id = AttemptId(m)
      BY <1>2, <2>1 DEF Changes
    <3> QED BY <1>3, <1>4, <1>5, <2>1, <3>1, AttemptWithin
  <2>2. CASE ev = "continueNextPage"
    BY <1>2, <2>2 DEF Changes
  <2>3. CASE ev \notin {"dispatchStarted", "continueNextPage"}
    BY <1>2, <1>4, <2>3 DEF Changes, Within
  <2> QED BY <2>1, <2>2, <2>3
<1>7. Within(n)
  <2>1. Len(n.chain) \in Nat /\ n.tries \in Nat
    BY <1>2, SnapshotFields
  <2> QED BY <1>5, <1>6, <2>1, LimitFacts DEF Within, validateSnapshot
<1>8. Backed(n.page, n.token)
  <2>1. CASE ev = "continueNextPage"
    <3>1. Acts(c, ev, x)
      BY <2>1 DEF Lasts, Stops
    <3>2. Continues(m.page + 1, m.authority)
      BY <2>1, <3>1 DEF Acts, m
    <3>3. n.page = m.page + 1 /\ n.token = m.authority /\ m.page \in Nat
      BY <1>2, <1>3, <2>1, SnapshotFields DEF Changes
    <3> QED BY <3>2, <3>3, ContinuesBacked
  <2>2. CASE ev # "continueNextPage"
    <3>1. n.page = m.page /\ n.token = m.token
      BY <1>2, <2>2 DEF Changes
    <3> QED BY <1>4, <3>1
  <2> QED BY <2>1, <2>2
<1> QED BY <1>1, <1>2, <1>7, <1>8 DEF n

LEMMA ReachedMove ==
    ASSUME LiveInv, JournalTyped, Reached, NEW c \in Callers, Kind(c),
           DOMAIN journal \subseteq DOMAIN journal', \A k \in DOMAIN journal : journal'[k] = journal[k]
    PROVE  Reached'
<1>1. LiveTyped /\ Others(c) /\ claims \in Seq(AClaim)
  BY DEF LiveInv, TurnInv, Kind, LiveTyped
<1>2. \A p, token : Backed(p, token) => Backed(p, token)'
  BY BackedKept
<1>3. \A s \in InUse : Within(s) /\ Backed(s.page, s.token)'
  BY <1>2 DEF Reached
<1>4. \A id : Granted(id) => Granted(id)'
  BY <1>2 DEF Granted
<1>5. CASE Quits(c) \/ Loads(c) \/ Walks(c)
  <2>1. InUse' \subseteq InUse
    BY <1>1, <1>5, InUseAfter
  <2>2. claims' = claims
    BY <1>5 DEF Quits, Loads, Walks, Still
  <2>3. ~Claims(c)
    BY <1>1, <2>2 DEF Claims
  <2>4. \A d \in Callers : permit'[d] \in {permit[d], None}
    BY <1>1, <2>3 DEF Others
  <2>5. \A k \in DOMAIN claims' : Granted(claims[k].id)'
    BY <1>4, <2>2 DEF Reached
  <2>6. \A d \in Callers : permit'[d] # None => permit'[d].id \in AttemptIds
    BY <2>4 DEF Reached
  <2> QED BY <1>3, <2>1, <2>5, <2>6 DEF Reached, Within
<1>6. CASE Claims(c)
  <2>1. InUse' \subseteq InUse /\ Current \in InUse /\ Current \in Snapshot
    BY <1>1, <1>6, InUseAfter, UsedSnapshots
  <2>2. NextAttempt = AttemptId(Current)
    BY DEF NextAttempt, Current
  <2>3. Current.state \in {"declared", "dispatch-ready"}
    BY <1>6 DEF Claims, Claimable, Current, createInitialAcquisitionSnapshot
  <2>4. Current.tries < attemptsPerLogicalPage
    BY <2>1, <2>3 DEF LiveInv, Delayed, Patient, Before
  <2>5. NextAttempt \in AttemptIds
    BY <1>3, <2>1, <2>2, <2>4, AttemptWithin
  <2>6. NextAttempt[1] = Current.page /\ NextAttempt[2] = Current.token
    BY <2>2 DEF AttemptId
  <2>7. PICK id : id = NextAttempt
    OBVIOUS
  <2>8. Granted(id)' /\ id \in AttemptIds
    <3>1. Backed(id[1], id[2])
      BY <2>1, <2>6, <2>7 DEF Reached
    <3> QED BY <1>4, <2>5, <2>7, <3>1 DEF Granted
  <2>9. claims' = Append(claims, [id |-> id, at |-> Clock(c)]) /\ permit'[c].id = id
    BY <1>6, <2>7 DEF Claims
  <2>10. ASSUME NEW k \in DOMAIN claims' PROVE Granted(claims[k].id)'
    <3>1. PICK a : a = claims'[k].id
      OBVIOUS
    <3>2. (k \in DOMAIN claims /\ a = claims[k].id) \/ a = id
      BY <1>1, <2>9, <3>1
    <3>3. Granted(a)'
      BY <1>4, <2>8, <3>2 DEF Reached
    <3> QED BY <3>1, <3>3
  <2>11. \A d \in Callers : permit'[d] # None => permit'[d].id \in AttemptIds
    BY <1>1, <2>8, <2>9 DEF Others, Reached
  <2> QED BY <1>3, <2>1, <2>10, <2>11 DEF Reached, Within
<1>7. ASSUME NEW ev \in Events, NEW x, Carries(ev, x), Acts(c, ev, x) \/ Lasts(c, ev, x) PROVE Reached'
  <2>1. /\ durable' \in Snapshot /\ machine'[c] \in {None, durable'} /\ claims' = claims
        /\ Within(durable') /\ Backed(durable'.page, durable'.token)
    BY <1>7, StoredReached
  <2>2. InUse' \subseteq InUse \cup {durable'}
    BY <1>1, <2>1, InUseStored
  <2>3. PICK s : s = durable'
    OBVIOUS
  <2>4. Within(s) /\ Backed(s.page, s.token)'
    BY <1>2, <2>1, <2>3
  <2>5. ~Claims(c)
    BY <1>1, <2>1 DEF Claims
  <2>6. \A d \in Callers : permit'[d] \in {permit[d], None}
    BY <1>1, <2>5 DEF Others
  <2>7. \A k \in DOMAIN claims' : Granted(claims[k].id)'
    BY <1>4, <2>1 DEF Reached
  <2>8. \A d \in Callers : permit'[d] # None => permit'[d].id \in AttemptIds
    BY <2>6 DEF Reached
  <2> QED BY <1>3, <2>2, <2>3, <2>4, <2>7, <2>8 DEF Reached, Within
<1> QED BY <1>5, <1>6, <1>7 DEF Kind

JournalInv == LiveInv /\ JournalTyped /\ LinksRight /\ Reached

LEMMA JournalInit == Init => JournalInv
<1> SUFFICES ASSUME Init PROVE JournalInv
  OBVIOUS
<1>1. LiveInv
  BY LiveInit
<1>2. journal \in Seq(Entry) /\ todo \in [Callers -> SUBSET (Nat \X Nat)]
  BY DEF Init
<1>3. links = {} /\ \A c \in Callers : todo[c] = {}
  BY DEF Init
<1>4. InUse = {createInitialAcquisitionSnapshot}
  <2>1. Current = createInitialAcquisitionSnapshot /\ \A c \in Callers : machine[c] = None
    BY DEF Init, Current
  <2>2. createInitialAcquisitionSnapshot # None
    BY InitialSnapshot, SnapshotAssumption
  <2> QED BY <2>1, <2>2 DEF InUse
<1>5. Within(createInitialAcquisitionSnapshot) /\ Backed(0, NoToken)
  BY LimitFacts DEF Within, Backed, createInitialAcquisitionSnapshot
<1>6. createInitialAcquisitionSnapshot.page = 0 /\ createInitialAcquisitionSnapshot.token = NoToken
  BY DEF createInitialAcquisitionSnapshot
<1>7. DOMAIN claims = {} /\ \A c \in Callers : permit[c] = None
  BY DEF Init
<1> QED BY <1>1, <1>2, <1>3, <1>4, <1>5, <1>6, <1>7 DEF JournalInv, JournalTyped, LinksRight, Reached

(* A step that is of a kind, and does one of these things with the journal.*)
LEMMA JournalKept ==
    ASSUME JournalInv, LiveInv', NEW c \in Callers, Kind(c), Leaves(c) \/ Stores(c) \/ Writes(c)
    PROVE  JournalInv'
<1>1. LiveTyped /\ LiveTyped' /\ TurnInv
  BY DEF JournalInv, LiveInv, TurnInv
<1>2. DOMAIN rows \subseteq DOMAIN rows' /\ \A k \in DOMAIN rows : rows'[k] = rows[k]
  BY <1>1, Grows
<1>3. /\ JournalTyped' /\ LinksRight' /\ DOMAIN journal \subseteq DOMAIN journal'
      /\ \A k \in DOMAIN journal : journal'[k] = journal[k]
  BY <1>1, <1>2, LinksMove DEF JournalInv
<1>4. Reached'
  BY <1>3, ReachedMove DEF JournalInv
<1> QED BY <1>3, <1>4 DEF JournalInv

LEMMA JournalStep == JournalInv /\ [Next]_vars => JournalInv'
<1> SUFFICES ASSUME JournalInv, [Next]_vars PROVE JournalInv'
  OBVIOUS
<1>1. LiveInv' /\ LiveInv /\ TurnInv /\ LiveTyped /\ Placed /\ JournalTyped
  BY LiveStep DEF JournalInv, LiveInv, TurnInv
<1>2. ASSUME NEW c \in Callers, Moves(c) PROVE JournalInv'
  <2>1. Kind(c)
    BY <1>1, <1>2, MoveKind
  <2>2. Leaves(c) \/ Stores(c) \/ Writes(c)
    BY <1>1, <1>2, JournalMove
  <2> QED BY <1>1, <2>1, <2>2, JournalKept
<1>3. ASSUME NEW c \in Callers, Crash(c) PROVE JournalInv'
  <2>1. Kind(c)
    BY <1>1, <1>3, CrashTurn DEF Kind
  <2>2. Leaves(c)
    BY <1>3 DEF Crash, Returns, stored, Leaves
  <2> QED BY <1>1, <2>1, <2>2, JournalKept
<1>4. ASSUME UNCHANGED <<durable, rows, claims, journal, links, machine, permit, todo>> PROVE JournalInv'
  <2>1. InUse' = InUse
    BY <1>4 DEF InUse, Current
  <2>2. JournalTyped'
    BY <1>1, <1>4 DEF JournalTyped
  <2>3. \A l : Right(l) => Right(l)'
    BY <1>4 DEF Right, Rank, Linkable
  <2>4. LinksRight'
    BY <1>4, <2>3 DEF JournalInv, LinksRight
  <2>5. /\ \A p, token : Backed(p, token) => Backed(p, token)'
        /\ \A id : Granted(id) => Granted(id)'
    BY <1>4 DEF Backed, Granted
  <2>6. \A s \in InUse' : (Within(s) /\ Backed(s.page, s.token))'
    BY <2>1, <2>5 DEF JournalInv, Reached, Within
  <2>7. \A k \in DOMAIN claims' : Granted(claims[k].id)'
    BY <1>4, <2>5 DEF JournalInv, Reached
  <2>8. Reached'
    BY <1>4, <2>6, <2>7 DEF JournalInv, Reached
  <2> QED BY <1>1, <2>2, <2>4, <2>8 DEF JournalInv
<1>5. CASE Tick \/ UNCHANGED vars
  BY <1>4, <1>5 DEF Tick, vars, stored, local
<1>6. ASSUME NEW c \in Callers, Send(c) PROVE JournalInv'
  BY <1>4, <1>6 DEF Send, stored
<1> QED BY <1>2, <1>3, <1>5, <1>6 DEF Next

(* What the journal says of the attempts is true: counters                 *)
(* stay within the limits of validateSnapshot, an attempt of a later page  *)
(* is sent only after the journal names its token (ownedContinuationPage), *)
(* and links pair rows and entries that are equal, one to one and in       *)
(* order, though processes may interleave between the write of an entry    *)
(* and the commit of its link, or crash there.                             *)
THEOREM JournalIsSound == Spec => []JournalSound
<1>1. JournalInv => JournalSound
  <2> SUFFICES ASSUME JournalInv PROVE JournalSound
    OBVIOUS
  <2>1. LiveTyped /\ TurnInv /\ Known /\ Reached /\ LinksRight
    BY DEF JournalInv, LiveInv, TurnInv
  <2>2. \A l \in links : Right(l)
    BY <2>1 DEF LinksRight
  <2>3. TypeOK
    <3>1. durable # None =>
              /\ durable.state \in States
              /\ durable.page \in 0..(successfulPages - 1)
              /\ durable.tries \in 0..attemptsPerLogicalPage
              /\ Len(durable.chain) \in 0..successfulPages
              /\ Len(durable.quota) <= attemptsPerAcquisition
              /\ durable.consumed \subseteq Tokens
              /\ durable.id \in AttemptIds \cup {None}
      <4> SUFFICES ASSUME durable # None PROVE durable \in Snapshot /\ Within(durable)
        BY SnapshotFields DEF Within
      <4> QED BY <2>1, UsedSnapshots DEF Reached
    <3>2. links \subseteq (DOMAIN rows) \X (DOMAIN journal)
      BY <2>2 DEF Right, Linkable
    <3> QED BY <2>1, <3>1, <3>2 DEF TypeOK, Reached, Granted
  <2>4. ChainInOrder
    <3>1. ASSUME NEW i \in DOMAIN sent PROVE Backed(sent[i].id[1], sent[i].id[2])
      <4>1. PICK k \in 1..Dispatches : claims[k].id = sent[i].id
        BY <2>1 DEF Known
      <4>2. k \in DOMAIN claims
        BY <2>1, ClaimFacts, DispatchCount DEF TurnInv, Ticketed
      <4> QED BY <2>1, <4>1, <4>2 DEF Reached, Granted
    <3> QED BY <3>1 DEF ChainInOrder, Backed
  <2>5. LinksAgree
    <3>1. \A l \in links : l[1] \in Linkable /\ Rank(l[1]) = l[2] /\ rows[l[1]] = journal[l[2]]
      BY <2>2 DEF Right
    <3>2. \A i, k \in Linkable : i < k <=> Rank(i) < Rank(k)
      BY <2>1, RowsAre
    <3> QED BY <3>1, <3>2 DEF LinksAgree
  <2> QED BY <2>3, <2>4, <2>5 DEF JournalSound
<1> QED BY <1>1, JournalInit, JournalStep, PTL DEF Spec
=============================================================================
