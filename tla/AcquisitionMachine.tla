------------------------- MODULE AcquisitionMachine -------------------------
(***************************************************************************)
(* The state machine of a market acquisition                               *)
(* (adapters/market-acquisition/state-machine.ts, with quota.ts and        *)
(* retry.ts): a pure function of a snapshot and an event.  An event is     *)
(* named after the method that applies it, without "production"; its       *)
(* payload x is the failure, the reason, the next token or the number of   *)
(* facts.  Identities and hashes stand for what they are taken of: an      *)
(* attempt is its page, token and ordinal, the page chain the sequence of  *)
(* the pages admitted.  Every page has size and record count one.  The     *)
(* acquisition is declared at time 0.                                      *)
(***************************************************************************)
EXTENDS Integers, Sequences, FiniteSets

CONSTANTS
    Tokens,                  \* page tokens of the provider
    NoToken,                 \* the token of page 0
    Terminal,                \* the next token of the last page
    None,
    successfulPages, attemptsPerLogicalPage, attemptsPerAcquisition, normalizedFacts,
    rateAttempts, rateWindowMs, attemptDeadlineMs, acquisitionDeadlineMs,
    RetryDelays,             \* RETRY_DELAYS_MS
    RetryAfters,             \* delays that a throttled response may ask for
    Reasons                  \* reasons that a caller gives for the end

ASSUME LimitsAssumption ==
    /\ {successfulPages, attemptsPerLogicalPage, attemptsPerAcquisition, normalizedFacts,
        rateAttempts, rateWindowMs, attemptDeadlineMs, acquisitionDeadlineMs} \subseteq Nat \ {0}
    /\ RetryDelays \in Seq(Nat \ {0})
    /\ Len(RetryDelays) = attemptsPerLogicalPage - 1
    /\ RetryAfters \subseteq Nat

ASSUME MarksAssumption ==
    /\ NoToken # Terminal /\ NoToken # None /\ Terminal # None
    /\ {NoToken, Terminal, None} \cap (Tokens \cup Nat) = {}

Most(a, b) == IF a < b THEN b ELSE a

TerminalStates == {"completed", "stopped", "failed-clean", "quarantined"}

\* ACQUISITION_TRANSITIONS.
Edges ==
    UNION {{"declared"} \X {"preflighting"},
           {"preflighting"} \X {"dispatch-ready", "stopped", "failed-clean"},
           {"dispatch-ready"} \X {"credential-ready", "stopped"},
           {"credential-ready"} \X {"attempt-active"},
           {"attempt-active"} \X {"waiting-retry", "response-accepted", "stopped", "failed-clean"},
           {"response-accepted"} \X {"artifact-committing", "failed-clean"},
           {"artifact-committing"} \X {"artifact-committed", "failed-clean"},
           {"artifact-committed"} \X {"artifact-verifying"},
           {"artifact-verifying"} \X {"page-verified", "failed-clean", "quarantined"},
           {"page-verified"} \X {"checkpointing"},
           {"checkpointing"} \X {"chain-complete", "preflighting", "failed-clean"},
           {"waiting-retry"} \X {"preflighting", "stopped"},
           {"chain-complete"} \X {"normalizing"},
           {"normalizing"} \X {"ready-for-selection", "quarantined", "failed-clean"},
           {"ready-for-selection"} \X {"selecting"},
           {"selecting"} \X {"completed", "failed-clean", "quarantined"}}

\* EVENT_TARGETS.
Target ==
    [beginPreflight |-> "preflighting",
     approvePreflight |-> "dispatch-ready",
     preflightStopped |-> "stopped",
     preflightFailed |-> "failed-clean",
     credentialsLoaded |-> "credential-ready",
     credentialUnavailable |-> "stopped",
     dispatchStarted |-> "attempt-active",
     retryCleanup |-> "waiting-retry",
     retryDelayElapsed |-> "preflighting",
     responseAccepted |-> "response-accepted",
     attemptStopped |-> "stopped",
     attemptFailed |-> "failed-clean",
     artifactStoreStarted |-> "artifact-committing",
     artifactStoreCommitted |-> "artifact-committed",
     artifactStoreFailed |-> "failed-clean",
     artifactVerificationStarted |-> "artifact-verifying",
     pageVerified |-> "page-verified",
     pageVerificationFailed |-> "failed-clean",
     pageQuarantined |-> "quarantined",
     pageCheckpointed |-> "checkpointing",
     continueNextPage |-> "preflighting",
     terminalPageAdmitted |-> "chain-complete",
     normalizationStarted |-> "normalizing",
     normalizationCompleted |-> "ready-for-selection",
     normalizationFailed |-> "failed-clean",
     normalizationQuarantined |-> "quarantined",
     selectionStarted |-> "selecting",
     selectionCompleted |-> "completed",
     selectionFailed |-> "failed-clean",
     selectionQuarantined |-> "quarantined",
     policyStopped |-> "stopped"]

Events == DOMAIN Target
States == {"declared"} \cup {Target[ev] : ev \in Events}
Ends == {ev \in Events : Target[ev] \in TerminalStates}

\* CHECKPOINT_FOR_EVENT: an event that ends the acquisition is recorded by the
\* name of the state it ends in.
CheckpointOf ==
    [beginPreflight |-> "acquisition-declared",
     approvePreflight |-> "request-started",
     dispatchStarted |-> "attempt-started",
     responseAccepted |-> "request-succeeded",
     artifactStoreCommitted |-> "artifact-committed",
     pageVerified |-> "artifact-verified",
     pageCheckpointed |-> "page-checkpointed",
     terminalPageAdmitted |-> "chain-complete",
     normalizationStarted |-> "normalization-started",
     normalizationCompleted |-> "normalization-complete",
     selectionStarted |-> "selection-started"]

CheckpointKinds == TerminalStates \cup {CheckpointOf[ev] : ev \in DOMAIN CheckpointOf}

ASSUME KindsAssumption == None \notin CheckpointKinds

checkpointForEvent(s, ev) ==
    IF ev \in Ends THEN Target[ev]
    ELSE IF ev \in DOMAIN CheckpointOf /\ (ev = "approvePreflight" => s.page = 0 /\ s.quota = <<>>)
    THEN CheckpointOf[ev]
    ELSE None

-----------------------------------------------------------------------------
(* Quota and retries.                                                      *)

\* Mutant: the window is one short.
Recent_Short(starts, t) == {i \in DOMAIN starts : starts[i] > t - rateWindowMs + 1}

\* The attempts started within the rate window that ends at t.
Recent(starts, t) == {i \in DOMAIN starts : starts[i] > t - rateWindowMs}

\* evaluateRollingQuota admits.
QuotaAdmits(starts, t) ==
    /\ \A i \in DOMAIN starts : starts[i] <= t
    /\ Cardinality(Recent(starts, t)) < rateAttempts

\* A failure is the delay that it asks for at least, or None if it is not to be
\* retried; one whose clean-up is not proved is among those.
Failures == {None, 0} \cup RetryAfters

\* decideRetry: attempts are left, of the page and of the acquisition.
MayRetry(s, failure) ==
    /\ failure # None
    /\ s.tries \in 1..(attemptsPerLogicalPage - 1)
    /\ Len(s.quota) < attemptsPerAcquisition

\* Mutant: what the provider asks for replaces the project's delay.
retryDelay_Asked(s, failure) == failure

retryDelay(s, failure) == Most(RetryDelays[s.tries], failure)

retryFits(t, delay) == t + delay + attemptDeadlineMs <= acquisitionDeadlineMs

-----------------------------------------------------------------------------
(* Snapshots.                                                              *)

\* A page admitted to the chain.
PageRow == [page : Nat, token : Tokens \cup {NoToken}, next : Tokens \cup {Terminal}]

\* AcquisitionMachineSnapshot: where the acquisition is, the attempt under way, the
\* pages admitted and the token that the last one named, the starts of all attempts.
Snapshot ==
    [state : States, laneDisabled : BOOLEAN, reason : Reasons \cup Events \cup {None},
     page : Nat, tries : Nat,
     id : (Nat \X (Tokens \cup {NoToken}) \X Nat) \cup {None}, token : Tokens \cup {NoToken},
     consumed : SUBSET Tokens, chain : Seq(PageRow), authority : Tokens \cup {None},
     facts : Nat, quota : Seq(Nat), last : Nat, delay : Nat \cup {None}]

ASSUME SnapshotAssumption == None \notin Snapshot

createInitialAcquisitionSnapshot ==
    [state |-> "declared", laneDisabled |-> FALSE, reason |-> None, page |-> 0, tries |-> 0,
     id |-> None, token |-> NoToken, consumed |-> {}, chain |-> <<>>, authority |-> None,
     facts |-> 0, quota |-> <<>>, last |-> 0, delay |-> None]

validateSnapshot(s) ==
    /\ s.page \in 0..(successfulPages - 1) /\ Len(s.chain) <= successfulPages
    /\ s.tries <= attemptsPerLogicalPage /\ Len(s.quota) <= attemptsPerAcquisition
    /\ s.facts <= normalizedFacts
    /\ (s.page = 0) <=> (s.token = NoToken)
    /\ \A i \in DOMAIN s.quota : s.quota[i] <= s.last /\ (i > 1 => s.quota[i - 1] <= s.quota[i])
    /\ (s.reason # None) <=> (s.state \in TerminalStates \ {"completed"})

\* terminalReasonForEvent, with the reasons that are not the caller's by their event.
terminalReasonForEvent(ev, x) ==
    IF ev \in {"preflightStopped", "preflightFailed", "attemptStopped", "attemptFailed", "policyStopped"} THEN x
    ELSE IF ev \in Ends \ {"selectionCompleted"} THEN ev ELSE None

AttemptId(s) == <<s.page, s.token, s.tries>>

DispatchAdmitted(s, t) ==
    /\ ~s.laneDisabled
    /\ t < acquisitionDeadlineMs
    /\ s.tries < attemptsPerLogicalPage
    /\ Len(s.quota) < attemptsPerAcquisition
    /\ QuotaAdmits(s.quota, t)

\* Mutant: a token that was used before is followed again.
ContinuationAdmitted_Reused(s) == s.authority # None

ContinuationAdmitted(s) == s.authority # None /\ s.authority \notin s.consumed

deriveNext(s, ev, x, t) ==
    LET next == [s EXCEPT !.state = Target[ev], !.reason = terminalReasonForEvent(ev, x), !.last = t]
    IN  CASE ev = "dispatchStarted" ->
                 [next EXCEPT !.tries = @ + 1, !.id = AttemptId(s), !.quota = Append(@, t)]
          [] ev = "retryCleanup" -> [next EXCEPT !.delay = retryDelay(s, x)]
          [] ev = "retryDelayElapsed" -> [next EXCEPT !.delay = None]
          [] ev = "pageCheckpointed" ->
                 [next EXCEPT !.chain = Append(@, [page |-> s.page, token |-> s.token, next |-> x]),
                              !.authority = IF x = Terminal THEN None ELSE x]
          [] ev = "continueNextPage" ->
                 [next EXCEPT !.page = @ + 1, !.tries = 0, !.id = None, !.token = s.authority,
                              !.consumed = @ \cup {s.authority}, !.authority = None]
          [] ev = "normalizationCompleted" -> [next EXCEPT !.facts = x]
          [] ev = "attemptStopped" ->
                 [next EXCEPT !.laneDisabled = @ \/ x \in {"lane-disabled", "quota-exhausted"}]
          [] OTHER -> next

\* deriveAcquisitionTransition does not throw.  An event to waiting-retry, chain-complete
\* or an end without the proof that its resources are settled is refused too: it is no step.
Permitted(s, ev, x, t) ==
    /\ s.last <= t
    /\ <<s.state, Target[ev]>> \in Edges
    /\ ev = "dispatchStarted" => DispatchAdmitted(s, t)
    /\ ev = "retryCleanup" => MayRetry(s, x) /\ retryFits(t, retryDelay(s, x))
    /\ ev = "retryDelayElapsed" => s.delay # None /\ t - s.last >= s.delay
    /\ ev = "continueNextPage" => ContinuationAdmitted(s)
    /\ ev = "terminalPageAdmitted" => s.authority = None
    /\ validateSnapshot(deriveNext(s, ev, x, t))
=============================================================================
