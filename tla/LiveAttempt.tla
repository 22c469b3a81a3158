---------------------------- MODULE LiveAttempt ----------------------------
(***************************************************************************)
(* A live market acquisition (adapters/market-acquisition): a chain of     *)
(* pages, fetched one attempt per call of                                  *)
(* AlpacaProductionAttemptBoundary.execute.  A call loads the snapshot of  *)
(* the acquisition, claims an attempt, records every step as a transition  *)
(* row, sends one request and copies the evidence of a verified page into  *)
(* the journal.  Processes that share the database may call at the same    *)
(* time; every await ends a step.  What is in SQLite survives a crash.     *)
(*                                                                         *)
(* Hashes stand for what they are taken of: an attempt is its page, token  *)
(* and ordinal, a checkpoint is the record of the fields that are compared.*)
(* The acquisition is declared at time 0; the two entries that seed the    *)
(* journal are left out.                                                   *)
(***************************************************************************)
EXTENDS AcquisitionMachine

CONSTANTS
    Callers,                 \* processes, each with one call at a time
    MaxTime,                 \* bound: how far time goes
    MaxSkew,                 \* bound: how far the clock of a process is ahead
    MaxCrashes               \* bound: crashes

ASSUME BoundsAssumption == {MaxTime, MaxSkew, MaxCrashes} \subseteq Nat
ASSUME ReasonsAssumption == "request-failed" \in Reasons

VARIABLES
    durable,   \* the snapshot in the last transition row, or None
    rows,      \* the transition rows that carry a checkpoint
    claims,    \* the attempts claimed, and when
    journal,   \* the acquisition journal
    links,     \* which row proves which journal entry
    pc,        \* where each call is
    machine,   \* its snapshot, or None
    page,      \* the page that its request asks for
    permit,    \* the attempt that it has claimed, and until when it may be sent
    wake,      \* when its retry delay is over
    known,     \* the journal entries that it has written or found
    todo,      \* links that it has yet to store
    now,       \* time
    skew,      \* how far the clock of each process is ahead
    crashes,
    sent       \* ghost: the requests sent

stored == <<durable, rows, claims, journal, links>>
local == <<pc, machine, page, permit, wake, known, todo>>
vars == <<stored, local, now, skew, crashes, sent>>

Clock(c) == now + skew[c]

Least(a, b) == IF a < b THEN a ELSE b

-----------------------------------------------------------------------------
(* The transition rows (credentials.ts).                                   *)

\* loadOwnedAcquisitionStateSnapshot: there is nothing to load before the first claim.
Loaded == IF claims = <<>> THEN None ELSE IF durable = None THEN createInitialAcquisitionSnapshot ELSE durable

\* What a checkpoint binds, of a row and of the journal entry that it proves.
Checkpoint(kind, s) ==
    [kind |-> kind, id |-> s.id, page |-> s.page, token |-> s.token, pages |-> Len(s.chain), quota |-> s.quota,
     next |-> IF kind # "page-checkpointed" THEN None
              ELSE IF s.authority = None THEN Terminal ELSE s.authority]

\* persistOwnedAcquisitionTransition compares the name of the state, no more.
Persistable(s, t) ==
    /\ t < acquisitionDeadlineMs
    /\ s.state = (IF durable = None THEN "declared" ELSE durable.state)

CanApply(c, ev, x) == Permitted(machine[c], ev, x, Clock(c)) /\ Persistable(machine[c], Clock(c))

\* The row is stored.
Record(c, ev, x) ==
    LET next == deriveNext(machine[c], ev, x, Clock(c))
        kind == checkpointForEvent(machine[c], ev)
    IN  /\ durable' = next
        /\ rows' = IF kind = None THEN rows ELSE Append(rows, Checkpoint(kind, next))

Apply(c, ev, x) ==
    /\ Record(c, ev, x)
    /\ machine' = [machine EXCEPT ![c] = deriveNext(machine[c], ev, x, Clock(c))]

Goto(c, label) == pc' = [pc EXCEPT ![c] = label]

\* The call ends, with an answer or by throwing.
Returns(c) ==
    /\ Goto(c, "idle")
    /\ machine' = [machine EXCEPT ![c] = None]
    /\ page' = [page EXCEPT ![c] = 0]
    /\ permit' = [permit EXCEPT ![c] = None]
    /\ wake' = [wake EXCEPT ![c] = 0]
    /\ known' = [known EXCEPT ![c] = 0]
    /\ todo' = [todo EXCEPT ![c] = {}]

\* Apply the event and go on at label, or give up.
Step(c, ev, x, label) ==
    IF CanApply(c, ev, x)
    THEN /\ Apply(c, ev, x) /\ Goto(c, label)
         /\ UNCHANGED <<claims, journal, links, page, permit, wake, known, todo>>
    ELSE Returns(c) /\ UNCHANGED stored

\* The last event of a call.
LastStep(c, ev, x) ==
    /\ IF CanApply(c, ev, x) THEN Record(c, ev, x) ELSE UNCHANGED <<durable, rows>>
    /\ Returns(c)
    /\ UNCHANGED <<claims, journal, links>>

-----------------------------------------------------------------------------
(* Before the request: load, choose the page, wait, claim.                 *)

Init ==
    /\ durable = None /\ rows = <<>> /\ claims = <<>> /\ journal = <<>> /\ links = {}
    /\ pc = [c \in Callers |-> "idle"]
    /\ machine = [c \in Callers |-> None]
    /\ page = [c \in Callers |-> 0]
    /\ permit = [c \in Callers |-> None]
    /\ wake = [c \in Callers |-> 0]
    /\ known = [c \in Callers |-> 0]
    /\ todo = [c \in Callers |-> {}]
    /\ now = 0 /\ crashes = 0 /\ sent = <<>>
    /\ skew = [c \in Callers |-> 0]

\* The machine is loaded; a call before the first claim has none and goes straight to the claim.
Call(c) ==
    /\ pc[c] = "idle"
    /\ machine' = [machine EXCEPT ![c] = Loaded]
    /\ Goto(c, IF Loaded = None THEN "claim" ELSE "page")
    /\ UNCHANGED <<stored, page, permit, wake, known, todo>>

\* The last checkpoint of page p in the journal; 0 if there is none.
CheckpointOfPage(p) ==
    LET found == {j \in DOMAIN journal : journal[j].kind = "page-checkpointed" /\ journal[j].page = p}
    IN  IF found = {} THEN 0 ELSE CHOOSE j \in found : \A k \in found : k <= j

\* Mutant: the snapshot is trusted without the journal.
Continues_Unread(p, token) == TRUE

\* ownedContinuationPage: the journal names the token of page p.
Continues(p, token) ==
    LET j == CheckpointOfPage(p - 1)
    IN  j # 0 /\ journal[j].next # Terminal /\ journal[j].next = token

\* Where a call goes on with a snapshot in this state.
Route(state) ==
    CASE state = "waiting-retry" -> "delay"
      [] state = "preflighting" -> "approve"
      [] state = "dispatch-ready" -> "claim"
      [] OTHER -> "fail"

ChoosePage(c) ==
    LET s == machine[c]
        turn == s.state = "checkpointing"
        p == s.page + (IF turn THEN 1 ELSE 0)
        ready == /\ p > 0 => Continues(p, IF turn THEN s.authority ELSE s.token)
                 /\ IF turn THEN CanApply(c, "continueNextPage", None) ELSE Route(s.state) # "fail"
    IN  /\ pc[c] = "page"
        /\ IF ready
           THEN /\ page' = [page EXCEPT ![c] = p]
                /\ IF turn THEN Apply(c, "continueNextPage", None)
                   ELSE UNCHANGED <<durable, rows, machine>>
                /\ Goto(c, IF turn THEN "approve" ELSE Route(s.state))
                /\ wake' = [wake EXCEPT ![c] = IF s.state = "waiting-retry" THEN now + s.delay ELSE 0]
                /\ UNCHANGED <<claims, journal, links, permit, known, todo>>
           ELSE Returns(c) /\ UNCHANGED stored

DelayOver(c) ==
    /\ pc[c] = "delay" /\ wake[c] <= now
    /\ Step(c, "retryDelayElapsed", None, "rebegin")

\* The elapsed delay has brought the machine to preflighting, where beginPreflight is
\* no edge: the call fails and a later one goes on.
Rebegin(c) ==
    /\ pc[c] = "rebegin"
    /\ ~CanApply(c, "beginPreflight", None)
    /\ Returns(c) /\ UNCHANGED stored

Begin(c) ==
    /\ pc[c] = "ready" /\ machine[c].state = "declared"
    /\ Step(c, "beginPreflight", None, "ready")

Approve(c) ==
    /\ pc[c] \in {"approve", "ready"} /\ machine[c].state = "preflighting"
    /\ Step(c, "approvePreflight", None, IF pc[c] = "approve" THEN "claim" ELSE "secrets")

Dispatches == Cardinality({i \in DOMAIN rows : rows[i].kind = "attempt-started"})

ClaimTimes == [i \in DOMAIN claims |-> claims[i].at]

\* The attempt that a claim is for: the durable snapshot's next.
NextAttempt == AttemptId(IF durable = None THEN createInitialAcquisitionSnapshot ELSE durable)

\* admit: the workflow is ready for an attempt, and the planner does not stop it.
Claimable(t) ==
    /\ Dispatches = Len(claims)
    /\ claims # <<>> => durable # None
    /\ durable # None => durable.state = "dispatch-ready"
    /\ t < acquisitionDeadlineMs
    /\ Len(claims) < attemptsPerAcquisition
    /\ QuotaAdmits(ClaimTimes, t)
    /\ \A i \in DOMAIN claims : claims[i].id # NextAttempt

\* establish: the claim, then (if the call had none) the machine.
Claim(c) ==
    LET t == Clock(c)
        m == IF machine[c] # None THEN machine[c]
             ELSE IF durable = None THEN createInitialAcquisitionSnapshot ELSE durable
    IN  /\ pc[c] = "claim"
        /\ IF Claimable(t)
           THEN /\ claims' = Append(claims, [id |-> NextAttempt, at |-> t])
                /\ permit' = [permit EXCEPT ![c] =
                       [id |-> NextAttempt, until |-> t + Least(attemptDeadlineMs, acquisitionDeadlineMs - t)]]
                /\ machine' = [machine EXCEPT ![c] = m]
                /\ Goto(c, IF m.state = "dispatch-ready" THEN "secrets" ELSE "ready")
                /\ UNCHANGED <<durable, rows, journal, links, page, wake, known, todo>>
           ELSE Returns(c) /\ UNCHANGED stored

-----------------------------------------------------------------------------
(* The attempt.                                                            *)

InTime(c) == Clock(c) < permit[c].until

\* withAlpacaAuthorization reads the secrets and starts the operation.
Secrets(c) ==
    /\ pc[c] = "secrets" /\ InTime(c)
    /\ Step(c, "credentialsLoaded", None, "dispatch")

\* A secret is missing, its use is denied, or the time to use it is over.
NoSecrets(c) ==
    /\ pc[c] = "secrets"
    /\ Returns(c) /\ UNCHANGED stored

\* The row is stored before the identities are compared.
Dispatch(c) ==
    /\ pc[c] = "dispatch"
    /\ IF AttemptId(machine[c]) = permit[c].id
       THEN Step(c, "dispatchStarted", None, "send")
       ELSE LastStep(c, "dispatchStarted", None)

Send(c) ==
    /\ pc[c] = "send" /\ InTime(c)
    /\ sent' = Append(sent, [id |-> permit[c].id, page |-> page[c], start |-> machine[c].last, at |-> now])
    /\ Goto(c, "inflight")
    /\ UNCHANGED <<stored, machine, page, permit, wake, known, todo>>

\* The attempt fails: before it is sent for lack of time, or any way later.
Fail(c) ==
    /\ pc[c] \in {"send", "inflight"}
    /\ \E failure \in Failures :
           /\ pc[c] = "send" => failure = 0 /\ ~InTime(c)
           /\ IF MayRetry(machine[c], failure)
              THEN LastStep(c, "retryCleanup", failure)
              ELSE LastStep(c, "attemptFailed", "request-failed")

\* The body is complete.  A refusal is a failure of the attempt.
Accept(c) ==
    /\ pc[c] = "inflight" /\ CanApply(c, "responseAccepted", None)
    /\ Step(c, "responseAccepted", None, "store")

StoreEvent(state) ==
    CASE state = "response-accepted" -> "artifactStoreStarted"
      [] state = "artifact-committing" -> "artifactStoreCommitted"
      [] state = "artifact-committed" -> "artifactVerificationStarted"
      [] state = "artifact-verifying" -> "pageVerified"

\* Commit and verify the artifact.
Store(c) ==
    /\ pc[c] = "store"
    /\ Step(c, StoreEvent(machine[c].state), None,
            IF machine[c].state = "artifact-verifying" THEN "evidence" ELSE "store")

\* The sink fails, or the resources of the attempt do not settle.
StoreFails(c) ==
    /\ pc[c] = "store" /\ machine[c].state = "artifact-committing"
    /\ LastStep(c, "artifactStoreFailed", None)

-----------------------------------------------------------------------------
(* The evidence of a verified page: journal entries, each linked to the    *)
(* row that it repeats.                                                    *)

LinkedRows == {l[1] : l \in links}
LinkedEntries == {l[2] : l \in links}

\* The n-th member of a set of numbers.
Nth(S, n) == CHOOSE i \in S : Cardinality({k \in S : k <= i}) = n

\* The rows that a journal entry may still be linked to, in order.
Available ==
    {i \in DOMAIN rows : i \notin LinkedRows /\ rows[i].kind \notin {"acquisition-declared", "request-started"}}

\* Entries that an earlier call has written and not linked.
Pending == DOMAIN journal \ LinkedEntries

\* validateCheckpointTransition, for the entries that execute appends.
Follows(previous, e) ==
    CASE e.kind = "attempt-started" ->
             /\ previous.kind = "page-checkpointed" /\ previous.next # Terminal
             /\ e.page = previous.page + 1 /\ e.token = previous.next
      [] e.kind = "request-succeeded" -> previous.kind = "attempt-started"
      [] e.kind = "artifact-committed" -> previous.kind = "request-succeeded"
      [] e.kind = "artifact-verified" -> previous.kind = "artifact-committed"
      [] e.kind = "page-checkpointed" -> previous.kind = "artifact-verified"
      [] e.kind = "chain-complete" -> previous.kind = "page-checkpointed" /\ previous.next = Terminal

\* validateJournalEntries: no attempt of a page but the first after the seeds, no
\* token twice, no counter that goes back.
JournalValid(entries) ==
    \A j \in DOMAIN entries :
        /\ IF j = 1 THEN entries[j].kind = "attempt-started" /\ entries[j].page = 0
           ELSE /\ Follows(entries[j - 1], entries[j])
                /\ entries[j].kind # "attempt-started" => entries[j].page = entries[j - 1].page
                /\ entries[j].pages >= entries[j - 1].pages
                /\ Len(entries[j].quota) >= Len(entries[j - 1].quota)
        /\ \A k \in 1..(j - 1) :
               entries[j].kind = "attempt-started" /\ entries[k].kind = "attempt-started"
               => entries[j].token # entries[k].token

\* prepareOwnedWorkflowJournalLinks: the n-th new entry with the n-th available row.
NewLinks(entries) ==
    LET unproved == DOMAIN entries \ LinkedEntries
    IN  {<<Nth(Available, Cardinality({k \in unproved : k <= j})), j>> : j \in unproved}

Provable(entries) ==
    LET unproved == DOMAIN entries \ LinkedEntries
    IN  /\ Cardinality(unproved) <= Cardinality(Available)
        /\ \A l \in NewLinks(entries) : rows[l[1]] = entries[l[2]]

\* persistVerifiedAcquisitionWorkflowEvidenceInternal, up to the links.
Write(c, new, label) ==
    LET entries == journal \o new
    IN  IF /\ pc[c] = "evidence" \/ known[c] = Len(journal)
           /\ \A j \in Pending : (j..Len(journal)) \subseteq Pending
           /\ JournalValid(entries) /\ Provable(entries)
        THEN /\ journal' = entries
             /\ known' = [known EXCEPT ![c] = Len(entries)]
             /\ todo' = [todo EXCEPT ![c] = NewLinks(entries)]
             /\ Goto(c, label)
             /\ UNCHANGED <<durable, rows, claims, links, machine, page, permit, wake>>
        ELSE Returns(c) /\ UNCHANGED stored

Evidence(c) ==
    LET e(kind) == Checkpoint(kind, machine[c])
    IN  /\ pc[c] = "evidence"
        /\ Write(c, <<e("attempt-started"), e("request-succeeded"), e("artifact-committed"),
                      e("artifact-verified")>>, "link evidence")

\* commitOwnedWorkflowJournalLinks: a link that is there already stays.
Link(c) ==
    LET stay == links \cup {l \in todo[c] : l[1] \notin LinkedRows}
    IN  /\ pc[c] \in {"link evidence", "link page", "link chain"}
        /\ IF todo[c] \subseteq stay /\ pc[c] # "link chain"
           THEN /\ links' = stay
                /\ todo' = [todo EXCEPT ![c] = {}]
                /\ Goto(c, IF pc[c] = "link evidence" THEN "admit" ELSE "close")
                /\ UNCHANGED <<durable, rows, claims, journal, machine, page, permit, wake, known>>
           ELSE /\ links' = IF todo[c] \subseteq stay THEN stay ELSE links
                /\ Returns(c)
                /\ UNCHANGED <<durable, rows, claims, journal>>

\* The page is parsed and admitted; it names the token of the next page, or none.
AdmitPage(c) ==
    /\ pc[c] = "admit"
    /\ \E next \in Tokens \cup {Terminal} : Step(c, "pageCheckpointed", next, "page entry")

\* The page is refused.
RefusePage(c) ==
    /\ pc[c] = "admit"
    /\ Returns(c) /\ UNCHANGED stored

PageEntry(c) ==
    /\ pc[c] = "page entry"
    /\ Write(c, <<Checkpoint("page-checkpointed", machine[c])>>, "link page")

Close(c) ==
    /\ pc[c] = "close"
    /\ IF machine[c].authority = None THEN Step(c, "terminalPageAdmitted", None, "chain entry")
       ELSE Returns(c) /\ UNCHANGED stored

ChainEntry(c) ==
    /\ pc[c] = "chain entry"
    /\ Write(c, <<Checkpoint("chain-complete", machine[c])>>, "link chain")

-----------------------------------------------------------------------------
(* The environment, and the specification.                                 *)

\* A process dies; its successor has a clock of its own.
Crash(c) ==
    /\ crashes < MaxCrashes /\ pc[c] # "idle"
    /\ crashes' = crashes + 1
    /\ \E s \in 0..MaxSkew : skew' = [skew EXCEPT ![c] = s]
    /\ Returns(c) /\ UNCHANGED <<stored, now, sent>>

Tick ==
    /\ now < MaxTime
    /\ now' = now + 1
    /\ UNCHANGED <<stored, local, skew, crashes, sent>>

Moves(c) ==
    \/ Call(c) \/ ChoosePage(c) \/ DelayOver(c) \/ Rebegin(c) \/ Begin(c) \/ Approve(c) \/ Claim(c)
    \/ Secrets(c) \/ NoSecrets(c) \/ Dispatch(c) \/ Fail(c) \/ Accept(c) \/ Store(c)
    \/ StoreFails(c) \/ Evidence(c) \/ Link(c) \/ AdmitPage(c) \/ RefusePage(c)
    \/ PageEntry(c) \/ Close(c) \/ ChainEntry(c)

Next ==
    \/ \E c \in Callers : Moves(c) /\ UNCHANGED <<now, skew, crashes, sent>>
    \/ \E c \in Callers : Send(c) /\ UNCHANGED <<now, skew, crashes>>
    \/ \E c \in Callers : Crash(c)
    \/ Tick

Spec == Init /\ [][Next]_vars

-----------------------------------------------------------------------------
(* Properties.                                                             *)

AttemptIds == (0..(successfulPages - 1)) \X (Tokens \cup {NoToken}) \X (0..(attemptsPerLogicalPage - 1))

\* Every variable has its type, and no counter of a snapshot is over its limit
\* (validateSnapshot).
TypeOK ==
    /\ durable # None =>
           /\ durable.state \in States
           /\ durable.page \in 0..(successfulPages - 1)
           /\ durable.tries \in 0..attemptsPerLogicalPage
           /\ Len(durable.chain) \in 0..successfulPages
           /\ Len(durable.quota) <= attemptsPerAcquisition
           /\ durable.consumed \subseteq Tokens
           /\ durable.id \in AttemptIds \cup {None}
    /\ \A i \in DOMAIN claims : claims[i].id \in AttemptIds
    /\ links \subseteq (DOMAIN rows) \X (DOMAIN journal)
    /\ \A c \in Callers : permit[c] # None => permit[c].id \in AttemptIds

\* A claimed attempt is sent at most once, and only after its claim and its
\* attempt-started row are durable, whoever crashes or is late; and of all processes
\* that share the database at most one has a request under way
\* (concurrentProviderRequests).
OneRequestPerAttempt ==
    /\ \A c, d \in Callers : pc[c] = "inflight" /\ pc[d] = "inflight" => c = d
    /\ \A i \in DOMAIN sent :
           /\ \A j \in DOMAIN sent : sent[i].id = sent[j].id => i = j
           /\ \E k \in DOMAIN claims : claims[k].id = sent[i].id
           /\ \E k \in DOMAIN rows : rows[k].kind = "attempt-started" /\ rows[k].id = sent[i].id

\* Two attempts of a page are apart by the retry delay, in real time.
RetrySpaced ==
    \A i, j \in DOMAIN sent :
        i < j /\ sent[i].id[1] = sent[j].id[1]
        => sent[j].at - sent[i].at >= RetryDelays[sent[j].id[3]]

\* An attempt of a later page is sent only after the journal holds the checkpoint
\* of the page before it, which names its token.
ChainInOrder ==
    \A i \in DOMAIN sent :
        sent[i].id[1] > 0 =>
            \E j \in DOMAIN journal :
                /\ journal[j].kind = "page-checkpointed"
                /\ journal[j].page = sent[i].id[1] - 1 /\ journal[j].next = sent[i].id[2]

\* The limits of an acquisition: attempts of a page and in all, attempts started in
\* a rate window, none sent after the deadline.  A request may be sent some time
\* after the start that is recorded for it.
LimitsHold ==
    /\ Len(sent) <= attemptsPerAcquisition
    /\ \A i \in DOMAIN sent :
           /\ sent[i].at < acquisitionDeadlineMs
           /\ Cardinality({j \in DOMAIN sent : sent[j].id[1] = sent[i].id[1]}) <= attemptsPerLogicalPage
           /\ Cardinality({j \in 1..i : sent[j].start > sent[i].start - rateWindowMs}) <= rateAttempts

\* Every link pairs a row with the journal entry that repeats it, one to one and
\* in the order of both.
LinksAgree ==
    /\ \A l \in links : rows[l[1]] = journal[l[2]]
    /\ \A l, m \in links : l[1] < m[1] <=> l[2] < m[2]

\* No attempt is sent twice, too often, too soon or too late.
RequestsBounded == OneRequestPerAttempt /\ RetrySpaced /\ LimitsHold

\* What the journal says of the attempts is true.
JournalSound == TypeOK /\ ChainInOrder /\ LinksAgree

\* Every verified page enters the journal: prepareOwnedWorkflowJournalLinks lets it
\* advance directly from a completed page, or a failed attempt, to the next attempt.
VerifiedPageEnters ==
    \A c \in Callers :
        pc[c] = "evidence" =>
            LET e(kind) == Checkpoint(kind, machine[c])
            IN  Provable(journal \o <<e("attempt-started"), e("request-succeeded"),
                                      e("artifact-committed"), e("artifact-verified")>>)

\* The request that is sent asks for the page of the attempt that it is sent for.
\* So it is with one process.  With two, a call that found no claim may be overtaken
\* before it claims, and then sends the request of page 0 as an attempt of page 1.
RequestOfItsAttempt == \A i \in DOMAIN sent : sent[i].page = sent[i].id[1]
=============================================================================
