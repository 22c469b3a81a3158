------------------------------- MODULE Capture -------------------------------
(***************************************************************************)
(* Producers that capture provider records into the event log.  append is  *)
(* one immediate transaction followed by an awaited reply, so a producer   *)
(* can fail after the commit and before it hears of it; it then offers the *)
(* same record again.                                                      *)
(***************************************************************************)
EXTENDS EventLog, FiniteSets

CONSTANTS
    Producers,
    NoDraft,
    MaxOffers   \* bound: calls of append that one behaviour makes

ASSUME NoDraftAssumption == NoDraft \notin Drafts
ASSUME MaxOffersAssumption == MaxOffers \in Nat

VARIABLES
    calls,   \* per producer: the draft being appended, or NoDraft
    reply,   \* per producer: {} until the transaction ends, then its one result
    acks,    \* every AppendResult a producer received: {Result}
    thrown,  \* drafts whose append was refused
    offers   \* calls made so far

captureVars == <<log, clock, calls, reply, acks, thrown, offers>>

Dispositions == {"appended", "redelivery"}
Result == [producer : Producers, draft : Drafts, position : Nat, disposition : Dispositions]

Init ==
    /\ InitLog
    /\ calls = [p \in Producers |-> NoDraft]
    /\ reply = [p \in Producers |-> {}]
    /\ acks = {}
    /\ thrown = {}
    /\ offers = 0

\* A producer calls append.
Offer(p, d) ==
    /\ calls[p] = NoDraft
    /\ offers < MaxOffers
    /\ calls' = [calls EXCEPT ![p] = d]
    /\ offers' = offers + 1
    /\ UNCHANGED <<log, clock, reply, acks, thrown>>

\* The append transaction commits.  A row with this provider key decides
\* between a new event, a redelivery of the stored one, and an exception.
Transact(p) ==
    /\ calls[p] # NoDraft
    /\ reply[p] = {}
    /\ \/ /\ AppendNew(calls[p])
          /\ reply' = [reply EXCEPT ![p] =
                {[producer |-> p, draft |-> calls[p], position |-> Len(log) + 1, disposition |-> "appended"]}]
          /\ UNCHANGED <<calls, thrown>>
       \/ /\ Redelivered(calls[p])
          /\ reply' = [reply EXCEPT ![p] =
                {[producer |-> p, draft |-> calls[p], position |-> i, disposition |-> "redelivery"]
                    : i \in Duplicates(calls[p])}]
          /\ UNCHANGED <<log, calls, thrown>>
       \/ /\ Conflicting(calls[p])
          /\ thrown' = thrown \cup {calls[p]}
          /\ calls' = [calls EXCEPT ![p] = NoDraft]
          /\ UNCHANGED <<log, reply>>
    /\ UNCHANGED <<clock, acks, offers>>

\* The awaited promise resolves.
Return(p) ==
    /\ reply[p] # {}
    /\ acks' = acks \cup reply[p]
    /\ reply' = [reply EXCEPT ![p] = {}]
    /\ calls' = [calls EXCEPT ![p] = NoDraft]
    /\ UNCHANGED <<log, clock, thrown, offers>>

\* The producer dies, before its transaction or between commit and reply.
Crash(p) ==
    /\ calls[p] # NoDraft
    /\ calls' = [calls EXCEPT ![p] = NoDraft]
    /\ reply' = [reply EXCEPT ![p] = {}]
    /\ UNCHANGED <<log, clock, acks, thrown, offers>>

ClockStep == Tick /\ UNCHANGED <<calls, reply, acks, thrown, offers>>

Next ==
    \/ \E p \in Producers :
          \/ \E d \in Drafts : Offer(p, d)
          \/ Transact(p)
          \/ Return(p)
          \/ Crash(p)
    \/ ClockStep

Spec == Init /\ [][Next]_captureVars

-----------------------------------------------------------------------------
(* Properties.                                                             *)

\* Every variable has its type.
TypeOK ==
    /\ log \in Seq(StoredEvent)
    /\ clock \in 0 .. MaxClock
    /\ calls \in [Producers -> Drafts \cup {NoDraft}]
    /\ \A p \in Producers : reply[p] \subseteq Result /\ Cardinality(reply[p]) <= 1
    /\ acks \subseteq Result
    /\ thrown \subseteq Drafts
    /\ offers \in 0 .. MaxOffers

\* However many producers capture the same provider record, crash after the
\* commit and offer it again, the log holds it once, and each event is at its
\* own position with the predecessor's hash: what readAfter verifies holds.
ChainIntact ==
    \A i \in DOMAIN log :
        /\ log[i].position = i
        /\ verifyStoredEvent(log[i], HashAt(i - 1))
        /\ \A j \in DOMAIN log : providerKey(log[j].draft) = providerKey(log[i].draft) => j = i

\* The versions of a subject's events are 1, 2, ... in log order: no version
\* is skipped or repeated by interleaved producers.
StreamVersionsDense ==
    \A i \in DOMAIN log :
        log[i].streamVersion =
            Cardinality({j \in 1 .. i : log[j].draft.subject = log[i].draft.subject})

\* Logical time never decreases along the log and never precedes receipt, also
\* when the wall clock steps backwards between two captures; the time of an
\* event is one that the clock showed at some capture up to it.
LogicalTimeMonotone ==
    \A i, j \in DOMAIN log : i <= j =>
        /\ log[i].logicalAtMs <= log[j].logicalAtMs
        /\ log[j].receivedAtMs <= log[j].logicalAtMs
        /\ \E k \in 1 .. j : log[j].logicalAtMs = log[k].receivedAtMs

\* What is stored is one chain, whoever captured it: every variable has its
\* type, the chain is intact, versions are dense and logical time is monotone.
LogIntact == TypeOK /\ ChainIntact /\ StreamVersionsDense /\ LogicalTimeMonotone

\* Every acknowledgement of a draft names the same event, which holds exactly
\* that draft; one producer at most is told "appended", and a draft that was
\* refused is never acknowledged: a retry cannot change a verdict.
AcksAgree ==
    \A a \in acks :
        /\ a.position \in DOMAIN log
        /\ draftFromStored(log[a.position]) = a.draft
        /\ a.draft \notin thrown
        /\ \A b \in acks :
              /\ a.draft = b.draft => a.position = b.position
              /\ (a.position = b.position /\ a.disposition = "appended"
                    /\ b.disposition = "appended") => a = b

\* The log only grows at its end: a step leaves every stored event untouched.
AppendOnly == [][\E n \in 0 .. 1 : /\ Len(log') = Len(log) + n
                                   /\ SubSeq(log', 1, Len(log)) = log]_captureVars

=============================================================================
