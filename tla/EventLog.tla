------------------------------ MODULE EventLog ------------------------------
(***************************************************************************)
(* The captured event log: one append-only, hash-chained sequence of       *)
(* provider records (src/core/event.ts, adapters/sqlite/event-log.ts; the  *)
(* in-memory log of adapters/memory/event-log.ts has the same contract).   *)
(*                                                                         *)
(* Hashes are free terms.  canonicalHash is modelled by a value that keeps *)
(* everything it was computed from, so two hashes are equal exactly when   *)
(* their inputs are: collision resistance of SHA-256 is assumed, and which *)
(* fields each hash covers is not.                                         *)
(***************************************************************************)
EXTENDS Integers, Sequences

CONSTANTS
    Keys,       \* provider identities: (provider, recordId, revisionId)
    Artifacts,  \* artifact hashes
    Subjects,   \* stream subjects
    Payloads,   \* everything else a draft carries
    Drafts,     \* the drafts that producers may offer
    MaxClock    \* bound: the last instant of the wall clock

Draft == [key : Keys, artifact : Artifacts, subject : Subjects, payload : Payloads]

ASSUME DraftsAssumption == Drafts \subseteq Draft
ASSUME MaxClockAssumption == MaxClock \in Nat

VARIABLES
    log,    \* the events table, in position order
    clock   \* what Clock.nowMs() returns; a wall clock may step backwards

logVars == <<log, clock>>

-----------------------------------------------------------------------------
(* Envelopes and their hash chain.                                         *)

\* "0".repeat(64), the hash that precedes position 1.
GenesisHash == <<>>

\* What one link of the chain hashes: the position and the captured content.
Link == [position : Nat, draft : Draft, streamVersion : Nat,
         receivedAtMs : Nat, logicalAtMs : Nat]

Hash == Seq(Link)

StoredEvent == [position : Nat, draft : Draft, streamVersion : Nat,
                receivedAtMs : Nat, logicalAtMs : Nat,
                previousEventHash : Hash, eventHash : Hash]

providerKey(d) == d.key

\* The event id covers the artifact as well as the provider key.
deriveEventId(d) == <<d.key, d.artifact>>

draftFromStored(e) == e.draft

computeEventHash(previous, position, d, version, received, logical) ==
    Append(previous, [position |-> position, draft |-> d, streamVersion |-> version,
                      receivedAtMs |-> received, logicalAtMs |-> logical])

\* verifyStoredEvent without an expected predecessor: the envelope's own hash.
SelfConsistent(e) ==
    e.eventHash = computeEventHash(e.previousEventHash, e.position, e.draft,
                                   e.streamVersion, e.receivedAtMs, e.logicalAtMs)

verifyStoredEvent(e, expectedPreviousHash) ==
    /\ e.previousEventHash = expectedPreviousHash
    /\ SelfConsistent(e)

\* The hash of the event at a position; position 0 is the genesis.
HashAt(position) == IF position = 0 THEN GenesisHash ELSE log[position].eventHash

-----------------------------------------------------------------------------
(* Operations.                                                             *)

\* get(position): the stored event, if there is one.
Persisted(position) == position \in DOMAIN log

\* Mutant: the head of the log is taken for an exclusive bound.
PageAfter_ShortOfHead(position, limit) ==
    SubSeq(log, position + 1,
           IF position + limit < Len(log) THEN position + limit ELSE Len(log) - 1)

\* readAfter(position, limit).events and .hasMore
PageAfter(position, limit) ==
    SubSeq(log, position + 1,
           IF position + limit < Len(log) THEN position + limit ELSE Len(log))

HasMoreAfter(position, limit) == Len(log) > position + limit

HeadLogicalAt == IF log = <<>> THEN 0 ELSE log[Len(log)].logicalAtMs

\* The stream version that the next event of a subject gets: one more than the
\* highest stored (ORDER BY stream_version DESC LIMIT 1), or 1.
VersionsOf(subject) == {log[i].streamVersion : i \in {j \in DOMAIN log : log[j].draft.subject = subject}}

NextStreamVersion(subject) ==
    IF \E v \in VersionsOf(subject) : \A w \in VersionsOf(subject) : w <= v
    THEN (CHOOSE v \in VersionsOf(subject) : \A w \in VersionsOf(subject) : w <= v) + 1
    ELSE 1

\* The envelope that append builds around a new draft at the head of the log.
Envelope(d) ==
    LET position == Len(log) + 1
        version  == NextStreamVersion(d.subject)
        logical  == IF HeadLogicalAt > clock THEN HeadLogicalAt ELSE clock
    IN  [position |-> position, draft |-> d, streamVersion |-> version,
         receivedAtMs |-> clock, logicalAtMs |-> logical,
         previousEventHash |-> HashAt(Len(log)),
         eventHash |-> computeEventHash(HashAt(Len(log)), position, d, version, clock, logical)]

\* Mutant: looked up by event id, so another artifact is another record.
Duplicates_ByEventId(d) == {i \in DOMAIN log : deriveEventId(log[i].draft) = deriveEventId(d)}

\* The row that already holds this provider record, if any.
Duplicates(d) == {i \in DOMAIN log : providerKey(log[i].draft) = providerKey(d)}

\* Mutant: INSERT OR REPLACE, a stored record is overwritten by its redelivery.
AppendNew_Upsert(d) ==
    log' = IF Duplicates(d) = {} THEN Append(log, Envelope(d))
           ELSE [i \in DOMAIN log |-> IF i \in Duplicates(d) THEN Envelope(d) ELSE log[i]]

\* append(draft) when the provider record is new: disposition "appended".
AppendNew(d) ==
    /\ Duplicates(d) = {}
    /\ log' = Append(log, Envelope(d))

\* Mutant: only the artifact is compared, other metadata may differ.
Redelivered_SameArtifact(d) == \E i \in Duplicates(d) : log[i].draft.artifact = d.artifact

\* append(draft) when the record is stored with the same draft: "redelivery".
Redelivered(d) == \E i \in Duplicates(d) : draftFromStored(log[i]) = d

\* append(draft) when the record is stored with another artifact, or with the
\* same artifact and other metadata: append throws.
Conflicting(d) == \E i \in Duplicates(d) : draftFromStored(log[i]) # d

\* The wall clock moves, in either direction (SystemClock is Date.now()).
Tick ==
    /\ \E t \in 0 .. MaxClock : t # clock /\ clock' = t
    /\ UNCHANGED log

InitLog == log = <<>> /\ clock = 0

=============================================================================
