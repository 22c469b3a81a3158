---------------------------- MODULE TableProofs ----------------------------
(***************************************************************************)
(* The tables that many processes write to, each on its own, for any       *)
(* number of processes and calls.                                          *)
(*                                                                         *)
(* Capture: whatever the wall clock does, the event log is one chain, it   *)
(* only grows, and whatever a producer was told stays true.                *)
(*                                                                         *)
(* Delivery: whatever the workers' clocks say, at most one remembered      *)
(* claim of an intent is current, its row's owner has it, and a settled    *)
(* row stays settled.                                                      *)
(*                                                                         *)
(* ResearchRegistry: for any builds and manifests, and any number of       *)
(* attempts and crashes, results are frozen.                               *)
(***************************************************************************)
EXTENDS Capture, Delivery, ResearchRegistry, FiniteSetTheorems, FunctionTheorems, TLAPS

-----------------------------------------------------------------------------
(* Capture.                                                                *)
-----------------------------------------------------------------------------
\* A subject that occurs has a last event.
LatestExists ==
    \A i \in DOMAIN log : \E m \in DOMAIN log :
        /\ log[m].draft.subject = log[i].draft.subject
        /\ \A j \in DOMAIN log : log[j].draft.subject = log[i].draft.subject => j <= m

\* What producers were told, or will be unless they die first.
Told == acks \cup UNION {reply[p] : p \in Producers}

\* Each names the event that holds its draft, one at most is the append of an
\* event, and a refused draft differs from the one that is stored.
ToldTruth ==
    /\ reply \in [Producers -> SUBSET Result]
    /\ \A a \in Told : a.position \in DOMAIN log /\ log[a.position].draft = a.draft
    /\ \A a, b \in Told :
          (a.position = b.position /\ a.disposition = "appended" /\ b.disposition = "appended") => a = b
    /\ \A d \in thrown : \E i \in DOMAIN log : log[i].draft.key = d.key /\ log[i].draft # d

LogInv == ChainIntact /\ LatestExists /\ StreamVersionsDense /\ LogicalTimeMonotone
CaptureInv == TypeOK /\ LogInv /\ ToldTruth

-----------------------------------------------------------------------------
(* The log.                                                                *)

\* Positions and fields of stored events.
LEMMA StoredTyped ==
    ASSUME TypeOK
    PROVE  /\ Len(log) \in Nat /\ DOMAIN log = 1 .. Len(log) /\ clock \in Nat
           /\ \A i \in 1 .. Len(log) :
                 /\ log[i] \in StoredEvent
                 /\ log[i].position \in Nat /\ log[i].draft \in Draft
                 /\ log[i].streamVersion \in Nat
                 /\ log[i].receivedAtMs \in Nat /\ log[i].logicalAtMs \in Nat
                 /\ log[i].previousEventHash \in Hash /\ log[i].eventHash \in Hash
<1>1. Len(log) \in Nat /\ DOMAIN log = 1 .. Len(log) /\ clock \in Nat
  BY MaxClockAssumption DEF TypeOK
<1>2. \A i \in 1 .. Len(log) : log[i] \in StoredEvent
  BY DEF TypeOK
<1> QED BY <1>1, <1>2 DEF StoredEvent

\* The fields of the envelope around a draft, and their types.
LEMMA EnvelopeFields ==
    ASSUME TypeOK, NEW d \in Drafts
    PROVE  /\ Envelope(d) \in StoredEvent
           /\ Envelope(d).position = Len(log) + 1
           /\ Envelope(d).draft = d
           /\ Envelope(d).streamVersion = NextStreamVersion(d.subject)
           /\ Envelope(d).receivedAtMs = clock
           /\ Envelope(d).logicalAtMs = IF HeadLogicalAt > clock THEN HeadLogicalAt ELSE clock
           /\ verifyStoredEvent(Envelope(d), HashAt(Len(log)))
<1> DEFINE position == Len(log) + 1
           version == NextStreamVersion(d.subject)
           logical == IF HeadLogicalAt > clock THEN HeadLogicalAt ELSE clock
           previous == HashAt(Len(log))
           hash == computeEventHash(previous, position, d, version, clock, logical)
<1>1. d \in Draft /\ position \in Nat /\ clock \in Nat
  BY DraftsAssumption, StoredTyped
<1>2. version \in Nat
  <2>1. VersionsOf(d.subject) \subseteq Nat
    BY StoredTyped DEF VersionsOf
  <2> QED BY <2>1 DEF NextStreamVersion
<1>3. logical \in Nat
  <2>1. log # <<>> => Len(log) \in 1 .. Len(log)
    BY DEF TypeOK
  <2> QED BY <2>1, StoredTyped DEF HeadLogicalAt
<1>4. previous \in Hash
  BY StoredTyped DEF HashAt, GenesisHash, Hash
<1> HIDE DEF position, version, logical, previous
<1>5. hash \in Hash
  BY <1>1, <1>2, <1>3, <1>4 DEF computeEventHash, Hash, Link
<1>6. Envelope(d) = [position |-> position, draft |-> d, streamVersion |-> version,
                     receivedAtMs |-> clock, logicalAtMs |-> logical,
                     previousEventHash |-> previous, eventHash |-> hash]
  BY DEF Envelope, position, version, logical, previous
<1>7. verifyStoredEvent(Envelope(d), previous)
  BY <1>6 DEF verifyStoredEvent, SelfConsistent
<1> HIDE DEF hash
<1>8. Envelope(d) \in StoredEvent
  BY <1>1, <1>2, <1>3, <1>4, <1>5, <1>6 DEF StoredEvent
<1> QED BY <1>6, <1>7, <1>8 DEF position, version, logical, previous

\* What an append leaves and adds.
LEMMA Appended ==
    ASSUME TypeOK, NEW d \in Drafts, AppendNew(d)
    PROVE  /\ log' \in Seq(StoredEvent)
           /\ Len(log') = Len(log) + 1 /\ DOMAIN log' = 1 .. (Len(log) + 1)
           /\ \A i \in 1 .. Len(log) : log'[i] = log[i]
           /\ log'[Len(log) + 1] = Envelope(d)
           /\ \A i \in 1 .. Len(log) : log[i].draft.key # d.key
<1>1. Envelope(d) \in StoredEvent
  BY EnvelopeFields
<1>2. log \in Seq(StoredEvent) /\ log' = Append(log, Envelope(d))
  BY DEF TypeOK, AppendNew
<1>3. \A i \in 1 .. Len(log) : log[i].draft.key # d.key
  BY StoredTyped DEF AppendNew, Duplicates, providerKey
<1> QED BY <1>1, <1>2, <1>3

LEMMA ChainAppended ==
    ASSUME TypeOK, ChainIntact, NEW d \in Drafts, AppendNew(d)
    PROVE  ChainIntact'
<1> SUFFICES ASSUME NEW i \in 1 .. (Len(log) + 1)
             PROVE  /\ log'[i].position = i
                    /\ verifyStoredEvent(log'[i], HashAt(i - 1)')
                    /\ \A j \in 1 .. (Len(log) + 1) : log'[j].draft.key = log'[i].draft.key => j = i
  BY Appended DEF ChainIntact, providerKey, verifyStoredEvent, SelfConsistent
<1>1. HashAt(i - 1)' = HashAt(i - 1)
  BY Appended, StoredTyped DEF HashAt, GenesisHash
<1>2. CASE i = Len(log) + 1
  <2>1. log'[i] = Envelope(d) /\ i - 1 = Len(log)
    BY <1>2, Appended, StoredTyped
  <2>2. log'[i].position = i /\ log'[i].draft = d /\ verifyStoredEvent(log'[i], HashAt(i - 1)')
    BY <1>1, <1>2, <2>1, EnvelopeFields
  <2> QED BY <1>2, <2>2, Appended, StoredTyped
<1>3. CASE i \in 1 .. Len(log)
  <2>1. log'[i] = log[i] /\ log[i].position = i /\ verifyStoredEvent(log[i], HashAt(i - 1))
    BY <1>3, Appended, StoredTyped DEF ChainIntact
  <2>2. \A j \in 1 .. Len(log) : log[j].draft.key = log[i].draft.key => j = i
    BY <1>3, StoredTyped DEF ChainIntact, providerKey
  <2>3. log'[Len(log) + 1].draft = d
    BY Appended, EnvelopeFields
  <2> QED BY <1>1, <1>3, <2>1, <2>2, <2>3, Appended, StoredTyped
<1> QED BY <1>2, <1>3, StoredTyped

LEMMA LatestAppended ==
    ASSUME TypeOK, LatestExists, NEW d \in Drafts, AppendNew(d)
    PROVE  LatestExists'
<1> DEFINE n == Len(log) + 1
<1>1. /\ DOMAIN log' = 1 .. n /\ DOMAIN log = 1 .. Len(log) /\ Len(log) \in Nat
      /\ \A i \in 1 .. Len(log) : log'[i] = log[i]
      /\ log'[n].draft = d
  BY Appended, StoredTyped, EnvelopeFields
<1> SUFFICES ASSUME NEW i \in 1 .. n
             PROVE  \E m \in 1 .. n :
                       /\ log'[m].draft.subject = log'[i].draft.subject
                       /\ \A j \in 1 .. n : log'[j].draft.subject = log'[i].draft.subject => j <= m
  BY <1>1 DEF LatestExists
<1>2. CASE log'[i].draft.subject = d.subject
  <2> WITNESS n \in 1 .. n
  <2> QED BY <1>1, <1>2
<1>3. CASE log'[i].draft.subject # d.subject
  <2>1. i \in 1 .. Len(log) /\ log'[i] = log[i]
    BY <1>1, <1>3
  <2>2. PICK m \in 1 .. Len(log) :
            /\ log[m].draft.subject = log[i].draft.subject
            /\ \A j \in 1 .. Len(log) : log[j].draft.subject = log[i].draft.subject => j <= m
    BY <1>1, <2>1 DEF LatestExists
  <2> WITNESS m \in 1 .. n
  <2> QED BY <1>1, <1>3, <2>1, <2>2
<1> QED BY <1>2, <1>3

\* The events of a subject up to a position.
Upto(subject, i) == {j \in 1 .. i : log[j].draft.subject = subject}

LEMMA UptoFinite ==
    ASSUME NEW subject, NEW i \in Nat
    PROVE  IsFiniteSet(Upto(subject, i)) /\ Cardinality(Upto(subject, i)) \in Nat
<1>1. Upto(subject, i) \in SUBSET (1 .. i)
  BY DEF Upto
<1>2. IsFiniteSet(1 .. i)
  <2>1. 1 \in Int /\ i \in Int
    OBVIOUS
  <2> QED BY <2>1, FS_Interval
<1>3. IsFiniteSet(Upto(subject, i))
  BY <1>1, <1>2, FS_Subset
<1> QED BY <1>3, FS_CardinalityType

\* The next version of a subject is one more than the number of its events.
LEMMA NextVersionCounts ==
    ASSUME TypeOK, LatestExists, StreamVersionsDense, NEW subject
    PROVE  NextStreamVersion(subject) = Cardinality(Upto(subject, Len(log))) + 1
<1>1. /\ DOMAIN log = 1 .. Len(log) /\ Len(log) \in Nat
      /\ \A i \in 1 .. Len(log) : log[i].streamVersion = Cardinality(Upto(log[i].draft.subject, i))
  BY StoredTyped DEF StreamVersionsDense, Upto
<1>2. CASE Upto(subject, Len(log)) = {}
  <2>1. VersionsOf(subject) = {}
    BY <1>1, <1>2 DEF VersionsOf, Upto
  <2>2. NextStreamVersion(subject) = 1
    BY <2>1 DEF NextStreamVersion
  <2>3. Cardinality(Upto(subject, Len(log))) = 0
    BY <1>2, FS_EmptySet
  <2> QED BY <2>2, <2>3
<1>3. CASE Upto(subject, Len(log)) # {}
  <2>0. PICK i \in 1 .. Len(log) : log[i].draft.subject = subject
    BY <1>3 DEF Upto
  <2>1. PICK m \in 1 .. Len(log) :
            /\ log[m].draft.subject = subject
            /\ \A j \in 1 .. Len(log) : log[j].draft.subject = subject => j <= m
    BY <1>1, <2>0 DEF LatestExists
  <2>2. Upto(subject, m) = Upto(subject, Len(log))
    BY <1>1, <2>1 DEF Upto
  <2> DEFINE top == Cardinality(Upto(subject, Len(log)))
  <2>3. top \in Nat /\ top \in VersionsOf(subject)
    BY <1>1, <2>1, <2>2, UptoFinite DEF VersionsOf
  <2>4. ASSUME NEW w \in VersionsOf(subject)
        PROVE  w \in Nat /\ w <= top
    <3>1. PICK j \in 1 .. Len(log) : log[j].draft.subject = subject /\ w = log[j].streamVersion
      BY <1>1 DEF VersionsOf
    <3>2. w = Cardinality(Upto(subject, j)) /\ j \in Nat
      BY <1>1, <3>1
    <3>3. Upto(subject, j) \in SUBSET Upto(subject, Len(log))
      BY <1>1 DEF Upto
    <3>4. IsFiniteSet(Upto(subject, Len(log)))
      BY <1>1, UptoFinite
    <3>5. Cardinality(Upto(subject, j)) <= Cardinality(Upto(subject, Len(log)))
      BY <3>3, <3>4, FS_Subset
    <3>6. Cardinality(Upto(subject, j)) \in Nat
      BY <3>2, UptoFinite
    <3> QED BY <3>2, <3>5, <3>6
  <2> HIDE DEF top
  <2> DEFINE best == CHOOSE v \in VersionsOf(subject) : \A w \in VersionsOf(subject) : w <= v
  <2>5. best \in VersionsOf(subject) /\ \A w \in VersionsOf(subject) : w <= best
    BY <2>3, <2>4, Zenon
  <2>6. NextStreamVersion(subject) = best + 1
    BY <2>5 DEF NextStreamVersion
  <2> HIDE DEF best
  <2>7. best = top
    BY <2>3, <2>4, <2>5
  <2> QED BY <2>6, <2>7 DEF top
<1> QED BY <1>2, <1>3

LEMMA VersionsAppended ==
    ASSUME TypeOK, LatestExists, StreamVersionsDense, NEW d \in Drafts, AppendNew(d)
    PROVE  StreamVersionsDense'
<1> DEFINE n == Len(log) + 1
<1>1. /\ DOMAIN log' = 1 .. n /\ DOMAIN log = 1 .. Len(log) /\ Len(log) \in Nat
      /\ \A i \in 1 .. Len(log) : log'[i] = log[i]
      /\ log'[n].draft = d /\ log'[n].streamVersion = NextStreamVersion(d.subject)
  BY Appended, StoredTyped, EnvelopeFields
<1> SUFFICES ASSUME NEW i \in 1 .. n
             PROVE  log'[i].streamVersion =
                       Cardinality({j \in 1 .. i : log'[j].draft.subject = log'[i].draft.subject})
  BY <1>1 DEF StreamVersionsDense
<1>2. CASE i \in 1 .. Len(log)
  <2>1. {j \in 1 .. i : log'[j].draft.subject = log'[i].draft.subject}
          = {j \in 1 .. i : log[j].draft.subject = log[i].draft.subject}
    BY <1>1, <1>2
  <2> QED BY <1>1, <1>2, <2>1 DEF StreamVersionsDense
<1>3. CASE i = n
  <2>1. {j \in 1 .. n : log'[j].draft.subject = log'[n].draft.subject}
          = Upto(d.subject, Len(log)) \cup {n}
    BY <1>1 DEF Upto
  <2>2. n \notin Upto(d.subject, Len(log))
    BY <1>1 DEF Upto
  <2>3. IsFiniteSet(Upto(d.subject, Len(log)))
    BY <1>1, UptoFinite
  <2>4. Cardinality(Upto(d.subject, Len(log)) \cup {n}) = Cardinality(Upto(d.subject, Len(log))) + 1
    BY <2>2, <2>3, FS_AddElement
  <2> QED BY <1>1, <1>3, <2>1, <2>4, NextVersionCounts
<1> QED BY <1>1, <1>2, <1>3

LEMMA TimeAppended ==
    ASSUME TypeOK, LogicalTimeMonotone, NEW d \in Drafts, AppendNew(d)
    PROVE  LogicalTimeMonotone'
<1> DEFINE n == Len(log) + 1
<1>1. /\ DOMAIN log' = 1 .. n /\ DOMAIN log = 1 .. Len(log) /\ Len(log) \in Nat
      /\ \A i \in 1 .. Len(log) : log'[i] = log[i]
      /\ log'[n].receivedAtMs = clock /\ clock \in Nat
      /\ log'[n].logicalAtMs = IF HeadLogicalAt > clock THEN HeadLogicalAt ELSE clock
      /\ \A i \in 1 .. Len(log) : log[i].receivedAtMs \in Nat /\ log[i].logicalAtMs \in Nat
  BY Appended, StoredTyped, EnvelopeFields
<1>2. /\ Len(log) = 0 => HeadLogicalAt = 0
      /\ Len(log) # 0 => HeadLogicalAt = log[Len(log)].logicalAtMs
  BY DEF HeadLogicalAt, TypeOK
<1>3. \A i \in 1 .. Len(log) : log[i].logicalAtMs <= HeadLogicalAt
  BY <1>1, <1>2 DEF LogicalTimeMonotone
<1>4. HeadLogicalAt > clock => \E k \in 1 .. n : HeadLogicalAt = log'[k].receivedAtMs
  <2> SUFFICES ASSUME HeadLogicalAt > clock
               PROVE  \E k \in 1 .. n : HeadLogicalAt = log'[k].receivedAtMs
    OBVIOUS
  <2>1. Len(log) \in 1 .. Len(log)
    BY <1>1, <1>2
  <2>2. PICK k \in 1 .. Len(log) : log[Len(log)].logicalAtMs = log[k].receivedAtMs
    BY <1>1, <2>1 DEF LogicalTimeMonotone
  <2> WITNESS k \in 1 .. n
  <2> QED BY <1>1, <1>2, <2>1, <2>2
<1>5. HeadLogicalAt \in Nat
  BY <1>1, <1>2
<1>6. ASSUME NEW i \in 1 .. n, NEW j \in 1 .. n, i <= j
      PROVE  /\ log'[i].logicalAtMs <= log'[j].logicalAtMs
             /\ log'[j].receivedAtMs <= log'[j].logicalAtMs
             /\ \E k \in 1 .. j : log'[j].logicalAtMs = log'[k].receivedAtMs
  <2>1. CASE j = n
    <3>1. log'[j].receivedAtMs <= log'[j].logicalAtMs /\ log'[i].logicalAtMs <= log'[j].logicalAtMs
      BY <1>1, <1>3, <1>5, <2>1
    <3>2. \E k \in 1 .. j : log'[j].logicalAtMs = log'[k].receivedAtMs
      BY <1>1, <1>4, <1>5, <2>1
    <3> QED BY <3>1, <3>2
  <2>2. CASE j \in 1 .. Len(log)
    <3>1. i \in 1 .. Len(log) /\ log'[i] = log[i] /\ log'[j] = log[j]
      BY <1>1, <1>6, <2>2
    <3>2. PICK k \in 1 .. j : log[j].logicalAtMs = log[k].receivedAtMs
      BY <1>1, <2>2 DEF LogicalTimeMonotone
    <3>3. log'[k] = log[k]
      BY <1>1, <2>2
    <3> QED BY <1>1, <1>6, <2>2, <3>1, <3>2, <3>3 DEF LogicalTimeMonotone
  <2> QED BY <1>1, <2>1, <2>2
<1> QED BY <1>1, <1>6 DEF LogicalTimeMonotone

\* An append keeps the log's part of the invariant; so does leaving it alone.
LEMMA LogKept ==
    ASSUME TypeOK, LogInv, NEW d \in Drafts, AppendNew(d)
    PROVE  LogInv'
BY ChainAppended, LatestAppended, VersionsAppended, TimeAppended DEF LogInv

LEMMA LogSame ==
    ASSUME LogInv, log' = log
    PROVE  LogInv'
BY DEF LogInv, ChainIntact, HashAt, verifyStoredEvent, SelfConsistent, LatestExists,
       StreamVersionsDense, LogicalTimeMonotone

-----------------------------------------------------------------------------
(* What producers are told.                                                *)

\* A redelivered draft has one row, and the row holds that draft.
LEMMA OneRow ==
    ASSUME TypeOK, ChainIntact, NEW d \in Drafts, Redelivered(d)
    PROVE  \E i \in 1 .. Len(log) : Duplicates(d) = {i} /\ log[i].draft = d
<1>1. PICK i \in 1 .. Len(log) : log[i].draft = d /\ log[i].draft.key = d.key
  BY StoredTyped DEF Redelivered, Duplicates, draftFromStored, providerKey
<1>2. \A j \in 1 .. Len(log) : log[j].draft.key = d.key => j = i
  BY <1>1, StoredTyped DEF ChainIntact, providerKey
<1>3. Duplicates(d) = {i}
  BY <1>1, <1>2, StoredTyped DEF Duplicates, providerKey
<1> QED BY <1>1, <1>3

\* One result is at most one.
LEMMA OneAnswer ==
    ASSUME NEW a
    PROVE  Cardinality({a}) <= 1
<1>1. Cardinality({a}) = 1
  BY FS_Singleton
<1> QED BY <1>1

\* Replacing one producer's pending answer.
LEMMA ReplyReplaced ==
    ASSUME TypeOK, ToldTruth, NEW p \in Producers, NEW S \in SUBSET Result,
           Cardinality(S) <= 1, reply' = [reply EXCEPT ![p] = S]
    PROVE  /\ reply' \in [Producers -> SUBSET Result]
           /\ \A q \in Producers : reply'[q] \subseteq Result /\ Cardinality(reply'[q]) <= 1
           /\ \A q \in Producers : reply'[q] = IF q = p THEN S ELSE reply[q]
<1>1. reply \in [Producers -> SUBSET Result]
  BY DEF ToldTruth
<1>2. \A q \in Producers : reply'[q] = IF q = p THEN S ELSE reply[q]
  BY <1>1
<1>3. reply' \in [Producers -> SUBSET Result]
  BY <1>1
<1> QED BY <1>2, <1>3 DEF TypeOK

\* The truth of what was told, without the sets it is stated with.
LEMMA ToldMeans ==
    ASSUME NEW a
    PROVE  a \in Told <=> a \in acks \/ \E p \in Producers : a \in reply[p]
BY DEF Told

LEMMA ToldMeansPrime ==
    ASSUME NEW a
    PROVE  a \in Told' <=> a \in acks' \/ \E p \in Producers : a \in reply'[p]
BY DEF Told

\* An answer to one producer is all that a transaction adds.
LEMMA OneMoreTold ==
    ASSUME NEW p \in Producers, NEW a, acks' = acks,
           \A q \in Producers : reply'[q] = IF q = p THEN {a} ELSE reply[q]
    PROVE  \A b \in Told' : b \in Told \/ b \in {a}
<1> SUFFICES ASSUME NEW b \in Told', b # a
             PROVE  b \in Told
  OBVIOUS
<1>1. b \in acks \/ \E q \in Producers : b \in reply'[q]
  BY ToldMeansPrime
<1>2. b \in acks \/ \E q \in Producers : b \in reply[q]
  BY <1>1
<1> QED BY <1>2, ToldMeans

\* A log that kept its events keeps every answer and every refusal true, and
\* at most one more answer is told, of a position that no append had named.
LEMMA TruthKept ==
    ASSUME TypeOK, ToldTruth,
           reply' \in [Producers -> SUBSET Result],
           DOMAIN log \subseteq DOMAIN log',
           \A i \in DOMAIN log : log'[i] = log[i],
           NEW N,
           \A a \in Told' : a \in Told \/ a \in N,
           \A a \in N : a.position \in DOMAIN log' /\ log'[a.position].draft = a.draft,
           \A a, b \in N : a = b,
           \A a \in N : a.disposition = "appended" => \A b \in Told : b.position # a.position,
           \A d \in thrown' : d \in thrown
                \/ \E i \in DOMAIN log' : log'[i].draft.key = d.key /\ log'[i].draft # d
    PROVE  ToldTruth'
<1>1. \A a \in Told' : a.position \in DOMAIN log' /\ log'[a.position].draft = a.draft
  BY DEF ToldTruth
<1>2. \A a, b \in Told' :
         (a.position = b.position /\ a.disposition = "appended" /\ b.disposition = "appended") => a = b
  BY DEF ToldTruth
<1>3. \A d \in thrown' : \E i \in DOMAIN log' : log'[i].draft.key = d.key /\ log'[i].draft # d
  BY DEF ToldTruth
<1> QED BY <1>1, <1>2, <1>3 DEF ToldTruth

\* The append transaction, by its three outcomes.
LEMMA TransactNew ==
    ASSUME CaptureInv, NEW p \in Producers, calls[p] \in Drafts, AppendNew(calls[p]),
           reply' = [reply EXCEPT ![p] =
                {[producer |-> p, draft |-> calls[p], position |-> Len(log) + 1, disposition |-> "appended"]}],
           UNCHANGED <<calls, thrown, clock, acks, offers>>
    PROVE  CaptureInv'
<1> DEFINE d == calls[p]
           a == [producer |-> p, draft |-> d, position |-> Len(log) + 1, disposition |-> "appended"]
<1>0. TypeOK /\ LogInv /\ ToldTruth /\ d \in Drafts /\ AppendNew(d) /\ Len(log) \in Nat
  BY StoredTyped DEF CaptureInv
<1>1. a \in Result /\ a.position = Len(log) + 1 /\ a.draft = d
  BY <1>0 DEF Result, Dispositions
<1>2. reply' = [reply EXCEPT ![p] = {a}]
  OBVIOUS
<1> HIDE DEF a, d
<1>3. /\ reply' \in [Producers -> SUBSET Result]
      /\ \A q \in Producers : reply'[q] \subseteq Result /\ Cardinality(reply'[q]) <= 1
      /\ \A q \in Producers : reply'[q] = IF q = p THEN {a} ELSE reply[q]
  <2>1. {a} \in SUBSET Result
    BY <1>1
  <2>2. Cardinality({a}) <= 1
    BY OneAnswer
  <2> QED BY <1>0, <1>2, <2>1, <2>2, ReplyReplaced
<1>4. /\ log' \in Seq(StoredEvent)
      /\ DOMAIN log = 1 .. Len(log) /\ DOMAIN log' = 1 .. (Len(log) + 1)
      /\ \A i \in 1 .. Len(log) : log'[i] = log[i]
      /\ log'[Len(log) + 1].draft = d
  BY <1>0, Appended, StoredTyped, EnvelopeFields
<1>5. TypeOK'
  BY <1>0, <1>3, <1>4 DEF TypeOK
<1>6. LogInv'
  BY <1>0, LogKept
<1>7. ToldTruth'
  <2> DEFINE N == {a}
  <2>1. \A b \in Told' : b \in Told \/ b \in N
    BY <1>3, OneMoreTold
  <2>2. \A b \in N : b.disposition = "appended" => \A c \in Told : c.position # b.position
    BY <1>0, <1>1, <1>4 DEF ToldTruth
  <2>3. DOMAIN log \subseteq DOMAIN log' /\ \A i \in DOMAIN log : log'[i] = log[i]
    BY <1>0, <1>4
  <2>4. \A b \in N : b.position \in DOMAIN log' /\ log'[b.position].draft = b.draft
    BY <1>0, <1>1, <1>4
  <2>5. \A b, c \in N : b = c
    OBVIOUS
  <2>6. \A e \in thrown' : e \in thrown
            \/ \E i \in DOMAIN log' : log'[i].draft.key = e.key /\ log'[i].draft # e
    OBVIOUS
  <2> HIDE DEF N
  <2> QED BY <1>0, <1>3, <2>1, <2>2, <2>3, <2>4, <2>5, <2>6, TruthKept
<1> QED BY <1>5, <1>6, <1>7 DEF CaptureInv

LEMMA TransactAgain ==
    ASSUME CaptureInv, NEW p \in Producers, calls[p] \in Drafts, Redelivered(calls[p]),
           reply' = [reply EXCEPT ![p] =
                {[producer |-> p, draft |-> calls[p], position |-> i, disposition |-> "redelivery"]
                    : i \in Duplicates(calls[p])}],
           UNCHANGED <<log, calls, thrown, clock, acks, offers>>
    PROVE  CaptureInv'
<1>0. TypeOK /\ LogInv /\ ToldTruth /\ ChainIntact
  BY DEF CaptureInv, LogInv
<1>1. PICK k \in 1 .. Len(log) : Duplicates(calls[p]) = {k} /\ log[k].draft = calls[p]
  BY <1>0, OneRow
<1> DEFINE a == [producer |-> p, draft |-> calls[p], position |-> k, disposition |-> "redelivery"]
<1>2. a \in Result /\ a.position = k /\ a.draft = calls[p] /\ a.disposition # "appended"
  BY <1>0, StoredTyped DEF Result, Dispositions
<1>3. reply' = [reply EXCEPT ![p] = {a}]
  BY <1>1
<1> HIDE DEF a
<1>4. /\ reply' \in [Producers -> SUBSET Result]
      /\ \A q \in Producers : reply'[q] \subseteq Result /\ Cardinality(reply'[q]) <= 1
      /\ \A q \in Producers : reply'[q] = IF q = p THEN {a} ELSE reply[q]
  <2>1. {a} \in SUBSET Result
    BY <1>2
  <2>2. Cardinality({a}) <= 1
    BY OneAnswer
  <2> QED BY <1>0, <1>3, <2>1, <2>2, ReplyReplaced
<1>5. TypeOK'
  BY <1>0, <1>4 DEF TypeOK
<1>6. LogInv'
  BY <1>0, LogSame
<1>7. ToldTruth'
  <2> DEFINE N == {a}
  <2>1. \A b \in Told' : b \in Told \/ b \in N
    BY <1>4, OneMoreTold
  <2>2. \A b \in N : b.disposition = "appended" => \A c \in Told : c.position # b.position
    BY <1>2
  <2>3. DOMAIN log \subseteq DOMAIN log' /\ \A i \in DOMAIN log : log'[i] = log[i]
    OBVIOUS
  <2>4. \A b \in N : b.position \in DOMAIN log' /\ log'[b.position].draft = b.draft
    BY <1>0, <1>1, <1>2, StoredTyped
  <2>5. \A b, c \in N : b = c
    OBVIOUS
  <2>6. \A e \in thrown' : e \in thrown
            \/ \E i \in DOMAIN log' : log'[i].draft.key = e.key /\ log'[i].draft # e
    OBVIOUS
  <2> HIDE DEF N
  <2> QED BY <1>0, <1>4, <2>1, <2>2, <2>3, <2>4, <2>5, <2>6, TruthKept
<1> QED BY <1>5, <1>6, <1>7 DEF CaptureInv

LEMMA TransactRefused ==
    ASSUME CaptureInv, NEW p \in Producers, calls[p] \in Drafts, Conflicting(calls[p]),
           thrown' = thrown \cup {calls[p]},
           calls' = [calls EXCEPT ![p] = NoDraft],
           UNCHANGED <<log, reply, clock, acks, offers>>
    PROVE  CaptureInv'
<1>0. TypeOK /\ LogInv /\ ToldTruth
  BY DEF CaptureInv
<1>1. TypeOK'
  BY <1>0 DEF TypeOK
<1>2. LogInv'
  BY <1>0, LogSame
<1>3. ToldTruth'
  <2>1. Told' \subseteq Told
    BY DEF Told
  <2>2. \E i \in DOMAIN log : log[i].draft.key = calls[p].key /\ log[i].draft # calls[p]
    BY DEF Conflicting, Duplicates, providerKey, draftFromStored
  <2> QED BY <1>0, <2>1, <2>2 DEF ToldTruth
<1> QED BY <1>1, <1>2, <1>3 DEF CaptureInv

\* A producer's answer arrives or is lost with it: nothing new is told.
LEMMA CallEnds ==
    ASSUME CaptureInv, NEW p \in Producers, acks' \in {acks, acks \cup reply[p]},
           reply' = [reply EXCEPT ![p] = {}],
           calls' = [calls EXCEPT ![p] = NoDraft],
           UNCHANGED <<log, clock, thrown, offers>>
    PROVE  CaptureInv'
<1>0. TypeOK /\ LogInv /\ ToldTruth
  BY DEF CaptureInv
<1>1. /\ reply' \in [Producers -> SUBSET Result]
      /\ \A q \in Producers : reply'[q] \subseteq Result /\ Cardinality(reply'[q]) <= 1
      /\ \A q \in Producers : reply'[q] = IF q = p THEN {} ELSE reply[q]
  <2>1. {} \in SUBSET Result /\ Cardinality({}) <= 1
    BY FS_EmptySet
  <2> QED BY <1>0, <2>1, ReplyReplaced
<1>2. TypeOK'
  BY <1>0, <1>1 DEF TypeOK
<1>3. LogInv'
  BY <1>0, LogSame
<1>4. ToldTruth'
  <2>1. Told' \subseteq Told
    BY <1>1, ToldMeans, ToldMeansPrime
  <2> QED BY <1>0, <1>1, <2>1 DEF ToldTruth
<1> QED BY <1>2, <1>3, <1>4 DEF CaptureInv

-----------------------------------------------------------------------------
(* The invariant.                                                          *)

\* A producer whose call is open has a draft to append.
LEMMA OpenCall ==
    ASSUME TypeOK, NEW p \in Producers, calls[p] # NoDraft
    PROVE  calls[p] \in Drafts
BY DEF TypeOK

LEMMA CaptureInit == Init => CaptureInv
<1> SUFFICES ASSUME Init
             PROVE  CaptureInv
  OBVIOUS
<1>1. /\ log = <<>> /\ DOMAIN log = {} /\ reply = [p \in Producers |-> {}] /\ acks = {}
      /\ thrown = {}
  BY DEF Init, InitLog
<1>2. TypeOK
  <2>1. Cardinality({}) = 0
    BY FS_EmptySet
  <2> QED BY <1>1, <2>1, MaxClockAssumption, MaxOffersAssumption DEF TypeOK, Init, InitLog
<1>3. LogInv
  BY <1>1 DEF LogInv, ChainIntact, LatestExists, StreamVersionsDense, LogicalTimeMonotone
<1>4. ToldTruth
  BY <1>1 DEF ToldTruth, Told
<1> QED BY <1>2, <1>3, <1>4 DEF CaptureInv

LEMMA CaptureStep == CaptureInv /\ [Next]_captureVars => CaptureInv'
<1> SUFFICES ASSUME CaptureInv, [Next]_captureVars
             PROVE  CaptureInv'
  OBVIOUS
<1>0. TypeOK /\ LogInv /\ ToldTruth
  BY DEF CaptureInv
<1>1. ASSUME NEW p \in Producers, NEW d \in Drafts, Offer(p, d)
      PROVE  CaptureInv'
  <2>1. TypeOK'
    BY <1>0, <1>1, MaxOffersAssumption DEF TypeOK, Offer
  <2>2. LogInv'
    BY <1>0, <1>1, LogSame DEF Offer
  <2>3. ToldTruth'
    BY <1>0, <1>1 DEF Offer, ToldTruth, Told
  <2> QED BY <2>1, <2>2, <2>3 DEF CaptureInv
<1>2. ASSUME NEW p \in Producers, Transact(p)
      PROVE  CaptureInv'
  <2>1. calls[p] \in Drafts
    BY <1>0, <1>2, OpenCall DEF Transact
  <2> QED BY <1>2, <2>1, TransactNew, TransactAgain, TransactRefused DEF Transact
<1>3. ASSUME NEW p \in Producers, Return(p)
      PROVE  CaptureInv'
  BY <1>3, CallEnds DEF Return
<1>4. ASSUME NEW p \in Producers, Crash(p)
      PROVE  CaptureInv'
  BY <1>4, CallEnds DEF Crash
<1>5. ASSUME ClockStep
      PROVE  CaptureInv'
  <2>1. TypeOK'
    BY <1>0, <1>5 DEF TypeOK, ClockStep, Tick
  <2>2. LogInv'
    BY <1>0, <1>5, LogSame DEF ClockStep, Tick
  <2>3. ToldTruth'
    BY <1>0, <1>5 DEF ClockStep, Tick, ToldTruth, Told
  <2> QED BY <2>1, <2>2, <2>3 DEF CaptureInv
<1>6. ASSUME UNCHANGED captureVars
      PROVE  CaptureInv'
  <2>1. TypeOK'
    BY <1>0, <1>6 DEF TypeOK, captureVars
  <2>2. LogInv'
    BY <1>0, <1>6, LogSame DEF captureVars
  <2>3. ToldTruth'
    BY <1>0, <1>6 DEF captureVars, ToldTruth, Told
  <2> QED BY <2>1, <2>2, <2>3 DEF CaptureInv
<1> QED BY <1>1, <1>2, <1>3, <1>4, <1>5, <1>6 DEF Next

\* The invariant holds in every behaviour.
THEOREM CaptureInvariant == Spec => []CaptureInv
BY CaptureInit, CaptureStep, PTL DEF Spec

\* However the producers interleave, crash and retry, and whichever way the
\* wall clock moves, append leaves one chain with each provider record once,
\* dense stream versions and monotone logical time.
THEOREM LogStaysIntact == Spec => []LogIntact
<1>1. CaptureInv => LogIntact
  BY DEF CaptureInv, LogInv, LogIntact
<1> QED BY <1>1, CaptureInvariant, PTL

\* What append answered stays true: a retry is told the same event, one
\* producer at most is told that it appended it, and a refused draft is never
\* acknowledged.
THEOREM AnswersStayTrue == Spec => []AcksAgree
<1>1. CaptureInv => AcksAgree
  <2> SUFFICES ASSUME CaptureInv, NEW a \in acks
               PROVE  /\ a.position \in DOMAIN log
                      /\ log[a.position].draft = a.draft
                      /\ a.draft \notin thrown
                      /\ \A b \in acks :
                            /\ a.draft = b.draft => a.position = b.position
                            /\ (a.position = b.position /\ a.disposition = "appended"
                                  /\ b.disposition = "appended") => a = b
    BY DEF AcksAgree, draftFromStored
  <2>0. TypeOK /\ ToldTruth /\ \A b \in acks : b \in Told
    BY DEF CaptureInv, Told
  <2>1. \A b \in acks : b.position \in DOMAIN log /\ log[b.position].draft = b.draft
    BY <2>0 DEF ToldTruth
  <2>2. \A i, j \in DOMAIN log : log[i].draft.key = log[j].draft.key => i = j
    BY DEF CaptureInv, LogInv, ChainIntact, providerKey
  <2>3. a.draft \notin thrown
    BY <2>0, <2>1, <2>2 DEF ToldTruth
  <2>4. \A b \in acks : a.draft = b.draft => a.position = b.position
    BY <2>1, <2>2
  <2>5. \A b \in acks : (a.position = b.position /\ a.disposition = "appended"
                            /\ b.disposition = "appended") => a = b
    BY <2>0 DEF ToldTruth
  <2> QED BY <2>1, <2>3, <2>4, <2>5
<1> QED BY <1>1, CaptureInvariant, PTL

\* No step of any producer changes or removes a stored event; one is added at
\* the end at most.
THEOREM LogOnlyGrows == Spec => AppendOnly
<1>1. ASSUME TypeOK, log' = log
      PROVE  \E n \in 0 .. 1 : Len(log') = Len(log) + n /\ SubSeq(log', 1, Len(log)) = log
  BY <1>1 DEF TypeOK
<1>2. ASSUME TypeOK, NEW p \in Producers, calls[p] # NoDraft, AppendNew(calls[p])
      PROVE  \E n \in 0 .. 1 : Len(log') = Len(log) + n /\ SubSeq(log', 1, Len(log)) = log
  BY <1>2, OpenCall, Appended DEF TypeOK
<1>3. CaptureInv /\ [Next]_captureVars =>
         [\E n \in 0 .. 1 : /\ Len(log') = Len(log) + n
                            /\ SubSeq(log', 1, Len(log)) = log]_captureVars
  <2> SUFFICES ASSUME CaptureInv, Next
               PROVE  \E n \in 0 .. 1 : Len(log') = Len(log) + n /\ SubSeq(log', 1, Len(log)) = log
    OBVIOUS
  <2>0. TypeOK
    BY DEF CaptureInv
  <2>1. log' = log \/ \E p \in Producers : calls[p] # NoDraft /\ AppendNew(calls[p])
    BY DEF Next, Offer, Transact, Return, Crash, ClockStep, Tick
  <2> QED BY <1>1, <1>2, <2>0, <2>1
<1> QED BY <1>3, CaptureInvariant, PTL DEF Spec, AppendOnly

-----------------------------------------------------------------------------
(* Delivery.                                                               *)
-----------------------------------------------------------------------------
\* A claim is numbered alike by its fencing token and its attempt.
Numbered == \A w \in Workers : \A c \in held[w] : c.token = c.attempt

DeliveryInv == DeliveryTypeOK /\ OneCurrentHolder /\ Numbered

-----------------------------------------------------------------------------

LEMMA DeliveryInit == InitDelivery => DeliveryInv
  BY DEF InitDelivery, DeliveryInv, DeliveryTypeOK, OneCurrentHolder, Numbered

\* A row is the record of its six fields.
LEMMA RowFields ==
    ASSUME NEW r \in Row
    PROVE  /\ r = [status |-> r.status, owner |-> r.owner, expires |-> r.expires,
                   token |-> r.token, attempt |-> r.attempt, due |-> r.due]
           /\ r.status \in Statuses /\ r.owner \in Workers \cup {NoWorker}
           /\ r.expires \in Nat /\ r.token \in Nat /\ r.attempt \in Nat /\ r.due \in Nat
  BY DEF Row

LEMMA EnqueueStep ==
    ASSUME DeliveryInv, NEW i \in Intents, NEW due \in Times, Enqueue(i, due)
    PROVE  DeliveryInv'
<1> USE DEF DeliveryInv, DeliveryTypeOK
<1>1. /\ DOMAIN rows' = DOMAIN rows \cup {i} /\ i \notin DOMAIN rows /\ held' = held
      /\ \A j \in DOMAIN rows : rows'[j] = rows[j]
      /\ rows'[i] = NewRow(due)
  BY DEF Enqueue, WithRows
<1>2. /\ NewRow(due) \in Row /\ NewRow(due).status = "pending" /\ NewRow(due).owner = NoWorker
      /\ NewRow(due).token = 0 /\ NewRow(due).attempt = 0
  BY TimeAssumption DEF NewRow, Row, Times, Statuses
<1>3. DeliveryTypeOK'
  BY <1>1, <1>2
<1>4. OneCurrentHolder'
  BY <1>1 DEF OneCurrentHolder
<1> QED BY <1>1, <1>3, <1>4 DEF Numbered

\* The claims that a batch hands out carry tokens that nobody remembers yet.
LEMMA ClaimStep ==
    ASSUME DeliveryInv, NEW w \in Workers, NEW nowMs \in Times, NEW leaseMs \in Times,
           NEW batch \in SUBSET DOMAIN rows, claim(w, batch, nowMs, leaseMs)
    PROVE  DeliveryInv'
<1> USE DEF DeliveryInv, DeliveryTypeOK
<1> DEFINE new == {[intent |-> i, token |-> rows'[i].token, attempt |-> rows'[i].attempt] : i \in batch}
<1>1. /\ rows' = [i \in DOMAIN rows |-> IF i \in batch THEN Leased(i, w, nowMs + leaseMs) ELSE rows[i]]
      /\ held' = [held EXCEPT ![w] = @ \cup new]
  BY DEF claim
<1>2. /\ DOMAIN rows' = DOMAIN rows
      /\ \A i \in DOMAIN rows \ batch : rows'[i] = rows[i]
      /\ \A i \in batch : rows'[i] = Leased(i, w, nowMs + leaseMs)
  BY <1>1
<1>3. ASSUME NEW i \in batch
      PROVE  /\ rows'[i] \in Row /\ rows'[i].status = "leased" /\ rows'[i].owner = w
             /\ rows'[i].token = rows[i].token + 1 /\ rows'[i].attempt = rows[i].attempt + 1
             /\ rows[i].token \in Nat /\ rows[i].attempt \in Nat
  <2>1. rows[i] \in Row /\ nowMs + leaseMs \in Nat
    BY TimeAssumption DEF Times
  <2> HIDE DEF DeliveryInv, DeliveryTypeOK, new
  <2>2. rows'[i] = [status |-> "leased", owner |-> w, expires |-> nowMs + leaseMs,
                    token |-> rows[i].token + 1, attempt |-> rows[i].attempt + 1, due |-> rows[i].due]
    <3> DEFINE a == rows[i].token + 1
               b == rows[i].attempt + 1
               e == nowMs + leaseMs
    <3>1. rows'[i] = [rows[i] EXCEPT !.status = "leased", !.owner = w, !.expires = e, !.token = a, !.attempt = b]
      BY <1>2 DEF Leased
    <3> HIDE DEF a, b, e
    <3>2. rows'[i] = [status |-> "leased", owner |-> w, expires |-> e, token |-> a, attempt |-> b, due |-> rows[i].due]
      BY <2>1, <3>1, RowFields
    <3> QED BY <3>2 DEF a, b, e
  <2>3. rows[i].token \in Nat /\ rows[i].attempt \in Nat /\ rows[i].due \in Nat
    BY <2>1, RowFields
  <2>4. rows'[i] \in Row
    BY <2>1, <2>2, <2>3 DEF Row, Statuses
  <2> QED BY <2>2, <2>3, <2>4
<1>4. DeliveryTypeOK'
  <2>1. \A i \in DOMAIN rows' :
          /\ rows'[i] \in Row
          /\ rows'[i].status = "leased" <=> rows'[i].owner # NoWorker
          /\ rows'[i].token = rows'[i].attempt
          /\ rows'[i].status = "pending" <=> rows'[i].attempt = 0
    BY <1>2, <1>3, NoWorkerAssumption
  <2>2. new \subseteq Claim
    BY <1>3 DEF Claim, Row
  <2> QED BY <1>1, <1>2, <2>1, <2>2
<1>5. ASSUME NEW v \in Workers, NEW c \in held'[v]
      PROVE  \/ c \in held[v]
             \/ v = w /\ c.intent \in batch /\ c.token = rows[c.intent].token + 1 /\ c \in new
  <2>1. c \in held[v] \/ (v = w /\ c \in new)
    <3> HIDE DEF new
    <3> QED BY <1>1
  <2>2. c \in new => c.intent \in batch /\ c.token = rows'[c.intent].token
    OBVIOUS
  <2> HIDE DEF new, DeliveryInv, DeliveryTypeOK
  <2> QED BY <2>1, <2>2, <1>3
<1>6. \A c \in new : c.intent \in batch /\ c.token = rows'[c.intent].token /\ c.attempt = rows'[c.intent].attempt
  OBVIOUS
<1>7. \A c, d \in new : c.intent = d.intent => c = d
  OBVIOUS
<1> HIDE DEF new
<1>8. OneCurrentHolder'
  <2> SUFFICES ASSUME NEW v \in Workers, NEW c \in held'[v]
               PROVE  /\ c.intent \in DOMAIN rows'
                      /\ c.token <= rows'[c.intent].token
                      /\ c.token = rows'[c.intent].token =>
                            /\ rows'[c.intent].status = "leased"
                            /\ rows'[c.intent].owner = v
                            /\ \A u \in Workers : \A d \in held'[u] :
                                  (d.intent = c.intent /\ d.token = c.token) => (u = v /\ d = c)
    BY DEF OneCurrentHolder
  <2>0. \A u \in Workers : \A d \in held[u] :
          /\ d.intent \in DOMAIN rows /\ d.token \in Nat /\ rows[d.intent].token \in Nat
          /\ d.token <= rows[d.intent].token
    BY DEF OneCurrentHolder, Claim, Row
  <2>1. CASE c \in held[v] /\ c.intent \notin batch
    <3>1. rows'[c.intent] = rows[c.intent] /\ c.intent \in DOMAIN rows
      BY <2>0, <2>1, <1>2
    <3>2. ASSUME NEW u \in Workers, NEW d \in held'[u], d.intent = c.intent PROVE d \in held[u]
      BY <3>2, <2>1, <1>5
    <3> QED BY <1>2, <2>1, <3>1, <3>2 DEF OneCurrentHolder
  <2>2. CASE c \in held[v] /\ c.intent \in batch
    BY <2>0, <2>2, <1>2, <1>3
  <2>3. CASE c \in new /\ v = w
    <3>1. /\ c.intent \in batch /\ c.token = rows[c.intent].token + 1
          /\ c.token = rows'[c.intent].token
          /\ rows'[c.intent].status = "leased" /\ rows'[c.intent].owner = w
          /\ rows[c.intent].token \in Nat
      BY <1>3, <1>6, <2>3
    <3>2. ASSUME NEW u \in Workers, NEW d \in held'[u], d.intent = c.intent, d.token = c.token
          PROVE  u = v /\ d = c
      <4>1. d \notin held[u]
        BY <2>0, <3>1, <3>2
      <4> QED BY <4>1, <1>5, <1>7, <2>3, <3>2
    <3> QED BY <1>2, <2>3, <3>1, <3>2
  <2> QED BY <1>5, <2>1, <2>2, <2>3
<1>9. Numbered'
  BY <1>3, <1>5, <1>6, <1>2 DEF Numbered
<1> QED BY <1>4, <1>8, <1>9

LEMMA RenewStep ==
    ASSUME DeliveryInv, NEW w \in Workers, NEW c \in held[w], NEW expires \in Times,
           renew(w, c, expires)
    PROVE  DeliveryInv'
<1> USE DEF DeliveryInv, DeliveryTypeOK
<1> DEFINE k == c.intent
<1>1. /\ k \in DOMAIN rows /\ rows[k] \in Row /\ held' = held /\ DOMAIN rows' = DOMAIN rows
      /\ \A j \in DOMAIN rows : j # k => rows'[j] = rows[j]
      /\ rows'[k] = [rows[k] EXCEPT !.expires = expires]
  BY DEF renew, OneCurrentHolder
<1>2. /\ rows'[k] \in Row /\ rows'[k].status = rows[k].status /\ rows'[k].owner = rows[k].owner
      /\ rows'[k].token = rows[k].token /\ rows'[k].attempt = rows[k].attempt
  BY <1>1, TimeAssumption DEF Row, Times
<1> HIDE DEF k
<1>3. \A j \in DOMAIN rows :
        /\ rows'[j] \in Row /\ rows'[j].status = rows[j].status /\ rows'[j].owner = rows[j].owner
        /\ rows'[j].token = rows[j].token /\ rows'[j].attempt = rows[j].attempt
  BY <1>1, <1>2
<1>4. DeliveryTypeOK'
  BY <1>1, <1>3
<1>5. OneCurrentHolder'
  BY <1>1, <1>3 DEF OneCurrentHolder
<1> QED BY <1>1, <1>4, <1>5 DEF Numbered

LEMMA CompleteStep ==
    ASSUME DeliveryInv, NEW w \in Workers, NEW c \in held[w], NEW outcome \in Outcomes,
           complete(w, c, outcome)
    PROVE  DeliveryInv'
<1> USE DEF DeliveryInv, DeliveryTypeOK
<1> DEFINE k == c.intent
<1>1. /\ k \in DOMAIN rows /\ rows[k] \in Row /\ DOMAIN rows' = DOMAIN rows
      /\ \A j \in DOMAIN rows : j # k => rows'[j] = rows[j]
      /\ rows'[k] = [rows[k] EXCEPT !.status = outcome, !.owner = NoWorker, !.expires = 0]
      /\ held' = [held EXCEPT ![w] = @ \ {c}]
      /\ rows[k].status = "leased" /\ rows[k].token = c.token
  BY DEF complete, OneCurrentHolder, Guarded
<1>2. /\ rows'[k] \in Row /\ rows'[k].status = outcome /\ rows'[k].owner = NoWorker
      /\ rows'[k].token = rows[k].token /\ rows'[k].attempt = rows[k].attempt
  <2> HIDE DEF k, DeliveryInv, DeliveryTypeOK
  <2>1. rows'[k] = [status |-> outcome, owner |-> NoWorker, expires |-> 0,
                    token |-> rows[k].token, attempt |-> rows[k].attempt, due |-> rows[k].due]
    BY <1>1, RowFields
  <2>2. rows[k].token \in Nat /\ rows[k].attempt \in Nat /\ rows[k].due \in Nat
    BY <1>1, RowFields
  <2>3. rows'[k] \in Row
    BY <2>1, <2>2 DEF Row, Statuses
  <2> QED BY <2>1, <2>3
<1>3. \A v \in Workers : held'[v] \subseteq held[v] /\ (v = w => c \notin held'[v])
  BY <1>1
<1> HIDE DEF k
<1>4. DeliveryTypeOK'
  <2>1. outcome \notin {"pending", "leased"} /\ rows[k].attempt # 0
    BY <1>1 DEF Outcomes
  <2>2. \A j \in DOMAIN rows' :
          /\ rows'[j] \in Row
          /\ rows'[j].status = "leased" <=> rows'[j].owner # NoWorker
          /\ rows'[j].token = rows'[j].attempt
          /\ rows'[j].status = "pending" <=> rows'[j].attempt = 0
    <3> SUFFICES ASSUME NEW j \in DOMAIN rows
                 PROVE  /\ rows'[j] \in Row
                        /\ rows'[j].status = "leased" <=> rows'[j].owner # NoWorker
                        /\ rows'[j].token = rows'[j].attempt
                        /\ rows'[j].status = "pending" <=> rows'[j].attempt = 0
      BY <1>1
    <3>1. CASE j = k
      BY <1>1, <1>2, <2>1, <3>1
    <3>2. CASE j # k
      BY <1>1, <3>2
    <3> QED BY <3>1, <3>2
  <2>3. held' \in [Workers -> SUBSET Claim]
    BY <1>1
  <2> QED BY <1>1, <2>2, <2>3
<1>5. OneCurrentHolder'
  <2>1. \A v \in Workers : \A d \in held'[v] : d.intent = k => d.token # rows[k].token
    BY <1>1, <1>3 DEF OneCurrentHolder, k
  <2>2. \A j \in DOMAIN rows : rows'[j].token = rows[j].token /\ (j # k => rows'[j] = rows[j])
    BY <1>1, <1>2
  <2> SUFFICES ASSUME NEW v \in Workers, NEW d \in held'[v]
               PROVE  /\ d.intent \in DOMAIN rows'
                      /\ d.token <= rows'[d.intent].token
                      /\ d.token = rows'[d.intent].token =>
                            /\ rows'[d.intent].status = "leased"
                            /\ rows'[d.intent].owner = v
                            /\ \A u \in Workers : \A b \in held'[u] :
                                  (b.intent = d.intent /\ b.token = d.token) => (u = v /\ b = d)
    BY DEF OneCurrentHolder
  <2> QED BY <1>1, <1>3, <2>1, <2>2 DEF OneCurrentHolder
<1> QED BY <1>3, <1>4, <1>5 DEF Numbered

\* A worker that forgets claims: fenced, or dead.
LEMMA ForgetStep ==
    ASSUME DeliveryInv, NEW w \in Workers, NEW S \in SUBSET held[w],
           held' = [held EXCEPT ![w] = S], rows' = rows
    PROVE  DeliveryInv'
<1> USE DEF DeliveryInv
<1>1. \A v \in Workers : held'[v] \subseteq held[v]
  BY DEF DeliveryTypeOK
<1>2. DeliveryTypeOK'
  BY DEF DeliveryTypeOK
<1>3. OneCurrentHolder' /\ Numbered'
  BY <1>1 DEF OneCurrentHolder, Numbered
<1> QED BY <1>2, <1>3

LEMMA DeliveryStep == DeliveryInv /\ [DeliveryNext]_deliveryVars => DeliveryInv'
<1> SUFFICES ASSUME DeliveryInv, [DeliveryNext]_deliveryVars PROVE DeliveryInv'
  OBVIOUS
<1>1. CASE UNCHANGED deliveryVars
  BY <1>1 DEF deliveryVars, DeliveryInv, DeliveryTypeOK, OneCurrentHolder, Numbered
<1>2. ASSUME NEW i \in Intents, NEW due \in Times, Enqueue(i, due) PROVE DeliveryInv'
  BY <1>2, EnqueueStep
<1>3. ASSUME NEW w \in Workers, Claims(w) PROVE DeliveryInv'
  BY <1>3, ClaimStep DEF Claims
<1>4. ASSUME NEW w \in Workers, Uses(w) PROVE DeliveryInv'
  <2>1. ASSUME NEW c \in held[w], fenced(w, c) PROVE DeliveryInv'
    BY <2>1, ForgetStep DEF fenced, DeliveryInv, DeliveryTypeOK
  <2> QED BY <1>4, <2>1, RenewStep, CompleteStep DEF Uses
<1>5. ASSUME NEW w \in Workers, WorkerCrash(w) PROVE DeliveryInv'
  BY <1>5, ForgetStep DEF WorkerCrash
<1> QED BY <1>1, <1>2, <1>3, <1>4, <1>5 DEF DeliveryNext

LEMMA DeliveryInvariant == DeliverySpec => []DeliveryInv
  BY DeliveryInit, DeliveryStep, PTL DEF DeliverySpec

-----------------------------------------------------------------------------

\* Rows keep their types, and of all remembered claims of an intent at most one
\* passes the guard of renew and complete.
THEOREM DeliveryHoldersSound == DeliverySpec => []HoldersSound
<1>1. DeliveryInv => HoldersSound
  BY DEF DeliveryInv, HoldersSound
<1> QED BY <1>1, DeliveryInvariant, PTL

\* Only the latest claimant settles a row, and what is settled stays.
THEOREM DeliverySettlesOnce == DeliverySpec => SettledForGood
<1> DEFINE Step == \A i \in DOMAIN rows :
              /\ i \in DOMAIN rows'
              /\ rows[i].status \in Outcomes => rows'[i] = rows[i]
              /\ rows[i].status = "pending" => rows'[i].status \notin Outcomes
              /\ rows'[i].status \in Outcomes \ {rows[i].status} =>
                    \E w \in Workers : \E c \in held[w] :
                       c.intent = i /\ c.attempt = rows[i].attempt
<1>1. DeliveryInv /\ [DeliveryNext]_deliveryVars => [Step]_deliveryVars
  <2> SUFFICES ASSUME DeliveryInv, DeliveryNext, NEW i \in DOMAIN rows
               PROVE  /\ i \in DOMAIN rows'
                      /\ rows[i].status \in Outcomes => rows'[i] = rows[i]
                      /\ rows[i].status = "pending" => rows'[i].status \notin Outcomes
                      /\ rows'[i].status \in Outcomes \ {rows[i].status} =>
                            \E w \in Workers : \E c \in held[w] :
                               c.intent = i /\ c.attempt = rows[i].attempt
    BY DEF deliveryVars
  <2> USE DEF DeliveryInv, DeliveryTypeOK, Outcomes
  <2>0. rows[i] \in Row
    OBVIOUS
  <2>1. ASSUME NEW j \in Intents, NEW due \in Times, Enqueue(j, due)
        PROVE  i \in DOMAIN rows' /\ rows'[i] = rows[i]
    BY <2>1 DEF Enqueue, WithRows
  <2>2. ASSUME NEW w \in Workers, Claims(w)
        PROVE  /\ i \in DOMAIN rows'
               /\ rows'[i] = rows[i] \/ (rows[i].status \notin Outcomes /\ rows'[i].status = "leased")
    <3>1. PICK nowMs \in Times, leaseMs \in Times, limit \in 1 .. 2, batch \in SUBSET DOMAIN rows :
             IsBatch(batch, nowMs, limit) /\ claim(w, batch, nowMs, leaseMs)
      BY <2>2 DEF Claims
    <3>2. i \in DOMAIN rows' /\ rows'[i] = IF i \in batch THEN Leased(i, w, nowMs + leaseMs) ELSE rows[i]
      BY <3>1 DEF claim
    <3>3. i \in batch => rows[i].status \notin Outcomes
      BY <3>1 DEF IsBatch, Claimable
    <3>4. Leased(i, w, nowMs + leaseMs).status = "leased"
      <4> HIDE DEF DeliveryInv, DeliveryTypeOK
      <4> QED BY <2>0, RowFields DEF Leased
    <3> QED BY <3>2, <3>3, <3>4
  <2>3. ASSUME NEW w \in Workers, NEW c \in held[w], NEW e \in Times, renew(w, c, e)
        PROVE  /\ i \in DOMAIN rows' /\ rows'[i].status = rows[i].status
               /\ rows[i].status \in Outcomes => rows'[i] = rows[i]
    BY <2>0, <2>3 DEF renew, Guarded, Row
  <2>4. ASSUME NEW w \in Workers, NEW c \in held[w], NEW o \in Outcomes, complete(w, c, o)
        PROVE  /\ i \in DOMAIN rows'
               /\ c.intent # i => rows'[i] = rows[i]
               /\ c.intent = i => rows[i].status = "leased" /\ c.attempt = rows[i].attempt
    BY <2>0, <2>4 DEF complete, Guarded, Numbered
  <2>5. ASSUME NEW w \in Workers, Uses(w)
        PROVE  \/ i \in DOMAIN rows' /\ rows'[i] = rows[i]
               \/ \E c \in held[w] : \E e \in Times : renew(w, c, e)
               \/ \E c \in held[w] : \E o \in Outcomes : complete(w, c, o)
    BY <2>5 DEF Uses, fenced
  <2>6. ASSUME NEW w \in Workers, WorkerCrash(w)
        PROVE  i \in DOMAIN rows' /\ rows'[i] = rows[i]
    BY <2>6 DEF WorkerCrash
  <2> QED BY <2>1, <2>2, <2>3, <2>4, <2>5, <2>6 DEF DeliveryNext
<1> QED BY <1>1, DeliveryInvariant, PTL DEF DeliverySpec, SettledForGood

-----------------------------------------------------------------------------
(* The research registry.                                                  *)
-----------------------------------------------------------------------------
ResultKinds == {"features", "labels", "trials", "signals"}
Builds == {Build[h] : h \in Hosts}
Part(m, b, kind) == Record(m, kind, <<kind, m, b>>, <<kind>>)
EndStatuses == {"completed", "failed"}

-----------------------------------------------------------------------------
(* A process that works on an attempt has its start on record.             *)
HostsKnown ==
  /\ step \in [Hosts -> {"idle", "insert", "start", "evaluate", "failed", "replay"}]
  /\ task \in [Hosts -> Manifests]
  /\ attempt \in [Hosts -> Nat]
  /\ \A h \in Hosts :
       /\ step[h] \in {"start", "evaluate", "failed"} => task[h] \in manifests
       /\ step[h] \in {"evaluate", "failed"} => Start(task[h], attempt[h]) \in records

(* The rows there can be, and what each implies.                           *)
Known(r) ==
  \/ \E m \in manifests, k \in Nat : r = Start(m, k)
  \/ \E m \in manifests, k \in Nat, s \in EndStatuses : r = End(m, k, s) /\ Start(m, k) \in records
  \/ \E m \in Manifests, b \in Builds : r = ResultRow(m, b)
  \/ \E m \in Manifests, b \in Builds, kind \in ResultKinds : r = Part(m, b, kind) /\ ResultRow(m, b) \in records

RowsKnown == \A r \in records : Known(r)

(* One transaction wrote a result and its parts, and ended an attempt.     *)
Together ==
  /\ \A m \in Manifests : \A b, c \in Builds :
       ResultRow(m, b) \in records /\ ResultRow(m, c) \in records => b = c
  /\ \A m \in Manifests : \A b \in Builds :
       ResultRow(m, b) \in records =>
         /\ \A kind \in ResultKinds : Part(m, b, kind) \in records
         /\ \E k \in Nat : End(m, k, "completed") \in records
  /\ \A m \in Manifests : \A k \in Nat :
       End(m, k, "completed") \in records => \E b \in Builds : ResultRow(m, b) \in records

EndsOnce ==
  \A m \in Manifests : \A k \in Nat : \A s, t \in EndStatuses :
    End(m, k, s) \in records /\ End(m, k, t) \in records => s = t

(* The starts of a manifest are numbered from one without a gap.           *)
Counted(m, n) == \A k \in Nat : Start(m, k) \in records <=> k \in 1..n
AttemptsNumbered == \A m \in Manifests : \E n \in Nat : Counted(m, n)

AnswersStored ==
  \A a \in answers : \E m \in Manifests, b \in Builds :
    a = <<m, evaluateManifest(m, b)>> /\ ResultRow(m, b) \in records

EpochsTaken ==
  /\ manifests \subseteq Manifests
  /\ \A m, n \in manifests : EpochOf[m] = EpochOf[n] => m = n

RegistryInv ==
  /\ HostsKnown /\ RowsKnown /\ Together /\ EndsOnce /\ AttemptsNumbered /\ AnswersStored /\ EpochsTaken

-----------------------------------------------------------------------------
(* Rows of different attempts, manifests, builds or kinds differ.          *)
LEMMA StartIs ==
  ASSUME NEW m, NEW k
  PROVE  /\ Start(m, k).manifest = m /\ Start(m, k).kind = "attempt-start" /\ Start(m, k).key[2] = k
         /\ \A n, j : Start(m, k) = Start(n, j) => m = n /\ k = j
  BY DEF Start, Record

LEMMA EndIs ==
  ASSUME NEW m, NEW k, NEW s
  PROVE  /\ End(m, k, s).manifest = m /\ End(m, k, s).kind = "attempt-end" /\ End(m, k, s).key[2] = k
         /\ End(m, k, s).key = <<"attempt", k>> /\ End(m, k, s).body = <<s>>
         /\ \A n, j, t : End(m, k, s) = End(n, j, t) => m = n /\ k = j /\ s = t
  BY DEF End, Record

LEMMA ResultIs ==
  ASSUME NEW m, NEW b
  PROVE  /\ ResultRow(m, b).manifest = m /\ ResultRow(m, b).kind = "evaluation"
         /\ \A n, c : ResultRow(m, b) = ResultRow(n, c) => m = n /\ b = c
  BY DEF ResultRow, Record, evaluateManifest

LEMMA PartIs ==
  ASSUME NEW m, NEW b, NEW kind
  PROVE  /\ Part(m, b, kind).manifest = m /\ Part(m, b, kind).kind = kind
         /\ \A n, c, other : Part(m, b, kind) = Part(n, c, other) => m = n /\ b = c /\ kind = other
  BY DEF Part, Record

LEMMA KindsDiffer ==
  ASSUME NEW kind \in ResultKinds
  PROVE  kind # "attempt-start" /\ kind # "attempt-end" /\ kind # "evaluation"
  BY DEF ResultKinds

LEMMA PartsAre ==
  ASSUME NEW m, NEW b
  PROVE  ResultRows(m, b) = {Part(m, b, kind) : kind \in ResultKinds}
  BY DEF ResultRows, Part, ResultKinds

(* A transaction that meets no conflict meets neither the result of        *)
(* another build nor another end of the attempt.                           *)
LEMMA NoConflict ==
  ASSUME NEW m, NEW k, NEW b, NEW s, NEW c, NEW t
  PROVE  /\ ~Conflicts(ResultRow(m, b)) /\ ResultRow(m, c) \in records => c = b
         /\ ~Conflicts(End(m, k, s)) /\ End(m, k, t) \in records => t = s
  BY DEF Conflicts, ResultRow, End, Record, evaluateManifest

LEMMA WritesAre ==
  ASSUME NEW m, NEW n, NEW b, FinishWrites(m, n, b) # {}
  PROVE  /\ FinishWrites(m, n, b) = ResultRows(m, b) \cup {ResultRow(m, b), End(m, n, "completed")}
         /\ ~Conflicts(ResultRow(m, b)) /\ ~Conflicts(End(m, n, "completed"))
  BY DEF FinishWrites

(* The SELECT count( * ) of a manifest's starts is the number of the last. *)
LEMMA StartsCounted ==
  ASSUME NEW m \in Manifests, NEW n \in Nat, Counted(m, n), RowsKnown
  PROVE  Cardinality(RowsOf(m, "attempt-start")) = n
  <1> DEFINE starts == RowsOf(m, "attempt-start")
             f == [k \in 1..n |-> Start(m, k)]
  <1>1. \A r \in starts : \E k \in 1..n : r = Start(m, k)
    BY StartIs, EndIs, ResultIs, PartIs, KindsDiffer DEF RowsOf, RowsKnown, Known, Counted
  <1>2. \A k \in 1..n : Start(m, k) \in starts
    BY StartIs DEF RowsOf, Counted
  <1>3. f \in Bijection(1..n, starts)
    <2>1. f \in [1..n -> starts]
      BY <1>2
    <2>2. \A j, k \in 1..n : f[j] = f[k] => j = k
      BY StartIs
    <2>3. \A r \in starts : \E k \in 1..n : f[k] = r
      BY <1>1
    <2> HIDE DEF f, starts
    <2> QED
      BY <2>1, <2>2, <2>3, Fun_IsBij
  <1>4. ExistsBijection(1..n, starts)
    BY <1>3 DEF ExistsBijection
  <1> HIDE DEF f, starts
  <1>5. IsFiniteSet(1..n) /\ Cardinality(1..n) = n
    BY FS_Interval
  <1>6. Cardinality(starts) = n
    BY <1>4, <1>5, FS_Bijection
  <1> QED
    BY <1>6 DEF starts

-----------------------------------------------------------------------------
LEMMA RegistryInvInit == RegistryInit => RegistryInv
  <1> SUFFICES ASSUME RegistryInit PROVE RegistryInv
    OBVIOUS
  <1>1. (CHOOSE m \in Manifests : TRUE) \in Manifests
    BY RegistryAssumption
  <1>2. HostsKnown
    BY <1>1 DEF RegistryInit, HostsKnown
  <1>3. AttemptsNumbered
    <2> SUFFICES ASSUME NEW m \in Manifests PROVE Counted(m, 0)
      BY DEF AttemptsNumbered
    <2> QED
      BY DEF Counted, RegistryInit
  <1> QED
    BY <1>2, <1>3 DEF RegistryInit, RegistryInv, RowsKnown, Together, EndsOnce, AnswersStored, EpochsTaken

(* The tables as they were: what is said of them still holds.              *)
LEMMA TablesKept ==
  ASSUME RegistryInv, UNCHANGED <<manifests, records>>
  PROVE  RowsKnown' /\ Together' /\ EndsOnce' /\ AttemptsNumbered' /\ EpochsTaken'
  BY DEF RegistryInv, RowsKnown, Known, Together, EndsOnce, AttemptsNumbered, Counted, EpochsTaken, RowsOf

(* register and run read the tables and choose what comes next.            *)
LEMMA RegisterKeeps ==
  ASSUME RegistryInv, NEW h \in Hosts, NEW m \in Manifests, Register(h, m) \/ Run(h, m)
  PROVE  RegistryInv'
  <1>1. HostsKnown'
    BY DEF RegistryInv, HostsKnown, Register, Run, Goes
  <1>2. AnswersStored'
    BY DEF RegistryInv, AnswersStored, Register, Run
  <1> QED
    BY <1>1, <1>2, TablesKept DEF RegistryInv, Register, Run

LEMMA RestKeeps ==
  ASSUME RegistryInv, NEW h \in Hosts, FinishFails(h) \/ Die(h)
  PROVE  RegistryInv'
  <1>1. HostsKnown'
    BY DEF RegistryInv, HostsKnown, FinishFails, Die, Goes
  <1>2. AnswersStored'
    BY DEF RegistryInv, AnswersStored, FinishFails, Die
  <1> QED
    BY <1>1, <1>2, TablesKept DEF RegistryInv, FinishFails, Die

(* A replay returns an evaluation only when it is what is stored.          *)
LEMMA ReplayKeeps ==
  ASSUME RegistryInv, NEW h \in Hosts, Replay(h)
  PROVE  RegistryInv'
  <1>1. HostsKnown'
    BY DEF RegistryInv, HostsKnown, Replay, Goes
  <1>2. task[h] \in Manifests /\ Build[h] \in Builds
    BY DEF RegistryInv, HostsKnown, Builds
  <1>3. AnswersStored'
    BY <1>2 DEF RegistryInv, AnswersStored, Replay, Replays
  <1> QED
    BY <1>1, <1>3, TablesKept DEF RegistryInv, Replay

(* The trigger refuses a second manifest of an epoch.                      *)
LEMMA InsertKeeps ==
  ASSUME RegistryInv, NEW h \in Hosts, Insert(h)
  PROVE  RegistryInv'
  <1>1. manifests \subseteq manifests' /\ records' = records
    BY DEF Insert
  <1>2. HostsKnown'
    BY <1>1 DEF RegistryInv, HostsKnown, Insert, Goes
  <1>3. EpochsTaken'
    BY DEF RegistryInv, EpochsTaken, HostsKnown, Insert
  <1>4. RowsKnown'
    BY <1>1 DEF RegistryInv, RowsKnown, Known
  <1>5. Together' /\ EndsOnce' /\ AttemptsNumbered'
    BY <1>1 DEF RegistryInv, Together, EndsOnce, AttemptsNumbered, Counted
  <1>6. AnswersStored'
    BY <1>1 DEF RegistryInv, AnswersStored, Insert
  <1> QED
    BY <1>2, <1>3, <1>4, <1>5, <1>6 DEF RegistryInv

(* A start takes the number after the last, counted in its transaction.    *)
LEMMA StartKeeps ==
  ASSUME RegistryInv, NEW h \in Hosts, StartAttempt(h)
  PROVE  RegistryInv'
  <1> DEFINE m == task[h]
             n == Cardinality(RowsOf(m, "attempt-start"))
             row == Start(m, n + 1)
  <1>1. m \in Manifests /\ m \in manifests
    BY DEF RegistryInv, HostsKnown, StartAttempt
  <1>2. n \in Nat /\ Counted(m, n)
    <2>1. PICK last \in Nat : Counted(m, last)
      BY <1>1 DEF RegistryInv, AttemptsNumbered
    <2> QED
      BY <1>1, <2>1, StartsCounted DEF RegistryInv
  <1>3. /\ records' = records \cup {row} /\ manifests' = manifests
        /\ task' = task /\ answers' = answers
        /\ attempt' = [attempt EXCEPT ![h] = n + 1]
        /\ step[h] = "start" /\ step' = [step EXCEPT ![h] = "evaluate"]
    BY DEF StartAttempt, Goes
  <1>4. HostsKnown'
    BY <1>1, <1>2, <1>3 DEF RegistryInv, HostsKnown
  <1>5. /\ \A k, s : End(m, k, s) # row
        /\ \A k, s, o : End(o, k, s) # row
        /\ \A o, b : ResultRow(o, b) # row
        /\ \A o, b : \A kind \in ResultKinds : Part(o, b, kind) # row
        /\ \A o, k : Start(o, k) = row => o = m /\ k = n + 1
    BY StartIs, EndIs, ResultIs, PartIs, KindsDiffer
  <1> HIDE DEF row
  <1>6. RowsKnown'
    <2> SUFFICES ASSUME NEW r \in records' PROVE Known(r)'
      BY DEF RowsKnown
    <2>1. CASE r = row
      BY <1>1, <1>2, <1>3, <2>1 DEF Known, row
    <2>2. CASE r \in records
      BY <1>3, <2>2 DEF RegistryInv, RowsKnown, Known
    <2> QED
      BY <1>3, <2>1, <2>2
  <1>7. Together'
    BY <1>3, <1>5 DEF RegistryInv, Together
  <1>8. EndsOnce'
    BY <1>3, <1>5 DEF RegistryInv, EndsOnce
  <1>9. AttemptsNumbered'
    <2> SUFFICES ASSUME NEW o \in Manifests PROVE \E last \in Nat : Counted(o, last)'
      BY DEF AttemptsNumbered
    <2>1. CASE o = m
      <3> SUFFICES ASSUME NEW k \in Nat
                   PROVE  Start(m, k) \in records \cup {row} <=> k \in 1..(n + 1)
        BY <1>2, <1>3, <2>1 DEF Counted
      <3>1. Start(m, k) = row <=> k = n + 1
        BY <1>5 DEF row
      <3> QED
        BY <1>2, <3>1 DEF Counted
    <2>2. CASE o # m
      <3>1. PICK last \in Nat : Counted(o, last)
        BY DEF RegistryInv, AttemptsNumbered
      <3> QED
        BY <1>3, <1>5, <2>2, <3>1 DEF Counted
    <2> QED
      BY <2>1, <2>2
  <1>10. AnswersStored' /\ EpochsTaken'
    BY <1>3 DEF RegistryInv, AnswersStored, EpochsTaken
  <1> QED
    BY <1>4, <1>6, <1>7, <1>8, <1>9, <1>10 DEF RegistryInv

(* What ends an attempt adds no start.                                     *)
LEMMA StartsKept ==
  ASSUME RegistryInv, NEW S, records' = records \cup S,
         \A o, k : Start(o, k) \notin S
  PROVE  AttemptsNumbered'
  BY DEF RegistryInv, AttemptsNumbered, Counted

LEMMA EndFailedKeeps ==
  ASSUME RegistryInv, NEW h \in Hosts, EndFailed(h)
  PROVE  RegistryInv'
  <1> DEFINE m == task[h]
             n == attempt[h]
             row == End(m, n, "failed")
  <1>1. m \in Manifests /\ m \in manifests /\ n \in Nat /\ Start(m, n) \in records
    BY DEF RegistryInv, HostsKnown, EndFailed
  <1>2. /\ manifests' = manifests /\ task' = task /\ answers' = answers /\ attempt' = attempt
        /\ step' = [step EXCEPT ![h] = "idle"]
    BY DEF EndFailed, Goes
  <1>3. CASE Conflicts(row)
    <2>1. records' = records
      BY <1>3 DEF EndFailed
    <2>2. HostsKnown'
      BY <1>2, <2>1 DEF RegistryInv, HostsKnown
    <2>3. AnswersStored'
      BY <1>2, <2>1 DEF RegistryInv, AnswersStored
    <2> QED
      BY <1>2, <2>1, <2>2, <2>3, TablesKept DEF RegistryInv
  <1>4. CASE ~Conflicts(row)
    <2>1. records' = records \cup {row}
      BY <1>4 DEF EndFailed
    <2>2. /\ \A o, k : Start(o, k) # row
          /\ \A o, b : ResultRow(o, b) # row
          /\ \A o, b : \A kind \in ResultKinds : Part(o, b, kind) # row
          /\ \A o, k, s : End(o, k, s) = row => o = m /\ k = n /\ s = "failed"
      BY StartIs, EndIs, ResultIs, PartIs, KindsDiffer
    <2>3. \A t : End(m, n, t) \in records => t = "failed"
      BY <1>4, NoConflict
    <2> HIDE DEF row
    <2>4. HostsKnown'
      BY <1>2, <2>1 DEF RegistryInv, HostsKnown
    <2>5. RowsKnown'
      <3> SUFFICES ASSUME NEW r \in records' PROVE Known(r)'
        BY DEF RowsKnown
      <3>1. CASE r = row
        BY <1>1, <1>2, <2>1, <3>1 DEF Known, row, EndStatuses
      <3>2. CASE r \in records
        BY <1>2, <2>1, <3>2 DEF RegistryInv, RowsKnown, Known
      <3> QED
        BY <2>1, <3>1, <3>2
    <2>6. Together'
      BY <2>1, <2>2 DEF RegistryInv, Together
    <2>7. EndsOnce'
      BY <2>1, <2>2, <2>3 DEF RegistryInv, EndsOnce
    <2>8. AttemptsNumbered'
      BY <2>1, <2>2, StartsKept
    <2>9. AnswersStored' /\ EpochsTaken'
      BY <1>2, <2>1 DEF RegistryInv, AnswersStored, EpochsTaken
    <2> QED
      BY <2>4, <2>5, <2>6, <2>7, <2>8, <2>9 DEF RegistryInv
  <1> QED
    BY <1>3, <1>4

(* The rows of an evaluation come together, when none conflicts.           *)
LEMMA FinishKeeps ==
  ASSUME RegistryInv, NEW h \in Hosts, Finish(h)
  PROVE  RegistryInv'
  <1> DEFINE m == task[h]
             n == attempt[h]
             b == Build[h]
             added == FinishWrites(m, n, b)
  <1>1. /\ m \in Manifests /\ m \in manifests /\ n \in Nat /\ Start(m, n) \in records
        /\ b \in Builds
    BY DEF RegistryInv, HostsKnown, Finish, Builds
  <1>2. /\ manifests' = manifests /\ task' = task /\ attempt' = attempt
        /\ records' = records \cup added
        /\ step[h] = "evaluate"
    BY DEF Finish
  <1>3. HostsKnown'
    <2>1. step' = [step EXCEPT ![h] = "idle"] \/ step' = [step EXCEPT ![h] = "failed"]
      BY DEF Finish, Goes
    <2> HIDE DEF added
    <2> QED
      BY <1>2, <2>1 DEF RegistryInv, HostsKnown
  <1>4. CASE added = {}
    <2>1. UNCHANGED <<manifests, records>> /\ answers' = answers
      BY <1>2, <1>4 DEF Finish
    <2>2. AnswersStored'
      BY <2>1 DEF RegistryInv, AnswersStored
    <2> QED
      BY <1>3, <2>1, <2>2, TablesKept DEF RegistryInv
  <1>5. CASE added # {}
    <2>1. /\ \A r : r \in added <=> \/ \E kind \in ResultKinds : r = Part(m, b, kind)
                                    \/ r = ResultRow(m, b) \/ r = End(m, n, "completed")
          /\ ~Conflicts(ResultRow(m, b)) /\ ~Conflicts(End(m, n, "completed"))
      BY <1>5, WritesAre, PartsAre
    <2>2. /\ \A o, k : Start(o, k) \notin added
          /\ \A o, c : ResultRow(o, c) \in added <=> o = m /\ c = b
          /\ \A o, c : \A kind \in ResultKinds : Part(o, c, kind) \in added <=> o = m /\ c = b
          /\ \A o, k, s : End(o, k, s) \in added <=> o = m /\ k = n /\ s = "completed"
      <3> HIDE DEF added
      <3>1. \A o, k : Start(o, k) \notin added
        BY <2>1, StartIs, EndIs, ResultIs, PartIs, KindsDiffer
      <3>2. \A o, c : ResultRow(o, c) \in added <=> o = m /\ c = b
        BY <2>1, EndIs, ResultIs, PartIs, KindsDiffer
      <3>3. \A o, c : \A kind \in ResultKinds : Part(o, c, kind) \in added <=> o = m /\ c = b
        BY <2>1, EndIs, ResultIs, PartIs, KindsDiffer
      <3>4. \A o, k, s : End(o, k, s) \in added <=> o = m /\ k = n /\ s = "completed"
        BY <2>1, EndIs, ResultIs, PartIs, KindsDiffer
      <3> QED
        BY <3>1, <3>2, <3>3, <3>4
    <2>3. answers' = answers \cup {<<m, evaluateManifest(m, b)>>}
      BY <2>2 DEF Finish
    <2>4. /\ \A c : ResultRow(m, c) \in records => c = b
          /\ \A t : End(m, n, t) \in records => t = "completed"
      BY <2>1, NoConflict
    <2> HIDE DEF added
    <2>5. RowsKnown'
      <3> SUFFICES ASSUME NEW r \in records' PROVE Known(r)'
        BY DEF RowsKnown
      <3>1. CASE r \in added
        <4>1. CASE \E kind \in ResultKinds : r = Part(m, b, kind)
          BY <1>1, <1>2, <2>2, <4>1 DEF Known
        <4>2. CASE r = ResultRow(m, b)
          BY <1>1, <4>2 DEF Known
        <4>3. CASE r = End(m, n, "completed")
          BY <1>1, <1>2, <4>3 DEF Known, EndStatuses
        <4> QED
          BY <2>1, <3>1, <4>1, <4>2, <4>3
      <3>2. CASE r \in records
        BY <1>2, <3>2 DEF RegistryInv, RowsKnown, Known
      <3> QED
        BY <1>2, <3>1, <3>2
    <2>6. Together'
      <3>1. ASSUME NEW o \in Manifests, NEW c \in Builds, NEW d \in Builds,
                   ResultRow(o, c) \in records', ResultRow(o, d) \in records'
            PROVE  c = d
        BY <1>2, <2>2, <2>4, <3>1 DEF RegistryInv, Together
      <3>2. ASSUME NEW o \in Manifests, NEW c \in Builds, ResultRow(o, c) \in records'
            PROVE  /\ \A kind \in ResultKinds : Part(o, c, kind) \in records'
                   /\ \E k \in Nat : End(o, k, "completed") \in records'
        BY <1>1, <1>2, <2>2, <3>2 DEF RegistryInv, Together
      <3>3. ASSUME NEW o \in Manifests, NEW k \in Nat, End(o, k, "completed") \in records'
            PROVE  \E c \in Builds : ResultRow(o, c) \in records'
        BY <1>1, <1>2, <2>2, <3>3 DEF RegistryInv, Together
      <3> QED
        BY <3>1, <3>2, <3>3 DEF Together
    <2>7. EndsOnce'
      BY <1>2, <2>2, <2>4 DEF RegistryInv, EndsOnce
    <2>8. AttemptsNumbered'
      BY <1>2, <2>2, StartsKept
    <2>9. AnswersStored'
      BY <1>1, <1>2, <2>2, <2>3 DEF RegistryInv, AnswersStored
    <2>10. EpochsTaken'
      BY <1>2 DEF RegistryInv, EpochsTaken
    <2> QED
      BY <1>3, <2>5, <2>6, <2>7, <2>8, <2>9, <2>10 DEF RegistryInv
  <1> QED
    BY <1>4, <1>5

LEMMA RegistryInvStep ==
  ASSUME RegistryInv, [RegistryNext]_registryVars
  PROVE  RegistryInv'
  <1>1. CASE UNCHANGED registryVars
    <2>1. HostsKnown' /\ AnswersStored'
      BY <1>1 DEF RegistryInv, HostsKnown, AnswersStored, registryVars
    <2> QED
      BY <1>1, <2>1, TablesKept DEF RegistryInv, registryVars
  <1>2. CASE RegistryNext
    BY <1>2, RegisterKeeps, InsertKeeps, StartKeeps, FinishKeeps, RestKeeps, EndFailedKeeps, ReplayKeeps
       DEF RegistryNext
  <1> QED
    BY <1>1, <1>2

-----------------------------------------------------------------------------
(* The inductive invariant says what the property says.                    *)
LEMMA RegistryInvGives == RegistryInv => ResultsFrozen
  <1> SUFFICES ASSUME RegistryInv PROVE ResultsFrozen
    OBVIOUS
  <1>1. \A m, n \in manifests : EpochOf[m] = EpochOf[n] => m = n
    BY DEF RegistryInv, EpochsTaken
  <1>2. SUFFICES ASSUME NEW m \in Manifests
        PROVE LET starts == {r.key[2] : r \in RowsOf(m, "attempt-start")}
                  ends == RowsOf(m, "attempt-end")
                  computed == {b \in {Build[h] : h \in Hosts} : ResultRow(m, b) \in records}
                  stored == UNION {RowsOf(m, kind) : kind \in {"features", "labels", "trials", "signals"}}
              IN /\ starts = 1..Cardinality(starts)
                 /\ starts # {} => m \in manifests
                 /\ \A r \in ends : r.key[2] \in starts /\ ~\E s \in ends : s.key = r.key /\ s # r
                 /\ Cardinality(computed) <= 1
                 /\ stored = UNION {ResultRows(m, b) : b \in computed}
                 /\ \A a \in answers : a[1] = m => \E b \in computed : a[2] = evaluateManifest(m, b)
                 /\ (\E r \in ends : r.body = <<"completed">>) <=> computed # {}
    BY <1>1 DEF ResultsFrozen
  <1> DEFINE starts == {r.key[2] : r \in RowsOf(m, "attempt-start")}
             ends == RowsOf(m, "attempt-end")
             computed == {b \in {Build[h] : h \in Hosts} : ResultRow(m, b) \in records}
             stored == UNION {RowsOf(m, kind) : kind \in {"features", "labels", "trials", "signals"}}
  <1>3. \A r \in RowsOf(m, "attempt-start") : \E k \in Nat : r = Start(m, k) /\ m \in manifests
    BY StartIs, EndIs, ResultIs, PartIs, KindsDiffer DEF RegistryInv, RowsKnown, Known, RowsOf
  <1>4. \A r \in ends : \E k \in Nat, s \in EndStatuses : r = End(m, k, s) /\ Start(m, k) \in records
    BY StartIs, EndIs, ResultIs, PartIs, KindsDiffer DEF RegistryInv, RowsKnown, Known, RowsOf
  <1>5. \A r \in stored : \E b \in Builds : \E kind \in ResultKinds :
           r = Part(m, b, kind) /\ ResultRow(m, b) \in records
    <2> SUFFICES ASSUME NEW kind \in ResultKinds, NEW r \in RowsOf(m, kind)
                 PROVE  \E b \in Builds : r = Part(m, b, kind) /\ ResultRow(m, b) \in records
      BY DEF ResultKinds
    <2> QED
      BY StartIs, EndIs, ResultIs, PartIs, KindsDiffer DEF RegistryInv, RowsKnown, Known, RowsOf
  <1>6. PICK n \in Nat : Counted(m, n)
    BY DEF RegistryInv, AttemptsNumbered
  <1>7. starts = 1..n
    <2>1. \A k \in starts : k \in 1..n
      BY <1>3, <1>6, StartIs DEF Counted, RowsOf
    <2>2. \A k \in 1..n : k \in starts
      <3> SUFFICES ASSUME NEW k \in 1..n PROVE k \in starts
        OBVIOUS
      <3>1. Start(m, k) \in RowsOf(m, "attempt-start")
        BY <1>6, StartIs DEF Counted, RowsOf
      <3> QED
        BY <3>1, StartIs
    <2> QED
      BY <2>1, <2>2
  <1>8. starts = 1..Cardinality(starts)
    <2> HIDE DEF starts
    <2> QED
      BY <1>7, FS_Interval
  <1>9. starts # {} => m \in manifests
    BY <1>3
  <1>10. \A r \in ends : r.key[2] \in starts /\ ~\E s \in ends : s.key = r.key /\ s # r
    <2> SUFFICES ASSUME NEW r \in ends
                 PROVE  r.key[2] \in starts /\ \A s \in ends : s.key = r.key => s = r
      OBVIOUS
    <2>1. PICK k \in Nat, t \in EndStatuses : r = End(m, k, t) /\ Start(m, k) \in records
      BY <1>4
    <2>2. r.key[2] = k /\ r.key = <<"attempt", k>>
      BY <2>1, EndIs
    <2>3. k \in starts
      BY <1>6, <1>7, <2>1 DEF Counted
    <2>4. ASSUME NEW s \in ends, s.key = r.key PROVE s = r
      <3>1. PICK j \in Nat, u \in EndStatuses : s = End(m, j, u)
        BY <1>4
      <3>2. j = k
        BY <2>2, <2>4, <3>1, EndIs
      <3>3. s \in records /\ r \in records
        BY DEF RowsOf
      <3> QED
        BY <2>1, <3>1, <3>2, <3>3 DEF RegistryInv, EndsOnce
    <2> QED
      BY <2>2, <2>3, <2>4
  <1>11. \A b \in Builds : b \in computed <=> ResultRow(m, b) \in records
    BY DEF Builds
  <1>12. computed \subseteq Builds
    BY DEF Builds
  <1>13. Cardinality(computed) <= 1
    <2>1. \A b, c \in computed : b = c
      BY <1>11, <1>12 DEF RegistryInv, Together
    <2>2. computed = {} \/ \E b : computed = {b}
      BY <2>1
    <2> HIDE DEF computed
    <2>3. Cardinality(computed) = 0 \/ Cardinality(computed) = 1
      BY <2>2, FS_EmptySet, FS_Singleton
    <2> QED
      BY <2>3
  <1>14. stored = UNION {ResultRows(m, b) : b \in computed}
    <2>1. ASSUME NEW r \in stored PROVE \E b \in computed : r \in ResultRows(m, b)
      BY <1>5, <1>11, PartsAre
    <2>2. ASSUME NEW b \in computed, NEW r \in ResultRows(m, b) PROVE r \in stored
      <3>1. PICK kind \in ResultKinds : r = Part(m, b, kind)
        BY PartsAre
      <3>2. r \in records
        BY <1>11, <1>12, <3>1 DEF RegistryInv, Together
      <3>3. r \in RowsOf(m, kind)
        BY <3>1, <3>2, PartIs DEF RowsOf
      <3> QED
        BY <3>3 DEF ResultKinds
    <2> HIDE DEF stored, computed
    <2> QED
      BY <2>1, <2>2
  <1>15. \A a \in answers : a[1] = m => \E b \in computed : a[2] = evaluateManifest(m, b)
    BY <1>11 DEF RegistryInv, AnswersStored
  <1>16. (\E r \in ends : r.body = <<"completed">>) <=> computed # {}
    <2>1. ASSUME NEW r \in ends, r.body = <<"completed">> PROVE computed # {}
      <3>1. PICK k \in Nat, t \in EndStatuses : r = End(m, k, t)
        BY <1>4
      <3>2. t = "completed" /\ r \in records
        BY <2>1, <3>1, EndIs DEF RowsOf
      <3> QED
        BY <1>11, <3>1, <3>2 DEF RegistryInv, Together
    <2>2. ASSUME NEW b \in computed PROVE \E r \in ends : r.body = <<"completed">>
      <3>1. PICK k \in Nat : End(m, k, "completed") \in records
        BY <1>11, <1>12 DEF RegistryInv, Together
      <3> QED
        BY <3>1, EndIs DEF RowsOf
    <2> HIDE DEF ends, computed
    <2> QED
      BY <2>1, <2>2
  <1> QED
    BY <1>8, <1>9, <1>10, <1>13, <1>14, <1>15, <1>16

(* The registry as sqlite-registry.ts writes it keeps its results frozen:  *)
(* one manifest per epoch, attempts numbered without a gap and ended at    *)
(* most once, results of one build stored entire with a completed end, and *)
(* everything returned by run and replay equal to them, however processes  *)
(* of different builds interleave, fail and die.                           *)
THEOREM ResultsStayFrozen == RegistrySpec => []ResultsFrozen
  <1>1. RegistrySpec => []RegistryInv
    BY RegistryInvInit, RegistryInvStep, PTL DEF RegistrySpec
  <1> QED
    BY <1>1, RegistryInvGives, PTL
=============================================================================
