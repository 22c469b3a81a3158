---------------------------- MODULE VaultProofs ----------------------------
(***************************************************************************)
(* The artifact vault, for any number of attempts, digests, readers and    *)
(* faults: EvidenceSound, and that it implements ArtifactPromise.  And the *)
(* lease of its writer: its types, and that leases never overlap, for any  *)
(* number of processes, any duration and any number of crashes.            *)
(***************************************************************************)
EXTENDS VaultRecovery, WriterLease, FiniteSetTheorems, NaturalsInduction, WellFoundedInduction, TLAPS

Plans ==
  [kind : {"none", "remove-snapshot", "quarantine", "expire-attempt", "adopt-orphan",
           "record-missing-content"},
   source : {"none", "snapshot", "stage", "content"}, key : Nat, inode : Nat, run : Nat,
   outcome : {"none", "stage-expired", "stage-missing"}]
Phases == {"evidence", "install-intents", "snapshots", "staging", "open-attempts", "content",
           "missing-content"}

(* Every variable has its type.                                            *)
VaultTyped ==
  /\ stage \subseteq Attempts /\ content \in [Digests -> {0} \cup Attempts]
  /\ IsFiniteSet(quarantine) /\ \A q \in quarantine : q.inode \in Attempts
  /\ snapshots \subseteq Readers /\ bytes \in [Attempts -> {"part", "whole", "rot"}]
  /\ attempts \subseteq Attempts /\ outcome \in [Attempts -> {"none"} \cup Outcomes]
  /\ intent \in [Attempts -> {"none", "new-content", "preexisting-verified"}]
  /\ transitions \in [Attempts -> SUBSET States]
  /\ blobs \in [Digests -> {"none", "retrieval", "recovered-orphan"}]
  /\ incidents \subseteq Digests /\ denied \in BOOLEAN
  /\ rec \in [status : {"none", "active", "terminal"}, phase : Phases, after : Nat, run : Nat,
              writer : Nat, pending : Plans]
  /\ writer \in Nat /\ held \in BOOLEAN
  /\ at \in [Attempts -> {"idle", "stage", "write", "check", "link", "verify", "commit", "clean", "fail"}]
  /\ reader \in [Readers -> [pc : {"idle", "copy", "quarantine", "remove"}, inode : {0} \cup Attempts]]
  /\ call \in [at : {"off", "run", "linked", "committed", "again", "target", "moved", "cleanup"},
               key : Nat]

(* Only written bytes are linked into the content tree, at their digest.   *)
BytesWritten ==
  /\ \A a \in Attempts :
       /\ a \notin attempts => at[a] = "idle" /\ bytes[a] = "part" /\ intent[a] = "none"
       /\ at[a] \in {"stage", "write"} => bytes[a] = "part" /\ intent[a] = "none"
       /\ at[a] \in {"check", "link", "verify", "commit", "clean"} => bytes[a] # "part"
       /\ at[a] \in {"link", "verify", "commit", "clean"} => intent[a] # "none"
       /\ intent[a] # "none" => bytes[a] # "part"
  /\ \A d \in Digests : content[d] # 0 => DigestOf[content[d]] = d /\ bytes[content[d]] # "part"

(* Bytes of digest d that were written are in quarantine.                  *)
Vouched(d) == \E q \in quarantine : DigestOf[q.inode] = d /\ bytes[q.inode] # "part"

(* What a plan says is true for as long as it is pending.                  *)
PlanKnown ==
  LET p == rec.pending IN
  \/ p.kind \in {"none", "remove-snapshot"} /\ p.outcome = "none"
  \/ p.kind = "quarantine" /\ p.source = "stage" /\ p.key \in Attempts /\ p.inode = p.key
       /\ p.outcome \in {"none", "stage-expired"}
  \/ p.kind = "quarantine" /\ p.source = "content" /\ p.key \in incidents /\ p.inode \in Attempts
       /\ DigestOf[p.inode] = p.key /\ bytes[p.inode] # "part" /\ p.outcome = "none"
  \/ p.kind = "expire-attempt" /\ p.key \in Attempts /\ p.outcome = "stage-missing"
  \/ p.kind \in {"adopt-orphan", "record-missing-content"} /\ p.key \in Digests /\ p.outcome = "none"

(* Where the reconcile call is.                                            *)
CallKnown ==
  /\ call.at \in {"linked", "committed"} => call.key \in Attempts /\ intent[call.key] # "none"
  /\ call.at = "committed" => outcome[call.key] = "succeeded"
  /\ call.at = "again" => call.key \in Digests
  /\ call.at = "cleanup" => denied
  /\ call.at \in {"target", "moved"} =>
       rec.pending.kind = "quarantine" /\ \E q \in quarantine : q.inode = rec.pending.inode

(* A reader that quarantines has recorded the incident, and one that is to *)
(* remove the path has linked what it found there.                         *)
ReadersKnown ==
  \A r \in Readers :
    /\ reader[r].pc \in {"quarantine", "remove"} => ReadDigest(r) \in incidents
    /\ reader[r].pc = "remove" => Vouched(ReadDigest(r))

(* The tables agree, also with the calls that are under way.               *)
RowsAgree ==
  /\ EvidenceAgrees
  /\ \A a \in Attempts : at[a] = "clean" => outcome[a] = "succeeded"

(* Undamaged bytes of d are linked where no one but a denial removes them, *)
(* or the disk damaged some; and d has its file, an incident or a denial.  *)
Preserved(d) ==
  \/ d \in Excused
  \/ \E i \in Attempts : Holds(i, d) /\ (content[d] = i \/ \E q \in quarantine : q.inode = i)
Traced(d) == content[d] # 0 \/ d \in incidents \/ denied
Secured(d) == Preserved(d) /\ Traced(d)

(* What is announced, and what is about to be, is secured.                 *)
ContentSecured ==
  /\ \A d \in Digests : blobs[d] # "none" => Secured(d)
  /\ \A a \in Attempts : at[a] = "commit" => Secured(DigestOf[a])
  /\ call.at = "linked" => Secured(DigestOf[call.key])

VaultInv ==
  /\ VaultTyped /\ BytesWritten /\ PlanKnown /\ CallKnown /\ ReadersKnown /\ RowsAgree
  /\ ContentSecured

-----------------------------------------------------------------------------
LEMMA ReadDigestIs ==
  ASSUME NEW r \in Readers
  PROVE  ReadDigest(r) \in Digests
  <1>1. NDigests \in Nat \ {0} /\ r \in Nat \ {0}
    BY VaultAssumption DEF Readers
  <1>2. (r - 1) % NDigests \in 0..(NDigests - 1)
    BY <1>1
  <1> QED
    BY <1>1, <1>2 DEF ReadDigest, Digests

LEMMA DigestIs == \A a \in Attempts : DigestOf[a] \in Digests /\ a # 0 /\ a \in Nat
  BY VaultAssumption DEF Attempts

LEMMA DigestsAre == \A d \in Digests : d # 0 /\ d \in Nat
  BY VaultAssumption DEF Digests

(* The next key after a cursor, and none when all keys are behind it.      *)
LEMMA NextAfterIs ==
  ASSUME NEW S \in SUBSET Nat, NEW k \in Nat
  PROVE  \/ NextAfter(S, k) = 0 /\ \A x \in S : x <= k
         \/ /\ NextAfter(S, k) \in S /\ NextAfter(S, k) > k
            /\ \A x \in S : x > k => NextAfter(S, k) <= x
  <1> DEFINE T == {x \in S : x > k}
  <1>1. CASE T = {}
    BY <1>1 DEF NextAfter
  <1>2. CASE T # {}
    <2>1. PICK x \in T : \A y \in T : x <= y
      <3> DEFINE R == OpToRel(<, Nat)
      <3>1. IsWellFoundedOn(R, Nat)
        BY NatLessThanWellFounded
      <3>2. T \subseteq Nat
        OBVIOUS
      <3>3. PICK t : t \in T
        BY <1>2
      <3> HIDE DEF T, R
      <3>4. PICK x \in T : \A y \in T : ~(<<y, x>> \in R)
        BY <3>1, <3>2, <3>3, WFMin
      <3>5. ASSUME NEW y \in T PROVE x <= y
        <4>1. x \in Nat /\ y \in Nat
          BY <3>2
        <4>2. <<y, x>> \in R <=> y < x
          BY <4>1 DEF R, OpToRel
        <4> QED
          BY <3>4, <4>1, <4>2
      <3> QED
        BY <3>5
    <2>2. \A y \in T : Min(T) \in T /\ Min(T) <= y
      <3> HIDE DEF T
      <3> QED
        BY <2>1 DEF Min
    <2>3. NextAfter(S, k) = Min(T)
      BY <1>2 DEF NextAfter
    <2>4. Min(T) \in T
      BY <1>2, <2>2
    <2> HIDE DEF T
    <2>5. NextAfter(S, k) \in T /\ \A y \in T : NextAfter(S, k) <= y
      BY <2>2, <2>3, <2>4
    <2> USE DEF T
    <2> QED
      BY <2>5
  <1> QED
    BY <1>1, <1>2

(* nlink is positive where there is a link.                                *)
LEMMA LinkedIs ==
  ASSUME VaultTyped, NEW i \in Attempts,
         (\E d \in Digests : content[d] = i) \/ (\E q \in quarantine : q.inode = i)
  PROVE  Links(i) > 0
  <1> DEFINE C == {d \in Digests : content[d] = i}
             Q == {q \in quarantine : q.inode = i}
             s == IF i \in stage THEN 1 ELSE 0
  <1>1. IsFiniteSet(Digests)
    BY VaultAssumption, FS_Interval DEF Digests
  <1>2. IsFiniteSet(C)
    <2>1. C \subseteq Digests
      OBVIOUS
    <2> HIDE DEF C
    <2> QED
      BY <1>1, <2>1, FS_Subset
  <1>3. IsFiniteSet(Q)
    <2>1. Q \subseteq quarantine /\ IsFiniteSet(quarantine)
      BY DEF VaultTyped
    <2> HIDE DEF Q
    <2> QED
      BY <2>1, FS_Subset
  <1>4. C # {} \/ Q # {}
    OBVIOUS
  <1>5. s \in Nat
    OBVIOUS
  <1>6. Links(i) = s + Cardinality(C) + Cardinality(Q)
    BY DEF Links
  <1> HIDE DEF C, Q, s
  <1>7. Cardinality(C) \in Nat /\ Cardinality(Q) \in Nat
    BY <1>2, <1>3, FS_CardinalityType
  <1>8. (Cardinality(C) = 0 <=> C = {}) /\ (Cardinality(Q) = 0 <=> Q = {})
    BY <1>2, <1>3, FS_EmptySet
  <1> QED
    BY <1>4, <1>5, <1>6, <1>7, <1>8

(* Bytes in quarantine preserve their digest, or it is excused.            *)
LEMMA VouchedPreserved ==
  ASSUME VaultTyped, NEW d \in Digests, Vouched(d)
  PROVE  Preserved(d)
  <1>1. PICK q \in quarantine : DigestOf[q.inode] = d /\ bytes[q.inode] # "part"
    BY DEF Vouched
  <1>2. q.inode \in Attempts /\ bytes[q.inode] \in {"whole", "rot"}
    BY <1>1 DEF VaultTyped
  <1> QED
    BY <1>1, <1>2 DEF Preserved, Excused, Holds

LEMMA VaultInvInit == VaultInit => VaultInv
  <1> SUFFICES ASSUME VaultInit PROVE VaultInv
    OBVIOUS
  <1>1. IsFiniteSet(quarantine)
    BY FS_EmptySet DEF VaultInit
  <1>2. VaultTyped
    BY <1>1 DEF VaultInit, VaultTyped, NoPlan, Plans, Phases, Idle
  <1>3. BytesWritten /\ PlanKnown /\ CallKnown /\ ReadersKnown /\ RowsAgree /\ ContentSecured
    BY DEF VaultInit, BytesWritten, PlanKnown, CallKnown, ReadersKnown, RowsAgree, EvidenceAgrees,
           ContentSecured, NoPlan, Idle
  <1> QED
    BY <1>2, <1>3 DEF VaultInv

-----------------------------------------------------------------------------
(* The store call.                                                         *)
LEMMA StoreTyped ==
  ASSUME VaultTyped, NEW a \in Attempts, StoreStep(a)
  PROVE  VaultTyped'
  <1> USE DigestIs DEF VaultTyped, StoreFrame, process, disk, evidence, Goes
  <1>1. CASE StoreBegin(a)
    BY <1>1 DEF StoreBegin, recordAttempt
  <1>2. CASE StageCreate(a)
    BY <1>2 DEF StageCreate
  <1>3. CASE StageWrite(a)
    BY <1>3 DEF StageWrite
  <1>4. CASE PrepareIntent(a)
    BY <1>4 DEF PrepareIntent, prepareInstallIntent
  <1>5. CASE ContentLink(a)
    BY <1>5 DEF ContentLink, recordIncident
  <1>6. CASE VerifyInstalled(a)
    BY <1>6 DEF VerifyInstalled, recordIncident
  <1>7. CASE StoreCommit(a)
    BY <1>7 DEF StoreCommit, CommitIntentSuccess, insertOutcome, insertInstallTransition,
                insertSuccessEvidence, Outcomes, States
  <1>8. CASE StoreClean(a)
    BY <1>8 DEF StoreClean, insertInstallTransition, States
  <1>9. CASE StoreFail(a)
    BY <1>9 DEF StoreFail, Abort, insertOutcome, insertInstallTransition, Outcomes, States
  <1> QED
    BY <1>1, <1>2, <1>3, <1>4, <1>5, <1>6, <1>7, <1>8, <1>9 DEF StoreStep

(* What no step undoes: rows, incidents, a denial and links in quarantine  *)
(* stay, bytes that were written are never "part" again; a content path is *)
(* only removed under a denial, or when its incident is on record and      *)
(* written bytes of its digest are in quarantine.                          *)
Gains ==
  /\ incidents \subseteq incidents' /\ quarantine \subseteq quarantine' /\ (denied => denied')
  /\ \A i \in Attempts :
       \/ bytes'[i] = bytes[i]
       \/ bytes[i] = "part" /\ bytes'[i] = "whole"
       \/ bytes[i] = "whole" /\ bytes'[i] = "rot"
  /\ \A i \in Attempts : /\ outcome[i] = "succeeded" => outcome'[i] = "succeeded"
                         /\ intent[i] # "none" => intent'[i] # "none"
  /\ \A d \in Digests : content[d] # 0 =>
       \/ content'[d] = content[d]
       \/ content'[d] = 0 /\ (denied \/ (d \in incidents /\ Vouched(d)))

LEMMA VouchedStays ==
  ASSUME VaultTyped, Gains, NEW d \in Digests, Vouched(d)
  PROVE  Vouched(d)'
  <1>1. PICK q \in quarantine : DigestOf[q.inode] = d /\ bytes[q.inode] # "part"
    BY DEF Vouched
  <1>2. q \in quarantine' /\ q.inode \in Attempts /\ bytes'[q.inode] # "part"
    BY <1>1 DEF Gains, VaultTyped
  <1> QED
    BY <1>1, <1>2 DEF Vouched

LEMMA SecuredStays ==
  ASSUME VaultTyped, VaultTyped', BytesWritten, Gains, NEW d \in Digests, Secured(d)
  PROVE  Secured(d)'
  <1>1. Traced(d)'
    BY DEF Secured, Traced, Gains
  <1>2. CASE d \in Excused
    BY <1>1, <1>2 DEF Secured, Preserved, Excused, Gains
  <1>3. CASE Vouched(d)
    <2>1. Vouched(d)'
      BY <1>3, VouchedStays
    <2>2. PICK q \in quarantine' : DigestOf[q.inode] = d /\ bytes'[q.inode] # "part"
      BY <2>1 DEF Vouched
    <2>3. q.inode \in Attempts /\ bytes'[q.inode] \in {"whole", "rot"}
      BY <2>2 DEF VaultTyped
    <2> QED
      BY <1>1, <2>2, <2>3 DEF Secured, Preserved, Excused, Holds
  <1>4. ASSUME NEW i \in Attempts, Holds(i, d), content[d] = i
        PROVE  Secured(d)'
    <2>1. i # 0
      BY DigestIs
    <2>2. bytes'[i] \in {"whole", "rot"} /\ DigestOf[i] = d
      BY <1>4 DEF Gains, Holds
    <2>3. CASE bytes'[i] = "rot"
      BY <1>1, <2>2, <2>3 DEF Secured, Preserved, Excused
    <2>4. CASE bytes'[i] = "whole" /\ content'[d] = i
      BY <1>1, <2>2, <2>4 DEF Secured, Preserved, Holds
    <2>5. CASE content'[d] # i
      BY <1>1, <1>3, <1>4, <2>1, <2>5 DEF Gains, Secured, Preserved, Excused
    <2> QED
      BY <2>2, <2>3, <2>4, <2>5
  <1>5. ASSUME NEW i \in Attempts, Holds(i, d), NEW q \in quarantine, q.inode = i
        PROVE  Secured(d)'
    BY <1>3, <1>5 DEF Vouched, Holds
  <1> QED
    BY <1>2, <1>4, <1>5 DEF Secured, Preserved

LEMMA StoreGains ==
  ASSUME VaultInv, NEW a \in Attempts, StoreStep(a)
  PROVE  Gains
  <1> USE DigestIs DEF VaultInv, VaultTyped, Gains, StoreFrame, process, disk, evidence, Goes
  <1>1. CASE StoreBegin(a)
    BY <1>1 DEF StoreBegin
  <1>2. CASE StageCreate(a)
    BY <1>2 DEF StageCreate
  <1>3. CASE StageWrite(a)
    BY <1>3 DEF StageWrite, BytesWritten
  <1>4. CASE PrepareIntent(a)
    BY <1>4 DEF PrepareIntent, prepareInstallIntent
  <1>5. CASE ContentLink(a)
    BY <1>5 DEF ContentLink, recordIncident
  <1>6. CASE VerifyInstalled(a)
    BY <1>6 DEF VerifyInstalled, recordIncident
  <1>7. CASE StoreCommit(a)
    BY <1>7 DEF StoreCommit, CommitIntentSuccess, insertOutcome
  <1>8. CASE StoreClean(a)
    BY <1>8 DEF StoreClean
  <1>9. CASE StoreFail(a)
    BY <1>9 DEF StoreFail, Abort, AbortFits, OutcomeFits, insertOutcome, RowsAgree, EvidenceAgrees
  <1> QED
    BY <1>1, <1>2, <1>3, <1>4, <1>5, <1>6, <1>7, <1>8, <1>9 DEF StoreStep

LEMMA StoreBytes ==
  ASSUME VaultInv, NEW a \in Attempts, StoreStep(a)
  PROVE  BytesWritten'
  <1> USE DigestIs DEF VaultInv, VaultTyped, BytesWritten, StoreFrame, process, disk, evidence, Goes
  <1>1. CASE StoreBegin(a)
    BY <1>1 DEF StoreBegin, recordAttempt
  <1>2. CASE StageCreate(a)
    BY <1>2 DEF StageCreate
  <1>3. CASE StageWrite(a)
    BY <1>3 DEF StageWrite
  <1>4. CASE PrepareIntent(a)
    BY <1>4 DEF PrepareIntent, prepareInstallIntent
  <1>5. CASE ContentLink(a)
    BY <1>5 DEF ContentLink
  <1>6. CASE VerifyInstalled(a)
    BY <1>6 DEF VerifyInstalled
  <1>7. CASE StoreCommit(a)
    BY <1>7 DEF StoreCommit, CommitIntentSuccess, insertOutcome
  <1>8. CASE StoreClean(a)
    BY <1>8 DEF StoreClean
  <1>9. CASE StoreFail(a)
    BY <1>9 DEF StoreFail, Abort, insertOutcome
  <1> QED
    BY <1>1, <1>2, <1>3, <1>4, <1>5, <1>6, <1>7, <1>8, <1>9 DEF StoreStep

LEMMA StoreRows ==
  ASSUME VaultInv, NEW a \in Attempts, StoreStep(a)
  PROVE  RowsAgree'
  <1> USE DigestIs DEF VaultInv, VaultTyped, RowsAgree, EvidenceAgrees, StoreFrame, process, disk, evidence, Goes
  <1>1. CASE StoreBegin(a)
    BY <1>1 DEF StoreBegin
  <1>2. CASE StageCreate(a)
    BY <1>2 DEF StageCreate
  <1>3. CASE StageWrite(a)
    BY <1>3 DEF StageWrite
  <1>4. CASE PrepareIntent(a)
    BY <1>4 DEF PrepareIntent
  <1>5. CASE ContentLink(a)
    BY <1>5 DEF ContentLink
  <1>6. CASE VerifyInstalled(a)
    BY <1>6 DEF VerifyInstalled
  <1>7. CASE StoreCommit(a)
    BY <1>7 DEF StoreCommit, CommitFits, OutcomeFits, CommitIntentSuccess, insertOutcome,
                insertInstallTransition, insertSuccessEvidence, Outcomes
  <1>8. CASE StoreClean(a)
    BY <1>8 DEF StoreClean, insertInstallTransition
  <1>9. CASE StoreFail(a)
    BY <1>9 DEF StoreFail, Abort, OutcomeFits, insertOutcome, insertInstallTransition, BytesWritten
  <1> QED
    BY <1>1, <1>2, <1>3, <1>4, <1>5, <1>6, <1>7, <1>8, <1>9 DEF StoreStep

LEMMA PlanKept ==
  ASSUME VaultTyped, PlanKnown, Gains, rec'.pending = rec.pending
  PROVE  PlanKnown'
  BY DEF VaultTyped, PlanKnown, Gains, Plans

LEMMA CallKept ==
  ASSUME VaultTyped, CallKnown, Gains, rec'.pending = rec.pending, call' = call
  PROVE  CallKnown'
  BY DEF VaultTyped, CallKnown, Gains

LEMMA ReadersKept ==
  ASSUME VaultTyped, ReadersKnown, Gains, reader' = reader
  PROVE  ReadersKnown'
  BY VouchedStays, ReadDigestIs DEF ReadersKnown, Gains

LEMMA StoreKeeps ==
  ASSUME VaultInv, NEW a \in Attempts, StoreStep(a)
  PROVE  VaultInv' /\ Gains
  <1>1. VaultTyped' /\ BytesWritten' /\ RowsAgree' /\ Gains
    BY StoreTyped, StoreBytes, StoreRows, StoreGains DEF VaultInv
  <1>2. rec' = rec /\ call' = call /\ reader' = reader
    BY DEF StoreStep, StoreBegin, StageCreate, StageWrite, PrepareIntent, ContentLink,
           VerifyInstalled, StoreCommit, StoreClean, StoreFail, StoreFrame
  <1>3. PlanKnown' /\ CallKnown' /\ ReadersKnown'
    BY <1>1, <1>2, PlanKept, CallKept, ReadersKept DEF VaultInv
  <1>4. \A d \in Digests : Secured(d) => Secured(d)'
    BY <1>1, SecuredStays DEF VaultInv
  <1>5. ContentSecured'
    <2>1. \A d \in Digests : blobs'[d] # "none" => blobs[d] # "none" \/ (at[a] = "commit" /\ d = DigestOf[a])
      BY DigestIs
         DEF StoreStep, StoreBegin, StageCreate, StageWrite, PrepareIntent, ContentLink, VerifyInstalled,
             StoreCommit, StoreClean, StoreFail, CommitIntentSuccess, insertSuccessEvidence, evidence,
             VaultInv, VaultTyped
    <2>2. \A b \in Attempts : at'[b] = "commit" => at[b] = "commit" \/ (VerifyInstalled(a) /\ b = a)
      <3>1. CASE VerifyInstalled(a)
        BY <3>1 DEF VerifyInstalled, Goes, VaultInv, VaultTyped
      <3>2. CASE ~VerifyInstalled(a)
        <4>1. \E l : l # "commit" /\ Goes(a, l)
          BY <3>2 DEF StoreStep, StoreBegin, StageCreate, StageWrite, PrepareIntent, ContentLink,
                      StoreCommit, StoreClean, StoreFail
        <4> QED
          BY <4>1 DEF Goes, VaultInv, VaultTyped
      <3> QED
        BY <3>1, <3>2
    <2>3. VerifyInstalled(a) /\ at'[a] = "commit" => Secured(DigestOf[a])
      <3> SUFFICES ASSUME VerifyInstalled(a), at'[a] = "commit"
                   PROVE  Secured(DigestOf[a])
        OBVIOUS
      <3>1. content[DigestOf[a]] # 0 /\ Holds(content[DigestOf[a]], DigestOf[a])
        BY DEF VerifyInstalled, Goes, VaultInv, VaultTyped
      <3>2. content[DigestOf[a]] \in Attempts
        BY <3>1, DigestIs DEF VaultInv, VaultTyped
      <3> QED
        BY <3>1, <3>2 DEF Secured, Preserved, Traced
    <2> QED
      BY <1>2, <1>4, <2>1, <2>2, <2>3, DigestIs DEF VaultInv, ContentSecured, CallKnown
  <1> QED
    BY <1>1, <1>3, <1>5 DEF VaultInv

-----------------------------------------------------------------------------
(* The read call.                                                          *)
LEMMA QuarantineGrows ==
  ASSUME VaultTyped, NEW q, q.inode \in Attempts, quarantine' = quarantine \cup {q}
  PROVE  IsFiniteSet(quarantine') /\ \A p \in quarantine' : p.inode \in Attempts
  <1>1. IsFiniteSet(quarantine)
    BY DEF VaultTyped
  <1>2. IsFiniteSet(quarantine \cup {q})
    BY <1>1, FS_AddElement
  <1> QED
    BY <1>2 DEF VaultTyped

LEMMA ReadTyped ==
  ASSUME VaultTyped, NEW r \in Readers, ReadStep(r)
  PROVE  VaultTyped'
  <1> USE ReadDigestIs DEF VaultTyped, ReadFrame, process, ReaderAt
  <1>1. CASE ReadOpen(r)
    BY <1>1 DEF ReadOpen, recordIncident
  <1>2. CASE SnapshotVerify(r)
    BY <1>2 DEF SnapshotVerify, recordIncident
  <1>3. CASE ReadQuarantineLink(r)
    <2>1. IsFiniteSet(quarantine') /\ \A p \in quarantine' : p.inode \in Attempts
      <3>1. CASE quarantine' = quarantine
        BY <3>1
      <3>2. CASE quarantine' # quarantine
        <4> DEFINE q == [name |-> <<"read", ReadDigest(r)>>, inode |-> content[ReadDigest(r)]]
        <4>1. quarantine' = quarantine \cup {q} /\ q.inode \in Attempts
          BY <1>3, <3>2 DEF ReadQuarantineLink
        <4> HIDE DEF q
        <4> QED
          BY <4>1, QuarantineGrows
      <3> QED
        BY <3>1, <3>2
    <2> QED
      BY <1>3, <2>1 DEF ReadQuarantineLink
  <1>4. CASE ReadQuarantineRemove(r)
    BY <1>4 DEF ReadQuarantineRemove
  <1> QED
    BY <1>1, <1>2, <1>3, <1>4 DEF ReadStep

LEMMA ReadGains ==
  ASSUME VaultInv, NEW r \in Readers, ReadStep(r)
  PROVE  Gains
  <1> USE ReadDigestIs DEF VaultInv, VaultTyped, Gains, ReadFrame, process, ReaderAt
  <1>1. CASE ReadOpen(r)
    BY <1>1 DEF ReadOpen, recordIncident
  <1>2. CASE SnapshotVerify(r)
    BY <1>2 DEF SnapshotVerify, recordIncident
  <1>3. CASE ReadQuarantineLink(r)
    BY <1>3 DEF ReadQuarantineLink
  <1>4. CASE ReadQuarantineRemove(r)
    BY <1>4 DEF ReadQuarantineRemove, ReadersKnown
  <1> QED
    BY <1>1, <1>2, <1>3, <1>4 DEF ReadStep

LEMMA ReadReaders ==
  ASSUME VaultInv, NEW r \in Readers, ReadStep(r), Gains
  PROVE  ReadersKnown'
  <1> USE ReadDigestIs DEF VaultInv, VaultTyped, ReadersKnown, ReaderAt
  <1>1. \A s \in Readers : Vouched(ReadDigest(s)) => Vouched(ReadDigest(s))'
    BY VouchedStays
  <1>2. CASE ReadOpen(r)
    BY <1>1, <1>2 DEF ReadOpen, recordIncident
  <1>3. CASE SnapshotVerify(r)
    BY <1>1, <1>3 DEF SnapshotVerify, recordIncident
  <1>4. CASE ReadQuarantineLink(r)
    <2>1. reader'[r].pc = "remove" => Vouched(ReadDigest(r))'
      <3> DEFINE d == ReadDigest(r)
                 q == [name |-> <<"read", d>>, inode |-> content[d]]
      <3> SUFFICES ASSUME reader'[r].pc = "remove" PROVE Vouched(d)'
        OBVIOUS
      <3>1. content[d] # 0 /\ quarantine' = quarantine \cup {q} /\ bytes' = bytes
        BY <1>4 DEF ReadQuarantineLink, ReadFrame
      <3>2. DigestOf[content[d]] = d /\ bytes[content[d]] # "part"
        BY <3>1 DEF BytesWritten
      <3>3. q.inode = content[d] /\ q \in quarantine'
        BY <3>1
      <3> HIDE DEF q
      <3> QED
        BY <3>1, <3>2, <3>3 DEF Vouched
    <2> QED
      BY <1>1, <1>4, <2>1 DEF ReadQuarantineLink
  <1>5. CASE ReadQuarantineRemove(r)
    BY <1>1, <1>5 DEF ReadQuarantineRemove
  <1> QED
    BY <1>2, <1>3, <1>4, <1>5 DEF ReadStep

LEMMA ReadKeeps ==
  ASSUME VaultInv, NEW r \in Readers, ReadStep(r)
  PROVE  VaultInv' /\ Gains
  <1>1. VaultTyped' /\ Gains
    BY ReadTyped, ReadGains DEF VaultInv
  <1>2. ReadersKnown'
    BY <1>1, ReadReaders
  <1>3. UNCHANGED <<stage, bytes, attempts, outcome, intent, transitions, blobs, denied, rec, at, call>>
    BY DEF ReadStep, ReadOpen, SnapshotVerify, ReadQuarantineLink, ReadQuarantineRemove, ReadFrame
  <1>4. PlanKnown' /\ CallKnown'
    BY <1>1, <1>3, PlanKept, CallKept DEF VaultInv
  <1>5. RowsAgree'
    BY <1>3 DEF VaultInv, RowsAgree, EvidenceAgrees
  <1>6. \A d \in Digests : content'[d] = content[d] \/ content'[d] = 0
    BY ReadDigestIs DEF ReadStep, ReadOpen, SnapshotVerify, ReadQuarantineLink, ReadQuarantineRemove,
                        VaultInv, VaultTyped
  <1>7. BytesWritten'
    BY <1>3, <1>6 DEF VaultInv, BytesWritten
  <1>8. \A d \in Digests : Secured(d) => Secured(d)'
    BY <1>1, SecuredStays DEF VaultInv
  <1>9. ContentSecured'
    BY <1>3, <1>8, DigestIs DEF VaultInv, ContentSecured, CallKnown
  <1> QED
    BY <1>1, <1>2, <1>4, <1>5, <1>7, <1>9 DEF VaultInv

-----------------------------------------------------------------------------
(* Reconciliation: the steps that read the disk and move the head.         *)
CallPlaces == {"off", "run", "linked", "committed", "again", "target", "moved", "cleanup"}
Heads == [status : {"none", "active", "terminal"}, phase : Phases, after : Nat, run : Nat,
          writer : Nat, pending : Plans]

LEMMA ScanKeeps ==
  ASSUME VaultInv, UNCHANGED <<disk, attempts, outcome, intent, transitions, blobs, denied, at, reader>>,
         incidents \subseteq incidents', incidents' \subseteq Digests,
         rec' \in Heads, writer' \in Nat, held' \in BOOLEAN, call' \in [at : CallPlaces, key : Nat],
         PlanKnown', CallKnown', call'.at = "linked" => Secured(DigestOf[call'.key])
  PROVE  VaultInv' /\ Gains
  <1>1. VaultTyped'
    BY DEF VaultInv, VaultTyped, Heads, CallPlaces, disk
  <1>2. Gains
    BY DEF VaultInv, VaultTyped, Gains, disk
  <1>3. BytesWritten' /\ RowsAgree'
    BY DEF VaultInv, BytesWritten, RowsAgree, EvidenceAgrees, disk
  <1>4. ReadersKnown'
    BY <1>2, ReadersKept DEF VaultInv
  <1>5. \A d \in Digests : Secured(d) => Secured(d)'
    BY <1>1, <1>2, SecuredStays DEF VaultInv
  <1>6. ContentSecured'
    BY <1>5, DigestIs DEF VaultInv, ContentSecured, CallKnown
  <1> QED
    BY <1>1, <1>2, <1>3, <1>4, <1>6 DEF VaultInv

(* The head moves on without a plan.                                       *)
LEMMA MoveKeeps ==
  ASSUME VaultInv, UNCHANGED <<disk, evidence, at, reader>>,
         rec' \in Heads, rec'.pending \in {rec.pending, NoPlan}, writer' \in Nat, held' \in BOOLEAN,
         call' \in [at : {"off", "run", "cleanup"}, key : Nat], call'.at = "cleanup" => denied
  PROVE  VaultInv' /\ Gains
  <1>1. PlanKnown'
    BY DEF VaultInv, PlanKnown, NoPlan, disk, evidence
  <1>2. CallKnown' /\ call' \in [at : CallPlaces, key : Nat] /\ call'.at # "linked"
    BY DEF CallKnown, CallPlaces, evidence
  <1>3. incidents' = incidents /\ incidents' \subseteq Digests
    BY DEF evidence, VaultInv, VaultTyped
  <1>4. UNCHANGED <<attempts, outcome, intent, transitions, blobs, denied>>
    BY DEF evidence
  <1> QED
    BY <1>1, <1>2, <1>3, <1>4, ScanKeeps

(* The head gets a plan.                                                   *)
LEMMA PlanKeeps ==
  ASSUME VaultInv, UNCHANGED <<disk, attempts, outcome, intent, transitions, blobs, denied, at, reader>>,
         incidents \subseteq incidents', incidents' \subseteq Digests,
         rec' \in Heads, PlanKnown', writer' \in Nat, held' \in BOOLEAN,
         call' = [at |-> "run", key |-> 0]
  PROVE  VaultInv' /\ Gains
  <1>1. CallKnown' /\ call' \in [at : CallPlaces, key : Nat] /\ call'.at # "linked"
    BY DEF CallKnown, CallPlaces
  <1> QED
    BY <1>1, ScanKeeps

LEMMA HeadsAre == VaultTyped => rec \in Heads /\ writer \in Nat /\ held \in BOOLEAN
  BY DEF VaultTyped, Heads

LEMMA SimpleScans ==
  ASSUME VaultInv, OpenCall \/ PartialReceipt \/ CallStopped \/ EvidencePage \/ IntentsDone
                     \/ ApplyMissing \/ CleanupStart
  PROVE  VaultInv' /\ Gains
  <1> USE HeadsAre DEF VaultInv, RecFrame, At, Idle, MoveTo, Heads, NoPlan
  <1>1. CASE OpenCall
    <2>1. UNCHANGED <<disk, evidence, at, reader>> /\ writer' = writer /\ call' = [at |-> "run", key |-> 0]
      BY <1>1 DEF OpenCall
    <2>2. held' \in BOOLEAN
      BY <1>1 DEF OpenCall
    <2>3. rec' \in Heads /\ rec'.pending \in {rec.pending, NoPlan}
      BY <1>1 DEF OpenCall, NewRun, Phases, Plans
    <2> QED
      BY <2>1, <2>2, <2>3, MoveKeeps
  <1>2. CASE PartialReceipt
    <2>1. UNCHANGED <<disk, evidence, at, reader>> /\ writer' = writer /\ call' = Idle /\ held' = TRUE
      BY <1>2 DEF PartialReceipt, commitReceipt
    <2>2. rec' \in Heads /\ rec'.pending \in {rec.pending, NoPlan}
      BY <1>2 DEF PartialReceipt, commitReceipt
    <2> QED
      BY <2>1, <2>2, MoveKeeps
  <1>3. CASE CallStopped
    BY <1>3, MoveKeeps DEF CallStopped
  <1>4. CASE EvidencePage
    <2>1. rec' \in Heads /\ rec'.pending \in {rec.pending, NoPlan}
      BY <1>4 DEF EvidencePage, Phases
    <2> QED
      BY <1>4, <2>1, MoveKeeps DEF EvidencePage
  <1>5. CASE IntentsDone
    <2>1. rec' \in Heads /\ rec'.pending \in {rec.pending, NoPlan}
      BY <1>5 DEF IntentsDone, Phases
    <2> QED
      BY <1>5, <2>1, MoveKeeps DEF IntentsDone
  <1>6. CASE ApplyMissing
    <2>1. rec' \in Heads /\ rec'.pending \in {rec.pending, NoPlan}
      BY <1>6 DEF ApplyMissing, Applied, Plans
    <2> QED
      BY <1>6, <2>1, MoveKeeps DEF ApplyMissing, Applied
  <1>7. CASE CleanupStart
    BY <1>7, MoveKeeps DEF CleanupStart
  <1> QED
    BY <1>1, <1>2, <1>3, <1>4, <1>5, <1>6, <1>7

(* The scans of the directories and tables, which may plan an action.      *)
LEMMA KeysAre ==
  ASSUME VaultTyped, NEW S, S \subseteq Attempts \/ S \subseteq Digests \/ S \subseteq Readers
  PROVE  /\ NextAfter(S, rec.after) \in Nat
         /\ NextAfter(S, rec.after) # 0 => NextAfter(S, rec.after) \in S
  <1>1. S \in SUBSET Nat
    BY DEF Attempts, Digests, Readers
  <1>2. rec.after \in Nat
    BY DEF VaultTyped
  <1> DEFINE n == NextAfter(S, rec.after)
  <1>3. n = 0 \/ n \in S
    BY <1>1, <1>2, NextAfterIs
  <1>4. \A x \in S : x \in Nat
    BY <1>1
  <1> HIDE DEF n
  <1>5. n \in Nat /\ (n # 0 => n \in S)
    BY <1>3, <1>4
  <1> QED
    BY <1>5 DEF n

LEMMA ScansPlan ==
  ASSUME VaultInv, SnapshotScan \/ StageScan \/ OpenAttemptScan \/ ContentScan
  PROVE  VaultInv' /\ Gains
  <1> USE HeadsAre DEF VaultInv, RecFrame, At, Idle, MoveTo, Plan, Heads, Loop, Inside, Throw
  <1>1. UNCHANGED <<disk, evidence, at, reader>> /\ writer' \in Nat /\ held' \in BOOLEAN
    BY DEF SnapshotScan, StageScan, OpenAttemptScan, ContentScan
  <1>2. /\ incidents \subseteq incidents' /\ incidents' \subseteq Digests
        /\ UNCHANGED <<attempts, outcome, intent, transitions, blobs, denied>>
    BY <1>1 DEF evidence, VaultTyped
  <1>3. CASE SnapshotScan
    <2> DEFINE r == NextAfter(snapshots, rec.after)
    <2>1. r \in Nat
      BY KeysAre DEF VaultTyped
    <2> HIDE DEF r
    <2>2. CASE r = 0
      <3>1. MoveTo("staging", 0)
        BY <1>3, <2>2 DEF SnapshotScan, r
      <3> QED
        BY <1>1, <3>1, MoveKeeps DEF Phases
    <2>3. CASE r # 0
      <3>1. /\ rec' = [rec EXCEPT !.pending = [kind |-> "remove-snapshot", source |-> "snapshot", key |-> r,
                                               inode |-> 0, run |-> rec.run, outcome |-> "none"]]
            /\ call' = [at |-> "run", key |-> 0]
        BY <1>3, <2>3 DEF SnapshotScan, r
      <3>2. rec' \in Heads
        BY <2>1, <3>1 DEF Plans
      <3>3. PlanKnown'
        BY <3>1 DEF PlanKnown
      <3> QED
        BY <1>1, <1>2, <3>1, <3>2, <3>3, PlanKeeps
    <2> QED
      BY <2>2, <2>3
  <1>4. CASE StageScan
    <2> DEFINE a == NextAfter(stage, rec.after)
    <2>1. a \in Nat /\ (a # 0 => a \in Attempts)
      BY KeysAre DEF VaultTyped
    <2> HIDE DEF a
    <2>2. CASE a = 0 /\ MoveTo("open-attempts", 0)
      BY <1>1, <2>2, MoveKeeps DEF Phases
    <2>3. CASE a # 0 /\ outcome[a] = "none" /\ MoveTo("staging", a)
      BY <1>1, <2>1, <2>3, MoveKeeps DEF Phases
    <2>4. CASE a # 0 /\ Throw
      BY <1>1, <2>4, MoveKeeps
    <2>5. CASE a # 0 /\ Plan("quarantine", "stage", a, a,
                             IF outcome[a] # "none" THEN "none" ELSE "stage-expired")
      <3> DEFINE o == IF outcome[a] # "none" THEN "none" ELSE "stage-expired"
      <3>1. o \in {"none", "stage-expired"}
        OBVIOUS
      <3> HIDE DEF o
      <3>2. /\ rec' = [rec EXCEPT !.pending = [kind |-> "quarantine", source |-> "stage", key |-> a,
                                               inode |-> a, run |-> rec.run, outcome |-> o]]
            /\ call' = [at |-> "run", key |-> 0]
        BY <2>5 DEF o
      <3>3. rec' \in Heads
        BY <2>1, <3>1, <3>2 DEF Plans
      <3>4. PlanKnown'
        BY <2>1, <2>5, <3>1, <3>2 DEF PlanKnown
      <3> QED
        BY <1>1, <1>2, <3>2, <3>3, <3>4, PlanKeeps
    <2> QED
      BY <1>4, <2>2, <2>3, <2>4, <2>5 DEF StageScan, a
  <1>5. CASE OpenAttemptScan
    <2> DEFINE a == NextAfter({b \in attempts : outcome[b] = "none"}, rec.after)
    <2>1. a \in Nat /\ (a # 0 => a \in Attempts)
      <3>1. {b \in attempts : outcome[b] = "none"} \subseteq Attempts
        BY DEF VaultTyped
      <3> QED
        BY <3>1, KeysAre
    <2> HIDE DEF a
    <2>2. CASE a = 0 /\ MoveTo("content", 0)
      BY <1>1, <2>2, MoveKeeps DEF Phases
    <2>3. CASE a # 0 /\ MoveTo("open-attempts", a)
      BY <1>1, <2>1, <2>3, MoveKeeps DEF Phases
    <2>4. CASE a # 0 /\ Plan("expire-attempt", "stage", a, 0, "stage-missing")
      <3>1. /\ rec' = [rec EXCEPT !.pending = [kind |-> "expire-attempt", source |-> "stage", key |-> a,
                                               inode |-> 0, run |-> rec.run, outcome |-> "stage-missing"]]
            /\ call' = [at |-> "run", key |-> 0]
        BY <2>4
      <3>2. rec' \in Heads
        BY <2>1, <3>1 DEF Plans
      <3>3. PlanKnown'
        BY <2>1, <2>4, <3>1 DEF PlanKnown
      <3> QED
        BY <1>1, <1>2, <3>1, <3>2, <3>3, PlanKeeps
    <2> QED
      BY <1>5, <2>2, <2>3, <2>4 DEF OpenAttemptScan, a
  <1>6. CASE ContentScan
    <2> DEFINE d == NextAfter(Present, rec.after)
    <2>1. d \in Nat /\ (d # 0 => d \in Digests /\ content[d] # 0 /\ content[d] \in Nat)
      <3>1. Present \subseteq Digests
        BY DEF Present
      <3>2. \A e \in Digests : content[e] \in Nat
        BY DigestIs DEF VaultTyped
      <3> QED
        BY <3>1, <3>2, KeysAre DEF Present
    <2> HIDE DEF d
    <2>2. CASE d = 0 /\ MoveTo("missing-content", 0)
      BY <1>1, <2>2, MoveKeeps DEF Phases
    <2>3. CASE d # 0 /\ MoveTo("content", d)
      BY <1>1, <2>1, <2>3, MoveKeeps DEF Phases
    <2>4. CASE d # 0 /\ At("again", d) /\ UNCHANGED rec
      <3>1. call' \in [at : CallPlaces, key : Nat] /\ call'.at # "linked" /\ CallKnown'
        BY <2>1, <2>4 DEF CallPlaces, CallKnown
      <3>2. PlanKnown'
        BY <1>1, <2>4 DEF PlanKnown, disk, evidence
      <3> QED
        BY <1>1, <1>2, <2>4, <3>1, <3>2, ScanKeeps
    <2>5. CASE d # 0 /\ Plan("adopt-orphan", "content", d, content[d], "none")
      <3>1. /\ rec' = [rec EXCEPT !.pending = [kind |-> "adopt-orphan", source |-> "content", key |-> d,
                                               inode |-> content[d], run |-> rec.run, outcome |-> "none"]]
            /\ call' = [at |-> "run", key |-> 0]
        BY <2>5
      <3>2. rec' \in Heads
        BY <2>1, <2>5, <3>1 DEF Plans
      <3>3. PlanKnown'
        BY <2>1, <2>5, <3>1 DEF PlanKnown
      <3> QED
        BY <1>1, <1>2, <3>1, <3>2, <3>3, PlanKeeps
    <2> QED
      BY <1>6, <2>2, <2>3, <2>4, <2>5 DEF ContentScan, d
  <1> QED
    BY <1>3, <1>4, <1>5, <1>6

LEMMA ContentAgainKeeps ==
  ASSUME VaultInv, ContentAgain
  PROVE  VaultInv' /\ Gains
  <1> USE HeadsAre DEF VaultInv, RecFrame, At, Idle, Heads
  <1> DEFINE d == call.key
  <1>1. /\ UNCHANGED <<disk, attempts, outcome, intent, transitions, blobs, denied, at, reader>>
        /\ writer' \in Nat /\ held' \in BOOLEAN /\ d \in Digests
    BY DEF ContentAgain, Inside, CallKnown
  <1>2. CASE ~Readable(content[d], 1)
    <2>1. rec' = rec /\ call' = Idle /\ incidents' = incidents
      BY <1>2 DEF ContentAgain, Throw
    <2> QED
      BY <1>1, <2>1, MoveKeeps DEF evidence
  <1>3. CASE Readable(content[d], 1)
    <2>1. /\ rec' = [rec EXCEPT !.pending = [kind |-> "quarantine", source |-> "content", key |-> d,
                                             inode |-> content[d], run |-> rec.run, outcome |-> "none"]]
          /\ call' = [at |-> "run", key |-> 0]
          /\ incidents' = incidents \cup {d}
      BY <1>3 DEF ContentAgain, Plan, recordIncident
    <2>2. content[d] \in Attempts /\ content[d] \in Nat /\ DigestOf[content[d]] = d /\ bytes[content[d]] # "part"
      BY <1>1, <1>3, DigestIs DEF VaultTyped, BytesWritten, Readable
    <2>3. rec' \in Heads
      BY <1>1, <2>1, <2>2, DigestsAre DEF Plans
    <2>4. PlanKnown'
      BY <1>1, <2>1, <2>2 DEF PlanKnown, disk
    <2>5. incidents \subseteq incidents' /\ incidents' \subseteq Digests
      BY <1>1, <2>1 DEF VaultTyped
    <2> QED
      BY <1>1, <2>1, <2>3, <2>4, <2>5, PlanKeeps
  <1> QED
    BY <1>2, <1>3

LEMMA MissingScanKeeps ==
  ASSUME VaultInv, MissingScan
  PROVE  VaultInv' /\ Gains
  <1> USE HeadsAre DEF VaultInv, RecFrame, At, Idle, Heads
  <1> DEFINE d == NextAfter({e \in Digests : blobs[e] # "none"}, rec.after)
  <1>1. d \in Nat /\ (d # 0 => d \in Digests)
    <2>1. {e \in Digests : blobs[e] # "none"} \subseteq Digests
      OBVIOUS
    <2> QED
      BY <2>1, KeysAre
  <1>2. /\ UNCHANGED <<disk, attempts, outcome, intent, transitions, blobs, denied, at, reader>>
        /\ writer' \in Nat
    BY DEF MissingScan
  <1> HIDE DEF d
  <1>3. CASE commitReceipt("terminal", FALSE) /\ UNCHANGED incidents
    <2>1. call' = Idle /\ held' = FALSE /\ rec' \in Heads /\ rec'.pending = rec.pending
      BY <1>3 DEF commitReceipt
    <2> QED
      BY <1>2, <1>3, <2>1, MoveKeeps DEF evidence
  <1>4. CASE d # 0 /\ MoveTo("missing-content", d) /\ UNCHANGED <<held, incidents>>
    <2>1. call' = [at |-> "run", key |-> 0] /\ held' \in BOOLEAN /\ rec' \in Heads /\ rec'.pending = rec.pending
      BY <1>1, <1>4 DEF MoveTo, Phases
    <2> QED
      BY <1>2, <1>4, <2>1, MoveKeeps DEF evidence
  <1>5. CASE /\ d # 0 /\ Plan("record-missing-content", "content", d, 0, "none")
             /\ recordIncident(d) /\ UNCHANGED held
    <2>1. /\ rec' = [rec EXCEPT !.pending = [kind |-> "record-missing-content", source |-> "content", key |-> d,
                                             inode |-> 0, run |-> rec.run, outcome |-> "none"]]
          /\ call' = [at |-> "run", key |-> 0] /\ incidents' = incidents \cup {d} /\ held' \in BOOLEAN
      BY <1>5 DEF Plan, recordIncident
    <2>2. rec' \in Heads
      BY <1>1, <2>1 DEF Plans
    <2>3. PlanKnown'
      BY <1>1, <1>5, <2>1 DEF PlanKnown
    <2>4. incidents \subseteq incidents' /\ incidents' \subseteq Digests
      BY <1>1, <1>5, <2>1 DEF VaultTyped
    <2> QED
      BY <1>2, <2>1, <2>2, <2>3, <2>4, PlanKeeps
  <1> QED
    BY <1>3, <1>4, <1>5 DEF MissingScan, d

-----------------------------------------------------------------------------
(* Reconciliation: the steps that change the disk or the tables.           *)
LEMMA ChangeKeeps ==
  ASSUME VaultInv, VaultTyped', Gains, BytesWritten', RowsAgree', PlanKnown', CallKnown',
         UNCHANGED <<at, reader>>,
         \A d \in Digests : blobs'[d] # "none" => blobs[d] # "none" \/ Secured(d) \/ Secured(d)',
         (call.at = "linked" => Secured(DigestOf[call.key]))'
  PROVE  VaultInv'
  <1>1. ReadersKnown'
    BY ReadersKept DEF VaultInv
  <1>2. \A d \in Digests : Secured(d) => Secured(d)'
    BY SecuredStays DEF VaultInv
  <1>3. ContentSecured'
    BY <1>2, DigestIs DEF VaultInv, ContentSecured
  <1> QED
    BY <1>1, <1>3 DEF VaultInv

LEMMA SecuredIs ==
  ASSUME VaultTyped, NEW d \in Digests, content[d] # 0, Holds(content[d], d)
  PROVE  Secured(d)
  <1>1. content[d] \in Attempts
    BY DEF VaultTyped
  <1> QED
    BY <1>1 DEF Secured, Preserved, Traced

LEMMA IntentIs ==
  ASSUME VaultTyped
  PROVE  NextIntent \in Nat /\ (NextIntent # 0 => NextIntent \in PendingIntents /\ NextIntent \in Attempts)
  <1>1. PendingIntents \subseteq Attempts
    BY DEF PendingIntents
  <1> QED
    BY <1>1, KeysAre DEF NextIntent

LEMMA IntentVerifyKeeps ==
  ASSUME VaultInv, IntentVerify
  PROVE  VaultInv' /\ Gains
  <1> USE HeadsAre DEF VaultInv, RecFrame, At, Idle, Heads, Throw
  <1>0. PICK a \in Attempts : a = NextIntent
    BY IntentIs DEF IntentVerify
  <1> DEFINE d == DigestOf[a]
  <1>1. a \in Attempts /\ a \in Nat /\ intent[a] # "none" /\ d \in Digests /\ a # 0
    BY <1>0, IntentIs, DigestIs DEF IntentVerify, PendingIntents
  <1>2. /\ UNCHANGED <<stage, quarantine, snapshots, bytes, attempts, intent, blobs, incidents, denied, writer, held>>
        /\ UNCHANGED <<faults, at, reader>>
    BY DEF IntentVerify
  <1>3. /\ \/ content' = content
           \/ content[d] = 0 /\ bytes[a] = "whole" /\ content' = [content EXCEPT ![d] = a]
        /\ \/ UNCHANGED <<outcome, transitions>>
           \/ Abort(a, "install-content-missing")
        /\ \/ rec' = rec /\ call' = Idle
           \/ rec' = [rec EXCEPT !.phase = "install-intents", !.after = a] /\ call' = [at |-> "run", key |-> 0]
           \/ /\ rec' = rec /\ call' = [at |-> "linked", key |-> a]
              /\ content'[d] # 0 /\ Holds(content'[d], d)
    BY <1>0, <1>1 DEF IntentVerify, MoveTo, Holds, VaultTyped
  <1> HIDE DEF d
  <1>4. outcome' = outcome \/ (outcome[a] # "succeeded" /\ outcome' = [outcome EXCEPT ![a] = "install-content-missing"])
    BY <1>1, <1>3 DEF Abort, OutcomeFits, insertOutcome
  <1>5. VaultTyped'
    <2>1. rec' \in Heads
      BY <1>1, <1>3 DEF Phases
    <2>2. call' \in [at : CallPlaces, key : Nat]
      BY <1>1, <1>3 DEF CallPlaces
    <2>3. transitions' \in [Attempts -> SUBSET States] /\ outcome' \in [Attempts -> {"none"} \cup Outcomes]
      BY <1>1, <1>3, <1>4 DEF VaultTyped, Abort, insertInstallTransition, Outcomes, States
    <2>4. content' \in [Digests -> {0} \cup Attempts]
      BY <1>1, <1>3 DEF VaultTyped
    <2> QED
      BY <1>2, <2>1, <2>2, <2>3, <2>4 DEF VaultTyped, CallPlaces
  <1>6. Gains
    BY <1>1, <1>2, <1>3, <1>4 DEF Gains, VaultTyped
  <1>7. BytesWritten'
    BY <1>1, <1>2, <1>3 DEF BytesWritten, VaultTyped, d
  <1>8. RowsAgree'
    BY <1>1, <1>2, <1>3 DEF RowsAgree, EvidenceAgrees, Abort, OutcomeFits, insertOutcome, insertInstallTransition,
                            VaultTyped
  <1>9. PlanKnown'
    BY <1>3, <1>6, PlanKept
  <1>10. CallKnown'
    BY <1>1, <1>2, <1>3 DEF CallKnown
  <1>11. (call.at = "linked" => Secured(DigestOf[call.key]))'
    <2> SUFFICES ASSUME call'.at = "linked" PROVE Secured(d)'
      BY <1>3 DEF d
    <2>1. content'[d] # 0 /\ content'[d] \in Attempts /\ bytes'[content'[d]] = "whole" /\ DigestOf[content'[d]] = d
      BY <1>1, <1>2, <1>3, <1>5 DEF Holds, VaultTyped
    <2> QED
      BY <2>1 DEF Secured, Preserved, Traced, Holds
  <1> QED
    BY <1>2, <1>5, <1>6, <1>7, <1>8, <1>9, <1>10, <1>11, ChangeKeeps

LEMMA IntentCommitKeeps ==
  ASSUME VaultInv, IntentCommit
  PROVE  VaultInv' /\ Gains
  <1> USE HeadsAre DEF VaultInv, RecFrame, At, Idle, Heads, Throw
  <1> DEFINE a == call.key
  <1>1. a \in Attempts /\ DigestOf[a] \in Digests /\ Secured(DigestOf[a]) /\ intent[a] # "none"
    BY DigestIs DEF IntentCommit, Inside, CallKnown, ContentSecured
  <1>2. UNCHANGED <<disk, attempts, intent, incidents, denied, writer, held, rec, at, reader>>
    BY DEF IntentCommit
  <1>3. CASE ~CommitFits(a)
    <2>1. call' = Idle /\ UNCHANGED <<outcome, transitions, blobs>>
      BY <1>3 DEF IntentCommit
    <2> QED
      BY <1>2, <2>1, MoveKeeps DEF evidence
  <1>4. CASE CommitFits(a)
    <2>1. call' = [at |-> "committed", key |-> a] /\ CommitIntentSuccess(a)
      BY <1>4 DEF IntentCommit
    <2> USE DEF CommitIntentSuccess, insertOutcome, insertInstallTransition, insertSuccessEvidence
    <2>2. VaultTyped'
      BY <1>1, <1>2, <2>1 DEF VaultTyped, disk, Outcomes, States
    <2>3. Gains
      BY <1>1, <1>2, <2>1 DEF Gains, disk, VaultTyped
    <2>4. BytesWritten'
      BY <1>2 DEF BytesWritten, disk
    <2>5. RowsAgree'
      BY <1>1, <1>2, <1>4, <2>1 DEF RowsAgree, EvidenceAgrees, CommitFits, OutcomeFits, VaultTyped
    <2>6. PlanKnown'
      BY <1>2, <2>3, PlanKept
    <2>7. CallKnown' /\ call'.at # "linked"
      BY <1>1, <1>2, <2>1 DEF CallKnown, VaultTyped
    <2>8. \A d \in Digests : blobs'[d] # "none" => blobs[d] # "none" \/ Secured(d)
      BY <1>1, <2>1 DEF VaultTyped
    <2> QED
      BY <1>2, <2>2, <2>3, <2>4, <2>5, <2>6, <2>7, <2>8, ChangeKeeps
  <1> QED
    BY <1>3, <1>4

LEMMA IntentCleanKeeps ==
  ASSUME VaultInv, IntentClean
  PROVE  VaultInv' /\ Gains
  <1> USE HeadsAre DEF VaultInv, RecFrame, At, Idle, Heads
  <1> DEFINE a == call.key
  <1>1. a \in Attempts /\ a \in Nat /\ outcome[a] = "succeeded"
    BY DigestIs DEF IntentClean, Inside, CallKnown
  <1>2. /\ UNCHANGED <<content, quarantine, snapshots, bytes, attempts, outcome, intent, blobs, incidents,
                       denied, writer, held, at, reader>>
        /\ stage' = stage \ {a} /\ transitions' = [transitions EXCEPT ![a] = @ \cup {"stage-cleaned"}]
        /\ rec' = [rec EXCEPT !.phase = "install-intents", !.after = a] /\ call' = [at |-> "run", key |-> 0]
    BY DEF IntentClean, MoveTo, insertInstallTransition
  <1>3. VaultTyped'
    BY <1>1, <1>2 DEF VaultTyped, States, Phases
  <1>4. Gains
    BY <1>2 DEF Gains, VaultTyped
  <1>5. BytesWritten'
    BY <1>2 DEF BytesWritten
  <1>6. RowsAgree'
    BY <1>1, <1>2 DEF RowsAgree, EvidenceAgrees, VaultTyped
  <1>7. PlanKnown'
    BY <1>2, <1>4, PlanKept
  <1>8. CallKnown' /\ call'.at # "linked"
    BY <1>2 DEF CallKnown
  <1> QED
    BY <1>2, <1>3, <1>4, <1>5, <1>6, <1>7, <1>8, ChangeKeeps

(* The planned action is applied: the plan is taken off the head.          *)
LEMMA AppliedIs ==
  ASSUME VaultTyped, Applied
  PROVE  rec' \in Heads /\ rec'.pending = NoPlan /\ call' = [at |-> "run", key |-> 0]
  BY HeadsAre DEF VaultTyped, Applied, At, Heads, NoPlan, Plans

LEMMA RemoveSnapshotKeeps ==
  ASSUME VaultInv, ApplyRemoveSnapshot
  PROVE  VaultInv' /\ Gains
  <1> USE DEF VaultInv, RecFrame
  <1>1. /\ UNCHANGED <<stage, content, quarantine, bytes, evidence, writer, held, at, reader>>
        /\ snapshots' \subseteq snapshots
        /\ rec' \in Heads /\ rec'.pending = NoPlan /\ call' = [at |-> "run", key |-> 0]
    BY AppliedIs DEF ApplyRemoveSnapshot
  <1>2. VaultTyped'
    BY <1>1 DEF VaultTyped, Heads, evidence
  <1>3. Gains
    BY <1>1 DEF Gains, VaultTyped, evidence
  <1>4. BytesWritten' /\ RowsAgree'
    BY <1>1 DEF BytesWritten, RowsAgree, EvidenceAgrees, evidence
  <1>5. PlanKnown' /\ CallKnown' /\ call'.at # "linked"
    BY <1>1 DEF PlanKnown, CallKnown, NoPlan
  <1> QED
    BY <1>1, <1>2, <1>3, <1>4, <1>5, ChangeKeeps DEF evidence

(* An outcome that an expired or quarantined attempt gets is its first, or *)
(* the one that it has.                                                    *)
LEMMA OutcomeKeeps ==
  ASSUME VaultInv, NEW a \in Attempts, NEW o \in {"stage-expired", "stage-missing"},
         OutcomeFits(a, o), insertOutcome(a, o), Applied,
         UNCHANGED <<disk, attempts, intent, transitions, blobs, incidents, denied, writer, held, at, reader>>
  PROVE  VaultInv' /\ Gains
  <1> USE DEF VaultInv, insertOutcome, OutcomeFits
  <1>1. rec' \in Heads /\ rec'.pending = NoPlan /\ call' = [at |-> "run", key |-> 0]
    BY AppliedIs
  <1>2. VaultTyped'
    BY <1>1 DEF VaultTyped, Heads, disk, Outcomes
  <1>3. Gains
    BY DEF Gains, VaultTyped, disk
  <1>4. BytesWritten'
    BY DEF BytesWritten, disk, VaultTyped
  <1>5. RowsAgree'
    BY DEF RowsAgree, EvidenceAgrees, disk, VaultTyped
  <1>6. PlanKnown' /\ CallKnown' /\ call'.at # "linked"
    BY <1>1 DEF PlanKnown, CallKnown, NoPlan
  <1> QED
    BY <1>2, <1>3, <1>4, <1>5, <1>6, ChangeKeeps

LEMMA ApplyAdoptKeeps ==
  ASSUME VaultInv, ApplyAdopt
  PROVE  VaultInv' /\ Gains
  <1> USE HeadsAre DEF VaultInv, RecFrame, Idle
  <1> DEFINE d == rec.pending.key
  <1>1. d \in Digests
    BY DEF ApplyAdopt, PlanKnown
  <1>2. UNCHANGED <<disk, attempts, outcome, intent, transitions, incidents, denied, writer, held, at, reader>>
    BY DEF ApplyAdopt
  <1>3. CASE Throw /\ UNCHANGED blobs
    BY <1>2, <1>3, MoveKeeps DEF Throw, evidence
  <1>4. CASE Readable(content[d], 1) /\ Holds(content[d], d) /\ adoptArtifact(d) /\ Applied
    <2>1. Secured(d)
      BY <1>1, <1>4, SecuredIs DEF Readable
    <2>2. rec' \in Heads /\ rec'.pending = NoPlan /\ call' = [at |-> "run", key |-> 0]
      BY <1>4, AppliedIs
    <2>3. blobs' = [blobs EXCEPT ![d] = "recovered-orphan"]
      BY <1>4 DEF adoptArtifact
    <2>4. VaultTyped'
      BY <1>1, <1>2, <2>2, <2>3 DEF VaultTyped, Heads, disk
    <2>5. Gains
      BY <1>2 DEF Gains, VaultTyped, disk
    <2>6. BytesWritten' /\ RowsAgree'
      BY <1>1, <1>2, <2>3, DigestIs DEF BytesWritten, RowsAgree, EvidenceAgrees, disk, VaultTyped
    <2>7. PlanKnown' /\ CallKnown' /\ call'.at # "linked"
      BY <2>2 DEF PlanKnown, CallKnown, NoPlan
    <2>8. \A e \in Digests : blobs'[e] # "none" => blobs[e] # "none" \/ Secured(e)
      BY <1>1, <2>1, <2>3 DEF VaultTyped
    <2> QED
      BY <1>2, <2>4, <2>5, <2>6, <2>7, <2>8, ChangeKeeps
  <1> QED
    BY <1>3, <1>4 DEF ApplyAdopt

LEMMA QuarantineLinkKeeps ==
  ASSUME VaultInv, QuarantineLink
  PROVE  VaultInv' /\ Gains
  <1> USE HeadsAre DEF VaultInv, RecFrame, Idle
  <1> DEFINE p == rec.pending
             q == [name |-> Target(p), inode |-> p.inode]
  <1>1. p.kind = "quarantine" /\ p.inode \in Attempts
    BY DEF QuarantineLink, PlanKnown
  <1>2. UNCHANGED <<stage, content, snapshots, bytes, evidence, writer, held, at, reader>>
    BY DEF QuarantineLink
  <1>3. CASE Throw /\ UNCHANGED quarantine
    BY <1>2, <1>3, MoveKeeps DEF Throw, disk
  <1>4. CASE /\ quarantine' = quarantine \cup {q} /\ rec' = rec
             /\ At(IF Source(p) = 0 THEN "moved" ELSE "target", 0)
    <2>1. call' \in [at : {"moved", "target"}, key : {0}]
      BY <1>4 DEF At
    <2>2. q.inode = p.inode
      OBVIOUS
    <2> HIDE DEF q
    <2>3. IsFiniteSet(quarantine') /\ \A x \in quarantine' : x.inode \in Attempts
      BY <1>1, <1>4, <2>2, QuarantineGrows
    <2>4. VaultTyped'
      BY <1>2, <1>4, <2>1, <2>3 DEF VaultTyped, evidence
    <2>5. Gains
      BY <1>2, <1>4 DEF Gains, VaultTyped, evidence
    <2>6. BytesWritten' /\ RowsAgree'
      BY <1>2 DEF BytesWritten, RowsAgree, EvidenceAgrees, evidence
    <2>7. PlanKnown'
      BY <1>4, <2>5, PlanKept
    <2>8. CallKnown' /\ call'.at # "linked"
      BY <1>1, <1>4, <2>1, <2>2 DEF CallKnown
    <2> QED
      BY <1>2, <2>4, <2>5, <2>6, <2>7, <2>8, ChangeKeeps DEF evidence
  <1> QED
    BY <1>3, <1>4 DEF QuarantineLink

LEMMA QuarantineRemoveKeeps ==
  ASSUME VaultInv, QuarantineRemove
  PROVE  VaultInv' /\ Gains
  <1> USE HeadsAre DEF VaultInv, RecFrame, Idle
  <1> DEFINE p == rec.pending
  <1>1. p.kind = "quarantine" /\ \E q \in quarantine : q.inode = p.inode
    BY DEF QuarantineRemove, Inside, CallKnown
  <1>2. UNCHANGED <<quarantine, snapshots, bytes, evidence, writer, held, at, reader, rec>>
    BY DEF QuarantineRemove, Throw
  <1>3. call' \in [at : {"off", "moved"}, key : {0}]
    BY DEF QuarantineRemove, Throw, At
  <1>4. stage' \subseteq stage
    BY DEF QuarantineRemove
  <1>5. /\ content' \in [Digests -> {0} \cup Attempts]
        /\ \A d \in Digests : \/ content'[d] = content[d]
                              \/ content'[d] = 0 /\ p.source = "content" /\ d = p.key
    BY DEF QuarantineRemove, VaultTyped
  <1>6. p.source = "content" => p.key \in incidents /\ Vouched(p.key)
    BY <1>1 DEF PlanKnown, Vouched
  <1>7. VaultTyped'
    BY <1>2, <1>3, <1>4, <1>5 DEF VaultTyped, evidence
  <1>8. Gains
    BY <1>2, <1>5, <1>6 DEF Gains, VaultTyped, evidence
  <1>9. BytesWritten' /\ RowsAgree'
    BY <1>2, <1>5 DEF BytesWritten, RowsAgree, EvidenceAgrees, evidence
  <1>10. PlanKnown'
    BY <1>2, <1>8, PlanKept
  <1>11. CallKnown' /\ call'.at # "linked"
    BY <1>1, <1>2, <1>3 DEF CallKnown
  <1> QED
    BY <1>2, <1>7, <1>8, <1>9, <1>10, <1>11, ChangeKeeps DEF evidence

LEMMA ApplyExpireKeeps ==
  ASSUME VaultInv, ApplyExpire
  PROVE  VaultInv' /\ Gains
  <1> USE HeadsAre DEF VaultInv, RecFrame, Idle
  <1> DEFINE p == rec.pending
  <1>1. p.key \in Attempts /\ p.outcome = "stage-missing"
    BY DEF ApplyExpire, PlanKnown
  <1>2. UNCHANGED <<disk, attempts, intent, transitions, blobs, incidents, denied, writer, held, at, reader>>
    BY DEF ApplyExpire
  <1>3. CASE Throw /\ UNCHANGED outcome
    BY <1>2, <1>3, MoveKeeps DEF Throw, evidence
  <1>4. CASE OutcomeFits(p.key, p.outcome) /\ insertOutcome(p.key, p.outcome) /\ Applied
    BY <1>1, <1>2, <1>4, OutcomeKeeps
  <1> QED
    BY <1>3, <1>4 DEF ApplyExpire

LEMMA QuarantineApplyKeeps ==
  ASSUME VaultInv, QuarantineApply
  PROVE  VaultInv' /\ Gains
  <1> USE HeadsAre DEF VaultInv, RecFrame, Idle
  <1> DEFINE p == rec.pending
  <1>1. p.outcome = "none" \/ (p.key \in Attempts /\ p.outcome = "stage-expired")
    BY DEF QuarantineApply, Inside, CallKnown, PlanKnown
  <1>2. UNCHANGED <<disk, attempts, intent, transitions, blobs, incidents, denied, writer, held, at, reader>>
    BY DEF QuarantineApply
  <1>3. CASE Throw /\ UNCHANGED outcome
    BY <1>2, <1>3, MoveKeeps DEF Throw, evidence
  <1>4. CASE p.outcome = "none" /\ UNCHANGED outcome /\ Applied
    <2>1. rec' \in Heads /\ rec'.pending = NoPlan /\ call' = [at |-> "run", key |-> 0]
      BY <1>4, AppliedIs
    <2> QED
      BY <1>2, <1>4, <2>1, MoveKeeps DEF evidence
  <1>5. CASE p.outcome # "none" /\ OutcomeFits(p.key, p.outcome) /\ insertOutcome(p.key, p.outcome) /\ Applied
    BY <1>1, <1>2, <1>5, OutcomeKeeps
  <1> QED
    BY <1>3, <1>4, <1>5 DEF QuarantineApply

(* Under a denial the open intents are aborted and their files removed.    *)
LEMMA CleanupNextKeeps ==
  ASSUME VaultInv, CleanupNext
  PROVE  VaultInv' /\ Gains
  <1> USE HeadsAre DEF VaultInv, RecFrame, Idle
  <1>1. /\ UNCHANGED <<quarantine, snapshots, bytes, attempts, intent, blobs, incidents, denied, rec,
                       writer, held, at, reader>>
        /\ denied
    BY DEF CleanupNext, CallKnown
  <1>2. CASE call' = Idle /\ UNCHANGED <<stage, content, outcome, transitions>>
    BY <1>1, <1>2, MoveKeeps DEF disk, evidence
  <1>3. ASSUME NEW a \in Attempts, Abort(a, "retention-denied"), a \in Nat,
               content' = [content EXCEPT ![DigestOf[a]] = 0], stage' = stage \ {a},
               call' \in {Idle, [at |-> "cleanup", key |-> a]}
        PROVE  VaultInv' /\ Gains
    <2> USE <1>1, <1>3, DigestIs DEF Abort, OutcomeFits, insertOutcome, insertInstallTransition
    <2>1. VaultTyped'
      BY DEF VaultTyped, Outcomes, States
    <2>2. Gains
      BY DEF Gains, VaultTyped
    <2>3. BytesWritten'
      BY DEF BytesWritten, VaultTyped
    <2>4. RowsAgree'
      BY DEF RowsAgree, EvidenceAgrees, VaultTyped
    <2>5. PlanKnown'
      BY <2>2, PlanKept
    <2>6. CallKnown' /\ call'.at # "linked"
      BY DEF CallKnown
    <2> QED
      BY <2>1, <2>2, <2>3, <2>4, <2>5, <2>6, ChangeKeeps
  <1>4. PICK k : k = NextAfter(PendingIntents, call.key)
    OBVIOUS
  <1>5. k # 0 => k \in Attempts /\ k \in Nat
    <2>1. PendingIntents \in SUBSET Nat /\ PendingIntents \subseteq Attempts /\ call.key \in Nat
      BY DEF PendingIntents, Attempts, VaultTyped
    <2> QED
      BY <1>4, <2>1, NextAfterIs, DigestIs
  <1>6. CASE k = 0
    BY <1>2, <1>4, <1>6 DEF CleanupNext
  <1>7. CASE k # 0 /\ Abort(k, "retention-denied")
    <2>1. /\ content' = [content EXCEPT ![DigestOf[k]] = 0] /\ stage' = stage \ {k}
          /\ call' \in {Idle, [at |-> "cleanup", key |-> k]}
      BY <1>4, <1>7 DEF CleanupNext, At
    <2> QED
      BY <1>3, <1>5, <1>7, <2>1
  <1> QED
    BY <1>4, <1>6, <1>7 DEF CleanupNext

-----------------------------------------------------------------------------
(* The world around the vault.                                             *)
LEMMA DenyKeeps ==
  ASSUME VaultInv, Deny
  PROVE  VaultInv' /\ Gains
  <1> USE DEF VaultInv, Deny, disk
  <1>1. VaultTyped' /\ Gains
    BY DEF VaultTyped, Gains
  <1>2. BytesWritten' /\ RowsAgree' /\ PlanKnown' /\ CallKnown'
    BY DEF BytesWritten, RowsAgree, EvidenceAgrees, PlanKnown, CallKnown
  <1>3. (call.at = "linked" => Secured(DigestOf[call.key]))'
    <2>1. \A d \in Digests : Secured(d) => Secured(d)'
      BY <1>1, SecuredStays
    <2> QED
      BY <2>1, DigestIs DEF ContentSecured, CallKnown
  <1> QED
    BY <1>1, <1>2, <1>3, ChangeKeeps

LEMMA RotKeeps ==
  ASSUME VaultInv, NEW d \in Digests, Rot(d)
  PROVE  VaultInv' /\ Gains
  <1> USE DEF VaultInv, Rot
  <1>1. content[d] \in Attempts
    BY DEF VaultTyped
  <1>2. VaultTyped'
    BY <1>1 DEF VaultTyped, evidence
  <1>3. Gains
    BY <1>1 DEF VaultTyped, Gains, evidence
  <1>4. BytesWritten'
    BY <1>1 DEF BytesWritten, evidence, VaultTyped
  <1>5. RowsAgree'
    BY DEF RowsAgree, EvidenceAgrees, evidence
  <1>6. PlanKnown' /\ CallKnown'
    BY <1>3, PlanKept, CallKept
  <1>7. (call.at = "linked" => Secured(DigestOf[call.key]))'
    <2>1. \A e \in Digests : Secured(e) => Secured(e)'
      BY <1>2, <1>3, SecuredStays
    <2> QED
      BY <2>1, DigestIs DEF ContentSecured, CallKnown
  <1> QED
    BY <1>2, <1>3, <1>4, <1>5, <1>6, <1>7, ChangeKeeps DEF evidence

LEMMA RestartKeeps ==
  ASSUME VaultInv, WriterDies \/ CloseAndReopen
  PROVE  VaultInv' /\ Gains
  <1> USE DEF VaultInv
  <1>1. UNCHANGED <<disk, evidence, rec>> /\ NoCalls /\ writer' \in Nat
    BY DEF WriterDies, CloseAndReopen, VaultTyped
  <1>2. VaultTyped'
    BY <1>1 DEF VaultTyped, NoCalls, disk, evidence, Idle
  <1>3. Gains
    BY <1>1 DEF VaultTyped, Gains, disk, evidence
  <1>4. BytesWritten' /\ RowsAgree'
    BY <1>1 DEF BytesWritten, RowsAgree, EvidenceAgrees, NoCalls, disk, evidence
  <1>5. PlanKnown' /\ CallKnown' /\ ReadersKnown'
    BY <1>1 DEF PlanKnown, CallKnown, ReadersKnown, NoCalls, disk, evidence, Idle
  <1>6. \A d \in Digests : Secured(d) => Secured(d)'
    BY <1>2, <1>3, SecuredStays
  <1>7. ContentSecured'
    BY <1>1, <1>6 DEF ContentSecured, NoCalls, evidence, Idle
  <1> QED
    BY <1>2, <1>3, <1>4, <1>5, <1>7

LEMMA VaultStepKeeps ==
  ASSUME VaultInv, VaultStep
  PROVE  VaultInv' /\ Gains
  <1>1. CASE Reconcile
    BY <1>1, SimpleScans, ScansPlan, ContentAgainKeeps, MissingScanKeeps, IntentVerifyKeeps,
       IntentCommitKeeps, IntentCleanKeeps, RemoveSnapshotKeeps, ApplyExpireKeeps, ApplyAdoptKeeps,
       QuarantineLinkKeeps, QuarantineRemoveKeeps, QuarantineApplyKeeps, CleanupNextKeeps
       DEF Reconcile
  <1> QED
    BY <1>1, StoreKeeps, ReadKeeps, DenyKeeps, RotKeeps, RestartKeeps DEF VaultStep

LEMMA VaultInvStep ==
  ASSUME VaultInv, [VaultNext]_vaultVars
  PROVE  VaultInv'
  <1>1. CASE UNCHANGED vaultVars
    BY <1>1 DEF VaultInv, VaultTyped, BytesWritten, PlanKnown, CallKnown, ReadersKnown, Vouched, RowsAgree,
                EvidenceAgrees, ContentSecured, Secured, Preserved, Traced, Excused, Holds,
                vaultVars, disk, evidence, process
  <1>2. CASE VaultNext
    BY <1>2, VaultStepKeeps DEF VaultNext
  <1> QED
    BY <1>1, <1>2

LEMMA VaultInvariant == VaultSpec => []VaultInv
  BY VaultInvInit, VaultInvStep, PTL DEF VaultSpec

-----------------------------------------------------------------------------
(* Outcome, transition and blob row of an attempt agree, and committed     *)
(* content does not disappear without an incident or a denial, whatever    *)
(* calls of the vault interleave and wherever the writer dies.             *)
THEOREM VaultEvidenceSound == VaultSpec => []EvidenceSound
  <1>1. VaultInv => EvidenceSound
    <2> SUFFICES ASSUME VaultInv PROVE EvidenceSound
      OBVIOUS
    <2>1. EvidenceAgrees
      BY DEF VaultInv, RowsAgree
    <2>2. NoSilentLoss
      BY DEF VaultInv, ContentSecured, Secured, Traced, NoSilentLoss
    <2> QED
      BY <2>1, <2>2 DEF EvidenceSound
  <1> QED
    BY <1>1, VaultInvariant, PTL

-----------------------------------------------------------------------------
(* The refinement.                                                         *)
LEMMA PreservedKept ==
  ASSUME VaultTyped, NEW d \in Digests, Preserved(d)
  PROVE  d \in Kept \cup Excused
  <1> SUFFICES ASSUME d \notin Excused PROVE d \in Kept
    OBVIOUS
  <1>1. PICK i \in Attempts : Holds(i, d) /\ (content[d] = i \/ \E q \in quarantine : q.inode = i)
    BY DEF Preserved
  <1>2. Links(i) > 0
    BY <1>1, LinkedIs
  <1> QED
    BY <1>1, <1>2 DEF Kept

LEMMA PromiseInit == VaultInit => Promise!Init
  <1> SUFFICES ASSUME VaultInit PROVE Promise!Init
    OBVIOUS
  <1>1. Verdict = [a \in Attempts |-> "none"]
    BY DEF VaultInit, Verdict
  <1>2. {d \in Digests : blobs[d] # "none"} = {}
    BY DEF VaultInit
  <1>3. Kept = {} /\ Excused = {}
    BY DEF VaultInit, Kept, Excused, Holds
  <1> QED
    BY <1>1, <1>2, <1>3 DEF Promise!Init

(* What a step does to the verdicts and to the digests that are known.     *)
Known == {d \in Digests : blobs[d] # "none"}

Announces ==
  \/ UNCHANGED <<outcome, blobs>>
  \/ \E a \in Attempts :
       /\ OutcomeFits(a, "succeeded") /\ outcome' = [outcome EXCEPT ![a] = "succeeded"]
       /\ insertSuccessEvidence(DigestOf[a]) /\ Secured(DigestOf[a])
  \/ \E a \in Attempts, o \in Outcomes \ {"succeeded"} :
       /\ OutcomeFits(a, o) /\ outcome' = [outcome EXCEPT ![a] = o] /\ UNCHANGED blobs
  \/ \E d \in Digests :
       /\ content[d] # 0 /\ Holds(content[d], d) /\ UNCHANGED outcome
       /\ blobs' = [blobs EXCEPT ![d] = "recovered-orphan"]

LEMMA OutcomeSame ==
  ASSUME VaultTyped, NEW a \in Attempts
  PROVE  [outcome EXCEPT ![a] = outcome[a]] = outcome
  BY DEF VaultTyped

LEMMA AbortAnnounces ==
  ASSUME VaultTyped, NEW a \in Attempts, NEW o \in Outcomes \ {"succeeded"}, Abort(a, o), UNCHANGED blobs
  PROVE  Announces
  <1>1. CASE "evidence-committed" \notin transitions[a] /\ OutcomeFits(a, o)
    BY <1>1 DEF Announces, Abort, insertOutcome
  <1>2. CASE ~("evidence-committed" \notin transitions[a] /\ OutcomeFits(a, o))
    BY <1>2 DEF Announces, Abort
  <1> QED
    BY <1>1, <1>2

LEMMA StoreAnnounces ==
  ASSUME VaultInv, NEW a \in Attempts, StoreStep(a)
  PROVE  Announces
  <1> USE DEF VaultInv
  <1>1. CASE StoreBegin(a) \/ StageCreate(a) \/ StageWrite(a) \/ PrepareIntent(a) \/ ContentLink(a)
               \/ VerifyInstalled(a) \/ StoreClean(a)
    BY <1>1 DEF StoreBegin, StageCreate, StageWrite, PrepareIntent, ContentLink, VerifyInstalled,
                StoreClean, Announces, evidence
  <1>2. CASE StoreCommit(a)
    <2>1. CASE CommitFits(a)
      <3>1. OutcomeFits(a, "succeeded") /\ insertSuccessEvidence(DigestOf[a])
        BY <1>2, <2>1 DEF StoreCommit, CommitIntentSuccess, CommitFits
      <3>2. outcome' = [outcome EXCEPT ![a] = "succeeded"]
        BY <1>2, <2>1 DEF StoreCommit, CommitIntentSuccess, insertOutcome
      <3>3. Secured(DigestOf[a])
        BY <1>2 DEF StoreCommit, ContentSecured
      <3> QED
        BY <3>1, <3>2, <3>3 DEF Announces
    <2>2. CASE ~CommitFits(a)
      BY <1>2, <2>2 DEF StoreCommit, Announces
    <2> QED
      BY <2>1, <2>2
  <1>3. CASE StoreFail(a)
    <2>1. UNCHANGED blobs
      BY <1>3 DEF StoreFail
    <2>2. CASE intent[a] # "none"
      <3>1. Abort(a, "failed")
        BY <1>3, <2>2 DEF StoreFail
      <3> QED
        BY <2>1, <3>1, AbortAnnounces DEF Outcomes
    <2>3. CASE intent[a] = "none" /\ outcome[a] = "none"
      <3>1. outcome' = [outcome EXCEPT ![a] = "failed"] /\ OutcomeFits(a, "failed")
        BY <1>3, <2>3 DEF StoreFail, OutcomeFits, VaultTyped
      <3> QED
        BY <2>1, <3>1 DEF Announces, Outcomes
    <2>4. CASE intent[a] = "none" /\ outcome[a] # "none"
      <3>1. outcome' = outcome
        BY <1>3, <2>4, OutcomeSame DEF StoreFail
      <3> QED
        BY <2>1, <3>1 DEF Announces
    <2> QED
      BY <2>2, <2>3, <2>4
  <1> QED
    BY <1>1, <1>2, <1>3 DEF StoreStep

LEMMA QuietAnnounces ==
  ASSUME \/ OpenCall \/ PartialReceipt \/ CallStopped \/ EvidencePage \/ IntentsDone \/ IntentClean
         \/ SnapshotScan \/ ApplyRemoveSnapshot \/ StageScan \/ OpenAttemptScan \/ ContentScan
         \/ ContentAgain \/ MissingScan \/ ApplyMissing \/ QuarantineLink \/ QuarantineRemove
         \/ CleanupStart \/ Deny \/ WriterDies \/ CloseAndReopen \/ (\E d \in Digests : Rot(d))
         \/ (\E r \in Readers : ReadStep(r))
  PROVE  UNCHANGED <<outcome, blobs>>
  BY DEF OpenCall, PartialReceipt, CallStopped, EvidencePage, IntentsDone, IntentClean, SnapshotScan,
         ApplyRemoveSnapshot, StageScan, OpenAttemptScan, ContentScan, ContentAgain, MissingScan,
         ApplyMissing, QuarantineLink, QuarantineRemove, CleanupStart, Deny, WriterDies, CloseAndReopen,
         Rot, ReadStep, ReadOpen, SnapshotVerify, ReadQuarantineLink, ReadQuarantineRemove, ReadFrame, evidence

LEMMA StepAnnounces ==
  ASSUME VaultInv, VaultStep
  PROVE  Announces
  <1> USE DEF VaultInv
  <1>1. CASE IntentVerify
    <2>1. PICK a \in Attempts : a = NextIntent
      BY <1>1, IntentIs DEF IntentVerify
    <2>2. UNCHANGED blobs /\ (UNCHANGED outcome \/ Abort(a, "install-content-missing"))
      BY <1>1, <2>1 DEF IntentVerify
    <2> QED
      BY <2>2, AbortAnnounces DEF Announces, Outcomes
  <1>2. CASE IntentCommit
    <2> DEFINE a == call.key
    <2>1. a \in Attempts /\ Secured(DigestOf[a])
      BY <1>2 DEF IntentCommit, Inside, CallKnown, ContentSecured
    <2>2. CASE CommitFits(a)
      <3>1. OutcomeFits(a, "succeeded") /\ insertSuccessEvidence(DigestOf[a])
        BY <1>2, <2>2 DEF IntentCommit, CommitIntentSuccess, CommitFits
      <3>2. outcome' = [outcome EXCEPT ![a] = "succeeded"]
        BY <1>2, <2>2 DEF IntentCommit, CommitIntentSuccess, insertOutcome
      <3> QED
        BY <2>1, <3>1, <3>2 DEF Announces
    <2>3. CASE ~CommitFits(a)
      BY <1>2, <2>3 DEF IntentCommit, Announces
    <2> QED
      BY <2>2, <2>3
  <1>3. CASE ApplyExpire
    <2> DEFINE p == rec.pending
    <2>1. p.key \in Attempts /\ p.outcome \in Outcomes \ {"succeeded"} /\ UNCHANGED blobs
      BY <1>3 DEF ApplyExpire, PlanKnown, Outcomes
    <2> QED
      BY <1>3, <2>1 DEF ApplyExpire, Announces, insertOutcome
  <1>4. CASE QuarantineApply
    <2> DEFINE p == rec.pending
    <2>1. UNCHANGED blobs
      BY <1>4 DEF QuarantineApply
    <2>2. CASE p.outcome = "none"
      BY <1>4, <2>1, <2>2 DEF QuarantineApply, Announces
    <2>3. CASE p.outcome # "none"
      <3>1. p.key \in Attempts /\ p.outcome \in Outcomes \ {"succeeded"}
        BY <1>4, <2>3 DEF QuarantineApply, Inside, CallKnown, PlanKnown, Outcomes
      <3> QED
        BY <1>4, <2>1, <2>3, <3>1 DEF QuarantineApply, Announces, insertOutcome
    <2> QED
      BY <2>2, <2>3
  <1>5. CASE CleanupNext
    <2>1. PICK k : k = NextAfter(PendingIntents, call.key)
      OBVIOUS
    <2>2. k # 0 => k \in Attempts
      <3>1. PendingIntents \in SUBSET Nat /\ PendingIntents \subseteq Attempts /\ call.key \in Nat
        BY DEF PendingIntents, Attempts, VaultTyped
      <3> QED
        BY <2>1, <3>1, NextAfterIs
    <2>3. UNCHANGED blobs /\ (UNCHANGED outcome \/ (k # 0 /\ Abort(k, "retention-denied")))
      BY <1>5, <2>1 DEF CleanupNext
    <2> QED
      BY <2>2, <2>3, AbortAnnounces DEF Announces, Outcomes
  <1>6. CASE ApplyAdopt
    <2> DEFINE d == rec.pending.key
    <2>1. d \in Digests /\ UNCHANGED outcome
      BY <1>6 DEF ApplyAdopt, PlanKnown
    <2>2. UNCHANGED blobs \/ (Readable(content[d], 1) /\ Holds(content[d], d) /\ adoptArtifact(d))
      BY <1>6 DEF ApplyAdopt
    <2> QED
      BY <2>1, <2>2 DEF Announces, adoptArtifact, Readable
  <1> QED
    BY <1>1, <1>2, <1>3, <1>4, <1>5, <1>6, StoreAnnounces, QuietAnnounces DEF VaultStep, Reconcile, Announces
(* What is announced is kept or excused, before and after a step; a step   *)
(* never takes an excuse or an announcement back.                          *)
LEMMA AnnouncedKept ==
  ASSUME VaultInv
  PROVE  Known \subseteq Kept \cup Excused
  BY PreservedKept DEF VaultInv, ContentSecured, Secured, Known

LEMMA VerdictIs ==
  ASSUME VaultTyped, NEW a \in Attempts
  PROVE  /\ Verdict[a] = IF outcome[a] = "none" THEN "none"
                         ELSE IF outcome[a] = "succeeded" THEN "accepted" ELSE "refused"
  BY DEF Verdict

LEMMA VerdictStep ==
  ASSUME VaultTyped, NEW a \in Attempts, NEW o \in Outcomes,
         outcome' = [outcome EXCEPT ![a] = o]
  PROVE  Verdict' = [Verdict EXCEPT ![a] = IF o = "succeeded" THEN "accepted" ELSE "refused"]
  BY DEF Verdict, VaultTyped, Outcomes

LEMMA StepKeepsPromise ==
  ASSUME VaultInv, VaultInv', Gains, Announces
  PROVE  Promise!Next
  <1> USE DEF VaultInv
  <1>1. Known \subseteq Kept \cup Excused /\ Known' \subseteq Kept' \cup Excused'
    <2>1. VaultInv /\ VaultInv'
      OBVIOUS
    <2>2. Known \subseteq Kept \cup Excused
      BY <2>1, AnnouncedKept
    <2>3. (Known \subseteq Kept \cup Excused)'
      BY <2>1, AnnouncedKept, PTL
    <2> QED
      BY <2>2, <2>3
  <1>2. Known \subseteq Known'
    <2>1. \A d \in Digests : blobs[d] # "none" => blobs'[d] # "none"
      BY DigestIs DEF Announces, insertSuccessEvidence, VaultTyped
    <2> QED
      BY <2>1 DEF Known
  <1>3. Excused \subseteq Excused'
    BY DEF Excused, Gains
  <1>4. Kept' \subseteq Digests /\ Excused' \subseteq Digests
    BY DEF Kept, Excused
  <1>5. Promise!Keep
    BY <1>1, <1>2, <1>3, <1>4 DEF Promise!Keep, Known
  <1>6. CASE UNCHANGED <<outcome, blobs>>
    <2>1. Verdict' = Verdict /\ Known' = Known
      BY <1>6 DEF Verdict, Known
    <2> QED
      BY <1>5, <2>1 DEF Promise!Next, Known
  <1>7. ASSUME NEW a \in Attempts, OutcomeFits(a, "succeeded"),
               outcome' = [outcome EXCEPT ![a] = "succeeded"],
               insertSuccessEvidence(DigestOf[a]), Secured(DigestOf[a])
        PROVE  Promise!Next
    <2>1. DigestOf[a] \in Digests
      BY DigestIs
    <2>2. DigestOf[a] \in Kept \cup Excused
      BY <1>7, <2>1, PreservedKept DEF Secured
    <2>3. Known' = Known \cup {DigestOf[a]}
      BY <1>7, <2>1 DEF insertSuccessEvidence, Known, VaultTyped
    <2>4. Verdict' = [Verdict EXCEPT ![a] = "accepted"]
      BY <1>7, VerdictStep DEF Outcomes
    <2>5. CASE outcome[a] = "none"
      <3>1. Verdict[a] = "none"
        BY <2>5, VerdictIs
      <3>2. Promise!Accept(a)
        BY <2>2, <2>3, <2>4, <3>1 DEF Promise!Accept, Known
      <3> QED
        BY <1>5, <3>2 DEF Promise!Next
    <2>6. CASE outcome[a] = "succeeded"
      <3>1. outcome' = outcome
        BY <1>7, <2>6, OutcomeSame
      <3>2. Verdict' = Verdict
        BY <3>1 DEF Verdict
      <3>3. Known' = Known
        BY <2>1, <2>3, <2>6 DEF RowsAgree, EvidenceAgrees, Known
      <3> QED
        BY <1>5, <3>2, <3>3 DEF Promise!Next, Known
    <2> QED
      BY <1>7, <2>5, <2>6 DEF OutcomeFits
  <1>8. ASSUME NEW a \in Attempts, NEW o \in Outcomes \ {"succeeded"}, OutcomeFits(a, o),
               outcome' = [outcome EXCEPT ![a] = o], UNCHANGED blobs
        PROVE  Promise!Next
    <2>1. Known' = Known
      BY <1>8 DEF Known
    <2>2. Verdict' = [Verdict EXCEPT ![a] = "refused"]
      BY <1>8, VerdictStep
    <2>3. CASE outcome[a] = "none"
      <3>1. Verdict[a] = "none"
        BY <2>3, VerdictIs
      <3>2. Promise!Refuse(a)
        BY <2>1, <2>2, <3>1 DEF Promise!Refuse, Known
      <3> QED
        BY <1>5, <3>2 DEF Promise!Next
    <2>4. CASE outcome[a] = o
      <3>1. outcome' = outcome
        BY <1>8, <2>4, OutcomeSame
      <3>2. Verdict' = Verdict
        BY <3>1 DEF Verdict
      <3> QED
        BY <1>5, <2>1, <3>2 DEF Promise!Next, Known
    <2> QED
      BY <1>8, <2>3, <2>4 DEF OutcomeFits
  <1>9. ASSUME NEW d \in Digests, content[d] # 0, Holds(content[d], d), UNCHANGED outcome,
               blobs' = [blobs EXCEPT ![d] = "recovered-orphan"]
        PROVE  Promise!Next
    <2>1. content[d] \in Attempts
      BY <1>9 DEF VaultTyped
    <2>2. Links(content[d]) > 0
      BY <2>1, LinkedIs
    <2>3. d \in Kept
      BY <1>9, <2>1, <2>2 DEF Kept
    <2>4. Known' = Known \cup {d}
      BY <1>9 DEF Known, VaultTyped
    <2>5. Verdict' = Verdict
      BY <1>9 DEF Verdict
    <2>6. Promise!Adopt(d)
      BY <2>3, <2>4, <2>5 DEF Promise!Adopt, Known
    <2> QED
      BY <1>5, <2>6 DEF Promise!Next
  <1> QED
    BY <1>6, <1>7, <1>8, <1>9 DEF Announces

(* Every behaviour of the vault is one of ArtifactPromise: an attempt gets *)
(* at most one verdict, a digest is announced only when its bytes are in   *)
(* the vault, and they stay there unless damaged or denied.                *)
THEOREM VaultKeepsPromise == VaultSpec => PromiseKept
  <1>1. VaultInit => Promise!Init
    BY PromiseInit
  <1>2. VaultInv /\ [VaultNext]_vaultVars => [Promise!Next]_Promise!vars
    <2> SUFFICES ASSUME VaultInv, [VaultNext]_vaultVars
                 PROVE  [Promise!Next]_Promise!vars
      OBVIOUS
    <2>1. CASE VaultNext
      BY <2>1, VaultStepKeeps, StepAnnounces, StepKeepsPromise DEF VaultNext
    <2>2. CASE UNCHANGED vaultVars
      <3>1. Verdict' = Verdict /\ Excused' = Excused /\ Known' = Known
        BY <2>2 DEF vaultVars, disk, evidence, Verdict, Excused, Known
      <3>2. \A i : Links(i)' = Links(i)
        BY <2>2 DEF vaultVars, disk, Links
      <3>3. Kept' = Kept
        BY <2>2, <3>2 DEF vaultVars, disk, Kept, Holds
      <3> QED
        BY <3>1, <3>3 DEF Promise!vars, Known
    <2> QED
      BY <2>1, <2>2
  <1> QED
    BY <1>1, <1>2, VaultInvariant, PTL DEF VaultSpec, PromiseKept, Promise!Spec
-----------------------------------------------------------------------------
(* What a terminal receipt means.  Each place of the reconcile call and    *)
(* each kind of plan belongs to one phase of the run.                      *)
Placed ==
  /\ call.at \in {"linked", "committed"} => rec.phase = "install-intents" /\ rec.pending = NoPlan
  /\ call.at = "again" => rec.phase = "content" /\ rec.pending = NoPlan
  /\ rec.pending.kind = "remove-snapshot" => rec.phase = "snapshots"
  /\ rec.pending.kind = "quarantine" =>
       \/ rec.pending.source = "stage" /\ rec.phase = "staging"
       \/ rec.pending.source = "content" /\ rec.phase = "content"
  /\ rec.pending.kind = "expire-attempt" => rec.phase = "open-attempts"
  /\ rec.pending.kind = "adopt-orphan" => rec.phase = "content"
  /\ rec.pending.kind = "record-missing-content" => rec.phase = "missing-content"
  /\ rec.status = "terminal" => /\ rec.phase = "missing-content" /\ rec.pending = NoPlan
                                /\ call.at \in {"off", "cleanup"}

(* In a phase, what lies at or before the cursor is clean, and what lies   *)
(* before the key in hand; after it, everything is.                        *)
IntentsSwept ==
  /\ rec.phase = "install-intents" =>
       \A a \in PendingIntents :
         a > rec.after /\ (call.at \in {"linked", "committed"} => a >= call.key)
  /\ rec.phase \in Phases \ {"evidence", "install-intents"} => PendingIntents = {}

SnapshotsSwept ==
  /\ rec.phase = "snapshots" =>
       \A r \in snapshots :
         r > rec.after /\ (rec.pending.kind = "remove-snapshot" => r >= rec.pending.key)
  /\ rec.phase \in {"staging", "open-attempts", "content", "missing-content"} => snapshots = {}

StagesSwept ==
  /\ rec.phase = "staging" =>
       \A a \in stage : \/ outcome[a] = "none"
                        \/ a > rec.after /\ (rec.pending.kind = "quarantine" => a >= rec.pending.key)
  /\ rec.phase \in {"open-attempts", "content", "missing-content"} => \A a \in stage : outcome[a] = "none"
  /\ rec.pending.kind = "expire-attempt" => rec.pending.key \notin stage

ContentSwept ==
  /\ rec.phase = "content" =>
       \A d \in Digests : \/ content[d] = 0 \/ blobs[d] # "none"
                          \/ /\ d > rec.after
                             /\ rec.pending.kind \in {"quarantine", "adopt-orphan"} => d >= rec.pending.key
                             /\ call.at = "again" => d >= call.key
  /\ rec.phase = "missing-content" => \A d \in Digests : content[d] = 0 \/ blobs[d] # "none"

Swept ==
  /\ IntentsSwept /\ SnapshotsSwept /\ StagesSwept /\ ContentSwept
  /\ call.at = "moved" => Source(rec.pending) = 0

CleanInv == Placed /\ (quiet => Alone) /\ (quiet /\ ~denied => Swept)

LEMMA SweptSame ==
  ASSUME Swept, UNCHANGED <<rec, stage, content, snapshots, outcome, intent, transitions, blobs>>,
         call' = call \/ call'.at \in {"off", "run", "cleanup", "target"}
  PROVE  Swept'
  BY DEF Swept, IntentsSwept, SnapshotsSwept, StagesSwept, ContentSwept, PendingIntents, Source

(* A run that is quiet after a step of the same run was quiet before it.   *)
LEMMA QuietBefore ==
  ASSUME CleanInv, Observe, UNCHANGED rec \/ rec'.run = rec.run
  PROVE  (quiet' => Alone') /\ (quiet' => quiet /\ Alone)
  BY DEF CleanInv, Observe

LEMMA StoreClears ==
  ASSUME VaultInv, CleanInv, Observe, NEW a \in Attempts, StoreStep(a)
  PROVE  CleanInv'
  <1>1. UNCHANGED <<rec, call>>
    BY DEF StoreStep, StoreBegin, StageCreate, StageWrite, PrepareIntent, ContentLink, VerifyInstalled,
           StoreCommit, StoreClean, StoreFail, StoreFrame
  <1>2. Placed'
    BY <1>1 DEF CleanInv, Placed
  <1>3. quiet' => Alone' /\ Alone
    BY <1>1, QuietBefore
  <1>4. Alone => ~Alone'
    <2> SUFFICES ASSUME Alone PROVE ~Alone'
      OBVIOUS
    <2>1. at[a] = "idle"
      BY DEF Alone, Active
    <2>2. StoreBegin(a)
      BY <2>1 DEF StoreStep, StageCreate, StageWrite, PrepareIntent, ContentLink, VerifyInstalled,
                  StoreCommit, StoreClean, StoreFail
    <2>3. at'[a] = "stage"
      BY <2>2 DEF StoreBegin, Goes, VaultInv, VaultTyped
    <2> QED
      BY <2>3 DEF Alone, Active
  <1> QED
    BY <1>2, <1>3, <1>4 DEF CleanInv

LEMMA ReadClears ==
  ASSUME VaultInv, CleanInv, Observe, NEW r \in Readers, ReadStep(r)
  PROVE  CleanInv'
  <1>1. UNCHANGED <<rec, call, denied>>
    BY DEF ReadStep, ReadOpen, SnapshotVerify, ReadQuarantineLink, ReadQuarantineRemove, ReadFrame
  <1>2. Placed'
    BY <1>1 DEF CleanInv, Placed
  <1>3. (quiet' => Alone') /\ (quiet' => quiet /\ Alone)
    BY <1>1, QuietBefore
  <1>4. ASSUME quiet', ~denied' PROVE Swept'
    <2>1. reader[r].pc = "idle" /\ reader'[r].pc = "idle"
      BY <1>3, <1>4 DEF Alone, Reading
    <2>2. ReadOpen(r)
      BY <2>1 DEF ReadStep, SnapshotVerify, ReadQuarantineLink, ReadQuarantineRemove
    <2>3. content[ReadDigest(r)] = 0
      BY <2>1, <2>2 DEF ReadOpen, ReaderAt, VaultInv, VaultTyped
    <2>4. UNCHANGED <<rec, stage, content, snapshots, outcome, intent, transitions, blobs, call>>
      BY <2>2, <2>3 DEF ReadOpen, ReadFrame
    <2>5. Swept
      BY <1>1, <1>3, <1>4 DEF CleanInv
    <2> QED
      BY <2>4, <2>5, SweptSame
  <1> QED
    BY <1>2, <1>3, <1>4 DEF CleanInv

LEMMA WorldClears ==
  ASSUME VaultInv, CleanInv, Observe,
         Deny \/ WriterDies \/ CloseAndReopen \/ \E d \in Digests : Rot(d)
  PROVE  CleanInv'
  <1>1. UNCHANGED <<rec, stage, content, snapshots, outcome, intent, transitions, blobs>>
          /\ (denied => denied') /\ call' \in {call, Idle}
    BY DEF Deny, WriterDies, CloseAndReopen, Rot, NoCalls, disk, evidence
  <1>2. Placed'
    BY <1>1 DEF CleanInv, Placed, Idle
  <1>3. (quiet' => Alone') /\ (quiet' => quiet /\ Alone)
    BY <1>1, QuietBefore
  <1>4. ASSUME quiet', ~denied' PROVE Swept'
    <2>1. Swept
      BY <1>1, <1>3, <1>4 DEF CleanInv
    <2> QED
      BY <1>1, <2>1, SweptSame DEF Idle
  <1> QED
    BY <1>2, <1>3, <1>4 DEF CleanInv

-----------------------------------------------------------------------------
(* The steps of the reconcile call.  Each shows Placed' and, in a quiet    *)
(* run, Swept'.                                                            *)
Clears == Placed' /\ (Alone' <=> Alone) /\ (denied' <=> denied) /\ (Swept /\ ~denied => Swept')

LEMMA ClearsClean ==
  ASSUME CleanInv, Observe, rec'.run = rec.run, Clears
  PROVE  CleanInv'
  BY QuietBefore DEF CleanInv, Clears

LEMMA AloneSame ==
  ASSUME UNCHANGED <<at, reader>>
  PROVE  Alone' <=> Alone
  BY DEF Alone, Active, Reading

LEMMA CallClears ==
  ASSUME VaultInv, CleanInv, Observe, OpenCall \/ PartialReceipt \/ CallStopped \/ CleanupStart \/ CleanupNext
  PROVE  CleanInv'
  <1> USE DEF RecFrame, At, disk, evidence, Idle
  <1>1. CASE OpenCall /\ rec.status \in {"none", "terminal"}
    <2>1. rec' = NewRun /\ call'.at = "run"
      BY <1>1 DEF OpenCall
    <2>2. Placed' /\ Swept'
      BY <2>1 DEF NewRun, NoPlan, Placed, Swept, IntentsSwept, SnapshotsSwept, StagesSwept, ContentSwept
    <2>3. quiet' => Alone'
      BY DEF Observe
    <2> QED
      BY <2>2, <2>3 DEF CleanInv
  <1>2. CASE OpenCall /\ rec.status \notin {"none", "terminal"}
    <2>1. rec' = [rec EXCEPT !.writer = writer] /\ call'.at = "run"
      BY <1>2 DEF OpenCall
    <2>2. rec'.status = rec.status /\ rec'.phase = rec.phase /\ rec'.after = rec.after /\ rec'.run = rec.run
            /\ rec'.pending = rec.pending
      BY <2>1 DEF VaultInv, VaultTyped
    <2>3. UNCHANGED <<stage, content, snapshots, outcome, intent, transitions, blobs, denied, at, reader>>
      BY <1>2 DEF OpenCall
    <2>4. Placed'
      BY <1>2, <2>1, <2>2 DEF CleanInv, Placed
    <2>5. Swept => Swept'
      BY <2>1, <2>2, <2>3 DEF Swept, IntentsSwept, SnapshotsSwept, StagesSwept, ContentSwept, PendingIntents,
                              Source
    <2> QED
      BY <2>2, <2>3, <2>4, <2>5, AloneSame, ClearsClean DEF Clears
  <1>3. CASE PartialReceipt
    <2>1. rec' = [rec EXCEPT !.status = "active"] /\ call'.at = "off"
      BY <1>3 DEF PartialReceipt, commitReceipt
    <2>2. rec'.status = "active" /\ rec'.phase = rec.phase /\ rec'.after = rec.after /\ rec'.run = rec.run
            /\ rec'.pending = rec.pending
      BY <2>1 DEF VaultInv, VaultTyped
    <2>3. UNCHANGED <<stage, content, snapshots, outcome, intent, transitions, blobs, denied, at, reader>>
      BY <1>3 DEF PartialReceipt
    <2>4. Placed'
      BY <2>1, <2>2 DEF CleanInv, Placed
    <2>5. Swept => Swept'
      BY <2>1, <2>2, <2>3 DEF Swept, IntentsSwept, SnapshotsSwept, StagesSwept, ContentSwept, PendingIntents,
                              Source
    <2> QED
      BY <2>2, <2>3, <2>4, <2>5, AloneSame, ClearsClean DEF Clears
  <1>4. CASE CallStopped \/ CleanupStart \/ CleanupNext
    <2>1. denied /\ denied' /\ UNCHANGED <<rec, at, reader>> /\ call'.at \in {"off", "cleanup"}
      BY <1>4 DEF CallStopped, CleanupStart, CleanupNext, VaultInv, CallKnown
    <2>2. Placed'
      BY <2>1 DEF CleanInv, Placed
    <2> QED
      BY <2>1, <2>2, AloneSame, ClearsClean DEF Clears
  <1> QED
    BY <1>1, <1>2, <1>3, <1>4

(* A throw and a scan that goes on to a place of the same phase.           *)
LEMMA ThrowClears ==
  ASSUME CleanInv, Throw, UNCHANGED <<stage, content, snapshots, outcome, intent, transitions, blobs, denied, at, reader>>
  PROVE  Clears
  <1>1. Placed'
    BY DEF Throw, CleanInv, Placed, Idle
  <1>2. Swept => Swept'
    BY SweptSame DEF Throw, Idle
  <1> QED
    BY <1>1, <1>2, AloneSame DEF Clears, Throw

LEMMA MoveIs ==
  ASSUME VaultTyped, NEW phase, NEW k, MoveTo(phase, k)
  PROVE  /\ rec'.status = rec.status /\ rec'.phase = phase /\ rec'.after = k
         /\ rec'.run = rec.run /\ rec'.pending = rec.pending /\ call'.at = "run"
  BY DEF VaultTyped, MoveTo, At

LEMMA MovePlaced ==
  ASSUME VaultTyped, CleanInv, call.at \notin {"off", "cleanup"}, rec.pending = NoPlan,
         NEW phase, NEW k, MoveTo(phase, k)
  PROVE  Placed'
  BY MoveIs DEF CleanInv, Placed, NoPlan

LEMMA PlanIs ==
  ASSUME VaultTyped, NEW kind, NEW source, NEW key, NEW inode, NEW o, Plan(kind, source, key, inode, o)
  PROVE  /\ rec'.status = rec.status /\ rec'.phase = rec.phase /\ rec'.after = rec.after /\ rec'.run = rec.run
         /\ rec'.pending.kind = kind /\ rec'.pending.source = source /\ rec'.pending.key = key
         /\ call'.at = "run"
  BY DEF VaultTyped, Plan, At
LEMMA IntentsClear ==
  ASSUME VaultInv, CleanInv, EvidencePage \/ IntentsDone \/ IntentVerify \/ IntentCommit \/ IntentClean
  PROVE  Clears /\ rec'.run = rec.run
  <1> USE DEF RecFrame, disk, evidence, VaultInv, Loop, Inside
  <1>0. rec.after \in Nat /\ PendingIntents \in SUBSET Nat /\ PendingIntents \subseteq Attempts /\ call.key \in Nat
    BY DigestIs DEF PendingIntents, VaultTyped
  <1>1. CASE EvidencePage
    <2>1. MoveTo("install-intents", 0)
      BY <1>1 DEF EvidencePage
    <2>2. Placed'
      BY <1>1, <2>1, MovePlaced DEF EvidencePage
    <2>3. PendingIntents' = PendingIntents
      BY <1>1 DEF EvidencePage, PendingIntents
    <2>4. Swept'
      BY <1>0, <1>1, <2>1, <2>3, MoveIs, DigestIs
         DEF EvidencePage, Swept, IntentsSwept, SnapshotsSwept, StagesSwept, ContentSwept, PendingIntents, NoPlan
    <2> QED
      BY <1>1, <2>1, <2>2, <2>4, MoveIs, AloneSame DEF EvidencePage, Clears
  <1>2. CASE IntentsDone
    <2>1. MoveTo("snapshots", 0)
      BY <1>2 DEF IntentsDone
    <2>2. Placed'
      BY <1>2, <2>1, MovePlaced DEF IntentsDone
    <2>3. \A a \in PendingIntents : a <= rec.after
      BY <1>0, <1>2, NextAfterIs, DigestIs DEF IntentsDone, NextIntent
    <2>4. Swept => PendingIntents = {}
      BY <1>0, <1>2, <2>3 DEF Swept, IntentsSwept, IntentsDone
    <2>5. UNCHANGED PendingIntents
      BY <1>2 DEF IntentsDone, PendingIntents
    <2>6. \A r \in snapshots' : r > 0
      BY <1>2 DEF IntentsDone, VaultTyped, Readers
    <2>7. Swept => Swept'
      BY <1>2, <2>1, <2>4, <2>5, <2>6, MoveIs
         DEF IntentsDone, Swept, IntentsSwept, SnapshotsSwept, StagesSwept, ContentSwept, NoPlan
    <2> QED
      BY <1>2, <2>1, <2>2, <2>7, MoveIs, AloneSame DEF IntentsDone, Clears
  <1>3. CASE IntentVerify
    <2>1. PICK a \in Attempts : a = NextIntent
      BY <1>3, IntentIs DEF IntentVerify
    <2>2. a \in PendingIntents /\ \A x \in PendingIntents : x > rec.after => a <= x
      BY <1>0, <2>1, NextAfterIs, DigestIs DEF NextIntent
    <2>3. UNCHANGED <<stage, snapshots, intent, blobs, denied, at, reader>>
      BY <1>3 DEF IntentVerify
    <2>4. CASE Throw /\ UNCHANGED <<content, outcome, transitions>>
      BY <2>3, <2>4, ThrowClears DEF Throw
    <2>5. CASE Abort(a, "install-content-missing") /\ UNCHANGED content /\ AbortFits(a, "install-content-missing")
                 /\ MoveTo("install-intents", a)
      <3>1. Placed'
        BY <1>3, <2>5, MovePlaced DEF IntentVerify
      <3>2. PendingIntents' \subseteq PendingIntents \ {a}
        <4>1. transitions' = [transitions EXCEPT ![a] = transitions[a] \cup {"aborted"}]
          BY <2>5 DEF Abort, AbortFits, insertInstallTransition
        <4>2. \A x \in Attempts : transitions[x] \subseteq transitions'[x]
          BY <4>1 DEF VaultTyped
        <4>3. "aborted" \in transitions'[a]
          BY <4>1 DEF VaultTyped
        <4> QED
          BY <2>3, <4>2, <4>3 DEF PendingIntents
      <3>3. Swept => \A x \in PendingIntents' : x > a
        BY <1>0, <1>3, <2>2, <3>2 DEF Swept, IntentsSwept, IntentVerify
      <3>4. Swept => Swept'
        BY <1>3, <2>5, <3>3, MoveIs
           DEF IntentVerify, Swept, IntentsSwept, SnapshotsSwept, StagesSwept, ContentSwept, NoPlan
      <3> QED
        BY <2>3, <2>5, <3>1, <3>4, MoveIs, AloneSame DEF Clears
    <2>6. CASE Throw /\ UNCHANGED content /\ Abort(a, "install-content-missing")
                 /\ ~AbortFits(a, "install-content-missing")
      <3>1. UNCHANGED <<outcome, transitions>>
        BY <2>6 DEF Abort, AbortFits
      <3> QED
        BY <2>3, <2>6, <3>1, ThrowClears DEF Throw
    <2>7. CASE At("linked", a) /\ UNCHANGED <<outcome, transitions, rec>>
      <3>1. call'.at = "linked" /\ call'.key = a
        BY <2>7 DEF At
      <3>2. UNCHANGED PendingIntents
        BY <2>3, <2>7 DEF PendingIntents
      <3>3. Placed'
        BY <1>3, <2>7, <3>1 DEF IntentVerify, CleanInv, Placed, NoPlan
      <3>4. Swept => Swept'
        BY <1>3, <2>2, <2>7, <3>1, <3>2
           DEF IntentVerify, Swept, IntentsSwept, SnapshotsSwept, StagesSwept, ContentSwept, NoPlan
      <3> QED
        BY <2>3, <2>7, <3>3, <3>4, AloneSame DEF Clears
    <2> QED
      BY <1>3, <2>1, <2>4, <2>5, <2>6, <2>7 DEF IntentVerify
  <1>4. CASE IntentCommit
    <2>1. UNCHANGED <<stage, content, snapshots, intent, denied, at, reader>>
      BY <1>4 DEF IntentCommit
    <2>2. CASE CommitFits(call.key)
      <3>1. call'.at = "committed" /\ call'.key = call.key /\ UNCHANGED rec
        BY <1>4, <2>2 DEF IntentCommit, At
      <3>2. PendingIntents' \subseteq PendingIntents
        BY <1>4, <2>1, <2>2 DEF IntentCommit, CommitIntentSuccess, insertInstallTransition, PendingIntents, VaultTyped
      <3>3. Placed'
        BY <1>4, <3>1 DEF IntentCommit, CleanInv, Placed, NoPlan
      <3>4. Swept => Swept'
        BY <1>4, <3>1, <3>2, <3>3
           DEF IntentCommit, Placed, Swept, IntentsSwept, SnapshotsSwept, StagesSwept, ContentSwept, NoPlan
      <3> QED
        BY <2>1, <3>1, <3>3, <3>4, AloneSame DEF Clears
    <2>3. CASE ~CommitFits(call.key)
      <3>1. Throw /\ UNCHANGED <<outcome, transitions, blobs>>
        BY <1>4, <2>3 DEF IntentCommit
      <3> QED
        BY <2>1, <3>1, ThrowClears DEF Throw
    <2> QED
      BY <2>2, <2>3
  <1>5. CASE IntentClean
    <2> DEFINE a == call.key
    <2>1. a \in Attempts /\ MoveTo("install-intents", a) /\ rec.pending = NoPlan /\ rec.phase = "install-intents"
      BY <1>5 DEF IntentClean, CallKnown, CleanInv, Placed
    <2>2. Placed'
      BY <1>5, <2>1, MovePlaced DEF IntentClean
    <2>3. PendingIntents' \subseteq PendingIntents \ {a}
      BY <1>5, <2>1 DEF IntentClean, insertInstallTransition, PendingIntents, VaultTyped
    <2>4. Swept => \A x \in PendingIntents' : x > a
      BY <1>0, <1>5, <2>1, <2>3, DigestIs DEF Swept, IntentsSwept, IntentClean
    <2>5. Swept => Swept'
      BY <2>1, <2>4, MoveIs DEF Swept, IntentsSwept, SnapshotsSwept, StagesSwept, ContentSwept, NoPlan
    <2> QED
      BY <1>5, <2>1, <2>2, <2>5, MoveIs, AloneSame DEF IntentClean, Clears
  <1> QED
    BY <1>1, <1>2, <1>3, <1>4, <1>5

LEMMA AppliedMoves ==
  ASSUME VaultTyped, Applied
  PROVE  /\ rec'.status = rec.status /\ rec'.phase = rec.phase /\ rec'.after = rec.pending.key
         /\ rec'.run = rec.run /\ rec'.pending = NoPlan /\ call'.at = "run"
  BY DEF VaultTyped, Applied, At

LEMMA AppliedPlaced ==
  ASSUME VaultTyped, CleanInv, Applied, call.at \notin {"off", "cleanup"}
  PROVE  Placed'
  BY AppliedMoves DEF CleanInv, Placed, NoPlan

LEMMA SnapshotsClear ==
  ASSUME VaultInv, CleanInv, SnapshotScan \/ ApplyRemoveSnapshot
  PROVE  Clears /\ rec'.run = rec.run
  <1> USE DEF RecFrame, disk, evidence, VaultInv, Loop, Inside
  <1>0. rec.after \in Nat /\ snapshots \in SUBSET Nat /\ rec.pending.key \in Nat
    BY DEF VaultTyped, Readers, Plans
  <1>1. CASE SnapshotScan
    <2>1. PICK r : r = NextAfter(snapshots, rec.after)
      OBVIOUS
    <2>2. UNCHANGED <<stage, content, snapshots, outcome, intent, transitions, blobs, denied, at, reader>>
      BY <1>1 DEF SnapshotScan
    <2>3. UNCHANGED PendingIntents
      BY <2>2 DEF PendingIntents
    <2>4. CASE r = 0
      <3>1. MoveTo("staging", 0)
        BY <1>1, <2>1, <2>4 DEF SnapshotScan
      <3>2. Swept => snapshots = {}
        <4>0. \/ NextAfter(snapshots, rec.after) = 0 /\ \A x \in snapshots : x <= rec.after
              \/ NextAfter(snapshots, rec.after) > rec.after
          BY <1>0, NextAfterIs
        <4>1. \A x \in snapshots : x <= rec.after
          BY <1>0, <2>1, <2>4, <4>0
        <4> QED
          BY <1>0, <1>1, <4>1 DEF SnapshotScan, Swept, SnapshotsSwept
      <3>3. \A a \in stage : a > 0
        BY DigestIs DEF VaultTyped, Attempts
      <3>4. Swept => Swept'
        BY <1>1, <2>2, <2>3, <3>1, <3>2, <3>3, MoveIs
           DEF SnapshotScan, Phases, Swept, IntentsSwept, SnapshotsSwept, StagesSwept, ContentSwept, NoPlan
      <3> QED
        BY <1>1, <2>2, <3>1, <3>4, MoveIs, MovePlaced, AloneSame DEF SnapshotScan, Clears
    <2>5. CASE r # 0
      <3>1. Plan("remove-snapshot", "snapshot", r, 0, "none")
        BY <1>1, <2>1, <2>5 DEF SnapshotScan
      <3>2. Swept => \A x \in snapshots : x >= r
        BY <1>0, <1>1, <2>1, <2>5, NextAfterIs DEF SnapshotScan, Swept, SnapshotsSwept
      <3>3. Placed'
        BY <1>1, <3>1, PlanIs DEF SnapshotScan, CleanInv, Placed
      <3>4. Swept => Swept'
        BY <1>1, <2>2, <2>3, <3>1, <3>2, PlanIs
           DEF SnapshotScan, Swept, IntentsSwept, SnapshotsSwept, StagesSwept, ContentSwept, NoPlan
      <3> QED
        BY <2>2, <3>1, <3>3, <3>4, PlanIs, AloneSame DEF Clears
    <2> QED
      BY <2>4, <2>5
  <1>2. CASE ApplyRemoveSnapshot
    <2>1. Applied /\ snapshots' = snapshots \ {rec.pending.key} /\ rec.phase = "snapshots"
      BY <1>2 DEF ApplyRemoveSnapshot, CleanInv, Placed
    <2>2. UNCHANGED <<stage, content, outcome, intent, transitions, blobs, denied, at, reader>>
      BY <1>2 DEF ApplyRemoveSnapshot
    <2>3. UNCHANGED PendingIntents
      BY <2>2 DEF PendingIntents
    <2>4. Swept => \A x \in snapshots' : x > rec.pending.key
      BY <1>0, <1>2, <2>1 DEF ApplyRemoveSnapshot, Swept, SnapshotsSwept
    <2>5. Swept => Swept'
      BY <1>2, <2>1, <2>2, <2>3, <2>4, AppliedMoves
         DEF Swept, IntentsSwept, SnapshotsSwept, StagesSwept, ContentSwept, NoPlan
    <2> QED
      BY <1>2, <2>1, <2>2, <2>5, AppliedMoves, AppliedPlaced, AloneSame DEF ApplyRemoveSnapshot, Clears
  <1> QED
    BY <1>1, <1>2
(* The next key of a scan, or none.                                        *)
LEMMA ScanEnds ==
  ASSUME NEW S \in SUBSET Nat, NEW k \in Nat, NextAfter(S, k) = 0
  PROVE  \A x \in S : x <= k
  <1>1. \/ \A x \in S : x <= k
        \/ NextAfter(S, k) > k
    BY NextAfterIs
  <1> QED
    BY <1>1

LEMMA ScanFinds ==
  ASSUME NEW S \in SUBSET Nat, NEW k \in Nat, NextAfter(S, k) # 0
  PROVE  NextAfter(S, k) \in S /\ NextAfter(S, k) > k /\ \A x \in S : x > k => NextAfter(S, k) <= x
  BY NextAfterIs

LEMMA StagesClear ==
  ASSUME VaultInv, CleanInv, StageScan \/ OpenAttemptScan \/ ApplyExpire
  PROVE  Clears /\ rec'.run = rec.run
  <1> USE DEF RecFrame, disk, evidence, VaultInv, Loop, Inside
  <1>0. rec.after \in Nat /\ stage \in SUBSET Nat /\ rec.pending.key \in Nat /\ \A d \in Digests : d > 0
    BY DEF VaultTyped, Attempts, Plans, Digests
  <1>1. CASE StageScan
    <2>1. PICK a : a = NextAfter(stage, rec.after)
      OBVIOUS
    <2>2. UNCHANGED <<stage, content, snapshots, outcome, intent, transitions, blobs, denied, at, reader>>
      BY <1>1 DEF StageScan
    <2>3. UNCHANGED PendingIntents
      BY <2>2 DEF PendingIntents
    <2>4. CASE a = 0 /\ MoveTo("open-attempts", 0)
      <3>1. \A x \in stage : x <= rec.after
        BY <1>0, <2>1, <2>4, ScanEnds
      <3>2. Swept => \A x \in stage : outcome[x] = "none"
        BY <1>0, <1>1, <3>1 DEF StageScan, Swept, StagesSwept
      <3>3. Swept => Swept'
        BY <1>1, <2>2, <2>3, <2>4, <3>2, MoveIs
           DEF StageScan, Phases, Swept, IntentsSwept, SnapshotsSwept, StagesSwept, ContentSwept, NoPlan
      <3> QED
        BY <1>1, <2>2, <2>4, <3>3, MoveIs, MovePlaced, AloneSame DEF StageScan, Clears
    <2>5. CASE a # 0 /\ outcome[a] = "none" /\ MoveTo("staging", a)
      <3>1. a \in stage /\ a \in Nat /\ a > rec.after /\ \A x \in stage : x > rec.after => a <= x
        BY <1>0, <2>1, <2>5, ScanFinds
      <3>2. Swept => \A x \in stage : outcome[x] = "none" \/ x > a
        <4>1. Swept => \A x \in stage : outcome[x] = "none" \/ x > rec.after
          BY <1>1 DEF StageScan, Swept, StagesSwept
        <4>2. ASSUME NEW x \in stage, x > rec.after PROVE outcome[x] = "none" \/ x > a
          BY <1>0, <2>5, <3>1, <4>2
        <4> QED
          BY <4>1, <4>2
      <3>3. Swept => Swept'
        BY <1>1, <2>2, <2>3, <2>5, <3>2, MoveIs
           DEF StageScan, Phases, Swept, IntentsSwept, SnapshotsSwept, StagesSwept, ContentSwept, NoPlan
      <3> QED
        BY <1>1, <2>2, <2>5, <3>3, MoveIs, MovePlaced, AloneSame DEF StageScan, Clears
    <2>6. ASSUME NEW o, a # 0, Plan("quarantine", "stage", a, a, o)
          PROVE  Clears /\ rec'.run = rec.run
      <3>1. a \in stage /\ a \in Nat /\ \A x \in stage : x > rec.after => a <= x
        BY <1>0, <2>1, <2>6, ScanFinds
      <3>2. Placed'
        BY <1>1, <2>6, PlanIs DEF StageScan, CleanInv, Placed
      <3>3. Swept => Swept'
        BY <1>0, <1>1, <2>2, <2>3, <2>6, <3>1, PlanIs
           DEF StageScan, Swept, IntentsSwept, SnapshotsSwept, StagesSwept, ContentSwept, NoPlan
      <3> QED
        BY <2>2, <2>6, <3>2, <3>3, PlanIs, AloneSame DEF Clears
    <2>7. CASE Throw
      BY <2>2, <2>7, ThrowClears DEF Throw
    <2> QED
      BY <1>1, <2>1, <2>4, <2>5, <2>6, <2>7 DEF StageScan
  <1>2. CASE OpenAttemptScan
    <2>1. PICK a : a = NextAfter({b \in attempts : outcome[b] = "none"}, rec.after)
      OBVIOUS
    <2>2. UNCHANGED <<stage, content, snapshots, outcome, intent, transitions, blobs, denied, at, reader>>
      BY <1>2 DEF OpenAttemptScan
    <2>3. UNCHANGED PendingIntents
      BY <2>2 DEF PendingIntents
    <2>4. CASE MoveTo("content", 0)
      <3>1. Swept => Swept'
        BY <1>0, <1>2, <2>2, <2>3, <2>4, MoveIs
           DEF OpenAttemptScan, Phases, Swept, IntentsSwept, SnapshotsSwept, StagesSwept, ContentSwept, NoPlan
      <3> QED
        BY <1>2, <2>2, <2>4, <3>1, MoveIs, MovePlaced, AloneSame DEF OpenAttemptScan, Clears
    <2>5. CASE a \notin stage /\ Plan("expire-attempt", "stage", a, 0, "stage-missing")
      <3>1. Placed'
        BY <1>2, <2>5, PlanIs DEF OpenAttemptScan, CleanInv, Placed
      <3>2. Swept => Swept'
        BY <1>2, <2>2, <2>3, <2>5, PlanIs
           DEF OpenAttemptScan, Swept, IntentsSwept, SnapshotsSwept, StagesSwept, ContentSwept, NoPlan
      <3> QED
        BY <2>2, <2>5, <3>1, <3>2, PlanIs, AloneSame DEF Clears
    <2>6. CASE MoveTo("open-attempts", a)
      <3>1. Swept => Swept'
        BY <1>2, <2>2, <2>3, <2>6, MoveIs
           DEF OpenAttemptScan, Phases, Swept, IntentsSwept, SnapshotsSwept, StagesSwept, ContentSwept, NoPlan
      <3> QED
        BY <1>2, <2>2, <2>6, <3>1, MoveIs, MovePlaced, AloneSame DEF OpenAttemptScan, Clears
    <2> QED
      BY <1>2, <2>1, <2>4, <2>5, <2>6 DEF OpenAttemptScan
  <1>3. CASE ApplyExpire
    <2> DEFINE k == rec.pending.key
    <2>1. UNCHANGED <<stage, content, snapshots, intent, transitions, blobs, denied, at, reader>>
            /\ rec.phase = "open-attempts" /\ call.at = "run" /\ k \in Attempts
      BY <1>3 DEF ApplyExpire, CleanInv, Placed, PlanKnown
    <2>2. UNCHANGED PendingIntents
      BY <2>1 DEF PendingIntents
    <2>3. CASE OutcomeFits(k, rec.pending.outcome)
      <3>1. Applied /\ outcome' = [outcome EXCEPT ![k] = rec.pending.outcome]
        BY <1>3, <2>3 DEF ApplyExpire, insertOutcome
      <3>2. Swept => \A x \in stage : outcome'[x] = "none"
        BY <1>3, <2>1, <3>1 DEF ApplyExpire, Swept, StagesSwept, VaultTyped
      <3>3. Swept => Swept'
        BY <2>1, <2>2, <3>1, <3>2, AppliedMoves
           DEF Swept, IntentsSwept, SnapshotsSwept, StagesSwept, ContentSwept, NoPlan
      <3> QED
        BY <2>1, <3>1, <3>3, AppliedMoves, AppliedPlaced, AloneSame DEF Clears
    <2>4. CASE ~OutcomeFits(k, rec.pending.outcome)
      <3>1. Throw /\ UNCHANGED outcome
        BY <1>3, <2>4 DEF ApplyExpire
      <3> QED
        BY <2>1, <3>1, ThrowClears DEF Throw
    <2> QED
      BY <2>3, <2>4
  <1> QED
    BY <1>1, <1>2, <1>3

LEMMA QuarantineClears ==
  ASSUME VaultInv, CleanInv, QuarantineLink \/ QuarantineRemove \/ QuarantineApply
  PROVE  Clears /\ rec'.run = rec.run
  <1> USE DEF RecFrame, disk, evidence, VaultInv, Inside
  <1> DEFINE p == rec.pending
  <1>0. /\ rec.after \in Nat /\ stage \in SUBSET Nat /\ p.key \in Nat /\ Digests \subseteq Nat
        /\ p.kind = "quarantine"
        /\ call.at \notin {"off", "cleanup", "linked", "committed", "again"}
        /\ \/ p.source = "stage" /\ rec.phase = "staging" /\ p.key \in Attempts
           \/ p.source = "content" /\ rec.phase = "content" /\ p.key \in Digests /\ p.outcome = "none"
    BY DEF VaultTyped, Attempts, Plans, Digests, CleanInv, Placed, PlanKnown, CallKnown, QuarantineLink,
           QuarantineRemove, QuarantineApply
  <1>1. CASE QuarantineLink
    <2>1. UNCHANGED <<stage, content, snapshots, outcome, intent, transitions, blobs, denied, at, reader>>
      BY <1>1 DEF QuarantineLink
    <2>2. CASE Throw
      BY <2>1, <2>2, ThrowClears DEF Throw
    <2>3. CASE At(IF Source(p) = 0 THEN "moved" ELSE "target", 0) /\ UNCHANGED rec
      <3>1. call'.at \in {"moved", "target"} /\ (call'.at = "moved" => Source(p) = 0)
        BY <2>3 DEF At
      <3>2. Source(rec.pending)' = Source(rec.pending)
        BY <2>1, <2>3 DEF Source
      <3>3. UNCHANGED PendingIntents
        BY <2>1 DEF PendingIntents
      <3>4. Placed'
        BY <1>0, <2>3, <3>1 DEF CleanInv, Placed
      <3>5. Swept => Swept'
        BY <1>0, <2>1, <2>3, <3>1, <3>2, <3>3
           DEF Swept, IntentsSwept, SnapshotsSwept, StagesSwept, ContentSwept
      <3> QED
        BY <2>1, <2>3, <3>4, <3>5, AloneSame DEF Clears
    <2> QED
      BY <1>1, <2>2, <2>3 DEF QuarantineLink
  <1>2. CASE QuarantineRemove
    <2>1. UNCHANGED <<rec, snapshots, outcome, intent, transitions, blobs, denied, at, reader>>
            /\ call'.at \in {"off", "moved"}
      BY <1>2 DEF QuarantineRemove, At, Throw, Idle
    <2>2. UNCHANGED PendingIntents
      BY <2>1 DEF PendingIntents
    <2>3. stage' \subseteq stage /\ \A d \in Digests : content'[d] \in {0, content[d]}
      BY <1>2 DEF QuarantineRemove, VaultTyped
    <2>4. Source(rec.pending)' = 0
      BY <1>0, <1>2, <2>1 DEF QuarantineRemove, Source, VaultTyped
    <2>5. Placed'
      BY <1>0, <2>1 DEF CleanInv, Placed
    <2>6. Swept => Swept'
      BY <1>0, <2>1, <2>2, <2>3, <2>4
         DEF Swept, IntentsSwept, SnapshotsSwept, StagesSwept, ContentSwept
    <2> QED
      BY <2>1, <2>5, <2>6, AloneSame DEF Clears
  <1>3. CASE QuarantineApply
    <2>1. UNCHANGED <<stage, content, snapshots, intent, transitions, blobs, denied, at, reader>>
            /\ call.at = "moved"
      BY <1>3 DEF QuarantineApply
    <2>2. UNCHANGED PendingIntents
      BY <2>1 DEF PendingIntents
    <2>3. CASE Throw /\ UNCHANGED outcome
      BY <2>1, <2>3, ThrowClears DEF Throw
    <2>4. CASE Applied /\ IF p.outcome = "none" THEN UNCHANGED outcome ELSE insertOutcome(p.key, p.outcome)
      <3>1. \A x \in Attempts \ {p.key} : outcome'[x] = outcome[x]
        BY <2>4 DEF insertOutcome, VaultTyped
      <3>2. Swept /\ p.source = "stage" => p.key \notin stage
        BY <1>0, <2>1, DigestIs DEF Swept, Source
      <3>3. Swept /\ p.source = "content" => content[p.key] = 0
        BY <2>1 DEF Swept, Source
      <3>4. CASE p.source = "stage"
        <4>0. rec.phase = "staging"
          BY <1>0, <3>4
        <4>1. Swept => \A x \in stage : outcome'[x] = "none" \/ x > p.key
          BY <1>0, <2>1, <3>1, <3>2, <3>4, <4>0 DEF Swept, StagesSwept, VaultTyped
        <4>2. Swept => Swept'
          BY <2>1, <2>2, <2>4, <4>0, <4>1, AppliedMoves
             DEF Swept, IntentsSwept, SnapshotsSwept, StagesSwept, ContentSwept, NoPlan
        <4> QED
          BY <2>1, <2>4, <4>2, AppliedMoves, AppliedPlaced, AloneSame DEF Clears
      <3>5. CASE p.source = "content"
        <4>0. rec.phase = "content" /\ p.outcome = "none"
          BY <1>0, <3>5
        <4>1. Swept => \A d \in Digests : content[d] = 0 \/ blobs[d] # "none" \/ d > p.key
          BY <1>0, <3>3, <3>5, <4>0 DEF Swept, ContentSwept
        <4>2. Swept => Swept'
          BY <2>1, <2>2, <2>4, <4>0, <4>1, AppliedMoves
             DEF Swept, IntentsSwept, SnapshotsSwept, StagesSwept, ContentSwept, NoPlan
        <4> QED
          BY <2>1, <2>4, <4>2, AppliedMoves, AppliedPlaced, AloneSame DEF Clears
      <3> QED
        BY <1>0, <3>4, <3>5
    <2> QED
      BY <1>3, <2>3, <2>4 DEF QuarantineApply
  <1> QED
    BY <1>1, <1>2, <1>3
LEMMA ContentClears ==
  ASSUME VaultInv, CleanInv, ContentScan \/ ContentAgain \/ ApplyAdopt
  PROVE  Clears /\ rec'.run = rec.run
  <1> USE DEF RecFrame, disk, evidence, VaultInv, Loop, Inside
  <1>0. rec.after \in Nat /\ Present \in SUBSET Nat /\ Present \subseteq Digests /\ Digests \subseteq Nat
          /\ rec.pending.key \in Nat /\ call.key \in Nat
    BY DEF VaultTyped, Present, Plans, Digests
  <1>1. CASE ContentScan
    <2>1. PICK d : d = NextAfter(Present, rec.after)
      OBVIOUS
    <2>2. UNCHANGED <<stage, content, snapshots, outcome, intent, transitions, blobs, denied, at, reader>>
            /\ rec.phase = "content" /\ call.at = "run" /\ rec.pending = NoPlan
      BY <1>1 DEF ContentScan
    <2>3. UNCHANGED PendingIntents
      BY <2>2 DEF PendingIntents
    <2>4. Swept => \A e \in Digests : content[e] = 0 \/ blobs[e] # "none" \/ (e \in Present /\ e > rec.after)
      BY <2>2 DEF Swept, ContentSwept, Present
    <2>5. CASE d = 0
      <3>1. MoveTo("missing-content", 0)
        BY <1>1, <2>1, <2>5 DEF ContentScan
      <3>2. \A e \in Present : e <= rec.after
        BY <1>0, <2>1, <2>5, ScanEnds
      <3>3. Swept => \A e \in Digests : content[e] = 0 \/ blobs[e] # "none"
        BY <1>0, <2>4, <3>2
      <3>4. Swept => Swept'
        BY <2>2, <2>3, <3>1, <3>3, MoveIs
           DEF Phases, Swept, IntentsSwept, SnapshotsSwept, StagesSwept, ContentSwept, NoPlan
      <3> QED
        BY <2>2, <3>1, <3>4, MoveIs, MovePlaced, AloneSame DEF Clears
    <2>6. CASE d # 0
      <3>1. d \in Present /\ d \in Nat /\ \A e \in Present : e > rec.after => d <= e
        BY <1>0, <2>1, <2>6, ScanFinds
      <3>2. Swept => \A e \in Digests : content[e] = 0 \/ blobs[e] # "none" \/ (e > rec.after /\ e >= d)
        <4>1. ASSUME NEW e \in Present, e > rec.after PROVE e >= d
          BY <1>0, <3>1, <4>1
        <4> QED
          BY <2>4, <4>1
      <3>3. CASE At("again", d) /\ UNCHANGED rec
        <4>1. call'.at = "again" /\ call'.key = d
          BY <3>3 DEF At
        <4>2. Placed'
          BY <2>2, <3>3, <4>1 DEF CleanInv, Placed, NoPlan
        <4>3. Swept => Swept'
          BY <2>2, <2>3, <3>2, <3>3, <4>1
             DEF Swept, IntentsSwept, SnapshotsSwept, StagesSwept, ContentSwept, NoPlan
        <4> QED
          BY <2>2, <3>3, <4>2, <4>3, AloneSame DEF Clears
      <3>4. CASE Plan("adopt-orphan", "content", d, content[d], "none")
        <4>1. Placed'
          BY <2>2, <3>4, PlanIs DEF CleanInv, Placed
        <4>2. Swept => Swept'
          BY <2>2, <2>3, <3>2, <3>4, PlanIs
             DEF Swept, IntentsSwept, SnapshotsSwept, StagesSwept, ContentSwept, NoPlan
        <4> QED
          BY <2>2, <3>4, <4>1, <4>2, PlanIs, AloneSame DEF Clears
      <3>5. CASE MoveTo("content", d) /\ blobs[d] # "none"
        <4>1. Swept => \A e \in Digests : content[e] = 0 \/ blobs[e] # "none" \/ e > d
          <5>1. ASSUME NEW e \in Digests, e >= d, blobs[e] = "none" PROVE e > d
            BY <1>0, <3>1, <3>5, <5>1
          <5> QED
            BY <3>2, <5>1
        <4>2. Swept => Swept'
          BY <2>2, <2>3, <3>5, <4>1, MoveIs
             DEF Phases, Swept, IntentsSwept, SnapshotsSwept, StagesSwept, ContentSwept, NoPlan
        <4> QED
          BY <2>2, <3>5, <4>2, MoveIs, MovePlaced, AloneSame DEF Clears
      <3> QED
        BY <1>1, <2>1, <2>6, <3>3, <3>4, <3>5 DEF ContentScan
    <2> QED
      BY <2>5, <2>6
  <1>2. CASE ContentAgain
    <2> DEFINE d == call.key
    <2>1. UNCHANGED <<stage, content, snapshots, outcome, intent, transitions, blobs, denied, at, reader>>
            /\ rec.phase = "content" /\ call.at = "again" /\ rec.pending = NoPlan
      BY <1>2 DEF ContentAgain, CleanInv, Placed
    <2>2. UNCHANGED PendingIntents
      BY <2>1 DEF PendingIntents
    <2>3. CASE Throw
      BY <2>1, <2>3, ThrowClears DEF Throw
    <2>4. CASE Plan("quarantine", "content", d, content[d], "none")
      <3>1. Placed'
        BY <2>1, <2>4, PlanIs DEF CleanInv, Placed
      <3>2. Swept => Swept'
        BY <2>1, <2>2, <2>4, PlanIs
           DEF Swept, IntentsSwept, SnapshotsSwept, StagesSwept, ContentSwept, NoPlan
      <3> QED
        BY <2>1, <2>4, <3>1, <3>2, PlanIs, AloneSame DEF Clears
    <2> QED
      BY <1>2, <2>3, <2>4 DEF ContentAgain
  <1>3. CASE ApplyAdopt
    <2> DEFINE k == rec.pending.key
    <2>1. UNCHANGED <<stage, content, snapshots, outcome, intent, transitions, denied, at, reader>>
            /\ rec.phase = "content" /\ call.at = "run" /\ k \in Digests /\ rec.pending.kind = "adopt-orphan"
      BY <1>3 DEF ApplyAdopt, CleanInv, Placed, PlanKnown
    <2>2. UNCHANGED PendingIntents
      BY <2>1 DEF PendingIntents
    <2>3. CASE Throw /\ UNCHANGED blobs
      BY <2>1, <2>3, ThrowClears DEF Throw
    <2>4. CASE adoptArtifact(k) /\ Applied
      <3>1. blobs'[k] # "none" /\ \A d \in Digests : blobs[d] # "none" => blobs'[d] # "none"
        BY <2>1, <2>4 DEF adoptArtifact, VaultTyped
      <3>2. Swept => \A d \in Digests : content[d] = 0 \/ blobs'[d] # "none" \/ d > k
        BY <1>0, <2>1, <3>1 DEF Swept, ContentSwept
      <3>3. Swept => Swept'
        BY <2>1, <2>2, <2>4, <3>2, AppliedMoves
           DEF Swept, IntentsSwept, SnapshotsSwept, StagesSwept, ContentSwept, NoPlan
      <3> QED
        BY <2>1, <2>4, <3>3, AppliedMoves, AppliedPlaced, AloneSame DEF Clears
    <2> QED
      BY <1>3, <2>3, <2>4 DEF ApplyAdopt
  <1> QED
    BY <1>1, <1>2, <1>3

LEMMA MissingClears ==
  ASSUME VaultInv, CleanInv, MissingScan \/ ApplyMissing
  PROVE  Clears /\ rec'.run = rec.run
  <1> USE DEF RecFrame, disk, evidence, VaultInv, Loop, Inside
  <1>0. UNCHANGED <<stage, content, snapshots, outcome, intent, transitions, blobs, denied, at, reader>>
          /\ rec.phase = "missing-content" /\ call.at = "run"
    BY DEF MissingScan, ApplyMissing, CleanInv, Placed
  <1>1. UNCHANGED PendingIntents
    BY <1>0 DEF PendingIntents
  <1>2. ASSUME rec'.phase = "missing-content", rec'.pending.kind \notin {"expire-attempt"}, call'.at # "moved"
        PROVE  Swept => Swept'
    BY <1>0, <1>1, <1>2 DEF Swept, IntentsSwept, SnapshotsSwept, StagesSwept, ContentSwept
  <1>3. CASE MissingScan
    <2>1. rec.pending = NoPlan
      BY <1>3 DEF MissingScan
    <2>2. CASE commitReceipt("terminal", FALSE)
      <3>1. rec' = [rec EXCEPT !.status = "terminal"] /\ call'.at = "off"
        BY <2>2 DEF commitReceipt, Idle
      <3>2. rec'.phase = rec.phase /\ rec'.run = rec.run /\ rec'.pending = NoPlan
        BY <2>1, <3>1 DEF VaultTyped
      <3>3. Placed'
        BY <1>0, <3>1, <3>2 DEF Placed, NoPlan
      <3> QED
        BY <1>0, <1>2, <3>1, <3>2, <3>3, AloneSame DEF Clears, NoPlan
    <2>3. ASSUME NEW d, MoveTo("missing-content", d)
          PROVE  Clears /\ rec'.run = rec.run
      BY <1>0, <1>2, <2>1, <2>3, MoveIs, MovePlaced, AloneSame DEF Clears, NoPlan
    <2>4. ASSUME NEW d, Plan("record-missing-content", "content", d, 0, "none")
          PROVE  Clears /\ rec'.run = rec.run
      <3>1. Placed'
        BY <1>0, <2>4, PlanIs DEF CleanInv, Placed
      <3> QED
        BY <1>0, <1>2, <2>4, <3>1, PlanIs, AloneSame DEF Clears
    <2> QED
      BY <1>3, <2>2, <2>3, <2>4 DEF MissingScan
  <1>4. CASE ApplyMissing
    <2>1. Applied
      BY <1>4 DEF ApplyMissing
    <2> QED
      BY <1>0, <1>2, <2>1, AppliedMoves, AppliedPlaced, AloneSame DEF Clears, NoPlan
  <1> QED
    BY <1>3, <1>4

LEMMA CleanInvStep ==
  ASSUME VaultInv, CleanInv, [VaultNext]_vaultVars
  PROVE  CleanInv'
  <1>1. CASE UNCHANGED vaultVars
    BY <1>1 DEF vaultVars, disk, evidence, CleanInv, Placed, Alone, Active, Reading, Swept, IntentsSwept,
                SnapshotsSwept, StagesSwept, ContentSwept, PendingIntents, Source
  <1>2. CASE VaultNext
    <2>1. Observe
      BY <1>2 DEF VaultNext
    <2>2. CASE Reconcile
      <3>1. CASE OpenCall \/ PartialReceipt \/ CallStopped \/ CleanupStart \/ CleanupNext
        BY <2>1, <3>1, CallClears
      <3>2. CASE ~(OpenCall \/ PartialReceipt \/ CallStopped \/ CleanupStart \/ CleanupNext)
        <4>1. Clears /\ rec'.run = rec.run
          BY <2>2, <3>2, IntentsClear, SnapshotsClear, StagesClear, QuarantineClears, ContentClears,
             MissingClears DEF Reconcile
        <4> QED
          BY <2>1, <4>1, ClearsClean
      <3> QED
        BY <3>1, <3>2
    <2> QED
      BY <1>2, <2>1, <2>2, StoreClears, ReadClears, WorldClears DEF VaultNext, VaultStep
  <1> QED
    BY <1>1, <1>2

(* A terminal receipt of a run that nothing disturbed means what it says:  *)
(* no open install intent, no snapshot, no stage of a finished attempt, no *)
(* content without its row and no row without content or an incident,      *)
(* through any number of crashes and resumptions of the run.               *)
THEOREM TerminalReceiptIsClean == VaultSpec => []TerminalMeansClean
  <1>1. VaultInit => CleanInv
    BY DEF VaultInit, CleanInv, Placed, NoPlan, Idle
  <1>2. VaultInv /\ CleanInv => TerminalMeansClean
    <2> SUFFICES ASSUME VaultInv, CleanInv, rec.status = "terminal", quiet, ~denied
                 PROVE  /\ PendingIntents = {} /\ snapshots = {}
                        /\ \A a \in stage : outcome[a] = "none"
                        /\ \A d \in Digests : content[d] # 0 => blobs[d] # "none"
                        /\ \A d \in Digests : blobs[d] # "none" => content[d] # 0 \/ d \in incidents
      BY DEF TerminalMeansClean
    <2>1. rec.phase = "missing-content" /\ Swept
      BY DEF CleanInv, Placed
    <2>2. \A d \in Digests : blobs[d] # "none" => content[d] # 0 \/ d \in incidents
      BY DEF VaultInv, ContentSecured, Secured, Traced
    <2> QED
      BY <2>1, <2>2 DEF Swept, IntentsSwept, SnapshotsSwept, StagesSwept, ContentSwept, Phases
  <1> QED
    BY <1>1, <1>2, CleanInvStep, VaultInvariant, PTL DEF VaultSpec


-----------------------------------------------------------------------------
\* Where a process may count on the fence.
Claimed == {"reread", "rename", "create", "install", "check", "reopen", "truncate", "write", "ready"}

\* Tokens are not shared, and whoever is past creating its file has one.
TokensDistinct ==
    /\ \A p \in Procs : owner[p] <= owners
    /\ \A p, q \in Procs : owner[p] = owner[q] /\ owner[p] # 0 => p = q
    /\ \A p \in Procs : pc[p] \in Claimed \cup {"fill", "claim"} => owner[p] # 0

\* A process that counts on the fence has it, until exactly when it thinks.
FenceCovers ==
    \A p \in Procs :
        /\ now[p] <= clock
        /\ until[p] # 0 => pc[p] \in Claimed
        /\ until[p] > clock => fence # None /\ OwnFence(p) /\ fence.expires = until[p]

LeaseInv == TypeOK /\ TokensDistinct /\ FenceCovers

-----------------------------------------------------------------------------

LEMMA LeaseInitTyped == Init => TypeOK
  BY DEF Init, TypeOK, PCs

\* A write through a handle leaves a file, or nothing, at the path.
LEMMA ThroughTyped ==
    ASSUME TypeOK, NEW id \in Nat, NEW body \in LeaseRecord \cup {Empty}
    PROVE  Through(id, body) \in File \cup {None}
  BY DEF TypeOK, Through, File

\* Every step of a process keeps the types.
LEMMA StepTyped == ASSUME TypeOK, NEW p \in Procs, Step(p) PROVE TypeOK'
<1> USE DurationAssumption, MarksAssumption
<1>1. CASE Start(p)    BY <1>1 DEF Start, Goto, TypeOK, PCs
<1>2. CASE Begin(p)    BY <1>2 DEF Begin, Goto, TypeOK, PCs
<1>3. CASE Open(p)     BY <1>3 DEF Open, Goto, TypeOK, PCs, File
<1>4. CASE Fill(p)
  <2>1. OwnRecord(p, 0, now[p] + durationMs) \in LeaseRecord
    BY DEF OwnRecord, LeaseRecord, TypeOK
  <2>2. file' \in File \cup {None}
    BY <1>4, <2>1, ThroughTyped DEF Fill, TypeOK
  <2> QED  BY <1>4, <2>2 DEF Fill, Goto, TypeOK, PCs
<1>5. CASE ClaimNew(p)
  BY <1>5 DEF ClaimNew, claimWriter, FenceRow, NextGeneration, LeaseRecord, Goto, TypeOK, PCs
<1>6. CASE Undo(p)     BY <1>6 DEF Undo, FailOrRetry, Goto, TypeOK, PCs
<1>7. CASE Read(p)     BY <1>7 DEF Read, FailOrRetry, Goto, TypeOK, PCs, File
<1>8. CASE Take(p)
  BY <1>8 DEF Take, claimWriter, FenceRow, NextGeneration, FailOrRetry, LeaseRecord, Goto, TypeOK, PCs
<1>9. CASE Reread(p)   BY <1>9 DEF Reread, GiveUp, Released, Forget, Goto, TypeOK, PCs
<1>10. CASE Rename(p)  BY <1>10 DEF Rename, GiveUp, Released, Forget, Goto, TypeOK, PCs
<1>11. CASE Create(p)  BY <1>11 DEF Create, GiveUp, Released, Forget, Goto, TypeOK, PCs, File
<1>12. CASE Install(p)
  <2>1. OwnRecord(p, gen[p], now[p] + durationMs) \in LeaseRecord
    BY DEF OwnRecord, LeaseRecord, TypeOK
  <2>2. file' \in File \cup {None}
    BY <1>12, <2>1, ThroughTyped DEF Install, TypeOK
  <2> QED  BY <1>12, <2>2 DEF Install, Returned, Goto, TypeOK, PCs
<1>13. CASE Renew(p)
  BY <1>13 DEF Renew, FenceRow, Forget, LeaseRecord, Goto, TypeOK, PCs
<1>14. CASE Check(p)   BY <1>14 DEF Check, WriteFailed, Forget, Goto, TypeOK, PCs
<1>15. CASE Reopen(p)  BY <1>15 DEF Reopen, WriteFailed, Forget, Goto, TypeOK, PCs, File
<1>16. CASE Truncate(p)
  <2>1. file' \in File \cup {None}
    BY <1>16, ThroughTyped DEF Truncate, TypeOK
  <2> QED  BY <1>16, <2>1 DEF Truncate, Goto, TypeOK, PCs
<1>17. CASE Write(p)
  <2>1. OwnRecord(p, gen[p], now[p] + durationMs) \in LeaseRecord
    BY DEF OwnRecord, LeaseRecord, TypeOK
  <2>2. file' \in File \cup {None}
    BY <1>17, <2>1, ThroughTyped DEF Write, TypeOK
  <2> QED  BY <1>17, <2>2 DEF Write, Returned, Goto, TypeOK, PCs
<1>18. CASE Release(p) BY <1>18 DEF Release, Released, Forget, Goto, TypeOK, PCs
<1>19. CASE Unlock(p)  BY <1>19 DEF Unlock, Goto, TypeOK, PCs
<1>20. CASE Remove(p)  BY <1>20 DEF Remove, Goto, TypeOK, PCs
<1> QED
  BY <1>1, <1>2, <1>3, <1>4, <1>5, <1>6, <1>7, <1>8, <1>9, <1>10, <1>11, <1>12, <1>13, <1>14,
     <1>15, <1>16, <1>17, <1>18, <1>19, <1>20 DEF Step

\* Crashes, time and stuttering keep the types too.
LEMMA NextTyped == TypeOK /\ [Next]_leaseVars => TypeOK'
<1> SUFFICES ASSUME TypeOK, [Next]_leaseVars PROVE TypeOK'
  OBVIOUS
<1>1. CASE \E p \in Procs : Step(p)
  BY <1>1, StepTyped
<1>2. CASE \E p \in Procs : Crash(p)
  BY <1>2 DEF Crash, Forget, Goto, TypeOK, PCs
<1>3. CASE Tick
  BY <1>3 DEF Tick, TypeOK
<1>4. CASE UNCHANGED leaseVars
  BY <1>4 DEF leaseVars, TypeOK
<1> QED
  BY <1>1, <1>2, <1>3, <1>4 DEF Next

\* The variables of WriterLease keep their types (fence row, lock file, what
\* each process remembers), for every set of processes and every duration.
THEOREM LeaseTypesKept == Spec => []TypeOK
  BY LeaseInitTyped, NextTyped, PTL DEF Spec

-----------------------------------------------------------------------------

LEMMA LeaseInitInv == Init => LeaseInv
  BY LeaseInitTyped DEF Init, LeaseInv, TokensDistinct, FenceCovers, TypeOK, Claimed

\* A step that claims nothing and gives nothing back: it keeps the fence, the
\* tokens and what is counted on, unless the process stops counting on it.
LEMMA QuietStep ==
    ASSUME LeaseInv, TypeOK', NEW p \in Procs, NEW label \in PCs,
           Goto(p, label),
           UNCHANGED <<fence, owner, gen, owners, clock, now>>,
           label \in Claimed \cup {"fill", "claim"} => owner[p] # 0,
           \/ Forget(p)
           \/ until' = until /\ (until[p] # 0 => label \in Claimed)
    PROVE  (TokensDistinct /\ FenceCovers)'
<1>1. pc' = [pc EXCEPT ![p] = label] /\ pc \in [Procs -> PCs]
  BY DEF Goto, LeaseInv, TypeOK
<1>2. \A q \in Procs : q # p => pc'[q] = pc[q]
  BY <1>1
<1>3. pc'[p] = label
  BY <1>1
<1>4. TokensDistinct'
  BY <1>2, <1>3 DEF LeaseInv, TokensDistinct
<1>5. \A q \in Procs : until'[q] = until[q] \/ (q = p /\ until'[q] = 0)
  BY DEF Forget, LeaseInv, TypeOK
<1>6. FenceCovers'
  BY <1>2, <1>3, <1>5 DEF LeaseInv, FenceCovers, OwnFence, Forget, TypeOK
<1> QED  BY <1>4, <1>6

\* A claim is made when the fence has run out for everyone.
LEMMA ClaimStep ==
    ASSUME LeaseInv, TypeOK', NEW p \in Procs, NEW o \in Nat, NEW label \in Claimed,
           FenceFree(now[p]), claimWriter(p, o), Goto(p, label),
           UNCHANGED <<clock, now>>,
           \/ o = owner[p] /\ owner[p] # 0 /\ UNCHANGED <<owner, owners>>
           \/ o = owners + 1 /\ owners' = o /\ owner' = [owner EXCEPT ![p] = o]
    PROVE  (TokensDistinct /\ FenceCovers)'
<1> USE DurationAssumption, MarksAssumption DEF LeaseInv, TypeOK
<1>1. pc'[p] = label /\ (\A q \in Procs : q # p => pc'[q] = pc[q])
  BY DEF Goto
<1>2. owner'[p] = o /\ (\A q \in Procs : q # p => owner'[q] = owner[q]) /\ o # 0
  BY DEF TokensDistinct
<1>3. TokensDistinct'
  BY <1>1, <1>2 DEF TokensDistinct
<1>4. \A q \in Procs : q # p => until'[q] = until[q] /\ until[q] <= clock
  BY DEF FenceFree, claimWriter, FenceCovers
<1>5. fence' # None /\ OwnFence(p)' /\ fence'.expires = until'[p]
  <2>1. fence' \in LeaseRecord
    BY DEF claimWriter, FenceRow, NextGeneration, LeaseRecord
  <2> QED  BY <2>1, <1>2 DEF claimWriter, FenceRow, OwnFence
<1>6. FenceCovers'
  BY <1>1, <1>4, <1>5 DEF FenceCovers
<1> QED  BY <1>3, <1>6

\* Giving the fence back takes it from nobody else.
LEMMA ReleaseStep ==
    ASSUME LeaseInv, TypeOK', NEW p \in Procs, NEW label \in PCs \ (Claimed \cup {"fill", "claim"}),
           fence' = Released(p), Forget(p), Goto(p, label),
           UNCHANGED <<owner, gen, owners, clock, now>>
    PROVE  (TokensDistinct /\ FenceCovers)'
<1> USE DEF LeaseInv, TypeOK
<1>1. pc'[p] = label /\ (\A q \in Procs : q # p => pc'[q] = pc[q])
  BY DEF Goto
<1>2. TokensDistinct'
  BY <1>1 DEF TokensDistinct
<1>3. until'[p] = 0 /\ (\A q \in Procs : q # p => until'[q] = until[q])
  BY DEF Forget
<1>4. ASSUME NEW q \in Procs, q # p, until[q] > clock PROVE fence' = fence
  <2>1. until[q] # 0 /\ OwnFence(q) /\ owner[q] # 0
    BY <1>4 DEF FenceCovers, TokensDistinct
  <2>2. ~OwnFence(p)
    BY <1>4, <2>1 DEF OwnFence, TokensDistinct
  <2> QED  BY <2>2 DEF Released
<1>5. FenceCovers'
  BY <1>1, <1>3, <1>4 DEF FenceCovers, OwnFence
<1> QED  BY <1>2, <1>5

LEMMA StepInv == ASSUME LeaseInv, NEW p \in Procs, Step(p) PROVE LeaseInv'
<1> USE DEF LeaseInv
<1>0. TypeOK'
  BY StepTyped
<1>t. pc \in [Procs -> PCs] /\ now \in [Procs -> Nat] /\ clock \in Nat /\ owners \in Nat
  BY DEF TypeOK
<1>u. ASSUME pc[p] \notin Claimed PROVE until[p] = 0
  BY <1>u DEF FenceCovers
<1>1. CASE Start(p)
  BY <1>1, <1>0, <1>u, QuietStep DEF Start, PCs, Claimed
<1>2. CASE Begin(p)
  <2>1. pc'[p] = "open" /\ (\A q \in Procs : q # p => pc'[q] = pc[q])
    BY <1>2, <1>t DEF Begin, Goto
  <2>2. TokensDistinct'
    BY <1>2, <2>1 DEF Begin, TokensDistinct, Claimed
  <2>3. FenceCovers'
    BY <1>2, <1>t, <1>u, <2>1 DEF Begin, FenceCovers, OwnFence, Claimed
  <2> QED  BY <1>0, <2>2, <2>3
<1>3. CASE Open(p)
  <2>1. CASE file # None
    BY <1>3, <2>1, <1>0, <1>u, QuietStep DEF Open, PCs, Claimed
  <2>2. CASE file = None
    <3>1. pc'[p] = "fill" /\ (\A q \in Procs : q # p => pc'[q] = pc[q])
      BY <1>3, <1>t, <2>2 DEF Open, Goto
    <3>2. /\ owner'[p] = owners + 1 /\ owners' = owners + 1
          /\ \A q \in Procs : q # p => owner'[q] = owner[q]
      BY <1>3, <2>2 DEF Open, TypeOK
    <3>3. TokensDistinct'
      BY <3>1, <3>2 DEF TokensDistinct, TypeOK
    <3>4. until[p] = 0 /\ UNCHANGED <<until, fence, gen, clock, now>>
      BY <1>3, <1>u DEF Open, Claimed
    <3>5. FenceCovers'
      BY <1>t, <3>1, <3>2, <3>4 DEF FenceCovers, OwnFence
    <3> QED  BY <1>0, <3>3, <3>5
  <2> QED  BY <2>1, <2>2
<1>4. CASE Fill(p)
  BY <1>4, <1>0, <1>u, QuietStep DEF Fill, PCs, Claimed, TokensDistinct
<1>5. CASE ClaimNew(p)
  <2>1. CASE FenceFree(now[p])
    <3>1. owner[p] # 0 /\ owner[p] \in Nat
      BY <1>5 DEF ClaimNew, TokensDistinct, TypeOK
    <3> QED  BY <1>5, <2>1, <3>1, <1>0, ClaimStep DEF ClaimNew, Claimed
  <2>2. CASE ~FenceFree(now[p])
    BY <1>5, <2>2, <1>0, <1>u, QuietStep DEF ClaimNew, PCs, Claimed
  <2> QED  BY <2>1, <2>2
<1>6. CASE Undo(p)
  BY <1>6, <1>0, <1>u, QuietStep DEF Undo, FailOrRetry, PCs, Claimed
<1>7. CASE Read(p)
  BY <1>7, <1>0, <1>u, QuietStep DEF Read, FailOrRetry, PCs, Claimed
<1>8. CASE Take(p)
  <2>1. CASE FenceFree(now[p])
    BY <1>8, <2>1, <1>0, <1>t, ClaimStep DEF Take, Claimed
  <2>2. CASE ~FenceFree(now[p])
    BY <1>8, <2>2, <1>0, <1>u, QuietStep DEF Take, FailOrRetry, PCs, Claimed
  <2> QED  BY <2>1, <2>2
<1>9. CASE Reread(p)
  BY <1>9, <1>0, QuietStep, ReleaseStep DEF Reread, GiveUp, PCs, Claimed, TokensDistinct
<1>10. CASE Rename(p)
  BY <1>10, <1>0, QuietStep, ReleaseStep DEF Rename, GiveUp, PCs, Claimed, TokensDistinct
<1>11. CASE Create(p)
  BY <1>11, <1>0, QuietStep, ReleaseStep DEF Create, GiveUp, PCs, Claimed, TokensDistinct
<1>12. CASE Install(p)
  BY <1>12, <1>0, QuietStep DEF Install, PCs, Claimed, TokensDistinct
<1>13. CASE Renew(p)
  <2>1. /\ now' = [now EXCEPT ![p] = clock]
        /\ UNCHANGED <<clock, owner, gen, owners>>
    BY <1>13 DEF Renew
  <2>2. owner[p] # 0
    BY <1>13 DEF Renew, Claimed, TokensDistinct
  <2>3. pc'[p] \in {"check", "idle"} /\ (\A q \in Procs : q # p => pc'[q] = pc[q])
    BY <1>13, <1>t DEF Renew, Goto
  <2>4. TokensDistinct'
    BY <2>1, <2>2, <2>3 DEF TokensDistinct
  <2>5. CASE OwnFence(p) /\ fence.expires >= clock
    <3>1. /\ fence' = FenceRow(owner[p], gen[p], clock)
          /\ until' = [until EXCEPT ![p] = clock + durationMs]
          /\ pc'[p] = "check"
      BY <1>13, <1>t, <2>5 DEF Renew, Goto
    <3>2. \A q \in Procs : q # p => ~(until[q] > clock)
      BY <2>2, <2>5 DEF FenceCovers, OwnFence, TokensDistinct
    <3>3. fence' # None /\ OwnFence(p)' /\ fence'.expires = until'[p]
      <4>1. fence' \in LeaseRecord
        BY <3>1, DurationAssumption DEF FenceRow, LeaseRecord, TypeOK
      <4> QED  BY <3>1, <2>1, <4>1, MarksAssumption DEF FenceRow, OwnFence, TypeOK
    <3>4. FenceCovers'
      BY <1>t, <2>1, <2>3, <3>1, <3>2, <3>3 DEF FenceCovers, Claimed, TypeOK
    <3> QED  BY <1>0, <2>4, <3>4
  <2>6. CASE ~(OwnFence(p) /\ fence.expires >= clock)
    <3>1. fence' = fence /\ until' = [until EXCEPT ![p] = 0] /\ pc'[p] = "idle"
      BY <1>13, <1>t, <2>6 DEF Renew, Goto, Forget
    <3>2. FenceCovers'
      BY <1>t, <2>1, <2>3, <3>1 DEF FenceCovers, OwnFence, TypeOK
    <3> QED  BY <1>0, <2>4, <3>2
  <2> QED  BY <2>5, <2>6
<1>14. CASE Check(p)
  BY <1>14, <1>0, QuietStep DEF Check, WriteFailed, PCs, Claimed, TokensDistinct
<1>15. CASE Reopen(p)
  BY <1>15, <1>0, QuietStep DEF Reopen, WriteFailed, PCs, Claimed, TokensDistinct
<1>16. CASE Truncate(p)
  BY <1>16, <1>0, QuietStep DEF Truncate, PCs, Claimed, TokensDistinct
<1>17. CASE Write(p)
  BY <1>17, <1>0, QuietStep DEF Write, PCs, Claimed, TokensDistinct
<1>18. CASE Release(p)
  BY <1>18, <1>0, ReleaseStep DEF Release, PCs, Claimed
<1>19. CASE Unlock(p)
  BY <1>19, <1>0, <1>u, QuietStep DEF Unlock, PCs, Claimed
<1>20. CASE Remove(p)
  BY <1>20, <1>0, <1>u, QuietStep DEF Remove, PCs, Claimed
<1> QED
  BY <1>1, <1>2, <1>3, <1>4, <1>5, <1>6, <1>7, <1>8, <1>9, <1>10, <1>11, <1>12, <1>13, <1>14,
     <1>15, <1>16, <1>17, <1>18, <1>19, <1>20 DEF Step

LEMMA NextInv == LeaseInv /\ [Next]_leaseVars => LeaseInv'
<1> SUFFICES ASSUME LeaseInv, [Next]_leaseVars PROVE LeaseInv'
  OBVIOUS
<1> USE DEF LeaseInv
<1>0. TypeOK'
  BY NextTyped
<1>1. CASE \E p \in Procs : Step(p)
  BY <1>1, StepInv
<1>2. ASSUME NEW p \in Procs, Crash(p) PROVE LeaseInv'
  BY <1>2, <1>0, QuietStep DEF Crash, PCs, Claimed
<1>3. CASE Tick
  BY <1>3, <1>0 DEF Tick, TokensDistinct, FenceCovers, OwnFence, TypeOK
<1>4. CASE UNCHANGED leaseVars
  BY <1>4, <1>0 DEF leaseVars, TokensDistinct, FenceCovers, OwnFence
<1> QED
  BY <1>1, <1>2, <1>3, <1>4 DEF Next

\* Leases of the vault writer never overlap, whatever becomes of the lock file
\* and however slow a process is: the transactions on the fence row decide.
THEOREM LeasesNeverOverlap == Spec => []LeasesDisjoint
<1>1. LeaseInv => LeasesDisjoint
  <2> SUFFICES ASSUME LeaseInv, NEW p \in Procs, NEW q \in Procs, p # q,
                      ~(until[p] <= clock), ~(until[q] <= clock)
               PROVE  FALSE
    BY DEF LeasesDisjoint
  <2>1. until[p] > clock /\ until[q] > clock /\ until[p] # 0
    BY DEF LeaseInv, TypeOK
  <2>2. owner[p] = owner[q] /\ owner[p] # 0
    BY <2>1 DEF LeaseInv, FenceCovers, OwnFence, TokensDistinct
  <2> QED  BY <2>2 DEF LeaseInv, TokensDistinct
<1> QED
  BY <1>1, LeaseInitInv, NextInv, PTL DEF Spec
\* The lease is safe: type correctness and mutual exclusion for any number of
\* processes, crashes and clock values.
THEOREM LeaseIsSafe == Spec => []LeaseSafe
  BY LeaseTypesKept, LeasesNeverOverlap, PTL DEF LeaseSafe
=============================================================================
