--------------------------- MODULE ArtifactVault ---------------------------
(***************************************************************************)
(* The artifact vault: DurableArtifactStore over a directory tree and the  *)
(* tables of SqliteArtifactRepository.  A store call writes a stage file,  *)
(* hard-links it into the content tree and commits its evidence, each in a *)
(* step of its own; readers copy content into a snapshot; reconciliation   *)
(* repairs what a crash left.  All calls of the one writer process         *)
(* interleave at their awaits, and the process may die between any two.    *)
(*                                                                         *)
(* The bytes that attempt a downloads are one inode, named a; its digest   *)
(* is DigestOf[a].  A file is a link to an inode: stage is the set of      *)
(* inodes with a stage link, content[d] the inode linked at the path of    *)
(* digest d (0: none), quarantine the links in that directory.  The writer *)
(* lease is WriterLease's subject: here the process that acts holds it.    *)
(***************************************************************************)
EXTENDS Integers, FiniteSets, FiniteSetsExt

CONSTANTS NAttempts,   \* attempts are 1..NAttempts
          NDigests,    \* digests are 1..NDigests
          NReaders,    \* concurrent read calls
          DigestOf,    \* the digest of the bytes of each attempt
          MaxStores,   \* maxConcurrentStores of the configuration
          MaxCalls,    \* bound: store and read calls at the same time
          MaxBlobs,    \* maxVaultBytes, every artifact having size one
          MaxFaults,   \* bound: crashes, damaged files and denials together
          MaxRuns      \* bound: reconciliation runs

Attempts == 1..NAttempts
Digests == 1..NDigests
Readers == 1..NReaders

ASSUME VaultAssumption ==
  /\ NAttempts \in Nat \ {0} /\ NDigests \in Nat \ {0} /\ NReaders \in Nat
  /\ DigestOf \in [Attempts -> Digests]
  /\ MaxStores \in Nat \ {0} /\ MaxCalls \in Nat /\ MaxBlobs \in Nat /\ MaxFaults \in Nat
  /\ MaxRuns \in Nat \ {0}

VARIABLES
  stage, content, quarantine, snapshots, bytes,           \* the disk
  attempts, outcome, intent, transitions, blobs,     \* evidence tables
  incidents, denied,
  rec,                                                    \* reconciliation head
  writer, faults, held,                                   \* the process
  at, reader, call,
  quiet                                                   \* history: see VaultRecovery

disk == <<stage, content, quarantine, snapshots, bytes>>
evidence == <<attempts, outcome, intent, transitions, blobs, incidents, denied>>
process == <<writer, faults, held>>
vaultVars == <<disk, evidence, rec, process, at, reader, call, quiet>>

-----------------------------------------------------------------------------
(* What the tables can hold.                                               *)
Outcomes == {"succeeded", "failed", "retention-denied", "stage-expired",
             "stage-missing", "install-content-missing"}
States == {"evidence-committed", "stage-cleaned", "aborted"}
Idle == [at |-> "off", key |-> 0]
NoPlan == [kind |-> "none", source |-> "none", key |-> 0, inode |-> 0, run |-> 0,
           outcome |-> "none"]

VaultInit ==
  /\ stage = {} /\ content = [d \in Digests |-> 0] /\ quarantine = {}
  /\ snapshots = {} /\ bytes = [a \in Attempts |-> "part"]
  /\ attempts = {} /\ outcome = [a \in Attempts |-> "none"]
  /\ intent = [a \in Attempts |-> "none"] /\ transitions = [a \in Attempts |-> {}]
  /\ blobs = [d \in Digests |-> "none"] /\ incidents = {} /\ denied = FALSE
  /\ rec = [status |-> "none", phase |-> "evidence", after |-> 0, run |-> 0,
            writer |-> 0, pending |-> NoPlan]
  /\ writer = 1 /\ faults = 0 /\ held = FALSE
  /\ at = [a \in Attempts |-> "idle"] /\ reader = [r \in Readers |-> [pc |-> "idle", inode |-> 0]]
  /\ call = Idle /\ quiet = FALSE

-----------------------------------------------------------------------------
(* Files.  nlink of an inode, and hashTrustedFile, which refuses a file    *)
(* with more links than the caller allows.                                 *)
Links(i) ==
  (IF i \in stage THEN 1 ELSE 0) + Cardinality({d \in Digests : content[d] = i})
    + Cardinality({q \in quarantine : q.inode = i})

Readable(i, maxLinks) == i # 0 /\ Links(i) <= maxLinks

Holds(i, d) == bytes[i] = "whole" /\ DigestOf[i] = d

-----------------------------------------------------------------------------
(* The rows of the evidence tables, none of which is updated or deleted.   *)
recordAttempt(a) == attempts' = attempts \union {a}
insertOutcome(a, o) == outcome' = [outcome EXCEPT ![a] = o]
insertInstallTransition(a, s) == transitions' = [transitions EXCEPT ![a] = @ \union {s}]
recordIncident(d) == incidents' = incidents \union {d}
prepareInstallIntent(a, disposition) == intent' = [intent EXCEPT ![a] = disposition]
insertSuccessEvidence(d) == blobs' = [blobs EXCEPT ![d] = IF @ = "none" THEN "retrieval" ELSE @]
adoptArtifact(d) == blobs' = [blobs EXCEPT ![d] = "recovered-orphan"]

(* Mutant: a second outcome of an attempt replaces the first.              *)
OutcomeFits_Any(a, o) == TRUE

(* The outcome row of an attempt is unique: a second, different one makes  *)
(* the transaction throw.                                                  *)
OutcomeFits(a, o) == outcome[a] \in {"none", o}

(* abortIntent: refused once the evidence is committed.                    *)
Abort(a, o) ==
  IF "evidence-committed" \notin transitions[a] /\ OutcomeFits(a, o)
  THEN insertOutcome(a, o) /\ insertInstallTransition(a, "aborted")
  ELSE UNCHANGED <<outcome, transitions>>

AbortFits(a, o) == "evidence-committed" \notin transitions[a] /\ OutcomeFits(a, o)

(* Mutant: an aborted intent is committed all the same.                    *)
CommitFits_Always(a) == TRUE

(* commitIntentSuccess: blob, outcome, observation and transition in one   *)
(* transaction.  The observation row exists iff the outcome is succeeded.  *)
CommitFits(a) == "aborted" \notin transitions[a] /\ OutcomeFits(a, "succeeded")

CommitIntentSuccess(a) ==
  /\ insertOutcome(a, "succeeded") /\ insertInstallTransition(a, "evidence-committed")
  /\ insertSuccessEvidence(DigestOf[a])

-----------------------------------------------------------------------------
(* store, one attempt at a time.  Redelivery of a known attempt answers    *)
(* with its stored result or is refused; it changes nothing.               *)
Goes(a, l) == at' = [at EXCEPT ![a] = l]
Active == {a \in Attempts : at[a] # "idle"}
Reading == {r \in Readers : reader[r].pc # "idle"}
MayCall == Cardinality(Active) + Cardinality(Reading) < MaxCalls
StoreFrame == UNCHANGED <<rec, process, reader, call>>

StoreBegin(a) ==
  /\ at[a] = "idle" /\ a \notin attempts /\ ~denied
  /\ Cardinality(Active) < MaxStores /\ MayCall
  /\ recordAttempt(a) /\ Goes(a, "stage")
  /\ UNCHANGED <<disk, outcome, intent, transitions, blobs, incidents, denied>>
  /\ StoreFrame

StageCreate(a) ==
  /\ at[a] = "stage" /\ stage' = stage \union {a} /\ Goes(a, "write")
  /\ UNCHANGED <<content, quarantine, snapshots, bytes, evidence>> /\ StoreFrame

(* Bytes reserved by the other calls that have written theirs.             *)
Reserved == Cardinality({b \in Active : at[b] \notin {"stage", "write"}})

StageWrite(a) ==
  /\ at[a] = "write"
  /\ \/ /\ Cardinality({d \in Digests : blobs[d] # "none"}) + Reserved + 1 <= MaxBlobs
        /\ bytes' = [bytes EXCEPT ![a] = "whole"]
        /\ Goes(a, IF denied THEN "fail" ELSE "check")
     \/ UNCHANGED bytes /\ Goes(a, "fail")   \* too large, over quota, source failed
  /\ UNCHANGED <<stage, content, quarantine, snapshots, evidence>> /\ StoreFrame

(* A destination that exists must be a verified file with one link; then   *)
(* the install intent is recorded.                                         *)
PrepareIntent(a) ==
  LET d == DigestOf[a] IN
  /\ at[a] = "check"
  /\ \/ /\ content[d] = 0 /\ prepareInstallIntent(a, "new-content")
        /\ Goes(a, "link")
     \/ /\ Readable(content[d], 1) /\ Holds(content[d], d)
        /\ prepareInstallIntent(a, "preexisting-verified") /\ Goes(a, "verify")
     \/ /\ content[d] # 0 /\ ~(Readable(content[d], 1) /\ Holds(content[d], d))
        /\ UNCHANGED intent /\ Goes(a, "fail")
  /\ UNCHANGED <<disk, attempts, outcome, transitions, blobs, incidents, denied>>
  /\ StoreFrame

(* link refuses an existing destination; its winner is verified with two   *)
(* links.  The stage may have been taken away by reconciliation.           *)
ContentLink(a) ==
  LET d == DigestOf[a]
      winner == content[d] # 0 /\ Readable(content[d], 2) /\ Holds(content[d], d) IN
  /\ at[a] = "link"
  /\ IF a \in stage /\ content[d] = 0
     THEN content' = [content EXCEPT ![d] = a] /\ Goes(a, "verify")
     ELSE UNCHANGED content /\ Goes(a, IF a \in stage /\ winner THEN "verify" ELSE "fail")
  /\ IF a \in stage /\ content[d] # 0 /\ Readable(content[d], 2) /\ ~Holds(content[d], d)
     THEN recordIncident(d) ELSE UNCHANGED incidents
  /\ UNCHANGED <<stage, quarantine, snapshots, bytes, attempts, outcome, intent,
                 transitions, blobs, denied>>
  /\ StoreFrame

(* The installed file is verified and synced, which may fail; then a       *)
(* denial that arrived meanwhile removes both links.                       *)
VerifyInstalled(a) ==
  LET d == DigestOf[a]
      seen == content[d] # 0 /\ Readable(content[d], 2) IN
  /\ at[a] = "verify"
  /\ \/ /\ seen /\ Holds(content[d], d) /\ ~denied
        /\ UNCHANGED <<stage, content, incidents>> /\ Goes(a, "commit")
     \/ /\ seen /\ Holds(content[d], d) /\ denied
        /\ content' = [content EXCEPT ![d] = 0] /\ stage' = stage \ {a}
        /\ UNCHANGED incidents /\ Goes(a, "fail")
     \/ /\ seen /\ ~Holds(content[d], d)
        /\ recordIncident(d)
        /\ UNCHANGED <<stage, content>> /\ Goes(a, "fail")
     \/ ~seen /\ UNCHANGED <<stage, content, incidents>> /\ Goes(a, "fail")
  /\ UNCHANGED <<quarantine, snapshots, bytes, attempts, outcome, intent, transitions,
                 blobs, denied>>
  /\ StoreFrame

(* markIntentContentInstalled and commitIntentSuccess; the first leaves    *)
(* nothing that a later step looks at.                                     *)
StoreCommit(a) ==
  /\ at[a] = "commit"
  /\ IF CommitFits(a) THEN CommitIntentSuccess(a) /\ Goes(a, "clean")
     ELSE UNCHANGED <<outcome, transitions, blobs>> /\ Goes(a, "fail")
  /\ UNCHANGED <<disk, attempts, intent, incidents, denied>> /\ StoreFrame

(* The stage is removed and the intent marked cleaned; if that fails the   *)
(* call still succeeds and reconciliation cleans.                          *)
StoreClean(a) ==
  /\ at[a] = "clean" /\ Goes(a, "idle")
  /\ \/ /\ stage' = stage \ {a}
        /\ insertInstallTransition(a, "stage-cleaned")
     \/ UNCHANGED <<stage, transitions>>
  /\ UNCHANGED <<content, quarantine, snapshots, bytes, attempts, outcome, intent, blobs,
                 incidents, denied>>
  /\ StoreFrame

(* The error path: without an intent the stage is removed and the attempt  *)
(* fails; with one the intent is aborted.  What cannot be recorded is      *)
(* swallowed.                                                              *)
StoreFail(a) ==
  /\ at[a] = "fail" /\ Goes(a, "idle")
  /\ IF intent[a] = "none"
     THEN /\ stage' = stage \ {a} /\ UNCHANGED transitions
          /\ outcome' = [outcome EXCEPT ![a] = IF @ = "none" THEN "failed" ELSE @]
     ELSE UNCHANGED stage /\ Abort(a, "failed")
  /\ UNCHANGED <<content, quarantine, snapshots, bytes, attempts, intent, blobs,
                 incidents, denied>>
  /\ StoreFrame

StoreStep(a) ==
  \/ StoreBegin(a) \/ StageCreate(a) \/ StageWrite(a) \/ PrepareIntent(a)
  \/ ContentLink(a) \/ VerifyInstalled(a) \/ StoreCommit(a) \/ StoreClean(a)
  \/ StoreFail(a)

-----------------------------------------------------------------------------
(* read: reader r reads digest ReadDigest(r).                              *)
ReadDigest(r) == 1 + ((r - 1) % NDigests)
ReaderAt(r, l, i) == reader' = [reader EXCEPT ![r] = [pc |-> l, inode |-> i]]
ReadFrame ==
  UNCHANGED <<stage, bytes, attempts, outcome, intent, transitions, blobs, denied,
              rec, process, at, call>>

ReadOpen(r) ==
  LET d == ReadDigest(r) IN
  /\ reader[r].pc = "idle" /\ blobs[d] # "none" /\ ~denied /\ MayCall
  /\ IF content[d] = 0
     THEN recordIncident(d) /\ UNCHANGED <<snapshots, reader>>
     ELSE /\ snapshots' = snapshots \union {r} /\ ReaderAt(r, "copy", content[d])
          /\ UNCHANGED incidents
  /\ UNCHANGED <<content, quarantine>> /\ ReadFrame

(* The copy is verified: one link, the digest, and no denial meanwhile.    *)
(* A good one is streamed and then removed, here in one step.  A failure   *)
(* quarantines the content, unless retention has closed admission; a       *)
(* denial whose settlement timed out has opened it again.                  *)
SnapshotVerify(r) ==
  LET i == reader[r].inode IN
  /\ reader[r].pc = "copy" /\ snapshots' = snapshots \ {r}
  /\ \/ /\ denied \/ (Links(i) = 1 /\ Holds(i, ReadDigest(r)))
        /\ ReaderAt(r, "idle", 0) /\ UNCHANGED incidents
     \/ /\ denied \/ ~(Links(i) = 1 /\ Holds(i, ReadDigest(r)))
        /\ ReaderAt(r, "quarantine", 0) /\ recordIncident(ReadDigest(r))
  /\ UNCHANGED <<content, quarantine>> /\ ReadFrame

(* #quarantine: link the content path under a name made of the digest,     *)
(* then remove the path.  A missing path is accepted, a taken name throws. *)
ReadQuarantineLink(r) ==
  LET d == ReadDigest(r) IN
  /\ reader[r].pc = "quarantine"
  /\ IF content[d] # 0 /\ \A q \in quarantine : q.name # <<"read", d>>
     THEN /\ quarantine' = quarantine \union {[name |-> <<"read", d>>, inode |-> content[d]]}
          /\ ReaderAt(r, "remove", 0)
     ELSE ReaderAt(r, "idle", 0) /\ UNCHANGED quarantine
  /\ UNCHANGED <<content, snapshots, incidents>> /\ ReadFrame

ReadQuarantineRemove(r) ==
  /\ reader[r].pc = "remove" /\ ReaderAt(r, "idle", 0)
  /\ content' = [content EXCEPT ![ReadDigest(r)] = 0]
  /\ UNCHANGED <<quarantine, snapshots, incidents>> /\ ReadFrame

ReadStep(r) ==
  ReadOpen(r) \/ SnapshotVerify(r) \/ ReadQuarantineLink(r) \/ ReadQuarantineRemove(r)
=============================================================================
