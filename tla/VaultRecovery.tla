--------------------------- MODULE VaultRecovery ---------------------------
(***************************************************************************)
(* Reconciliation of the artifact vault, its crashes and its denial by     *)
(* retention, composed with the store and read calls of ArtifactVault.     *)
(*                                                                         *)
(* rec is the durable head (artifact_reconciliation_state): phase and key  *)
(* reached, the pending action and the writer generation that last moved   *)
(* it.  call is the running reconcile call: off, run (between two          *)
(* iterations of its loop) or a place inside one, with the key in hand.    *)
(* The caller knows the continuation cursor iff held, in memory only.      *)
(***************************************************************************)
EXTENDS ArtifactVault

RecFrame == UNCHANGED <<faults, at, reader>>
At(l, k) == call' = [at |-> l, key |-> k]
Throw == call' = Idle /\ UNCHANGED rec

(* Mutant: a continued scan skips the key after its cursor.                *)
NextAfter_Skips(S, k) == IF \E x \in S : x > k + 1 THEN Min({x \in S : x > k + 1}) ELSE 0

NextAfter(S, k) == IF \E x \in S : x > k THEN Min({x \in S : x > k}) ELSE 0

(* advanceReconciliationState.                                             *)
MoveTo(phase, after) ==
  rec' = [rec EXCEPT !.phase = phase, !.after = after] /\ At("run", 0)

(* planReconciliationAction: the plan and its incident in one transaction; *)
(* the head points at the pending action.                                  *)
Plan(kind, source, key, inode, o) ==
  /\ rec' = [rec EXCEPT !.pending =
               [kind |-> kind, source |-> source, key |-> key, inode |-> inode,
                run |-> rec.run, outcome |-> o]]
  /\ At("run", 0)

(* applyReconciliationAction moves the head past the planned key.          *)
Applied ==
  rec' = [rec EXCEPT !.after = rec.pending.key, !.pending = NoPlan] /\ At("run", 0)

-----------------------------------------------------------------------------
(* openReconciliationCall.  A new run; a run of an earlier writer          *)
(* generation, resumed without a cursor; or this generation's, which       *)
(* wants its cursor.                                                       *)
NewRun == [status |-> "active", phase |-> "evidence", after |-> 0, run |-> rec.run + 1,
           writer |-> writer, pending |-> NoPlan]

MayOpen ==
  \/ rec.status \in {"none", "terminal"} /\ rec.run < MaxRuns
  \/ rec.status = "active" /\ (rec.writer # writer \/ held)

OpenCall ==
  /\ call = Idle /\ ~denied /\ MayOpen /\ At("run", 0)
  /\ rec' = IF rec.status \in {"none", "terminal"} THEN NewRun ELSE [rec EXCEPT !.writer = writer]
  /\ held' = (held /\ rec.status = "active" /\ rec.writer = writer)
  /\ UNCHANGED <<disk, evidence, writer>> /\ RecFrame

(* commitReconciliationReceipt ends the call; a partial receipt carries    *)
(* the continuation cursor.                                                *)
commitReceipt(status, cursor) ==
  rec' = [rec EXCEPT !.status = status] /\ call' = Idle /\ held' = cursor

(* The budget is exhausted between two iterations.                         *)
PartialReceipt ==
  /\ call.at = "run" /\ ~denied /\ commitReceipt("active", TRUE)
  /\ UNCHANGED <<disk, evidence, writer>> /\ RecFrame

(* assertRunning notices a denial.                                         *)
CallStopped ==
  /\ call.at \notin {"off", "cleanup"} /\ denied /\ call' = Idle
  /\ UNCHANGED <<disk, evidence, rec, writer, held>> /\ RecFrame

Inside(l) == call.at = l /\ ~denied
Loop(phase) == Inside("run") /\ rec.pending = NoPlan /\ rec.phase = phase

(* The five evidence phases, as one: they re-read every row of the tables  *)
(* with its hash and change nothing.                                       *)
EvidencePage ==
  /\ Loop("evidence") /\ MoveTo("install-intents", 0)
  /\ UNCHANGED <<disk, evidence, writer, held>> /\ RecFrame

-----------------------------------------------------------------------------
(* install-intents: every intent that is neither cleaned nor aborted is    *)
(* completed from what is on disk, or aborted.                             *)
PendingIntents == {a \in Attempts : intent[a] # "none"
                                      /\ transitions[a] \intersect {"stage-cleaned", "aborted"} = {}}
NextIntent == NextAfter(PendingIntents, rec.after)

IntentsDone ==
  /\ Loop("install-intents") /\ NextIntent = 0 /\ MoveTo("snapshots", 0)
  /\ UNCHANGED <<disk, evidence, writer, held>> /\ RecFrame

IntentVerify ==
  LET a == NextIntent
      d == DigestOf[a]
      s == IF a \in stage THEN a ELSE 0
      there(i) == i # 0 /\ Holds(i, d)
      readable == \A i \in {s, content[d]} : i = 0 \/ Links(i) <= 2 IN
  /\ Loop("install-intents") /\ a # 0
  /\ \/ ~readable /\ Throw /\ UNCHANGED <<content, outcome, transitions>>
     \/ /\ readable /\ ~there(content[d]) /\ ~there(s)
        /\ Abort(a, "install-content-missing") /\ UNCHANGED content
        /\ IF AbortFits(a, "install-content-missing") THEN MoveTo("install-intents", a) ELSE Throw
     \/ /\ readable /\ there(content[d]) /\ At("linked", a)
        /\ UNCHANGED <<content, outcome, transitions, rec>>
     \/ /\ readable /\ ~there(content[d]) /\ there(s)    \* link refuses a damaged destination
        /\ IF content[d] = 0
           THEN content' = [content EXCEPT ![d] = a] /\ At("linked", a) /\ UNCHANGED rec
           ELSE Throw /\ UNCHANGED content
        /\ UNCHANGED <<outcome, transitions>>
  /\ UNCHANGED <<stage, quarantine, snapshots, bytes, attempts, intent, blobs,
                 incidents, denied, writer, held>>
  /\ RecFrame

(* markIntentContentInstalled, then commitIntentSuccess, with no await in  *)
(* between.                                                                *)
IntentCommit ==
  LET a == call.key IN
  /\ Inside("linked")
  /\ IF CommitFits(a)
     THEN CommitIntentSuccess(a) /\ At("committed", a) /\ UNCHANGED rec
     ELSE Throw /\ UNCHANGED <<outcome, transitions, blobs>>
  /\ UNCHANGED <<disk, attempts, intent, incidents, denied, writer, held>> /\ RecFrame

IntentClean ==
  LET a == call.key IN
  /\ Inside("committed")
  /\ stage' = stage \ {a}
  /\ insertInstallTransition(a, "stage-cleaned")
  /\ MoveTo("install-intents", a)
  /\ UNCHANGED <<content, quarantine, snapshots, bytes, attempts, outcome, intent, blobs,
                 incidents, denied, writer, held>>
  /\ RecFrame

-----------------------------------------------------------------------------
(* snapshots: whatever a dead reader left, and what a live one has open.   *)
SnapshotScan ==
  LET r == NextAfter(snapshots, rec.after) IN
  /\ Loop("snapshots")
  /\ IF r = 0 THEN MoveTo("staging", 0) ELSE Plan("remove-snapshot", "snapshot", r, 0, "none")
  /\ UNCHANGED <<disk, evidence, writer, held>> /\ RecFrame

ApplyRemoveSnapshot ==
  /\ Inside("run") /\ rec.pending.kind = "remove-snapshot"
  /\ snapshots' = snapshots \ {rec.pending.key} /\ Applied
  /\ UNCHANGED <<stage, content, quarantine, bytes, evidence, writer, held>> /\ RecFrame

(* staging: the stage of a finished attempt, or of one that is too old, is *)
(* planned for quarantine; a young open attempt keeps its own.  Hashing    *)
(* throws on a stage that shares its inode.  Whether stageExpiryMs has     *)
(* passed since the attempt began is not modelled: either may be the case. *)
StageScan ==
  LET a == NextAfter(stage, rec.after) IN
  /\ Loop("staging")
  /\ \/ a = 0 /\ MoveTo("open-attempts", 0)
     \/ a # 0 /\ outcome[a] = "none" /\ MoveTo("staging", a)   \* still young
     \/ /\ a # 0
        /\ IF Readable(a, 1)
           THEN Plan("quarantine", "stage", a, a,
                     IF outcome[a] # "none" THEN "none" ELSE "stage-expired")
           ELSE Throw
  /\ UNCHANGED <<disk, evidence, writer, held>> /\ RecFrame

(* open-attempts: an old attempt without a stage has expired.              *)
OpenAttemptScan ==
  LET a == NextAfter({b \in attempts : outcome[b] = "none"}, rec.after) IN
  /\ Loop("open-attempts")
  /\ \/ a = 0 /\ MoveTo("content", 0)
     \/ a # 0 /\ a \notin stage /\ Plan("expire-attempt", "stage", a, 0, "stage-missing")
     \/ a # 0 /\ MoveTo("open-attempts", a)   \* still young, or its stage is there
  /\ UNCHANGED <<disk, evidence, writer, held>> /\ RecFrame

ApplyExpire ==
  LET p == rec.pending IN
  /\ Inside("run") /\ p.kind = "expire-attempt"
  /\ IF OutcomeFits(p.key, p.outcome)
     THEN insertOutcome(p.key, p.outcome) /\ Applied
     ELSE Throw /\ UNCHANGED outcome
  /\ UNCHANGED <<disk, attempts, intent, transitions, blobs, incidents, denied, writer, held>>
  /\ RecFrame

-----------------------------------------------------------------------------
(* content: a verified file without a blob row is adopted, one that fails  *)
(* verification is hashed once more and planned for quarantine.            *)
Present == {d \in Digests : content[d] # 0}

ContentScan ==
  LET d == NextAfter(Present, rec.after) IN
  /\ Loop("content")
  /\ IF d = 0 THEN MoveTo("missing-content", 0)
     ELSE IF ~(Readable(content[d], 1) /\ Holds(content[d], d)) THEN At("again", d) /\ UNCHANGED rec
     ELSE IF blobs[d] = "none" THEN Plan("adopt-orphan", "content", d, content[d], "none")
     ELSE MoveTo("content", d)
  /\ UNCHANGED <<disk, evidence, writer, held>> /\ RecFrame

ContentAgain ==
  LET d == call.key IN
  /\ Inside("again")
  /\ IF Readable(content[d], 1)
     THEN /\ recordIncident(d)
          /\ Plan("quarantine", "content", d, content[d], "none")
     ELSE Throw /\ UNCHANGED incidents
  /\ UNCHANGED <<disk, attempts, outcome, intent, transitions, blobs, denied, writer, held>>
  /\ RecFrame

ApplyAdopt ==
  LET p == rec.pending IN
  /\ Inside("run") /\ p.kind = "adopt-orphan"
  /\ IF /\ Readable(content[p.key], 1) /\ Holds(content[p.key], p.key)
        /\ blobs[p.key] \in {"none", "recovered-orphan"}
     THEN adoptArtifact(p.key) /\ Applied
     ELSE Throw /\ UNCHANGED blobs
  /\ UNCHANGED <<disk, attempts, outcome, intent, transitions, incidents, denied, writer, held>>
  /\ RecFrame

(* missing-content, and the terminal receipt at its end.                   *)
MissingScan ==
  LET d == NextAfter({e \in Digests : blobs[e] # "none"}, rec.after) IN
  /\ Loop("missing-content")
  /\ \/ /\ d = 0 /\ commitReceipt("terminal", FALSE)
        /\ UNCHANGED incidents
     \/ /\ d # 0 /\ content[d] # 0 /\ MoveTo("missing-content", d)
        /\ UNCHANGED <<held, incidents>>
     \/ /\ d # 0 /\ content[d] = 0 /\ Plan("record-missing-content", "content", d, 0, "none")
        /\ recordIncident(d) /\ UNCHANGED held
  /\ UNCHANGED <<disk, attempts, outcome, intent, transitions, blobs, denied, writer>>
  /\ RecFrame

ApplyMissing ==
  /\ Inside("run") /\ rec.pending.kind = "record-missing-content" /\ Applied
  /\ UNCHANGED <<disk, evidence, writer, held>> /\ RecFrame

-----------------------------------------------------------------------------
(* #replayQuarantine: link the target, remove the source, verify the       *)
(* target with one link, apply.  The source is compared with the planned   *)
(* identity once, before the link.                                         *)
Source(p) == IF p.source = "stage" THEN (IF p.key \in stage THEN p.key ELSE 0) ELSE content[p.key]
Target(p) == <<"plan", p.source, p.key, p.run>>
Targets(p) == {q \in quarantine : q.name = Target(p)}

QuarantineLink ==
  LET p == rec.pending IN
  /\ Inside("run") /\ p.kind = "quarantine"
  /\ IF \/ Source(p) \notin {0, p.inode}
        \/ Source(p) = 0 /\ Targets(p) = {}
     THEN Throw /\ UNCHANGED quarantine
     ELSE /\ quarantine' = quarantine \union {[name |-> Target(p), inode |-> p.inode]}
          /\ At(IF Source(p) = 0 THEN "moved" ELSE "target", 0) /\ UNCHANGED rec
  /\ UNCHANGED <<stage, content, snapshots, bytes, evidence, writer, held>> /\ RecFrame

(* rm throws when the source has vanished; the target then stays, since no *)
(* source survives to roll back to.                                        *)
QuarantineRemove ==
  LET p == rec.pending IN
  /\ Inside("target")
  /\ IF Source(p) = 0 THEN Throw ELSE At("moved", 0) /\ UNCHANGED rec
  /\ stage' = IF p.source = "stage" THEN stage \ {p.key} ELSE stage
  /\ content' = IF p.source = "content" THEN [content EXCEPT ![p.key] = 0] ELSE content
  /\ UNCHANGED <<quarantine, snapshots, bytes, evidence, writer, held>> /\ RecFrame

QuarantineApply ==
  LET p == rec.pending IN
  /\ Inside("moved")
  /\ IF Readable(p.inode, 1) /\ (p.outcome = "none" \/ OutcomeFits(p.key, p.outcome))
     THEN /\ IF p.outcome = "none" THEN UNCHANGED outcome ELSE insertOutcome(p.key, p.outcome)
          /\ Applied
     ELSE Throw /\ UNCHANGED outcome
  /\ UNCHANGED <<disk, attempts, intent, transitions, blobs, incidents, denied, writer, held>>
  /\ RecFrame

-----------------------------------------------------------------------------
(* A reconcile call under a denial only clears the denied install intents. *)
CleanupStart ==
  /\ call = Idle /\ denied /\ PendingIntents # {} /\ At("cleanup", 0)
  /\ UNCHANGED <<disk, evidence, rec, writer, held>> /\ RecFrame

CleanupNext ==
  LET a == NextAfter(PendingIntents, call.key) IN
  /\ call.at = "cleanup"
  /\ \/ a = 0 /\ call' = Idle /\ UNCHANGED <<stage, content, outcome, transitions>>
     \/ /\ a # 0 /\ Abort(a, "retention-denied")
        /\ content' = [content EXCEPT ![DigestOf[a]] = 0] /\ stage' = stage \ {a}
        /\ IF AbortFits(a, "retention-denied") THEN At("cleanup", a) ELSE call' = Idle
  /\ UNCHANGED <<quarantine, snapshots, bytes, attempts, intent, blobs, incidents, denied,
                 rec, writer, held>>
  /\ RecFrame

-----------------------------------------------------------------------------
(* The world around the vault.  Retention denies the provider; the disk    *)
(* damages a content file; the process dies and another takes over with    *)
(* the next generation; or it closes cleanly, which deletes the fence row, *)
(* and the next one starts at generation 1.                                *)
Fault == faults < MaxFaults /\ faults' = faults + 1

Deny ==
  /\ Fault /\ ~denied /\ denied' = TRUE
  /\ UNCHANGED <<disk, attempts, outcome, intent, transitions, blobs, incidents, rec,
                 writer, held, at, reader, call>>

Rot(d) ==
  /\ Fault /\ content[d] # 0 /\ bytes[content[d]] = "whole"
  /\ bytes' = [bytes EXCEPT ![content[d]] = "rot"]
  /\ UNCHANGED <<stage, content, quarantine, snapshots, evidence, rec, writer, held, at, reader,
                 call>>

NoCalls == /\ at' = [a \in Attempts |-> "idle"] /\ call' = Idle /\ held' = FALSE
           /\ reader' = [r \in Readers |-> [pc |-> "idle", inode |-> 0]]

WriterDies ==
  /\ Fault /\ writer' = writer + 1 /\ NoCalls
  /\ UNCHANGED <<disk, evidence, rec>>

CloseAndReopen ==
  /\ Active = {} /\ Reading = {} /\ call = Idle
  /\ writer' = 1 /\ NoCalls
  /\ UNCHANGED <<disk, evidence, rec, faults>>

Reconcile ==
  \/ OpenCall \/ PartialReceipt \/ CallStopped \/ EvidencePage \/ IntentsDone \/ IntentVerify
  \/ IntentCommit \/ IntentClean \/ SnapshotScan \/ ApplyRemoveSnapshot \/ StageScan
  \/ OpenAttemptScan \/ ApplyExpire \/ ContentScan \/ ContentAgain \/ ApplyAdopt \/ MissingScan
  \/ ApplyMissing \/ QuarantineLink \/ QuarantineRemove \/ QuarantineApply
  \/ CleanupStart \/ CleanupNext

VaultStep ==
  \/ \E a \in Attempts : StoreStep(a)
  \/ \E r \in Readers : ReadStep(r)
  \/ Reconcile \/ Deny \/ WriterDies \/ CloseAndReopen
  \/ \E d \in Digests : Rot(d)

(* History: quiet says that since the current run began no store or read   *)
(* call was active and the disk was not damaged.                           *)
Alone == Active = {} /\ Reading = {}

Observe ==
  quiet' = /\ Alone'
           /\ rec'.run # rec.run \/ (quiet /\ bytes' = bytes)

VaultNext == VaultStep /\ Observe

VaultSpec == VaultInit /\ [][VaultNext]_vaultVars
-----------------------------------------------------------------------------
(* An outcome row, an install transition and a blob row that stand for the *)
(* same success are written together or not at all, whoever commits: the   *)
(* store call, the reconciliation that completes its intent, or neither    *)
(* because one of them aborted it first.                                   *)
EvidenceAgrees ==
  \A a \in Attempts :
    /\ (outcome[a] = "succeeded") <=> ("evidence-committed" \in transitions[a])
    /\ outcome[a] = "succeeded" => blobs[DigestOf[a]] # "none"
    /\ "stage-cleaned" \in transitions[a] => outcome[a] = "succeeded"
    /\ "aborted" \in transitions[a] => outcome[a] \notin {"none", "succeeded"}

(* Committed content never disappears without a trace: where a blob row    *)
(* has no content file, an incident about that digest is on record, or     *)
(* retention denied it.  Quarantine by a reader, by reconciliation and the *)
(* two of them racing an installation are all covered.                     *)
NoSilentLoss ==
  \A d \in Digests : blobs[d] # "none" /\ content[d] = 0 => d \in incidents \/ denied

(* Evidence and content agree, whoever writes and whoever quarantines.     *)
EvidenceSound == EvidenceAgrees /\ NoSilentLoss

(* What a terminal receipt means when nothing else ran: no install intent  *)
(* is open, no snapshot of a dead reader and no stage of a finished        *)
(* attempt is left, every content file has its blob row and every blob row *)
(* its file or an incident.  The run may have been interrupted and resumed *)
(* by a later writer generation.                                           *)
TerminalMeansClean ==
  rec.status = "terminal" /\ quiet /\ ~denied =>
    /\ PendingIntents = {} /\ snapshots = {}
    /\ \A a \in stage : outcome[a] = "none"
    /\ \A d \in Digests : content[d] # 0 => blobs[d] # "none"
    /\ \A d \in Digests : blobs[d] # "none" => content[d] # 0 \/ d \in incidents

(* The vault implements what it promises (ArtifactPromise): undamaged      *)
(* bytes of digest d are linked from staging, content or quarantine.       *)
Kept == {d \in Digests : \E i \in Attempts : Holds(i, d) /\ Links(i) > 0}
Excused == {d \in Digests : denied \/ \E i \in Attempts : DigestOf[i] = d /\ bytes[i] = "rot"}
Verdict == [a \in Attempts |-> CASE outcome[a] = "none" -> "none"
                                [] outcome[a] = "succeeded" -> "accepted"
                                [] OTHER -> "refused"]
Promise == INSTANCE ArtifactPromise
             WITH verdict <- Verdict, known <- {d \in Digests : blobs[d] # "none"},
                  kept <- Kept, excused <- Excused
PromiseKept == Promise!Spec
=============================================================================
