----------------------------- MODULE Retention -----------------------------
(***************************************************************************)
(* The retention controller of one provider: artifacts are committed under *)
(* an ownership row, read under an operation lease, and erased when a stop *)
(* is enforced.  DefaultArtifactRetentionController over its journal       *)
(* (SQLite, or the memory journal with the same behaviour) and the vault   *)
(* boundary, with the operations of one process interleaving at their      *)
(* awaits, and the process dying between any two steps.                    *)
(*                                                                         *)
(* Commit c is the acquisition of the artifact with digest c.  A stop s is *)
(* one stop event; enforceStop may be called for it again after it ended.  *)
(* The provider stop record, the provider denial and the digest denials    *)
(* are one transaction: denied.  Ids, hashes and sizes are abstracted; an  *)
(* erasure attempt is its ordinal and its last row.                        *)
(***************************************************************************)
EXTENDS Integers, Sequences, FiniteSets

CONSTANTS NDigests,   \* artifacts, and the commits that acquire them
          NReaders,   \* concurrent guarded reads
          NStops,     \* stop events for the provider
          MaxFaults,  \* bound: crashes, failed erasures, timeouts, reappearances
          MaxDerived  \* bound: artifacts with derived facts

Digests == 1..NDigests
Readers == 1..NReaders
Stops == 1..NStops

ASSUME RetentionAssumption ==
  /\ NDigests \in Nat \ {0} /\ NReaders \in Nat /\ NStops \in Nat \ {0}
  /\ MaxFaults \in Nat /\ MaxDerived \in Nat

VARIABLES
  owned, derived, denied, digestDenied, derivedDenied,   \* the journal
  plan, tries, tombstones, receipts, checkpoint,
  copies,                                                \* the vault
  op, reader, stop, line, result,                        \* the process
  expired, late, faults,                                 \* clock and world
  certified                                              \* history, see below

journal == <<owned, derived, denied, digestDenied, derivedDenied, plan, tries, tombstones,
             receipts, checkpoint>>
calls == <<op, reader, stop, line, result>>
world == <<expired, late, faults>>
vars == <<journal, copies, calls, world, certified>>

NoTry == [n |-> 0, last |-> "none"]
Resting == [pc |-> "idle", todo |-> {}, digest |-> 0, prior |-> FALSE]

Init ==
  /\ owned = {} /\ derived = {} /\ denied = FALSE /\ digestDenied = {} /\ derivedDenied = {}
  /\ plan = [s \in Stops |-> [made |-> FALSE, scope |-> {}]]
  /\ tries = [s \in Stops |-> [d \in Digests |-> NoTry]]
  /\ tombstones = {} /\ receipts = [s \in Stops |-> <<>>] /\ checkpoint = [s \in Stops |-> FALSE]
  /\ copies = {}
  /\ op = [d \in Digests |-> "idle"] /\ reader = [r \in Readers |-> 0]
  /\ stop = [s \in Stops |-> Resting] /\ line = <<>> /\ result = [s \in Stops |-> "none"]
  /\ expired = {} /\ late = FALSE /\ faults = 0
  /\ certified = {}

Fault == faults < MaxFaults /\ faults' = faults + 1

-----------------------------------------------------------------------------
(* The transactions of the journal.  Registrations under an active stop    *)
(* are denied at once; the callers then refuse them.                       *)
registerOwnership(d) ==
  /\ owned' = owned \union {d}
  /\ digestDenied' = digestDenied \union (IF denied THEN {d} ELSE {})
registerDerivedLineage(d) ==
  /\ derived' = derived \union {d}
  /\ derivedDenied' = derivedDenied \union (IF denied THEN {d} ELSE {})
recordStopAndDenials ==
  /\ denied' = TRUE /\ digestDenied' = digestDenied \union owned
  /\ derivedDenied' = derivedDenied \union derived
recordPlan(s, scope) == plan' = [plan EXCEPT ![s] = [made |-> TRUE, scope |-> scope]]
recordAttempt(s, d, t) == tries' = [tries EXCEPT ![s][d] = t]
recordTombstone(d) == tombstones' = tombstones \union {d}
recordReceipt(s, n) == receipts' = [receipts EXCEPT ![s] = <<n>>]
recordReceiptRevalidation(s, n) == receipts' = [receipts EXCEPT ![s] = Append(@, n)]
recordCheckpoint(s) == checkpoint' = [checkpoint EXCEPT ![s] = TRUE]

-----------------------------------------------------------------------------
(* The coordinator.  A stop call closes admission until no stop call is    *)
(* left, and waits in line behind the earlier ones (stopTail).             *)
AdmissionClosed == line # <<>>
(* Mutant: guarded reads are not waited for.                               *)
ActiveOperations_CommitsOnly == Cardinality({d \in Digests : op[d] # "idle"})

ActiveOperations ==
  Cardinality({d \in Digests : op[d] # "idle"}) + Cardinality({r \in Readers : reader[r] # 0})

(* reconciliationUseDenied: any provider denial, any expired ownership.    *)
AnyUseDenied == denied \/ owned \intersect expired # {}

(* #assertArtifactUseAllowed.                                              *)
UseAllowed(d) == d \in owned /\ d \notin digestDenied \union tombstones /\ d \notin expired

(* Mutant: a recorded denial does not close admission.                     *)
MayBegin_Undenied == ~AdmissionClosed

MayBegin == ~AdmissionClosed /\ ~AnyUseDenied

-----------------------------------------------------------------------------
(* commitArtifact: beginUse and #registerOwnership without an await, then  *)
(* the store's commit, then the checks; a failure after the commit erases  *)
(* what was committed.                                                     *)
CommitBegin(d) ==
  /\ op[d] = "idle" /\ MayBegin
  /\ registerOwnership(d)
  /\ op' = [op EXCEPT ![d] = "commit"]
  /\ UNCHANGED <<derived, denied, derivedDenied, plan, tries, tombstones, receipts,
                 checkpoint, copies, reader, stop, line, result, world, certified>>

(* The store installs the bytes, or fails.                                 *)
CommitStored(d) ==
  /\ op[d] = "commit"
  /\ \/ copies' = copies \union {d} /\ op' = [op EXCEPT ![d] = "check"]
     \/ UNCHANGED copies /\ op' = [op EXCEPT ![d] = "idle"]
  /\ UNCHANGED <<journal, reader, stop, line, result, world, certified>>

CommitAccepted(d) == ~AdmissionClosed /\ ~AnyUseDenied /\ UseAllowed(d)

CommitCheck(d) ==
  /\ op[d] = "check"
  /\ op' = [op EXCEPT ![d] = IF CommitAccepted(d) THEN "idle" ELSE "rollback"]
  /\ UNCHANGED <<journal, copies, reader, stop, line, result, world, certified>>

(* eraseDigestCopies and the check that nothing is left; a failure leaves  *)
(* the copies and reports erasure unprovable.                              *)
CommitRollback(d) ==
  /\ op[d] = "rollback" /\ op' = [op EXCEPT ![d] = "idle"]
  /\ \/ copies' = copies \ {d} /\ UNCHANGED faults
     \/ Fault /\ UNCHANGED copies
  /\ UNCHANGED <<journal, reader, stop, line, result, expired, late, certified>>

(* RetentionEnforcedArtifactStore.read and the guarded stream, which       *)
(* releases the lease when it ends or is destroyed by the stop handler.    *)
ReadBegin(r, d) ==
  /\ reader[r] = 0 /\ ~AdmissionClosed /\ UseAllowed(d) /\ d \in copies
  /\ reader' = [reader EXCEPT ![r] = d]
  /\ UNCHANGED <<journal, copies, op, stop, line, result, world, certified>>

ReadEnd(r) ==
  /\ reader[r] # 0 /\ reader' = [reader EXCEPT ![r] = 0]
  /\ UNCHANGED <<journal, copies, op, stop, line, result, world, certified>>

(* registerDerivedLineage: one synchronous operation.                      *)
RegisterDerived(d) ==
  /\ Cardinality(derived) < MaxDerived /\ ~AdmissionClosed /\ UseAllowed(d)
  /\ registerDerivedLineage(d)
  /\ UNCHANGED <<owned, denied, digestDenied, plan, tries, tombstones, receipts,
                 checkpoint, copies, calls, world, certified>>

-----------------------------------------------------------------------------
(* enforceStop.                                                            *)
Goto(s, l) == stop' = [stop EXCEPT ![s].pc = l]

(* Mutant: a stop that throws keeps its place in the line.                 *)
Leave_KeepsPlace(s, how) ==
  /\ stop' = [stop EXCEPT ![s] = Resting] /\ line' = (IF how = "receipt" THEN Tail(line) ELSE line)
  /\ result' = [result EXCEPT ![s] = how]

(* The finally clause: release the successor, reopen admission if no call  *)
(* is left.                                                                *)
Leave(s, how) ==
  /\ stop' = [stop EXCEPT ![s] = Resting] /\ line' = Tail(line)
  /\ result' = [result EXCEPT ![s] = how]

At(s, l) == line # <<>> /\ Head(line) = s /\ stop[s].pc = l

StopBegin(s) ==
  /\ stop[s].pc = "idle" /\ result[s] # "receipt" /\ line' = Append(line, s) /\ Goto(s, "wait")
  /\ UNCHANGED <<journal, copies, op, reader, result, world, certified>>

(* Called again after a receipt.                                           *)
StopAgain(s) ==
  /\ stop[s].pc = "idle" /\ result[s] = "receipt" /\ line' = Append(line, s) /\ Goto(s, "wait")
  /\ UNCHANGED <<journal, copies, op, reader, result, world, certified>>

(* Its turn, and no operation is active: the stop and the denials.         *)
StopRecord(s) ==
  /\ At(s, "wait") /\ ActiveOperations = 0
  /\ recordStopAndDenials /\ Goto(s, "plan")
  /\ UNCHANGED <<owned, derived, plan, tries, tombstones, receipts, checkpoint, copies, op,
                 reader, line, result, world, certified>>

(* An operation is still active after min(deadline, 30 s), or the deadline *)
(* has passed: the call ends before anything is recorded.                  *)
StopTimeout(s) ==
  /\ At(s, "wait") /\ ActiveOperations > 0
  /\ IF late THEN UNCHANGED faults ELSE Fault
  /\ Leave(s, "failed")
  /\ UNCHANGED <<journal, copies, op, reader, expired, late, certified>>

(* The plan is derived from the ownership rows; a stop event has one plan, *)
(* so one with another scope conflicts.                                    *)
StopPlan(s) ==
  /\ At(s, "plan")
  /\ IF plan[s].made /\ plan[s].scope # owned
     THEN Leave(s, "failed") /\ UNCHANGED plan
     ELSE /\ recordPlan(s, owned)
          /\ stop' = [stop EXCEPT ![s].pc = IF receipts[s] = <<>> THEN "settle" ELSE "revisit",
                                  ![s].prior = receipts[s] # <<>>]
          /\ UNCHANGED <<line, result>>
  /\ UNCHANGED <<owned, derived, denied, digestDenied, derivedDenied, tries, tombstones, receipts,
                 checkpoint, copies, op, reader, world, certified>>

(* #verifyPlanErased.                                                      *)
PlanErased(s) ==
  /\ denied /\ plan[s].scope \subseteq digestDenied \intersect tombstones
  /\ plan[s].scope \intersect copies = {}
  /\ derived \intersect plan[s].scope \subseteq derivedDenied

(* The attempts of a plan, and those that have an outcome: each is a       *)
(* digest and an ordinal, as the sets that count them hold.                *)
Attempts(s) == UNION {{d} \X (1..tries[s][d].n) : d \in plan[s].scope}
Pending(s, d) == tries[s][d].last = "started"
Ended(s) == {a \in Attempts(s) : ~(Pending(s, a[1]) /\ a[2] = tries[s][a[1]].n)}

(* #physicalAttemptCount and #hasIncompletePhysicalAttempt.                *)
Physical(s) == Cardinality(Ended(s))
Incomplete(s) == \E d \in plan[s].scope : Pending(s, d)
LatestReceipt(s) == receipts[s][Len(receipts[s])]

Certify(s) == certified' = certified \union plan[s].scope

(* A receipt exists: it is returned again if nothing has changed since,    *)
(* otherwise the plan is carried out once more.                            *)
StopRevisit(s) ==
  /\ At(s, "revisit")
  /\ \/ Fault /\ Leave(s, "failed") /\ UNCHANGED <<checkpoint, certified>>     \* not settled
     \/ /\ UNCHANGED faults
        /\ checkpoint' = [checkpoint EXCEPT ![s] = @ \/ PlanErased(s)]
        /\ IF PlanErased(s) /\ LatestReceipt(s) = Physical(s) /\ ~Incomplete(s)
           THEN Leave(s, "receipt") /\ Certify(s)
           ELSE Goto(s, "settle") /\ UNCHANGED <<line, result, certified>>
  /\ UNCHANGED <<owned, derived, denied, digestDenied, derivedDenied, plan, tries, tombstones,
                 receipts, copies, op, reader, expired, late>>

StopSettle(s) ==
  /\ At(s, "settle")
  /\ \/ late /\ Leave(s, "failed") /\ UNCHANGED faults
     \/ ~late /\ Fault /\ Leave(s, "failed")                               \* not settled
     \/ /\ ~late /\ UNCHANGED <<faults, line, result>>
        /\ stop' = [stop EXCEPT ![s].pc = "next", ![s].todo = plan[s].scope]
  /\ UNCHANGED <<journal, copies, op, reader, expired, late, certified>>

(* One digest after the other.  Nothing is done for a tombstone without    *)
(* copies and without a started attempt; a started attempt is resumed; a   *)
(* completed one whose copies are absent only needs its tombstone.         *)
EraseNext(s) ==
  \E d \in stop[s].todo :
  LET t == tries[s][d]
      skip == ~Pending(s, d) /\ d \in tombstones /\ d \notin copies
      absent == t.last = "done" /\ d \notin copies IN
  /\ At(s, "next") /\ \A e \in stop[s].todo : d <= e
  /\ \/ late /\ Leave(s, "failed") /\ UNCHANGED tries
     \/ /\ ~late /\ skip
        /\ stop' = [stop EXCEPT ![s].todo = @ \ {d}] /\ UNCHANGED <<line, result, tries>>
     \/ /\ ~late /\ ~skip /\ absent
        /\ stop' = [stop EXCEPT ![s].pc = "tombstone", ![s].digest = d]
        /\ UNCHANGED <<line, result, tries>>
     \/ /\ ~late /\ ~skip /\ ~absent
        /\ stop' = [stop EXCEPT ![s].pc = "erase", ![s].digest = d]
        /\ IF Pending(s, d) THEN UNCHANGED tries
           ELSE recordAttempt(s, d, [n |-> t.n + 1, last |-> "started"])
        /\ UNCHANGED <<line, result>>
  /\ UNCHANGED <<owned, derived, denied, digestDenied, derivedDenied, plan, tombstones, receipts,
                 checkpoint, copies, op, reader, world, certified>>

(* Mutant: a failed erasure forgets the attempt.                           *)
EraseCopies_Forgets(s) ==
  LET d == stop[s].digest IN
  /\ At(s, "erase")
  /\ \/ copies' = copies \ {d} /\ Goto(s, "erased") /\ UNCHANGED <<tries, line, result, faults>>
     \/ /\ Fault /\ Leave(s, "failed") /\ UNCHANGED copies
        /\ recordAttempt(s, d, NoTry)
  /\ UNCHANGED <<owned, derived, denied, digestDenied, derivedDenied, plan, tombstones, receipts,
                 checkpoint, op, reader, expired, late, certified>>

(* eraseDigestCopies, and its outcome row.                                 *)
EraseCopies(s) ==
  LET d == stop[s].digest IN
  /\ At(s, "erase")
  /\ \/ copies' = copies \ {d} /\ Goto(s, "erased") /\ UNCHANGED <<tries, line, result, faults>>
     \/ /\ Fault /\ Leave(s, "failed") /\ UNCHANGED copies
        /\ recordAttempt(s, d, [tries[s][d] EXCEPT !.last = "failed"])
  /\ UNCHANGED <<owned, derived, denied, digestDenied, derivedDenied, plan, tombstones, receipts,
                 checkpoint, op, reader, expired, late, certified>>

EraseRecorded(s) ==
  /\ At(s, "erased") /\ Goto(s, "tombstone")
  /\ recordAttempt(s, stop[s].digest, [tries[s][stop[s].digest] EXCEPT !.last = "done"])
  /\ UNCHANGED <<owned, derived, denied, digestDenied, derivedDenied, plan, tombstones, receipts,
                 checkpoint, copies, op, reader, line, result, world, certified>>

EraseTombstone(s) ==
  /\ At(s, "tombstone") /\ recordTombstone(stop[s].digest)
  /\ stop' = [stop EXCEPT ![s].pc = "next", ![s].todo = @ \ {stop[s].digest}, ![s].digest = 0]
  /\ UNCHANGED <<owned, derived, denied, digestDenied, derivedDenied, plan, tries, receipts,
                 checkpoint, copies, op, reader, line, result, world, certified>>

(* Everything is verified once more; ownership that grew meanwhile starts  *)
(* over; then the receipt, or its revalidation with its checkpoint in one  *)
(* transaction, or the prior receipt when nothing was erased.              *)
StopVerify(s) ==
  /\ At(s, "next") /\ stop[s].todo = {}
  /\ IF ~PlanErased(s)
     THEN Leave(s, "failed") /\ UNCHANGED <<receipts, checkpoint, certified>>
     ELSE IF owned # plan[s].scope
     THEN Goto(s, "plan") /\ UNCHANGED <<line, result, receipts, checkpoint, certified>>
     ELSE IF ~stop[s].prior
     THEN /\ recordReceipt(s, Cardinality(Attempts(s))) /\ Goto(s, "checkpoint")
          /\ UNCHANGED <<line, result, checkpoint, certified>>
     ELSE IF Physical(s) < LatestReceipt(s)
     THEN /\ Leave(s, "failed") /\ recordCheckpoint(s)
          /\ UNCHANGED <<receipts, certified>>
     ELSE /\ IF Physical(s) = LatestReceipt(s) THEN UNCHANGED receipts
             ELSE recordReceiptRevalidation(s, Physical(s))
          /\ recordCheckpoint(s) /\ Leave(s, "receipt") /\ Certify(s)
  /\ UNCHANGED <<owned, derived, denied, digestDenied, derivedDenied, plan, tries, tombstones,
                 copies, op, reader, world>>

StopCheckpoint(s) ==
  /\ At(s, "checkpoint") /\ recordCheckpoint(s)
  /\ Leave(s, "receipt") /\ Certify(s)
  /\ UNCHANGED <<owned, derived, denied, digestDenied, derivedDenied, plan, tries, tombstones,
                 receipts, copies, op, reader, world>>

StopStep(s) ==
  \/ StopRecord(s) \/ StopTimeout(s) \/ StopPlan(s) \/ StopRevisit(s) \/ StopSettle(s)
  \/ EraseNext(s) \/ EraseCopies(s) \/ EraseRecorded(s) \/ EraseTombstone(s) \/ StopVerify(s)
  \/ StopCheckpoint(s)

-----------------------------------------------------------------------------
(* The clock passes the expiry of what is owned so far, or the deadline of *)
(* the stop; a restored backup brings erased bytes back, between two stop  *)
(* calls; the process dies.                                                *)
Expire ==
  /\ expired # owned /\ expired' = owned
  /\ UNCHANGED <<journal, copies, calls, late, faults, certified>>

DeadlinePasses ==
  /\ ~late /\ late' = TRUE
  /\ UNCHANGED <<journal, copies, calls, expired, faults, certified>>

Reappear(d) ==
  /\ Fault /\ line = <<>> /\ d \in tombstones \ copies /\ copies' = copies \union {d}
  /\ certified' = certified \ {d}
  /\ UNCHANGED <<journal, calls, expired, late>>

Crash ==
  /\ Fault
  /\ op' = [d \in Digests |-> "idle"] /\ reader' = [r \in Readers |-> 0]
  /\ stop' = [s \in Stops |-> Resting] /\ line' = <<>>
  /\ UNCHANGED <<journal, copies, result, expired, late, certified>>

Operation ==
  \/ \E d \in Digests : CommitStored(d) \/ CommitCheck(d) \/ CommitRollback(d)
  \/ \E r \in Readers : ReadEnd(r)

Next ==
  \/ Operation
  \/ \E d \in Digests : CommitBegin(d) \/ RegisterDerived(d) \/ Reappear(d)
  \/ \E r \in Readers, d \in Digests : ReadBegin(r, d)
  \/ \E s \in Stops : StopBegin(s) \/ StopAgain(s) \/ StopStep(s)
  \/ Expire \/ DeadlinePasses \/ Crash

Spec == Init /\ [][Next]_vars

(* The event loop runs what is ready, and every stream and store call      *)
(* ends.  Nobody is obliged to begin anything.                             *)
FairSpec ==
  /\ Spec /\ WF_vars(\E s \in Stops : StopStep(s))
  /\ \A d \in Digests : WF_vars(CommitStored(d)) /\ WF_vars(CommitCheck(d)) /\ WF_vars(CommitRollback(d))
  /\ \A r \in Readers : WF_vars(ReadEnd(r))

-----------------------------------------------------------------------------
(* What a returned receipt certifies stays true: no copy of a certified    *)
(* artifact is left or comes back by anything the program does, whatever   *)
(* commits and reads were under way and wherever it crashed.               *)
ReceiptMeansErased ==
  \A d \in certified : d \notin copies /\ d \in tombstones \intersect digestDenied

(* Every copy on disk has an ownership row, which is what makes a stop's   *)
(* plan complete: ownership is registered before the bytes are stored.     *)
CopiesOwned == copies \subseteq owned

(* No ownership row appears or goes once the denial is recorded: the plan  *)
(* that a stop computes after it is the whole of what it must erase.       *)
ScopeFrozen == [][denied => owned' = owned]_vars

(* No commit and no read succeeds once the denial is recorded: the stop    *)
(* waits for the operations that were admitted before it.                  *)
NothingUsedAfterDenial ==
  denied => /\ \A d \in Digests : op[d] = "idle"
            /\ \A r \in Readers : reader[r] = 0

(* Use stops: nothing is on disk that a stop's plan would miss, and        *)
(* nothing is at work that could bring more.                               *)
UseStops == CopiesOwned /\ NothingUsedAfterDenial

(* A receipt never counts more attempts than the journal holds, so that a  *)
(* later call can always revalidate it; the counts in a chain of           *)
(* revalidations grow, which #latestReceipt demands.                       *)
ReceiptsCanBeRevalidated ==
  \A s \in Stops :
    /\ receipts[s] # <<>> => Physical(s) >= LatestReceipt(s)
    /\ \A i \in 1..(Len(receipts[s]) - 1) : receipts[s][i] < receipts[s][i + 1]

(* Receipts are true when they are returned and can be shown again later.  *)
ReceiptsTrue == ReceiptMeansErased /\ ReceiptsCanBeRevalidated

(* Every stop call ends, with a receipt or an error: neither the line of   *)
(* stops nor an active operation holds it for ever.                        *)
StopsAnswer == \A s \in Stops : (stop[s].pc # "idle") ~> (stop[s].pc = "idle")
=============================================================================
