-------------------------- MODULE RetentionProofs --------------------------
(***************************************************************************)
(* For any number of artifacts, readers, stops and faults: every copy has  *)
(* its owner, no use survives a denial, the scope of a stop is frozen by   *)
(* the denial, and a receipt that was returned stays true.                 *)
(***************************************************************************)
EXTENDS Retention, FiniteSetTheorems, TLAPS

Ops == {"idle", "commit", "check", "rollback"}
Places == {"idle", "wait", "plan", "revisit", "settle", "next", "erase", "erased", "tombstone",
           "checkpoint"}
StopCall == [pc : Places, todo : SUBSET Digests, digest : Nat, prior : BOOLEAN]

Typed ==
  /\ owned \subseteq Digests /\ denied \in BOOLEAN
  /\ plan \in [Stops -> [made : BOOLEAN, scope : SUBSET Digests]]
  /\ op \in [Digests -> Ops] /\ reader \in [Readers -> Digests \union {0}]
  /\ stop \in [Stops -> StopCall] /\ line \in Seq(Stops)

(* Whatever holds, brings or erases bytes of an artifact is about an owned *)
(* one.                                                                    *)
Owned ==
  /\ copies \subseteq owned /\ tombstones \subseteq owned
  /\ \A d \in Digests : op[d] # "idle" => d \in owned
  /\ \A s \in Stops : /\ plan[s].scope \subseteq owned /\ stop[s].todo \subseteq owned
                      /\ stop[s].pc \in {"erase", "erased", "tombstone"} => stop[s].digest \in owned

(* A recorded denial covers all that is owned and finds nobody at work.    *)
Quiet == denied => NothingUsedAfterDenial /\ owned \subseteq digestDenied

(* Only the stop at the head of the line is past its wait, and only after  *)
(* it recorded the denial.                                                 *)
Turn ==
  \A s \in Stops : stop[s].pc \notin {"idle", "wait"} => denied /\ line # <<>> /\ Head(line) = s

(* What a receipt says, from its transaction to its return and after.      *)
Erased(d) == d \notin copies /\ d \in tombstones /\ d \in digestDenied
Settled ==
  /\ \A d \in certified : Erased(d) /\ denied
  /\ \A s \in Stops : stop[s].pc = "checkpoint" => \A d \in plan[s].scope : Erased(d)

RetentionInv == Typed /\ Owned /\ Quiet /\ Turn /\ Settled

-----------------------------------------------------------------------------

LEMMA InitInv == Init => RetentionInv
<1> SUFFICES ASSUME Init PROVE RetentionInv
  OBVIOUS
<1> USE RetentionAssumption DEF Init, Resting
<1>1. Typed
  <2>1. line \in Seq(Stops)
    OBVIOUS
  <2>2. stop \in [Stops -> StopCall]
    BY DEF StopCall, Places
  <2> QED BY <2>1, <2>2 DEF Typed, Ops
<1>2. Owned
  BY DEF Owned
<1>3. Quiet /\ Turn /\ Settled
  BY DEF Quiet, Turn, Settled, NothingUsedAfterDenial
<1> QED BY <1>1, <1>2, <1>3 DEF RetentionInv

(* No active operation: nobody commits and nobody reads.                   *)
LEMMA NoneActive ==
  ASSUME ActiveOperations = 0
  PROVE  (\A d \in Digests : op[d] = "idle") /\ (\A r \in Readers : reader[r] = 0)
<1> DEFINE A == {d \in Digests : op[d] # "idle"}
           B == {r \in Readers : reader[r] # 0}
<1>1. IsFiniteSet(Digests) /\ IsFiniteSet(Readers)
  BY RetentionAssumption, FS_Interval DEF Digests, Readers
<1>2. IsFiniteSet(A) /\ IsFiniteSet(B)
  <2> A \in SUBSET Digests /\ B \in SUBSET Readers
    OBVIOUS
  <2> HIDE DEF A, B
  <2> QED BY <1>1, FS_Subset
<1>3. Cardinality(A) + Cardinality(B) = 0
  BY DEF ActiveOperations
<1>4. A = {} /\ B = {}
  <2> HIDE DEF A, B
  <2>1. Cardinality(A) \in Nat /\ Cardinality(B) \in Nat
    BY <1>2, FS_CardinalityType
  <2>2. Cardinality(A) = 0 /\ Cardinality(B) = 0
    BY <2>1, <1>3
  <2> QED BY <2>2, <1>2, FS_EmptySet
<1> QED BY <1>4

LEMMA CommitBeginStep ==
  ASSUME RetentionInv, NEW d \in Digests, CommitBegin(d)
  PROVE  RetentionInv'
<1> USE DEF RetentionInv, CommitBegin, registerOwnership, MayBegin, AnyUseDenied, world
<1>1. Typed'
  BY DEF Typed, Ops
<1>2. Owned'
  BY DEF Owned, Typed
<1>3. Quiet'
  BY DEF Quiet, NothingUsedAfterDenial, Typed
<1>4. Turn'
  BY DEF Turn
<1>5. Settled'
  BY DEF Settled, Erased
<1> QED BY <1>1, <1>2, <1>3, <1>4, <1>5

LEMMA CommitStoredStep ==
  ASSUME RetentionInv, NEW d \in Digests, CommitStored(d)
  PROVE  RetentionInv'
<1> USE DEF RetentionInv, CommitStored, journal, world
<1>1. Typed'
  BY DEF Typed, Ops
<1>2. Owned'
  BY DEF Owned, Typed
<1>3. Quiet'
  BY DEF Quiet, NothingUsedAfterDenial, Typed
<1>4. Turn'
  BY DEF Turn
<1>5. Settled'
  BY DEF Settled, Erased, Quiet, NothingUsedAfterDenial, Turn
<1> QED BY <1>1, <1>2, <1>3, <1>4, <1>5

LEMMA CommitCheckStep ==
  ASSUME RetentionInv, NEW d \in Digests, CommitCheck(d)
  PROVE  RetentionInv'
<1> USE DEF RetentionInv, CommitCheck, CommitAccepted, journal, world
<1>1. Typed'
  BY DEF Typed, Ops
<1>2. Owned'
  BY DEF Owned, Typed
<1>3. Quiet'
  BY DEF Quiet, NothingUsedAfterDenial, Typed
<1>4. Turn'
  BY DEF Turn
<1>5. Settled'
  BY DEF Settled, Erased
<1> QED BY <1>1, <1>2, <1>3, <1>4, <1>5

LEMMA CommitRollbackStep ==
  ASSUME RetentionInv, NEW d \in Digests, CommitRollback(d)
  PROVE  RetentionInv'
<1> USE DEF RetentionInv, CommitRollback, journal, Fault
<1>1. Typed'
  BY DEF Typed, Ops
<1>2. Owned'
  BY DEF Owned, Typed
<1>3. Quiet'
  BY DEF Quiet, NothingUsedAfterDenial, Typed
<1>4. Turn'
  BY DEF Turn
<1>5. Settled'
  BY DEF Settled, Erased
<1> QED BY <1>1, <1>2, <1>3, <1>4, <1>5

LEMMA RegisterDerivedStep ==
  ASSUME RetentionInv, NEW d \in Digests, RegisterDerived(d)
  PROVE  RetentionInv'
<1> USE DEF RetentionInv, RegisterDerived, registerDerivedLineage, calls, world
<1>1. Typed'
  BY DEF Typed
<1>2. Owned'
  BY DEF Owned
<1>3. Quiet'
  BY DEF Quiet, NothingUsedAfterDenial
<1>4. Turn'
  BY DEF Turn
<1>5. Settled'
  BY DEF Settled, Erased
<1> QED BY <1>1, <1>2, <1>3, <1>4, <1>5

LEMMA ReappearStep ==
  ASSUME RetentionInv, NEW d \in Digests, Reappear(d)
  PROVE  RetentionInv'
<1> USE DEF RetentionInv, Reappear, journal, calls, Fault
<1>1. Typed'
  BY DEF Typed
<1>2. Owned'
  BY DEF Owned
<1>3. Quiet'
  BY DEF Quiet, NothingUsedAfterDenial
<1>4. Turn'
  BY DEF Turn
<1>5. Settled'
  BY DEF Settled, Erased, Turn
<1> QED BY <1>1, <1>2, <1>3, <1>4, <1>5

LEMMA ReadBeginStep ==
  ASSUME RetentionInv, NEW r \in Readers, NEW d \in Digests, ReadBegin(r, d)
  PROVE  RetentionInv'
<1> USE DEF RetentionInv, ReadBegin, UseAllowed, journal, world
<1>1. Typed'
  BY DEF Typed
<1>2. Owned'
  BY DEF Owned
<1>3. Quiet'
  BY DEF Quiet, NothingUsedAfterDenial, Typed
<1>4. Turn'
  BY DEF Turn
<1>5. Settled'
  BY DEF Settled, Erased
<1> QED BY <1>1, <1>2, <1>3, <1>4, <1>5

LEMMA ReadEndStep ==
  ASSUME RetentionInv, NEW r \in Readers, ReadEnd(r)
  PROVE  RetentionInv'
<1> USE DEF RetentionInv, ReadEnd, journal, world
<1>1. Typed'
  BY DEF Typed
<1>2. Owned'
  BY DEF Owned
<1>3. Quiet'
  BY DEF Quiet, NothingUsedAfterDenial, Typed
<1>4. Turn'
  BY DEF Turn
<1>5. Settled'
  BY DEF Settled, Erased
<1> QED BY <1>1, <1>2, <1>3, <1>4, <1>5

(* What the calls of enforceStop keep true of the line of stops: whoever   *)
(* is not the one that moved still waits or rests.                         *)
CallsKept(s) ==
  /\ stop' \in [Stops -> StopCall] /\ line' \in Seq(Stops) /\ Turn'
  /\ \A t \in Stops :
       /\ stop'[t].todo \subseteq owned
       /\ stop'[t].pc \in {"erase", "erased", "tombstone"} => stop'[t].digest \in owned
       /\ stop'[t].pc = "checkpoint" => t = s

LEMMA Leaves ==
  ASSUME RetentionInv, NEW s \in Stops, NEW l, NEW how, At(s, l), Leave(s, how), denied' = denied
  PROVE  CallsKept(s) /\ stop'[s] = Resting
<1> USE DEF RetentionInv, Typed, At
<1>1. Resting \in StopCall
  BY DEF Resting, StopCall, Places
<1>2. stop' \in [Stops -> StopCall] /\ stop'[s] = Resting
  BY <1>1 DEF Leave
<1>3. line' \in Seq(Stops)
  BY DEF Leave
<1>4. ASSUME NEW t \in Stops, t # s
      PROVE  stop'[t] = stop[t] /\ stop[t].pc \in {"idle", "wait"}
  BY <1>4 DEF Leave, Turn, StopCall, Places
<1>5. Turn'
  BY <1>2, <1>4 DEF Turn, Resting
<1>6. ASSUME NEW t \in Stops
      PROVE  /\ stop'[t].todo \subseteq owned
             /\ stop'[t].pc \in {"idle", "wait"}
  BY <1>2, <1>4, <1>6 DEF Resting, Owned
<1> QED BY <1>2, <1>3, <1>5, <1>6 DEF CallsKept

LEMMA Goes ==
  ASSUME RetentionInv, NEW s \in Stops, NEW l, At(s, l), denied, denied' = denied, line' = line,
         NEW c \in StopCall, stop' = [stop EXCEPT ![s] = c],
         c.todo \subseteq owned, c.pc \in {"erase", "erased", "tombstone"} => c.digest \in owned
  PROVE  CallsKept(s) /\ stop'[s] = c
<1> USE DEF RetentionInv, Typed, At
<1>1. stop' \in [Stops -> StopCall] /\ stop'[s] = c
  OBVIOUS
<1>2. ASSUME NEW t \in Stops, t # s
      PROVE  stop'[t] = stop[t] /\ stop[t].pc \in {"idle", "wait"}
  BY <1>2 DEF Turn, StopCall, Places
<1>3. Turn'
  BY <1>1, <1>2 DEF Turn
<1>4. ASSUME NEW t \in Stops
      PROVE  /\ stop'[t].todo \subseteq owned
             /\ stop'[t].pc \in {"erase", "erased", "tombstone"} => stop'[t].digest \in owned
             /\ stop'[t].pc = "checkpoint" => t = s
  BY <1>1, <1>2, <1>4 DEF Owned
<1> QED BY <1>1, <1>3, <1>4 DEF CallsKept

(* The rest of the state in a step of enforceStop after the denial: copies *)
(* may go, tombstones may come, both of owned artifacts.                   *)
LEMMA StopKeeps ==
  ASSUME RetentionInv, NEW s \in Stops, CallsKept(s),
         UNCHANGED <<owned, denied, digestDenied, op, reader>>,
         copies' \subseteq copies, tombstones \subseteq tombstones', tombstones' \subseteq owned,
         plan' \in [Stops -> [made : BOOLEAN, scope : SUBSET Digests]],
         \A t \in Stops : plan'[t].scope \subseteq owned,
         \A d \in certified' \ certified : Erased(d)' /\ denied,
         stop'[s].pc = "checkpoint" => \A d \in plan'[s].scope : Erased(d)'
  PROVE  RetentionInv'
<1>1. Typed'
  BY DEF RetentionInv, Typed, CallsKept
<1>2. Owned'
  BY DEF RetentionInv, Owned, CallsKept
<1>3. Quiet'
  BY DEF RetentionInv, Quiet, NothingUsedAfterDenial
<1>4. Settled'
  BY DEF RetentionInv, Settled, CallsKept, Erased
<1> QED BY <1>1, <1>2, <1>3, <1>4 DEF RetentionInv, CallsKept

(* What a step past the wait may rely on.                                  *)
LEMMA Past ==
  ASSUME RetentionInv, NEW s \in Stops, NEW l \in Places \ {"idle", "wait"}, At(s, l)
  PROVE  /\ denied /\ denied = TRUE /\ stop[s] \in StopCall /\ stop[s].todo \subseteq owned
         /\ plan \in [Stops -> [made : BOOLEAN, scope : SUBSET Digests]]
         /\ plan[s].scope \subseteq owned /\ owned \subseteq Digests
         /\ \A t \in Stops : plan[t].scope \subseteq owned
         /\ tombstones \subseteq owned
  BY DEF RetentionInv, Typed, Owned, Turn, At, Places

(* The end of a call that erases nothing more.                             *)
LEMMA LeaveKeeps ==
  ASSUME RetentionInv, NEW s \in Stops, NEW l \in Places \ {"idle", "wait"}, NEW how,
         At(s, l), Leave(s, how),
         UNCHANGED <<owned, denied, digestDenied, plan, tombstones, copies, op, reader>>,
         \A d \in certified' \ certified : Erased(d)' /\ denied
  PROVE  RetentionInv'
<1>1. CallsKept(s) /\ stop'[s] = Resting
  BY Leaves
<1>2. /\ plan' \in [Stops -> [made : BOOLEAN, scope : SUBSET Digests]]
      /\ \A t \in Stops : plan'[t].scope \subseteq owned
      /\ tombstones' \subseteq owned /\ stop'[s].pc # "checkpoint"
  <2>1. /\ plan \in [Stops -> [made : BOOLEAN, scope : SUBSET Digests]]
        /\ \A t \in Stops : plan[t].scope \subseteq owned
        /\ tombstones \subseteq owned
    BY Past
  <2> QED BY <1>1, <2>1 DEF Resting
<1> QED BY <1>1, <1>2, StopKeeps

(* A call takes its place in the line.                                     *)
LEMMA Joins ==
  ASSUME RetentionInv, NEW s \in Stops, stop[s].pc = "idle", line' = Append(line, s),
         Goto(s, "wait"), UNCHANGED <<journal, copies, op, reader, certified>>
  PROVE  RetentionInv'
<1> USE DEF RetentionInv, Typed
<1> DEFINE c == [stop[s] EXCEPT !.pc = "wait"]
<1>1. /\ c \in StopCall /\ c.pc = "wait" /\ c.todo = stop[s].todo
      /\ stop' = [stop EXCEPT ![s] = c]
  BY DEF StopCall, Places, Goto
<1> HIDE DEF c
<1>2. /\ stop' \in [Stops -> StopCall] /\ stop'[s] = c
      /\ \A t \in Stops : t # s => stop'[t] = stop[t]
  BY <1>1
<1>3. line' \in Seq(Stops) /\ line' # <<>> /\ (line # <<>> => Head(line') = Head(line))
  OBVIOUS
<1>4. Turn'
  BY <1>1, <1>2, <1>3 DEF Turn, journal
<1>5. Typed'
  BY <1>2, <1>3 DEF journal
<1>6. Owned'
  BY <1>1, <1>2 DEF Owned, journal
<1>7. Quiet' /\ Settled'
  BY <1>1, <1>2 DEF Quiet, NothingUsedAfterDenial, Settled, Erased, journal
<1> QED BY <1>4, <1>5, <1>6, <1>7

LEMMA StopBeginStep ==
  ASSUME RetentionInv, NEW s \in Stops, StopBegin(s)
  PROVE  RetentionInv'
  BY Joins DEF StopBegin

LEMMA StopAgainStep ==
  ASSUME RetentionInv, NEW s \in Stops, StopAgain(s)
  PROVE  RetentionInv'
  BY Joins DEF StopAgain

LEMMA StopRecordStep ==
  ASSUME RetentionInv, NEW s \in Stops, StopRecord(s)
  PROVE  RetentionInv'
<1> USE DEF RetentionInv, Typed
<1>1. /\ At(s, "wait") /\ ActiveOperations = 0 /\ denied' = TRUE
      /\ digestDenied' = digestDenied \union owned
      /\ UNCHANGED <<owned, plan, tombstones, copies, op, reader, certified, line>>
  BY DEF StopRecord, recordStopAndDenials
<1> DEFINE c == [stop[s] EXCEPT !.pc = "plan"]
<1>2. /\ c \in StopCall /\ c.pc = "plan" /\ c.todo = stop[s].todo
      /\ stop' = [stop EXCEPT ![s] = c]
  BY DEF StopCall, Places, Goto, StopRecord
<1> HIDE DEF c
<1>3. stop' \in [Stops -> StopCall] /\ stop'[s] = c /\ \A t \in Stops : t # s => stop'[t] = stop[t]
  BY <1>2
<1>4. Typed'
  BY <1>1, <1>3
<1>5. Owned'
  BY <1>1, <1>2, <1>3 DEF Owned
<1>6. Quiet'
  BY <1>1, NoneActive DEF Quiet, NothingUsedAfterDenial
<1>7. Turn'
  BY <1>1, <1>2, <1>3 DEF Turn, At
<1>8. Settled'
  BY <1>1, <1>2, <1>3 DEF Settled, Erased
<1> QED BY <1>4, <1>5, <1>6, <1>7, <1>8

LEMMA StopTimeoutStep ==
  ASSUME RetentionInv, NEW s \in Stops, StopTimeout(s)
  PROVE  RetentionInv'
<1>1. /\ At(s, "wait") /\ Leave(s, "failed")
      /\ UNCHANGED <<owned, denied, digestDenied, plan, tombstones, copies, op, reader, certified>>
  BY DEF StopTimeout, journal
<1>2. CallsKept(s) /\ stop'[s] = Resting
  BY <1>1, Leaves
<1>3. /\ plan' \in [Stops -> [made : BOOLEAN, scope : SUBSET Digests]]
      /\ \A t \in Stops : plan'[t].scope \subseteq owned
      /\ tombstones' \subseteq owned /\ stop'[s].pc # "checkpoint"
  BY <1>1, <1>2 DEF RetentionInv, Typed, Owned, Resting
<1> QED BY <1>1, <1>2, <1>3, StopKeeps

LEMMA StopPlanStep ==
  ASSUME RetentionInv, NEW s \in Stops, StopPlan(s)
  PROVE  RetentionInv'
<1>1. At(s, "plan") /\ "plan" \in Places \ {"idle", "wait"}
  BY DEF StopPlan, Places
<1>2. CASE plan[s].made /\ plan[s].scope # owned
  <2>1. Leave(s, "failed") /\ plan' = plan
    BY <1>2 DEF StopPlan
  <2> QED BY <1>1, <2>1, LeaveKeeps DEF StopPlan, world
<1>3. CASE ~(plan[s].made /\ plan[s].scope # owned)
  <2> DEFINE c == [stop[s] EXCEPT !.pc = IF receipts[s] = <<>> THEN "settle" ELSE "revisit",
                                  !.prior = receipts[s] # <<>>]
  <2>1. stop' = [stop EXCEPT ![s] = c] /\ line' = line /\ recordPlan(s, owned)
    BY <1>3 DEF StopPlan
  <2>2. c \in StopCall /\ c.pc \in {"settle", "revisit"} /\ c.todo = stop[s].todo
    BY <1>1, Past DEF StopCall, Places
  <2> HIDE DEF c
  <2>3. CallsKept(s) /\ stop'[s] = c
    BY <1>1, <2>1, <2>2, Past, Goes DEF StopPlan
  <2>4. /\ plan' \in [Stops -> [made : BOOLEAN, scope : SUBSET Digests]]
        /\ \A t \in Stops : plan'[t].scope \subseteq owned
    BY <1>1, <2>1, Past DEF recordPlan
  <2> QED BY <1>1, <2>2, <2>3, <2>4, Past, StopKeeps DEF StopPlan, world
<1> QED BY <1>2, <1>3

LEMMA StopRevisitStep ==
  ASSUME RetentionInv, NEW s \in Stops, StopRevisit(s)
  PROVE  RetentionInv'
<1>1. At(s, "revisit") /\ "revisit" \in Places \ {"idle", "wait"}
  BY DEF StopRevisit, Places
<1>2. UNCHANGED <<owned, denied, digestDenied, plan, tombstones, copies, op, reader>>
  BY DEF StopRevisit
<1>3. CASE Leave(s, "failed") /\ certified' = certified
  BY <1>1, <1>2, <1>3, LeaveKeeps
<1>4. CASE PlanErased(s) /\ Leave(s, "receipt") /\ Certify(s)
  <2>1. \A d \in certified' \ certified : Erased(d)' /\ denied
    BY <1>1, <1>2, <1>4, Past DEF Certify, PlanErased, Erased
  <2> QED BY <1>1, <1>2, <1>4, <2>1, LeaveKeeps
<1>5. CASE Goto(s, "settle") /\ UNCHANGED <<line, certified>>
  <2> DEFINE c == [stop[s] EXCEPT !.pc = "settle"]
  <2>1. c \in StopCall /\ c.pc = "settle" /\ c.todo = stop[s].todo /\ stop' = [stop EXCEPT ![s] = c]
    BY <1>1, <1>5, Past DEF StopCall, Places, Goto
  <2> HIDE DEF c
  <2>2. CallsKept(s) /\ stop'[s] = c
    BY <1>1, <1>2, <1>5, <2>1, Past, Goes
  <2> QED BY <1>1, <1>2, <1>5, <2>1, <2>2, Past, StopKeeps
<1> QED BY <1>3, <1>4, <1>5 DEF StopRevisit

LEMMA StopSettleStep ==
  ASSUME RetentionInv, NEW s \in Stops, StopSettle(s)
  PROVE  RetentionInv'
<1>1. At(s, "settle") /\ "settle" \in Places \ {"idle", "wait"}
  BY DEF StopSettle, Places
<1>2. UNCHANGED <<owned, denied, digestDenied, plan, tombstones, copies, op, reader, certified>>
  BY DEF StopSettle, journal
<1>3. CASE Leave(s, "failed")
  BY <1>1, <1>2, <1>3, LeaveKeeps
<1>4. CASE line' = line /\ stop' = [stop EXCEPT ![s].pc = "next", ![s].todo = plan[s].scope]
  <2> DEFINE c == [stop[s] EXCEPT !.pc = "next", !.todo = plan[s].scope]
  <2>1. c \in StopCall /\ c.pc = "next" /\ c.todo = plan[s].scope /\ stop' = [stop EXCEPT ![s] = c]
    BY <1>1, <1>4, Past DEF StopCall, Places
  <2> HIDE DEF c
  <2>2. CallsKept(s) /\ stop'[s] = c
    BY <1>1, <1>2, <1>4, <2>1, Past, Goes
  <2> QED BY <1>1, <1>2, <2>1, <2>2, Past, StopKeeps
<1> QED BY <1>3, <1>4 DEF StopSettle

LEMMA EraseNextStep ==
  ASSUME RetentionInv, NEW s \in Stops, EraseNext(s)
  PROVE  RetentionInv'
<1>1. PICK d \in stop[s].todo :
        /\ At(s, "next")
        /\ UNCHANGED <<owned, denied, digestDenied, plan, tombstones, copies, op, reader, certified>>
        /\ \/ Leave(s, "failed")
           \/ line' = line /\ stop' = [stop EXCEPT ![s].todo = @ \ {d}]
           \/ line' = line /\ stop' = [stop EXCEPT ![s].pc = "tombstone", ![s].digest = d]
           \/ line' = line /\ stop' = [stop EXCEPT ![s].pc = "erase", ![s].digest = d]
  BY DEF EraseNext
<1>2. /\ At(s, "next") /\ "next" \in Places \ {"idle", "wait"} /\ stop[s].pc = "next"
      /\ UNCHANGED <<owned, denied, digestDenied, plan, tombstones, copies, op, reader, certified>>
  BY <1>1 DEF Places, At
<1>3. d \in owned /\ d \in Nat
  <2>1. stop[s].todo \subseteq owned /\ owned \subseteq Digests
    BY <1>2, Past
  <2> QED BY <1>1, <2>1, RetentionAssumption DEF Digests
<1>4. CASE Leave(s, "failed")
  BY <1>2, <1>4, LeaveKeeps
<1>5. ASSUME NEW c \in StopCall, c.todo \subseteq stop[s].todo, c.digest = d \/ c.pc = "next",
             c.pc # "checkpoint", line' = line, stop' = [stop EXCEPT ![s] = c]
      PROVE  RetentionInv'
  <2>1. CallsKept(s) /\ stop'[s] = c
    <3>1. denied /\ c.todo \subseteq owned
      BY <1>2, <1>5, Past
    <3> QED BY <1>2, <1>3, <1>5, <3>1, Goes
  <2> QED BY <1>2, <1>5, <2>1, Past, StopKeeps
<1>6. CASE line' = line /\ stop' = [stop EXCEPT ![s].todo = @ \ {d}]
  <2> DEFINE c == [stop[s] EXCEPT !.todo = @ \ {d}]
  <2>1. /\ c \in StopCall /\ c.pc = "next" /\ c.todo \subseteq stop[s].todo
        /\ stop' = [stop EXCEPT ![s] = c]
    BY <1>2, <1>6, Past DEF StopCall
  <2> HIDE DEF c
  <2> QED BY <1>5, <1>6, <2>1
<1>7. ASSUME NEW p \in {"tombstone", "erase"}, line' = line,
             stop' = [stop EXCEPT ![s].pc = p, ![s].digest = d]
      PROVE  RetentionInv'
  <2> DEFINE c == [stop[s] EXCEPT !.pc = p, !.digest = d]
  <2>1. /\ c \in StopCall /\ c.pc = p /\ c.todo = stop[s].todo /\ c.digest = d
        /\ stop' = [stop EXCEPT ![s] = c]
    <3>1. stop[s] \in StopCall
      BY <1>2, Past
    <3> QED BY <3>1, <1>3, <1>7 DEF StopCall, Places
  <2> HIDE DEF c
  <2> QED BY <1>5, <1>7, <2>1
<1> QED BY <1>1, <1>4, <1>6, <1>7

LEMMA EraseCopiesStep ==
  ASSUME RetentionInv, NEW s \in Stops, EraseCopies(s)
  PROVE  RetentionInv'
<1>1. At(s, "erase") /\ "erase" \in Places \ {"idle", "wait"}
  BY DEF EraseCopies, Places
<1>2. UNCHANGED <<owned, denied, digestDenied, plan, tombstones, op, reader, certified>>
  BY DEF EraseCopies
<1>3. CASE Leave(s, "failed") /\ copies' = copies
  BY <1>1, <1>2, <1>3, LeaveKeeps
<1>4. CASE copies' = copies \ {stop[s].digest} /\ Goto(s, "erased") /\ line' = line
  <2> DEFINE c == [stop[s] EXCEPT !.pc = "erased"]
  <2>1. /\ c \in StopCall /\ c.pc = "erased" /\ c.todo = stop[s].todo /\ c.digest = stop[s].digest
        /\ stop' = [stop EXCEPT ![s] = c]
    BY <1>1, <1>4, Past DEF StopCall, Places, Goto
  <2>2. stop[s].digest \in owned
    BY <1>1 DEF RetentionInv, Owned, At
  <2> HIDE DEF c
  <2>3. CallsKept(s) /\ stop'[s] = c
    BY <1>1, <1>2, <1>4, <2>1, <2>2, Past, Goes
  <2> QED BY <1>1, <1>2, <1>4, <2>1, <2>3, Past, StopKeeps
<1> QED BY <1>3, <1>4 DEF EraseCopies

LEMMA EraseRecordedStep ==
  ASSUME RetentionInv, NEW s \in Stops, EraseRecorded(s)
  PROVE  RetentionInv'
<1>1. /\ At(s, "erased") /\ "erased" \in Places \ {"idle", "wait"}
      /\ UNCHANGED <<owned, denied, digestDenied, plan, tombstones, copies, op, reader, certified, line>>
  BY DEF EraseRecorded, Places
<1> DEFINE c == [stop[s] EXCEPT !.pc = "tombstone"]
<1>2. /\ c \in StopCall /\ c.pc = "tombstone" /\ c.todo = stop[s].todo /\ c.digest = stop[s].digest
      /\ stop' = [stop EXCEPT ![s] = c]
  BY <1>1, Past DEF StopCall, Places, Goto, EraseRecorded
<1>3. stop[s].digest \in owned
  BY <1>1 DEF RetentionInv, Owned, At
<1> HIDE DEF c
<1>4. CallsKept(s) /\ stop'[s] = c
  BY <1>1, <1>2, <1>3, Past, Goes
<1> QED BY <1>1, <1>2, <1>4, Past, StopKeeps

LEMMA EraseTombstoneStep ==
  ASSUME RetentionInv, NEW s \in Stops, EraseTombstone(s)
  PROVE  RetentionInv'
<1>1. /\ At(s, "tombstone") /\ "tombstone" \in Places \ {"idle", "wait"}
      /\ UNCHANGED <<owned, denied, digestDenied, plan, copies, op, reader, certified, line>>
      /\ tombstones' = tombstones \union {stop[s].digest}
  BY DEF EraseTombstone, Places, recordTombstone
<1> DEFINE c == [stop[s] EXCEPT !.pc = "next", !.todo = @ \ {stop[s].digest}, !.digest = 0]
<1>2. /\ c \in StopCall /\ c.pc = "next" /\ c.todo \subseteq stop[s].todo
      /\ stop' = [stop EXCEPT ![s] = c]
  BY <1>1, Past DEF StopCall, Places, EraseTombstone
<1>3. stop[s].digest \in owned
  BY <1>1 DEF RetentionInv, Owned, At
<1> HIDE DEF c
<1>4. CallsKept(s) /\ stop'[s] = c
  BY <1>1, <1>2, Past, Goes
<1> QED BY <1>1, <1>2, <1>3, <1>4, Past, StopKeeps

LEMMA StopVerifyStep ==
  ASSUME RetentionInv, NEW s \in Stops, StopVerify(s)
  PROVE  RetentionInv'
<1>1. /\ At(s, "next") /\ "next" \in Places \ {"idle", "wait"}
      /\ UNCHANGED <<owned, denied, digestDenied, plan, tombstones, copies, op, reader>>
  BY DEF StopVerify, Places, world
<1>2. \/ Leave(s, "failed") /\ certified' = certified
      \/ PlanErased(s) /\ Leave(s, "receipt") /\ Certify(s)
      \/ \E p \in {"plan", "checkpoint"} :
           Goto(s, p) /\ line' = line /\ certified' = certified /\ PlanErased(s)
  BY DEF StopVerify
<1>3. CASE Leave(s, "failed") /\ certified' = certified
  BY <1>1, <1>3, LeaveKeeps
<1>4. CASE PlanErased(s) /\ Leave(s, "receipt") /\ Certify(s)
  <2>1. \A d \in certified' \ certified : Erased(d)' /\ denied
    BY <1>1, <1>4, Past DEF Certify, PlanErased, Erased
  <2> QED BY <1>1, <1>4, <2>1, LeaveKeeps
<1>5. ASSUME NEW p \in {"plan", "checkpoint"}, Goto(s, p), line' = line, certified' = certified,
             PlanErased(s)
      PROVE  RetentionInv'
  <2> DEFINE c == [stop[s] EXCEPT !.pc = p]
  <2>1. c \in StopCall /\ c.pc = p /\ c.todo = stop[s].todo /\ stop' = [stop EXCEPT ![s] = c]
    BY <1>1, <1>5, Past DEF StopCall, Places, Goto
  <2> HIDE DEF c
  <2>2. CallsKept(s) /\ stop'[s] = c
    BY <1>1, <1>5, <2>1, Past, Goes
  <2>3. \A d \in plan'[s].scope : Erased(d)'
    BY <1>1, <1>5 DEF PlanErased, Erased
  <2> QED BY <1>1, <1>5, <2>2, <2>3, Past, StopKeeps
<1> QED BY <1>2, <1>3, <1>4, <1>5

LEMMA StopCheckpointStep ==
  ASSUME RetentionInv, NEW s \in Stops, StopCheckpoint(s)
  PROVE  RetentionInv'
<1>1. /\ At(s, "checkpoint") /\ "checkpoint" \in Places \ {"idle", "wait"}
      /\ Leave(s, "receipt") /\ Certify(s)
      /\ UNCHANGED <<owned, denied, digestDenied, plan, tombstones, copies, op, reader>>
  BY DEF StopCheckpoint, Places, world
<1>2. \A d \in certified' \ certified : Erased(d)' /\ denied
  <2>1. denied /\ \A d \in plan[s].scope : Erased(d)
    BY <1>1, Past DEF RetentionInv, Settled, At
  <2> QED BY <1>1, <2>1 DEF Certify, Erased
<1> QED BY <1>1, <1>2, LeaveKeeps

LEMMA ExpireStep ==
  ASSUME RetentionInv, Expire
  PROVE  RetentionInv'
<1> USE DEF RetentionInv, Expire, journal, calls
<1>1. Typed'
  BY DEF Typed
<1>2. Owned'
  BY DEF Owned
<1>3. Quiet'
  BY DEF Quiet, NothingUsedAfterDenial
<1>4. Turn'
  BY DEF Turn
<1>5. Settled'
  BY DEF Settled, Erased
<1> QED BY <1>1, <1>2, <1>3, <1>4, <1>5

LEMMA DeadlinePassesStep ==
  ASSUME RetentionInv, DeadlinePasses
  PROVE  RetentionInv'
<1> USE DEF RetentionInv, DeadlinePasses, journal, calls
<1>1. Typed'
  BY DEF Typed
<1>2. Owned'
  BY DEF Owned
<1>3. Quiet'
  BY DEF Quiet, NothingUsedAfterDenial
<1>4. Turn'
  BY DEF Turn
<1>5. Settled'
  BY DEF Settled, Erased
<1> QED BY <1>1, <1>2, <1>3, <1>4, <1>5

LEMMA CrashStep ==
  ASSUME RetentionInv, Crash
  PROVE  RetentionInv'
<1> USE DEF RetentionInv, Crash, Resting, journal, Fault
<1>1. Typed'
  BY DEF Typed, Ops, StopCall, Places
<1>2. Owned'
  BY DEF Owned
<1>3. Quiet'
  BY DEF Quiet, NothingUsedAfterDenial
<1>4. Turn'
  BY DEF Turn
<1>5. Settled'
  BY DEF Settled, Erased
<1> QED BY <1>1, <1>2, <1>3, <1>4, <1>5

LEMMA NextInv == RetentionInv /\ [Next]_vars => RetentionInv'
<1> SUFFICES ASSUME RetentionInv, [Next]_vars PROVE RetentionInv'
  OBVIOUS
<1>1. CASE UNCHANGED vars
  BY <1>1 DEF vars, journal, calls, RetentionInv, Typed, Owned, Quiet, NothingUsedAfterDenial, Turn,
              Settled, Erased
<1>2. CASE Operation
  BY <1>2, CommitStoredStep, CommitCheckStep, CommitRollbackStep, ReadEndStep DEF Operation
<1>3. ASSUME NEW d \in Digests, CommitBegin(d) \/ RegisterDerived(d) \/ Reappear(d)
      PROVE  RetentionInv'
  BY <1>3, CommitBeginStep, RegisterDerivedStep, ReappearStep
<1>4. ASSUME NEW r \in Readers, NEW d \in Digests, ReadBegin(r, d)
      PROVE  RetentionInv'
  BY <1>4, ReadBeginStep
<1>5. ASSUME NEW s \in Stops, StopBegin(s) \/ StopAgain(s) \/ StopStep(s)
      PROVE  RetentionInv'
  BY <1>5, StopBeginStep, StopAgainStep, StopRecordStep, StopTimeoutStep, StopPlanStep,
     StopRevisitStep, StopSettleStep, EraseNextStep, EraseCopiesStep, EraseRecordedStep,
     EraseTombstoneStep, StopVerifyStep, StopCheckpointStep DEF StopStep
<1>6. CASE Expire \/ DeadlinePasses \/ Crash
  BY <1>6, ExpireStep, DeadlinePassesStep, CrashStep
<1> QED BY <1>1, <1>2, <1>3, <1>4, <1>5, <1>6 DEF Next

LEMMA RetentionInvariant == Spec => []RetentionInv
  BY InitInv, NextInv, PTL DEF Spec

-----------------------------------------------------------------------------

(* After a stop recorded the provider's denial nothing is used, and at all *)
(* times every copy is one that a stop's plan would list.                  *)
THEOREM UseReallyStops == Spec => []UseStops
<1>1. RetentionInv => UseStops
  BY DEF RetentionInv, Owned, Quiet, UseStops, CopiesOwned, NothingUsedAfterDenial
<1> QED BY <1>1, RetentionInvariant, PTL

(* Once the denial is recorded, no commit can add an ownership row: the    *)
(* plan that is derived from the rows afterwards covers all there will be. *)
THEOREM DenialFreezesScope == Spec => ScopeFrozen
<1>1. RetentionInv /\ [Next]_vars => [denied => owned' = owned]_vars
  <2> SUFFICES ASSUME Next, denied PROVE owned' = owned
    BY DEF vars
  <2>1. ~MayBegin
    BY DEF MayBegin, AnyUseDenied
  <2> QED BY <2>1 DEF Next, Operation, StopStep, CommitBegin, CommitStored, CommitCheck,
       CommitRollback, ReadEnd, ReadBegin, RegisterDerived, Reappear, StopBegin, StopAgain,
       StopRecord, StopTimeout, StopPlan, StopRevisit, StopSettle, EraseNext, EraseCopies,
       EraseRecorded, EraseTombstone, StopVerify, StopCheckpoint, Expire, DeadlinePasses, Crash,
       journal
<1> QED BY <1>1, RetentionInvariant, PTL DEF Spec, ScopeFrozen

(* What a receipt certified stays true, whatever was under way when the    *)
(* stop came and wherever the process died before it was returned.         *)
THEOREM ReceiptsStayTrue == Spec => []ReceiptMeansErased
<1>1. RetentionInv => ReceiptMeansErased
  BY DEF RetentionInv, Settled, Erased, ReceiptMeansErased
<1> QED BY <1>1, RetentionInvariant, PTL

-----------------------------------------------------------------------------
(* The counts of attempts.                                                 *)

Tries == [n : Nat, last : {"none", "started", "failed", "done"}]
Working == {"revisit", "settle", "next", "erase", "erased", "tombstone"}

Revalidable(s) ==
  /\ receipts[s] # <<>> => Physical(s) >= LatestReceipt(s)
  /\ \A i \in 1..(Len(receipts[s]) - 1) : receipts[s][i] < receipts[s][i + 1]

(* What a stop's counts rest on: one plan per stop, a receipt only for a   *)
(* plan, and no attempt left open among the digests it is done with.       *)
CountedAt(s) ==
  /\ receipts[s] # <<>> => plan[s].made
  /\ stop[s].pc \in Working => plan[s].made /\ (stop[s].prior <=> receipts[s] # <<>>)
  /\ stop[s].pc \in {"next", "erase", "erased", "tombstone"} =>
       \A d \in plan[s].scope \ stop[s].todo : ~Pending(s, d)
  /\ stop[s].pc = "tombstone" => ~Pending(s, stop[s].digest)
  /\ Revalidable(s)

Counts ==
  /\ tries \in [Stops -> [Digests -> Tries]] /\ receipts \in [Stops -> Seq(Nat)]
  /\ \A s \in Stops : CountedAt(s)

(* The attempts at the digests of a scope, and those with an outcome.      *)
AttemptsAt(scope, t) == UNION {{d} \X (1..t[d].n) : d \in scope}
EndedAt(scope, t) == {a \in AttemptsAt(scope, t) : ~(t[a[1]].last = "started" /\ a[2] = t[a[1]].n)}

(* They are finitely many.                                                 *)
LEMMA AttemptsFinite ==
  ASSUME NEW t \in [Digests -> Tries], NEW scope \in SUBSET Digests
  PROVE  /\ IsFiniteSet(AttemptsAt(scope, t)) /\ IsFiniteSet(EndedAt(scope, t))
         /\ Cardinality(AttemptsAt(scope, t)) \in Nat /\ Cardinality(EndedAt(scope, t)) \in Nat
<1> DEFINE Of(d) == {d} \X (1..t[d].n)
           F == {Of(d) : d \in scope}
<1>1. \A d \in scope : t[d].n \in Nat
  BY DEF Tries
<1>2. IsFiniteSet(scope)
  <2>1. IsFiniteSet(Digests)
    BY RetentionAssumption, FS_Interval DEF Digests
  <2> QED BY <2>1, FS_Subset
<1>3. \A T \in F : IsFiniteSet(T)
  <2> SUFFICES ASSUME NEW d \in scope PROVE IsFiniteSet(Of(d))
    OBVIOUS
  <2>1. t[d].n \in Int
    BY <1>1
  <2>2. IsFiniteSet({d})
    BY FS_Singleton
  <2>3. IsFiniteSet(1..t[d].n)
    BY <2>1, FS_Interval
  <2> QED BY <2>2, <2>3, FS_Product
<1>4. IsFiniteSet(F)
  <2> DEFINE f == [d \in scope |-> Of(d)]
  <2>1. f \in Surjection(scope, F)
    BY DEF Surjection
  <2> HIDE DEF f, F
  <2> QED BY <1>2, <2>1, FS_Surjection
<1>5. IsFiniteSet(UNION F)
  <2> HIDE DEF F
  <2> QED BY <1>3, <1>4, FS_UNION
<1>6. IsFiniteSet(AttemptsAt(scope, t))
  BY <1>5 DEF AttemptsAt
<1>7. EndedAt(scope, t) \subseteq AttemptsAt(scope, t)
  BY DEF EndedAt
<1>8. IsFiniteSet(EndedAt(scope, t))
  BY <1>6, <1>7, FS_Subset
<1> QED BY <1>6, <1>8, FS_CardinalityType

(* An attempt is a digest of the scope and an ordinal up to its count.     *)
LEMMA EndedAre ==
  ASSUME NEW t, NEW scope, NEW a
  PROVE  a \in EndedAt(scope, t) <=>
           \E d \in scope : \E k \in 1..t[d].n : a = <<d, k>> /\ ~(t[d].last = "started" /\ k = t[d].n)
<1>1. a \in AttemptsAt(scope, t) <=> \E d \in scope : \E k \in 1..t[d].n : a = <<d, k>>
  BY DEF AttemptsAt
<1> QED BY <1>1 DEF EndedAt

(* What a step may do to the attempts at a digest: start the next one, or  *)
(* give the last one its outcome.                                          *)
Advances(t, u) ==
  \/ u = t
  \/ t.last # "started" /\ u = [n |-> t.n + 1, last |-> "started"]
  \/ u.n = t.n /\ u.last # "started"

(* Then no attempt that was counted is lost.                               *)
LEMMA CountGrows ==
  ASSUME NEW t \in [Digests -> Tries], NEW u \in [Digests -> Tries], NEW scope \in SUBSET Digests,
         \A d \in scope : Advances(t[d], u[d])
  PROVE  Cardinality(EndedAt(scope, t)) <= Cardinality(EndedAt(scope, u))
<1>1. EndedAt(scope, t) \subseteq EndedAt(scope, u)
  <2> SUFFICES ASSUME NEW a \in EndedAt(scope, t) PROVE a \in EndedAt(scope, u)
    OBVIOUS
  <2>0. PICK d \in scope : \E k \in 1..t[d].n : a = <<d, k>> /\ ~(t[d].last = "started" /\ k = t[d].n)
    BY EndedAre
  <2>1. PICK k \in 1..t[d].n : a = <<d, k>> /\ ~(t[d].last = "started" /\ k = t[d].n)
    BY <2>0
  <2>2. t[d] \in Tries /\ u[d] \in Tries /\ Advances(t[d], u[d])
    OBVIOUS
  <2>3. k \in 1..u[d].n /\ ~(u[d].last = "started" /\ k = u[d].n)
    BY <2>1, <2>2 DEF Advances, Tries
  <2> QED BY <2>1, <2>3, EndedAre
<1> QED BY <1>1, AttemptsFinite, FS_Subset

(* The count of a stop, before and after a step.                           *)
LEMMA PhysicalIs ==
  ASSUME NEW s \in Stops
  PROVE  /\ Physical(s) = Cardinality(EndedAt(plan[s].scope, tries[s]))
         /\ Physical(s)' = Cardinality(EndedAt(plan'[s].scope, tries'[s]))
<1>1. /\ Ended(s) = EndedAt(plan[s].scope, tries[s])
      /\ Ended(s)' = EndedAt(plan'[s].scope, tries'[s])
  BY DEF Ended, Attempts, EndedAt, AttemptsAt, Pending
<1> QED BY <1>1 DEF Physical

(* A step that keeps a stop's receipts and plan leaves them revalidable.   *)
LEMMA StaysRevalidable ==
  ASSUME RetentionInv, Counts, NEW s \in Stops,
         tries'[s] \in [Digests -> Tries], receipts'[s] = receipts[s],
         receipts[s] # <<>> => plan'[s].scope = plan[s].scope,
         \A d \in Digests : Advances(tries[s][d], tries'[s][d])
  PROVE  Revalidable(s)'
<1>1. tries[s] \in [Digests -> Tries] /\ plan[s].scope \in SUBSET Digests /\ receipts[s] \in Seq(Nat)
  BY DEF RetentionInv, Typed, Counts
<1>2. Revalidable(s)
  BY DEF Counts, CountedAt
<1>3. ASSUME receipts[s] # <<>>
      PROVE  Physical(s)' >= LatestReceipt(s)'
  <2>1. plan'[s].scope = plan[s].scope
    BY <1>3
  <2>2. \A d \in plan[s].scope : Advances(tries[s][d], tries'[s][d])
    BY <1>1
  <2>3. Cardinality(EndedAt(plan[s].scope, tries[s])) <= Cardinality(EndedAt(plan[s].scope, tries'[s]))
    BY <1>1, <2>2, CountGrows
  <2>4. /\ Cardinality(EndedAt(plan[s].scope, tries[s])) \in Nat
        /\ Cardinality(EndedAt(plan[s].scope, tries'[s])) \in Nat
    BY <1>1, AttemptsFinite
  <2>5. Physical(s) <= Physical(s)' /\ Physical(s) \in Nat /\ Physical(s)' \in Nat
    BY <2>1, <2>3, <2>4, PhysicalIs
  <2>6. LatestReceipt(s) \in Nat /\ LatestReceipt(s)' = LatestReceipt(s)
    BY <1>1, <1>3 DEF LatestReceipt
  <2> QED BY <1>2, <1>3, <2>5, <2>6 DEF Revalidable
<1>4. \A i \in 1..(Len(receipts'[s]) - 1) : receipts'[s][i] < receipts'[s][i + 1]
  BY <1>2 DEF Revalidable
<1> QED BY <1>3, <1>4 DEF Revalidable

(* A stop whose rows do not change, and whose call does not move or rests, *)
(* waits, plans again or has its receipt, keeps its counts.                *)
LEMMA RestKeepsCounts ==
  ASSUME RetentionInv, Counts, NEW t \in Stops,
         plan'[t] = plan[t], tries'[t] = tries[t], receipts'[t] = receipts[t],
         stop'[t] = stop[t] \/ stop'[t].pc \in {"idle", "wait", "plan", "checkpoint"}
  PROVE  CountedAt(t)'
<1>1. CountedAt(t) /\ tries[t] \in [Digests -> Tries]
  BY DEF Counts
<1>2. Revalidable(t)'
  BY <1>1, StaysRevalidable DEF Advances
<1>3. \A d : Pending(t, d)' <=> Pending(t, d)
  BY DEF Pending
<1>4. CASE stop'[t] = stop[t]
  BY <1>1, <1>2, <1>3, <1>4 DEF CountedAt
<1>5. CASE stop'[t].pc \in {"idle", "wait", "plan", "checkpoint"}
  BY <1>1, <1>2, <1>5 DEF CountedAt, Working
<1> QED BY <1>4, <1>5

(* No row of any stop changes.                                             *)
LEMMA IdleKeepsCounts ==
  ASSUME RetentionInv, Counts, UNCHANGED <<plan, tries, receipts>>,
         \A t \in Stops : stop'[t] = stop[t] \/ stop'[t].pc \in {"idle", "wait", "plan", "checkpoint"}
  PROVE  Counts'
<1>1. \A t \in Stops : CountedAt(t)'
  BY RestKeepsCounts
<1> QED BY <1>1 DEF Counts

(* One stop moves; the others keep their rows and their calls.             *)
LEMMA OneMoves ==
  ASSUME RetentionInv, Counts, NEW s \in Stops, CountedAt(s)',
         tries' \in [Stops -> [Digests -> Tries]], receipts' \in [Stops -> Seq(Nat)],
         \A t \in Stops \ {s} : /\ plan'[t] = plan[t] /\ tries'[t] = tries[t]
                                /\ receipts'[t] = receipts[t] /\ stop'[t] = stop[t]
  PROVE  Counts'
<1>1. ASSUME NEW t \in Stops \ {s} PROVE CountedAt(t)'
  BY <1>1, RestKeepsCounts
<1> QED BY <1>1 DEF Counts

LEMMA LeaveCounts ==
  ASSUME RetentionInv, Counts, NEW s \in Stops, NEW how, Leave(s, how), UNCHANGED <<plan, tries, receipts>>
  PROVE  Counts'
<1>1. \A t \in Stops : stop'[t] = stop[t] \/ stop'[t].pc = "idle"
  BY DEF Leave, Resting, RetentionInv, Typed
<1> QED BY <1>1, IdleKeepsCounts

LEMMA StopPlanCounts ==
  ASSUME RetentionInv, Counts, NEW s \in Stops, StopPlan(s)
  PROVE  Counts'
<1>1. CASE plan[s].made /\ plan[s].scope # owned
  BY <1>1, LeaveCounts DEF StopPlan
<1>2. CASE ~(plan[s].made /\ plan[s].scope # owned)
  <2>1. /\ plan' = [plan EXCEPT ![s] = [made |-> TRUE, scope |-> owned]]
        /\ stop' = [stop EXCEPT ![s].pc = IF receipts[s] = <<>> THEN "settle" ELSE "revisit",
                                ![s].prior = receipts[s] # <<>>]
        /\ UNCHANGED <<tries, receipts>>
    BY <1>2 DEF StopPlan, recordPlan
  <2>2. /\ stop'[s].pc = IF receipts[s] = <<>> THEN "settle" ELSE "revisit"
        /\ stop'[s].prior = (receipts[s] # <<>>)
        /\ plan'[s] = [made |-> TRUE, scope |-> owned]
        /\ \A t \in Stops \ {s} : plan'[t] = plan[t] /\ stop'[t] = stop[t]
    BY <2>1 DEF RetentionInv, Typed, StopCall
  <2>3. receipts[s] # <<>> => plan'[s].scope = plan[s].scope
    BY <1>2, <2>2 DEF Counts, CountedAt
  <2>4. tries[s] \in [Digests -> Tries]
    BY DEF Counts
  <2>5. Revalidable(s)'
    BY <2>1, <2>3, <2>4, StaysRevalidable DEF Advances
  <2>6. CountedAt(s)'
    <3>1. plan'[s].made
      BY <2>2
    <3>2. stop'[s].prior <=> receipts'[s] # <<>>
      BY <2>1, <2>2
    <3>3. stop'[s].pc \in {"settle", "revisit"}
      BY <2>2
    <3> QED BY <2>5, <3>1, <3>2, <3>3 DEF CountedAt
  <2> QED BY <2>1, <2>2, <2>6, OneMoves DEF Counts
<1> QED BY <1>1, <1>2

LEMMA StopRevisitCounts ==
  ASSUME RetentionInv, Counts, NEW s \in Stops, StopRevisit(s)
  PROVE  Counts'
<1>1. UNCHANGED <<plan, tries, receipts>> /\ stop[s].pc = "revisit"
  BY DEF StopRevisit, At
<1>2. CASE Leave(s, "failed") \/ Leave(s, "receipt")
  BY <1>1, <1>2, LeaveCounts
<1>3. CASE Goto(s, "settle")
  <2>1. /\ stop'[s].pc = "settle" /\ stop'[s].prior = stop[s].prior
        /\ \A t \in Stops \ {s} : stop'[t] = stop[t]
    BY <1>3 DEF Goto, RetentionInv, Typed, StopCall
  <2>2. tries[s] \in [Digests -> Tries] /\ CountedAt(s)
    BY DEF Counts
  <2>3. Revalidable(s)'
    BY <1>1, <2>2, StaysRevalidable DEF Advances
  <2>4. CountedAt(s)'
    BY <1>1, <2>1, <2>2, <2>3 DEF CountedAt, Working
  <2> QED BY <1>1, <2>1, <2>4, OneMoves DEF Counts
<1> QED BY <1>2, <1>3 DEF StopRevisit

LEMMA StopSettleCounts ==
  ASSUME RetentionInv, Counts, NEW s \in Stops, StopSettle(s)
  PROVE  Counts'
<1>1. UNCHANGED <<plan, tries, receipts>> /\ stop[s].pc = "settle"
  BY DEF StopSettle, At, journal
<1>2. CASE Leave(s, "failed")
  BY <1>1, <1>2, LeaveCounts
<1>3. CASE stop' = [stop EXCEPT ![s].pc = "next", ![s].todo = plan[s].scope]
  <2>1. /\ stop'[s].pc = "next" /\ stop'[s].prior = stop[s].prior /\ stop'[s].todo = plan[s].scope
        /\ \A t \in Stops \ {s} : stop'[t] = stop[t]
    BY <1>3 DEF RetentionInv, Typed, StopCall
  <2>2. tries[s] \in [Digests -> Tries] /\ CountedAt(s)
    BY DEF Counts
  <2>3. Revalidable(s)'
    BY <1>1, <2>2, StaysRevalidable DEF Advances
  <2>4. CountedAt(s)'
    BY <1>1, <2>1, <2>2, <2>3 DEF CountedAt, Working
  <2> QED BY <1>1, <2>1, <2>4, OneMoves DEF Counts
<1> QED BY <1>2, <1>3 DEF StopSettle

(* A step of the erasure loop that may write one row of one digest.        *)
LEMMA LoopCounts ==
  ASSUME RetentionInv, Counts, NEW s \in Stops, NEW d \in Digests, NEW u \in Tries, NEW c \in StopCall,
         stop[s].pc \in {"next", "erase", "erased", "tombstone"},
         UNCHANGED <<plan, receipts>>, stop' = [stop EXCEPT ![s] = c],
         tries' = [tries EXCEPT ![s][d] = u], Advances(tries[s][d], u),
         c.pc \in {"next", "erase", "erased", "tombstone"}, c.prior = stop[s].prior,
         c.todo = stop[s].todo \/ (c.todo = stop[s].todo \ {d} /\ u.last # "started"),
         u.last = "started" => d \in c.todo \/ tries[s][d] = u,
         c.pc = "tombstone" => c.digest = d /\ u.last # "started"
  PROVE  Counts'
<1>0. tries \in [Stops -> [Digests -> Tries]] /\ CountedAt(s) /\ stop \in [Stops -> StopCall]
      /\ plan[s].scope \subseteq Digests
  BY DEF Counts, RetentionInv, Typed
<1>1. /\ tries' \in [Stops -> [Digests -> Tries]] /\ tries'[s][d] = u /\ stop'[s] = c
      /\ \A e \in Digests \ {d} : tries'[s][e] = tries[s][e]
      /\ \A t \in Stops \ {s} : tries'[t] = tries[t] /\ stop'[t] = stop[t]
  BY <1>0
<1>2. \A e \in Digests : Advances(tries[s][e], tries'[s][e])
  BY <1>1 DEF Advances
<1>3. Revalidable(s)'
  BY <1>1, <1>2, StaysRevalidable
<1>4. \A e \in plan[s].scope \ c.todo : tries'[s][e].last # "started"
  BY <1>0, <1>1 DEF CountedAt, Pending
<1>5. CountedAt(s)'
  BY <1>0, <1>1, <1>3, <1>4 DEF CountedAt, Working, Pending
<1> QED BY <1>1, <1>5, OneMoves DEF Counts

LEMMA EraseNextCounts ==
  ASSUME RetentionInv, Counts, NEW s \in Stops, EraseNext(s)
  PROVE  Counts'
<1>0. PICK d \in stop[s].todo :
        /\ stop[s].pc = "next" /\ UNCHANGED <<plan, receipts>>
        /\ \/ Leave(s, "failed") /\ UNCHANGED tries
           \/ ~Pending(s, d) /\ stop' = [stop EXCEPT ![s].todo = @ \ {d}] /\ UNCHANGED tries
           \/ /\ tries[s][d].last = "done" /\ UNCHANGED tries
              /\ stop' = [stop EXCEPT ![s].pc = "tombstone", ![s].digest = d]
           \/ /\ stop' = [stop EXCEPT ![s].pc = "erase", ![s].digest = d]
              /\ IF Pending(s, d) THEN UNCHANGED tries
                 ELSE tries' = [tries EXCEPT ![s][d] = [n |-> tries[s][d].n + 1, last |-> "started"]]
  BY DEF EraseNext, At, recordAttempt
<1>1. /\ d \in Digests /\ d \in Nat /\ stop[s] \in StopCall /\ tries[s][d] \in Tries
      /\ tries \in [Stops -> [Digests -> Tries]] /\ stop \in [Stops -> StopCall]
  BY RetentionAssumption DEF RetentionInv, Typed, Counts, StopCall, Digests
<1>2. tries = [tries EXCEPT ![s][d] = tries[s][d]] /\ Advances(tries[s][d], tries[s][d])
  BY <1>1 DEF Advances
<1>3. CASE Leave(s, "failed") /\ UNCHANGED tries
  BY <1>0, <1>3, LeaveCounts
<1>4. CASE ~Pending(s, d) /\ stop' = [stop EXCEPT ![s].todo = @ \ {d}] /\ UNCHANGED tries
  <2> DEFINE c == [stop[s] EXCEPT !.todo = @ \ {d}]
  <2>1. /\ c \in StopCall /\ c.pc = "next" /\ c.todo = stop[s].todo \ {d} /\ c.prior = stop[s].prior
        /\ stop' = [stop EXCEPT ![s] = c]
    BY <1>0, <1>1, <1>4 DEF StopCall
  <2> HIDE DEF c
  <2>2. tries[s][d].last # "started" /\ tries' = [tries EXCEPT ![s][d] = tries[s][d]]
    BY <1>2, <1>4 DEF Pending
  <2> QED BY <1>0, <1>1, <1>2, <2>1, <2>2, LoopCounts
<1>5. CASE /\ tries[s][d].last = "done" /\ UNCHANGED tries
           /\ stop' = [stop EXCEPT ![s].pc = "tombstone", ![s].digest = d]
  <2> DEFINE c == [stop[s] EXCEPT !.pc = "tombstone", !.digest = d]
  <2>1. /\ c \in StopCall /\ c.pc = "tombstone" /\ c.todo = stop[s].todo /\ c.prior = stop[s].prior
        /\ c.digest = d /\ stop' = [stop EXCEPT ![s] = c]
    BY <1>0, <1>1, <1>5 DEF StopCall, Places
  <2> HIDE DEF c
  <2>2. tries[s][d].last # "started" /\ tries' = [tries EXCEPT ![s][d] = tries[s][d]]
    BY <1>2, <1>5
  <2> QED BY <1>0, <1>1, <1>2, <2>1, <2>2, LoopCounts
<1>6. CASE /\ stop' = [stop EXCEPT ![s].pc = "erase", ![s].digest = d]
           /\ IF Pending(s, d) THEN UNCHANGED tries
              ELSE tries' = [tries EXCEPT ![s][d] = [n |-> tries[s][d].n + 1, last |-> "started"]]
  <2> DEFINE c == [stop[s] EXCEPT !.pc = "erase", !.digest = d]
  <2>1. /\ c \in StopCall /\ c.pc = "erase" /\ c.todo = stop[s].todo /\ c.prior = stop[s].prior
        /\ stop' = [stop EXCEPT ![s] = c]
    BY <1>0, <1>1, <1>6 DEF StopCall, Places
  <2> HIDE DEF c
  <2>2. CASE Pending(s, d)
    <3>1. tries' = [tries EXCEPT ![s][d] = tries[s][d]]
      BY <1>2, <1>6, <2>2
    <3> QED BY <1>0, <1>1, <1>2, <2>1, <3>1, LoopCounts
  <2>3. CASE ~Pending(s, d)
    <3> DEFINE u == [n |-> tries[s][d].n + 1, last |-> "started"]
    <3>1. u \in Tries /\ Advances(tries[s][d], u)
      BY <1>1, <2>3 DEF Tries, Advances, Pending
    <3>2. tries' = [tries EXCEPT ![s][d] = u]
      BY <1>6, <2>3
    <3> HIDE DEF u
    <3> QED BY <1>0, <1>1, <2>1, <3>1, <3>2, LoopCounts
  <2> QED BY <2>2, <2>3
<1> QED BY <1>0, <1>3, <1>4, <1>5, <1>6

LEMMA EraseCopiesCounts ==
  ASSUME RetentionInv, Counts, NEW s \in Stops, EraseCopies(s)
  PROVE  Counts'
<1> DEFINE d == stop[s].digest
<1>0. stop[s].pc = "erase" /\ UNCHANGED <<plan, receipts>>
  BY DEF EraseCopies, At
<1>1. /\ d \in Digests /\ stop[s] \in StopCall /\ tries[s][d] \in Tries /\ plan[s].scope \subseteq Digests
      /\ tries \in [Stops -> [Digests -> Tries]] /\ stop \in [Stops -> StopCall]
  BY <1>0 DEF RetentionInv, Typed, Owned, Counts
<1>2. CASE Goto(s, "erased") /\ UNCHANGED tries
  <2> DEFINE c == [stop[s] EXCEPT !.pc = "erased"]
  <2>1. /\ c \in StopCall /\ c.pc = "erased" /\ c.todo = stop[s].todo /\ c.prior = stop[s].prior
        /\ stop' = [stop EXCEPT ![s] = c]
    BY <1>1, <1>2 DEF StopCall, Places, Goto
  <2> HIDE DEF c
  <2>2. tries' = [tries EXCEPT ![s][d] = tries[s][d]] /\ Advances(tries[s][d], tries[s][d])
    BY <1>1, <1>2 DEF Advances
  <2> QED BY <1>0, <1>1, <2>1, <2>2, LoopCounts
<1>3. CASE Leave(s, "failed") /\ recordAttempt(s, d, [tries[s][d] EXCEPT !.last = "failed"])
  <2> DEFINE u == [tries[s][d] EXCEPT !.last = "failed"]
  <2>1. u \in Tries /\ u.n = tries[s][d].n /\ u.last = "failed" /\ Advances(tries[s][d], u)
    BY <1>1 DEF Tries, Advances
  <2>2. tries' = [tries EXCEPT ![s][d] = u]
    BY <1>3 DEF recordAttempt
  <2> HIDE DEF u
  <2>3. /\ tries' \in [Stops -> [Digests -> Tries]] /\ stop'[s].pc = "idle"
        /\ \A e \in Digests : Advances(tries[s][e], tries'[s][e])
        /\ \A t \in Stops \ {s} : tries'[t] = tries[t] /\ stop'[t] = stop[t]
    BY <1>1, <1>3, <2>1, <2>2 DEF Leave, Resting, Advances
  <2>4. Revalidable(s)' /\ CountedAt(s)
    BY <1>0, <2>3, StaysRevalidable DEF Counts
  <2>5. CountedAt(s)'
    BY <1>0, <2>3, <2>4 DEF CountedAt, Working
  <2> QED BY <1>0, <2>3, <2>5, OneMoves DEF Counts
<1> QED BY <1>2, <1>3 DEF EraseCopies

LEMMA EraseRecordedCounts ==
  ASSUME RetentionInv, Counts, NEW s \in Stops, EraseRecorded(s)
  PROVE  Counts'
<1> DEFINE d == stop[s].digest
           u == [tries[s][d] EXCEPT !.last = "done"]
           c == [stop[s] EXCEPT !.pc = "tombstone"]
<1>0. /\ stop[s].pc = "erased" /\ UNCHANGED <<plan, receipts>> /\ tries' = [tries EXCEPT ![s][d] = u]
      /\ stop' = [stop EXCEPT ![s].pc = "tombstone"]
  BY DEF EraseRecorded, At, recordAttempt, Goto
<1>1. d \in Digests /\ stop[s] \in StopCall /\ tries[s][d] \in Tries /\ stop \in [Stops -> StopCall]
  BY <1>0 DEF RetentionInv, Typed, Owned, Counts
<1>2. /\ c \in StopCall /\ c.pc = "tombstone" /\ c.todo = stop[s].todo /\ c.prior = stop[s].prior
      /\ c.digest = d /\ stop' = [stop EXCEPT ![s] = c]
  BY <1>0, <1>1 DEF StopCall, Places
<1>3. u \in Tries /\ u.last = "done" /\ Advances(tries[s][d], u)
  BY <1>1 DEF Tries, Advances
<1> HIDE DEF u, c
<1> QED BY <1>0, <1>1, <1>2, <1>3, LoopCounts

LEMMA EraseTombstoneCounts ==
  ASSUME RetentionInv, Counts, NEW s \in Stops, EraseTombstone(s)
  PROVE  Counts'
<1> DEFINE d == stop[s].digest
           c == [stop[s] EXCEPT !.pc = "next", !.todo = @ \ {d}, !.digest = 0]
<1>0. /\ stop[s].pc = "tombstone" /\ UNCHANGED <<plan, receipts, tries>>
      /\ stop' = [stop EXCEPT ![s].pc = "next", ![s].todo = @ \ {d}, ![s].digest = 0]
  BY DEF EraseTombstone, At
<1>1. /\ d \in Digests /\ stop[s] \in StopCall /\ tries[s][d] \in Tries /\ stop \in [Stops -> StopCall]
      /\ tries \in [Stops -> [Digests -> Tries]] /\ tries[s][d].last # "started"
  BY <1>0 DEF RetentionInv, Typed, Owned, Counts, CountedAt, Pending
<1>2. /\ c \in StopCall /\ c.pc = "next" /\ c.todo = stop[s].todo \ {d} /\ c.prior = stop[s].prior
      /\ stop' = [stop EXCEPT ![s] = c]
  BY <1>0, <1>1 DEF StopCall, Places
<1>3. tries' = [tries EXCEPT ![s][d] = tries[s][d]] /\ Advances(tries[s][d], tries[s][d])
  BY <1>0, <1>1 DEF Advances
<1> HIDE DEF c
<1> QED BY <1>0, <1>1, <1>2, <1>3, LoopCounts

(* One more row.                                                           *)
LEMMA LongerRow ==
  ASSUME NEW q \in Seq(Nat), NEW x \in Nat
  PROVE  /\ Append(q, x) \in Seq(Nat) /\ Append(q, x) # <<>> /\ Len(Append(q, x)) = Len(q) + 1
         /\ Append(q, x)[Len(Append(q, x))] = x /\ \A i \in 1..Len(q) : Append(q, x)[i] = q[i]
  OBVIOUS

(* When the loop is done no attempt is open, so the receipt counts exactly *)
(* the attempts with an outcome; a revalidation only when they are more.   *)
LEMMA StopVerifyCounts ==
  ASSUME RetentionInv, Counts, NEW s \in Stops, StopVerify(s)
  PROVE  Counts'
<1>0. stop[s].pc = "next" /\ stop[s].todo = {} /\ UNCHANGED <<plan, tries>>
  BY DEF StopVerify, At
<1>1. /\ tries \in [Stops -> [Digests -> Tries]] /\ receipts \in [Stops -> Seq(Nat)]
      /\ CountedAt(s) /\ stop \in [Stops -> StopCall] /\ plan[s].scope \in SUBSET Digests
      /\ tries[s] \in [Digests -> Tries] /\ receipts[s] \in Seq(Nat)
  BY DEF RetentionInv, Typed, Counts
<1>2. Physical(s) \in Nat
  BY <1>1, AttemptsFinite, PhysicalIs
<1>3. Physical(s) = Cardinality(Attempts(s))
  <2>1. \A d \in plan[s].scope : ~Pending(s, d)
    BY <1>0, <1>1 DEF CountedAt
  <2>2. \A a \in Attempts(s) : a[1] \in plan[s].scope
    BY DEF Attempts
  <2>3. Ended(s) = Attempts(s)
    BY <2>1, <2>2 DEF Ended
  <2> QED BY <2>3 DEF Physical
<1>4. CASE Leave(s, "failed") /\ UNCHANGED receipts
  BY <1>0, <1>4, LeaveCounts
<1>5. CASE Goto(s, "plan") /\ UNCHANGED receipts
  <2>1. \A t \in Stops : stop'[t] = stop[t] \/ stop'[t].pc = "plan"
    BY <1>1, <1>5 DEF Goto, StopCall
  <2> QED BY <1>0, <1>5, <2>1, IdleKeepsCounts
<1>6. CASE Leave(s, "receipt") /\ UNCHANGED receipts
  BY <1>0, <1>6, LeaveCounts
<1>7. ASSUME NEW row \in Seq(Nat), row # <<>>, receipts' = [receipts EXCEPT ![s] = row],
             row[Len(row)] = Physical(s), \A i \in 1..(Len(row) - 1) : row[i] < row[i + 1],
             stop'[s].pc \in {"idle", "checkpoint"}, \A t \in Stops \ {s} : stop'[t] = stop[t]
      PROVE  Counts'
  <2>1. /\ receipts' \in [Stops -> Seq(Nat)] /\ receipts'[s] = row
        /\ \A t \in Stops \ {s} : receipts'[t] = receipts[t]
    BY <1>1, <1>7
  <2>2. Physical(s)' = Physical(s)
    BY <1>0, PhysicalIs
  <2>3. Revalidable(s)'
    BY <1>2, <1>7, <2>1, <2>2 DEF Revalidable, LatestReceipt
  <2>4. plan'[s].made
    BY <1>0, <1>1 DEF CountedAt, Working
  <2>5. CountedAt(s)'
    BY <1>7, <2>3, <2>4 DEF CountedAt, Working
  <2> QED BY <1>0, <1>1, <1>7, <2>1, <2>5, OneMoves
<1>8. CASE recordReceipt(s, Cardinality(Attempts(s))) /\ Goto(s, "checkpoint")
  <2>1. PICK row : row = <<Physical(s)>>
    OBVIOUS
  <2>2. row \in Seq(Nat) /\ row # <<>> /\ Len(row) = 1 /\ row[1] = Physical(s)
    BY <1>2, <2>1
  <2>3. receipts' = [receipts EXCEPT ![s] = row]
    BY <1>3, <1>8, <2>1 DEF recordReceipt
  <2>4. stop'[s].pc = "checkpoint" /\ \A t \in Stops \ {s} : stop'[t] = stop[t]
    BY <1>1, <1>8 DEF Goto, StopCall
  <2>5. \A i \in 1..(Len(row) - 1) : row[i] < row[i + 1]
    BY <2>2
  <2> QED BY <1>7, <2>2, <2>3, <2>4, <2>5
<1>9. CASE /\ stop[s].prior /\ ~(Physical(s) < LatestReceipt(s)) /\ Physical(s) # LatestReceipt(s)
           /\ recordReceiptRevalidation(s, Physical(s)) /\ Leave(s, "receipt")
  <2>1. receipts[s] # <<>> /\ Len(receipts[s]) \in Nat /\ LatestReceipt(s) \in Nat
    BY <1>0, <1>1, <1>9 DEF CountedAt, Working, LatestReceipt
  <2>2. PICK row : row = Append(receipts[s], Physical(s))
    OBVIOUS
  <2>3. /\ row \in Seq(Nat) /\ row # <<>> /\ Len(row) = Len(receipts[s]) + 1
        /\ row[Len(row)] = Physical(s) /\ \A i \in 1..Len(receipts[s]) : row[i] = receipts[s][i]
    BY <1>1, <1>2, <2>2, LongerRow
  <2>4. receipts' = [receipts EXCEPT ![s] = row]
    BY <1>9, <2>2 DEF recordReceiptRevalidation
  <2>5. ASSUME NEW i \in 1..(Len(row) - 1) PROVE row[i] < row[i + 1]
    <3>1. CASE i = Len(receipts[s])
      BY <1>2, <1>9, <2>1, <2>3, <3>1 DEF LatestReceipt
    <3>2. CASE i # Len(receipts[s])
      <4>1. i \in 1..(Len(receipts[s]) - 1) /\ i + 1 \in 1..Len(receipts[s])
        BY <2>1, <2>3, <3>2
      <4>2. receipts[s][i] < receipts[s][i + 1]
        BY <1>1, <4>1 DEF CountedAt, Revalidable
      <4>3. row[i] = receipts[s][i] /\ row[i + 1] = receipts[s][i + 1]
        <5>1. i \in 1..Len(receipts[s])
          BY <2>1, <4>1
        <5> QED BY <2>3, <4>1, <5>1
      <4> QED BY <4>2, <4>3
    <3> QED BY <3>1, <3>2
  <2>6. stop'[s].pc = "idle" /\ \A t \in Stops \ {s} : stop'[t] = stop[t]
    BY <1>1, <1>9 DEF Leave, Resting
  <2> QED BY <1>7, <2>3, <2>4, <2>5, <2>6
<1> QED BY <1>4, <1>5, <1>6, <1>8, <1>9 DEF StopVerify

(* The counts survive every step.                                          *)
LEMMA CountsStep == RetentionInv /\ Counts /\ [Next]_vars => Counts'
<1> SUFFICES ASSUME RetentionInv, Counts, [Next]_vars PROVE Counts'
  OBVIOUS
<1>0. stop \in [Stops -> StopCall]
  BY DEF RetentionInv, Typed
<1>1. CASE UNCHANGED <<plan, tries, receipts, stop>>
  BY <1>1, IdleKeepsCounts
<1>2. CASE UNCHANGED vars
  BY <1>1, <1>2 DEF vars, journal, calls
<1>3. CASE Operation
  BY <1>1, <1>3 DEF Operation, CommitStored, CommitCheck, CommitRollback, ReadEnd, journal
<1>4. ASSUME NEW d \in Digests, CommitBegin(d) \/ RegisterDerived(d) \/ Reappear(d)
      PROVE  Counts'
  BY <1>1, <1>4 DEF CommitBegin, RegisterDerived, Reappear, journal, calls
<1>5. ASSUME NEW r \in Readers, NEW d \in Digests, ReadBegin(r, d)
      PROVE  Counts'
  BY <1>1, <1>5 DEF ReadBegin, journal
<1>6. ASSUME NEW s \in Stops, StopBegin(s) \/ StopAgain(s) \/ StopStep(s)
      PROVE  Counts'
  <2>1. CASE StopBegin(s) \/ StopAgain(s) \/ StopRecord(s)
    <3>1. /\ UNCHANGED <<plan, tries, receipts>>
          /\ \A t \in Stops : stop'[t] = stop[t] \/ stop'[t].pc \in {"wait", "plan"}
      BY <1>0, <2>1 DEF StopBegin, StopAgain, StopRecord, Goto, journal, StopCall
    <3> QED BY <3>1, IdleKeepsCounts
  <2>2. CASE StopTimeout(s) \/ StopCheckpoint(s)
    BY <2>2, LeaveCounts DEF StopTimeout, StopCheckpoint, journal
  <2> QED BY <1>6, <2>1, <2>2, StopPlanCounts, StopRevisitCounts, StopSettleCounts, EraseNextCounts,
             EraseCopiesCounts, EraseRecordedCounts, EraseTombstoneCounts, StopVerifyCounts DEF StopStep
<1>7. CASE Expire \/ DeadlinePasses
  BY <1>1, <1>7 DEF Expire, DeadlinePasses, journal, calls
<1>8. CASE Crash
  <2>1. UNCHANGED <<plan, tries, receipts>> /\ \A t \in Stops : stop'[t].pc = "idle"
    BY <1>8 DEF Crash, journal, Resting
  <2> QED BY <2>1, IdleKeepsCounts
<1> QED BY <1>2, <1>3, <1>4, <1>5, <1>6, <1>7, <1>8 DEF Next

LEMMA CountsInit == Init => Counts
<1> SUFFICES ASSUME Init PROVE Counts
  OBVIOUS
<1>1. /\ tries \in [Stops -> [Digests -> Tries]] /\ receipts \in [Stops -> Seq(Nat)]
      /\ \A s \in Stops : receipts[s] = <<>> /\ stop[s].pc = "idle"
  BY DEF Init, NoTry, Tries, Resting
<1>2. \A s \in Stops : CountedAt(s)
  BY <1>1 DEF CountedAt, Revalidable, Working
<1> QED BY <1>1, <1>2 DEF Counts

(* A returned receipt stays true, and every recorded one can be shown      *)
(* again: no later call finds fewer attempts than it counts, and each      *)
(* revalidation counts more than the one before, for any number of         *)
(* artifacts, stops, failed erasures and crashes.                          *)
THEOREM ReceiptsHold == Spec => []ReceiptsTrue
<1>1. RetentionInv /\ Counts => ReceiptsTrue
  BY DEF RetentionInv, Settled, Erased, Counts, CountedAt, Revalidable, ReceiptMeansErased,
         ReceiptsCanBeRevalidated, ReceiptsTrue
<1>2. Spec => []Counts
  BY CountsInit, CountsStep, RetentionInvariant, PTL DEF Spec
<1> QED BY <1>1, <1>2, RetentionInvariant, PTL

=============================================================================
