------------------------------ MODULE Delivery ------------------------------
(***************************************************************************)
(* Delivery of the intents of a live run: the mutable rows of the jobs (or *)
(* outbox) table, claimed, renewed and completed by workers in several     *)
(* processes (adapters/sqlite/processing-store.ts).  Each method is one    *)
(* transaction.  Every time that the store compares is an argument of the  *)
(* caller, so workers' clocks need not agree in any way.                   *)
(***************************************************************************)
EXTENDS Integers, FiniteSets

CONSTANTS
    Intents,      \* output ids of jobs (or outbox messages) with effects
    Workers,
    NoWorker,     \* a null lease_owner
    MaxTime,      \* bound: the last instant a caller names
    MaxAttempts   \* bound: claims of one intent

ASSUME NoWorkerAssumption == NoWorker \notin Workers
ASSUME TimeAssumption == MaxTime \in Nat /\ MaxAttempts \in Nat

Times == 0 .. MaxTime
Outcomes == {"succeeded", "failed", "ambiguous"}
Statuses == {"pending", "leased"} \cup Outcomes

\* A delivery row, with not_before_logical_ms of its output.  The lease expiry
\* is a null (here 0) unless the row is leased.
Row == [status : Statuses, owner : Workers \cup {NoWorker}, expires : Nat,
        token : Nat, attempt : Nat, due : Nat]

\* A ClaimedIntent, as the worker that got it remembers it.
Claim == [intent : Intents, token : Nat, attempt : Nat]

VARIABLES
    rows,   \* the table: a function from the intents that have a row
    held    \* the claims each worker remembers

deliveryVars == <<rows, held>>

InitDelivery ==
    /\ rows = [i \in {} |-> i]
    /\ held = [w \in Workers |-> {}]

-----------------------------------------------------------------------------

NewRow(due) ==
    [status |-> "pending", owner |-> NoWorker, expires |-> 0, token |-> 0, attempt |-> 0, due |-> due]

\* The rows that a commit inserts for new intents, each with its due time.
WithRows(dues) ==
    [i \in DOMAIN rows \cup DOMAIN dues |-> IF i \in DOMAIN rows THEN rows[i] ELSE NewRow(dues[i])]

\* Mutant: a settled row is found again once its lease would have expired.
Claimable_Settled(i, nowMs) ==
    /\ rows[i].due <= nowMs
    /\ rows[i].status = "pending" \/ rows[i].expires <= nowMs

\* Mutant: an expired lease is never taken over.
Claimable_Pending(i, nowMs) == rows[i].due <= nowMs /\ rows[i].status = "pending"

\* The rows that a claim at this time may take.
Claimable(i, nowMs) ==
    /\ rows[i].due <= nowMs
    /\ \/ rows[i].status = "pending"
       \/ rows[i].status = "leased" /\ rows[i].expires <= nowMs

\* The first rows in order of due time; output ids, which are hashes, break ties.
IsBatch(batch, nowMs, limit) ==
    LET all == {i \in DOMAIN rows : Claimable(i, nowMs)}
    IN  /\ batch \subseteq all
        /\ Cardinality(batch) = IF Cardinality(all) < limit THEN Cardinality(all) ELSE limit
        /\ \A i \in batch, j \in all \ batch : rows[i].due <= rows[j].due

\* Mutant: a reclaim keeps the fencing token of the expired lease.
Leased_SameToken(i, w, expires) ==
    [rows[i] EXCEPT !.status = "leased", !.owner = w, !.expires = expires,
                    !.token = IF rows[i].status = "pending" THEN @ + 1 ELSE @,
                    !.attempt = @ + 1]

Leased(i, w, expires) ==
    [rows[i] EXCEPT !.status = "leased", !.owner = w, !.expires = expires,
                    !.token = @ + 1, !.attempt = @ + 1]

claim(w, batch, nowMs, leaseMs) ==
    LET next == [i \in DOMAIN rows |->
                    IF i \in batch THEN Leased(i, w, nowMs + leaseMs) ELSE rows[i]]
    IN  /\ rows' = next
        /\ held' = [held EXCEPT ![w] = @ \cup
              {[intent |-> i, token |-> next[i].token, attempt |-> next[i].attempt] : i \in batch}]

\* The guard of renew and complete.  The expiry of the lease is not looked at:
\* an expired lease that nobody took is still good.
Guarded(w, c) ==
    /\ rows[c.intent].status = "leased"
    /\ rows[c.intent].owner = w
    /\ rows[c.intent].token = c.token

renew(w, c, expires) ==
    /\ Guarded(w, c)
    /\ rows' = [rows EXCEPT ![c.intent].expires = expires]
    /\ UNCHANGED held

complete(w, c, outcome) ==
    /\ Guarded(w, c)
    /\ rows' = [rows EXCEPT ![c.intent].status = outcome, ![c.intent].owner = NoWorker,
                            ![c.intent].expires = 0]
    /\ held' = [held EXCEPT ![w] = @ \ {c}]

\* Both throw when the guard fails; the worker gives its claim up.
fenced(w, c) ==
    /\ ~Guarded(w, c)
    /\ held' = [held EXCEPT ![w] = @ \ {c}]
    /\ UNCHANGED rows

-----------------------------------------------------------------------------
(* The protocol on its own.                                                *)

Enqueue(i, due) ==
    /\ i \notin DOMAIN rows
    /\ rows' = WithRows([j \in {i} |-> due])
    /\ UNCHANGED held

Claims(w) ==
    \E nowMs \in Times, leaseMs \in Times, limit \in 1 .. 2, batch \in SUBSET DOMAIN rows :
        /\ IsBatch(batch, nowMs, limit)
        /\ \A i \in batch : rows[i].attempt < MaxAttempts
        /\ claim(w, batch, nowMs, leaseMs)

Uses(w) ==
    \E c \in held[w] :
        \/ \E expires \in Times : renew(w, c, expires)
        \/ \E outcome \in Outcomes : complete(w, c, outcome)
        \/ fenced(w, c)

\* A worker's process dies; another one may come back under the same name.
WorkerCrash(w) ==
    /\ held[w] # {}
    /\ held' = [held EXCEPT ![w] = {}]
    /\ UNCHANGED rows

DeliveryNext ==
    \/ \E i \in Intents, due \in Times : Enqueue(i, due)
    \/ \E w \in Workers : Claims(w) \/ Uses(w) \/ WorkerCrash(w)

DeliverySpec == InitDelivery /\ [][DeliveryNext]_deliveryVars

-----------------------------------------------------------------------------
(* Properties.                                                             *)

\* Every variable has its type; a row has an owner exactly while it is leased,
\* and its fencing token counts its claims.
DeliveryTypeOK ==
    /\ DOMAIN rows \subseteq Intents
    /\ \A i \in DOMAIN rows :
          /\ rows[i] \in Row
          /\ rows[i].status = "leased" <=> rows[i].owner # NoWorker
          /\ rows[i].token = rows[i].attempt
          /\ rows[i].status = "pending" <=> rows[i].attempt = 0
    /\ held \in [Workers -> SUBSET Claim]

\* A claim that would pass the guard is the only one: of all the claims that
\* workers remember for an intent, at most one carries the token of the row, and
\* while the row is leased that one is its owner's.  No claim is from the future.
OneCurrentHolder ==
    \A w \in Workers : \A c \in held[w] :
        /\ c.intent \in DOMAIN rows
        /\ c.token <= rows[c.intent].token
        /\ c.token = rows[c.intent].token =>
              /\ rows[c.intent].status = "leased"
              /\ rows[c.intent].owner = w
              /\ \A v \in Workers : \A d \in held[v] :
                    (d.intent = c.intent /\ d.token = c.token) => (v = w /\ d = c)

\* The rows have their types, and each its one current holder.
HoldersSound == DeliveryTypeOK /\ OneCurrentHolder

\* An outcome is recorded by the latest claimant only, and for good: whatever
\* fenced workers try, a settled row (an ambiguous one above all) never changes.
SettledForGood ==
    [][\A i \in DOMAIN rows :
          /\ i \in DOMAIN rows'
          /\ rows[i].status \in Outcomes => rows'[i] = rows[i]
          /\ rows[i].status = "pending" => rows'[i].status \notin Outcomes
          /\ rows'[i].status \in Outcomes \ {rows[i].status} =>
                \E w \in Workers : \E c \in held[w] :
                   c.intent = i /\ c.attempt = rows[i].attempt]_deliveryVars

=============================================================================
