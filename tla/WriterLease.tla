----------------------------- MODULE WriterLease -----------------------------
(***************************************************************************)
(* The writer lease of the artifact vault (adapters/artifacts/             *)
(* writer-lease.ts): a lock file and a row in SQLite, the fence, that are  *)
(* not updated together.  Every await of acquire, of a renewal and of      *)
(* release ends a step; a process may be slow or die at each of them.      *)
(*                                                                         *)
(* A file keeps its identity (inode): a handle that was opened before the  *)
(* path was renamed or removed writes to a file that nobody reads.  Owner  *)
(* tokens are random UUIDs: here, a fresh number whenever one is first     *)
(* written; it also names the file that its owner creates.                 *)
(***************************************************************************)
EXTENDS Integers

CONSTANTS
    Procs,
    None,
    Empty,       \* the content of a file that is created, or truncated
    durationMs,
    MaxTime,     \* bound: how far the clock goes
    MaxOwners,   \* bound: owner tokens
    MaxCrashes   \* bound: crashes

ASSUME DurationAssumption == durationMs \in Nat \ {0}
ASSUME BoundsAssumption == {MaxTime, MaxOwners, MaxCrashes} \subseteq Nat

\* What the file holds, and (under other names) the row: the process id is left out.
LeaseRecord == [owner : Nat, generation : Nat, expires : Nat]

ASSUME MarksAssumption == None \notin LeaseRecord /\ Empty \notin LeaseRecord

VARIABLES
    fence,    \* the row of artifact_writer_fence, or None
    file,     \* what the path names: a file, or None
    clock,
    pc,       \* where each process is
    owner,    \* its token
    now,      \* the time that it read last
    seen,     \* the stale record that it saw
    handle,   \* the file that it opened to write
    gen,      \* its generation
    until,    \* until when the fence is its own, as far as it knows
    holder,   \* who holds its lease object: no one yet, its caller, or only its timer
    owners,   \* tokens given out
    crashes

leaseVars == <<fence, file, clock, pc, owner, now, seen, handle, gen, until, holder, owners, crashes>>

File == [id : Nat, content : LeaseRecord \cup {Empty}]

\* acquire: begin, open, fill and claim when the path is free; read, take,
\* reread, rename, create and install when it is not.  A renewal and the end of
\* acquire: check, reopen, truncate, write.  release: unlock, remove.
PCs == {"idle", "begin", "open", "fill", "claim", "undo", "read", "take", "reread", "rename", "create",
        "install", "check", "reopen", "truncate", "write", "ready", "unlock", "remove"}

Init ==
    /\ fence = None /\ file = None /\ clock = 0
    /\ pc = [p \in Procs |-> "idle"]
    /\ owner = [p \in Procs |-> 0]
    /\ now = [p \in Procs |-> 0]
    /\ seen = [p \in Procs |-> None]
    /\ handle = [p \in Procs |-> 0]
    /\ gen = [p \in Procs |-> 0]
    /\ until = [p \in Procs |-> 0]
    /\ holder = [p \in Procs |-> "none"]
    /\ owners = 0 /\ crashes = 0

-----------------------------------------------------------------------------
(* The fence: claimWriter, renewWriter, releaseWriter of the repository.   *)

\* Mutant: a fence about to expire is free.
FenceFree_Early(nowMs) == fence # None => fence.expires <= nowMs + 1

FenceFree(nowMs) == fence # None => fence.expires <= nowMs

NextGeneration == IF fence = None THEN 1 ELSE fence.generation + 1

FenceRow(o, g, nowMs) == [owner |-> o, generation |-> g, expires |-> nowMs + durationMs]

OwnFence(p) == fence # None /\ fence.owner = owner[p] /\ fence.generation = gen[p]

\* The transaction of claimWriter, with the fence free.
claimWriter(p, o) ==
    /\ fence' = FenceRow(o, NextGeneration, now[p])
    /\ gen' = [gen EXCEPT ![p] = NextGeneration]
    /\ until' = [until EXCEPT ![p] = now[p] + durationMs]

\* releaseWriter deletes the row, if it is the caller's.
Released(p) == IF OwnFence(p) THEN None ELSE fence

\* The process no longer counts on the fence.
Forget(p) == until' = [until EXCEPT ![p] = 0]

-----------------------------------------------------------------------------
(* Files.                                                                  *)

Goto(p, label) == pc' = [pc EXCEPT ![p] = label]

OwnRecord(p, g, expires) == [owner |-> owner[p], generation |-> g, expires |-> expires]

\* The path after a write of content through a handle on the file id.
Through(id, content) ==
    IF file # None /\ file.id = id THEN [file EXCEPT !.content = content] ELSE file

\* acquire returns the lease; a renewal leaves it with whom it was.
Returned(p) == holder' = [holder EXCEPT ![p] = IF @ = "none" THEN "caller" ELSE @]

\* acquire fails, or waits and tries again.
FailOrRetry(p) == Goto(p, "idle") \/ Goto(p, "begin")

-----------------------------------------------------------------------------
(* acquire.                                                                *)

Start(p) ==
    /\ pc[p] = "idle"
    /\ Goto(p, "begin")
    /\ UNCHANGED <<fence, file, clock, owner, now, handle, seen, gen, until, holder, owners, crashes>>

Begin(p) ==
    /\ pc[p] = "begin"
    /\ now' = [now EXCEPT ![p] = clock]
    /\ Goto(p, "open")
    /\ UNCHANGED <<fence, file, clock, owner, handle, seen, gen, until, holder, owners, crashes>>

\* open(path, "wx"): the path is free, or EEXIST.
Open(p) ==
    /\ pc[p] = "open"
    /\ \/ /\ file = None /\ owners < MaxOwners
          /\ file' = [id |-> owners + 1, content |-> Empty]
          /\ owner' = [owner EXCEPT ![p] = owners + 1]
          /\ owners' = owners + 1
          /\ Goto(p, "fill")
       \/ /\ file # None
          /\ Goto(p, "read")
          /\ UNCHANGED <<file, owner, owners>>
    /\ UNCHANGED <<fence, clock, now, handle, seen, gen, until, holder, crashes>>

Fill(p) ==
    /\ pc[p] = "fill"
    /\ file' = Through(owner[p], OwnRecord(p, 0, now[p] + durationMs))
    /\ Goto(p, "claim")
    /\ UNCHANGED <<fence, clock, owner, now, handle, seen, gen, until, holder, owners, crashes>>

ClaimNew(p) ==
    /\ pc[p] = "claim"
    /\ \/ FenceFree(now[p]) /\ claimWriter(p, owner[p]) /\ Goto(p, "check")
       \/ ~FenceFree(now[p]) /\ Goto(p, "undo") /\ UNCHANGED <<fence, gen, until>>
    /\ UNCHANGED <<file, clock, owner, now, handle, seen, holder, owners, crashes>>

\* rm(path, force), whatever the path names by now.
Undo(p) ==
    /\ pc[p] = "undo"
    /\ file' = None
    /\ FailOrRetry(p)
    /\ UNCHANGED <<fence, clock, owner, now, handle, seen, gen, until, holder, owners, crashes>>

\* The path was taken: read its record.  An unreadable one is an error.
Read(p) ==
    /\ pc[p] = "read"
    /\ \/ file = None /\ Goto(p, "begin") /\ UNCHANGED seen
       \/ file # None /\ file.content = Empty /\ Goto(p, "idle") /\ UNCHANGED seen
       \/ /\ file # None /\ file.content # Empty /\ file.content.expires <= now[p]
          /\ seen' = [seen EXCEPT ![p] = file.content]
          /\ Goto(p, "take")
       \/ /\ file # None /\ file.content # Empty /\ file.content.expires > now[p]
          /\ FailOrRetry(p)
          /\ UNCHANGED seen
    /\ UNCHANGED <<fence, file, clock, owner, now, handle, gen, until, holder, owners, crashes>>

Take(p) ==
    /\ pc[p] = "take"
    /\ \/ /\ FenceFree(now[p]) /\ owners < MaxOwners
          /\ claimWriter(p, owners + 1)
          /\ owner' = [owner EXCEPT ![p] = owners + 1]
          /\ owners' = owners + 1
          /\ Goto(p, "reread")
       \/ /\ ~FenceFree(now[p])
          /\ FailOrRetry(p)
          /\ UNCHANGED <<fence, gen, until, owner, owners>>
    /\ UNCHANGED <<file, clock, now, handle, seen, holder, crashes>>

\* A takeover that fails releases the fence; after ENOENT it starts again.
GiveUp(p, label) ==
    /\ fence' = Released(p)
    /\ Forget(p)
    /\ Goto(p, label)

Reread(p) ==
    /\ pc[p] = "reread"
    /\ \/ file = None /\ GiveUp(p, "begin")
       \/ file # None /\ file.content # seen[p] /\ GiveUp(p, "idle")
       \/ file # None /\ file.content = seen[p] /\ Goto(p, "rename") /\ UNCHANGED <<fence, until>>
    /\ UNCHANGED <<file, clock, owner, now, handle, seen, gen, holder, owners, crashes>>

Rename(p) ==
    /\ pc[p] = "rename"
    /\ \/ file = None /\ GiveUp(p, "begin") /\ UNCHANGED file
       \/ file # None /\ file' = None /\ Goto(p, "create") /\ UNCHANGED <<fence, until>>
    /\ UNCHANGED <<clock, owner, now, handle, seen, gen, holder, owners, crashes>>

Create(p) ==
    /\ pc[p] = "create"
    /\ \/ file # None /\ GiveUp(p, "idle") /\ UNCHANGED file
       \/ /\ file = None
          /\ file' = [id |-> owner[p], content |-> Empty]
          /\ Goto(p, "install")
          /\ UNCHANGED <<fence, until>>
    /\ UNCHANGED <<clock, owner, now, handle, seen, gen, holder, owners, crashes>>

Install(p) ==
    /\ pc[p] = "install"
    /\ file' = Through(owner[p], OwnRecord(p, gen[p], now[p] + durationMs))
    /\ Goto(p, "ready")
    /\ Returned(p)
    /\ UNCHANGED <<fence, clock, owner, now, handle, seen, gen, until, owners, crashes>>

-----------------------------------------------------------------------------
(* #performRenewal and #writeRecord.                                       *)

\* renewWriter first, so that the fence is never behind the file.
Renew(p) ==
    /\ pc[p] = "ready"
    /\ now' = [now EXCEPT ![p] = clock]
    /\ \/ /\ OwnFence(p) /\ fence.expires >= clock
          /\ fence' = FenceRow(owner[p], gen[p], clock)
          /\ until' = [until EXCEPT ![p] = clock + durationMs]
          /\ Goto(p, "check")
          /\ UNCHANGED holder
       \/ /\ ~(OwnFence(p) /\ fence.expires >= clock)
          /\ Forget(p)
          /\ holder' = [holder EXCEPT ![p] = "none"]
          /\ Goto(p, "idle")
          /\ UNCHANGED fence
    /\ UNCHANGED <<file, clock, owner, handle, seen, gen, owners, crashes>>

\* #writeRecord failed.  A renewal marks the lease lost, although the row is kept
\* until it expires.  acquire throws, but the timer of the lease object that it
\* had constructed goes on renewing it.
WriteFailed(p) ==
    \/ /\ holder[p] = "none"
       /\ holder' = [holder EXCEPT ![p] = "timer"]
       /\ Goto(p, "ready")
       /\ UNCHANGED until
    \/ /\ holder[p] # "none"
       /\ holder' = [holder EXCEPT ![p] = "none"]
       /\ Goto(p, "idle")
       /\ Forget(p)


RecordIsOwn(p) ==
    file.content # Empty
        => file.content.owner = owner[p] /\ file.content.generation \in {0, gen[p]}

Check(p) ==
    /\ pc[p] = "check"
    /\ \/ file # None /\ RecordIsOwn(p) /\ Goto(p, "reopen") /\ UNCHANGED <<until, holder>>
       \/ ~(file # None /\ RecordIsOwn(p)) /\ WriteFailed(p)
    /\ UNCHANGED <<fence, file, clock, owner, now, handle, seen, gen, owners, crashes>>

Reopen(p) ==
    /\ pc[p] = "reopen"
    /\ \/ file = None /\ WriteFailed(p) /\ UNCHANGED handle
       \/ /\ file # None
          /\ handle' = [handle EXCEPT ![p] = file.id]
          /\ Goto(p, "truncate")
          /\ UNCHANGED <<until, holder>>
    /\ UNCHANGED <<fence, file, clock, owner, now, seen, gen, owners, crashes>>

Truncate(p) ==
    /\ pc[p] = "truncate"
    /\ file' = Through(handle[p], Empty)
    /\ Goto(p, "write")
    /\ UNCHANGED <<fence, clock, owner, now, handle, seen, gen, until, holder, owners, crashes>>

Write(p) ==
    /\ pc[p] = "write"
    /\ file' = Through(handle[p], OwnRecord(p, gen[p], now[p] + durationMs))
    /\ Goto(p, "ready")
    /\ Returned(p)
    /\ UNCHANGED <<fence, clock, owner, now, handle, seen, gen, until, owners, crashes>>

-----------------------------------------------------------------------------
(* release, which waits for a renewal under way.                           *)

Release(p) ==
    /\ pc[p] = "ready" /\ holder[p] = "caller"
    /\ fence' = Released(p)
    /\ Forget(p)
    /\ holder' = [holder EXCEPT ![p] = "none"]
    /\ IF OwnFence(p) THEN Goto(p, "unlock") ELSE Goto(p, "idle")
    /\ UNCHANGED <<file, clock, owner, now, handle, seen, gen, owners, crashes>>

Unlock(p) ==
    /\ pc[p] = "unlock"
    /\ IF file # None /\ file.content # Empty
             /\ file.content.owner = owner[p] /\ file.content.generation = gen[p]
       THEN Goto(p, "remove") ELSE Goto(p, "idle")
    /\ UNCHANGED <<fence, file, clock, owner, now, handle, seen, gen, until, holder, owners, crashes>>

Remove(p) ==
    /\ pc[p] = "remove"
    /\ file' = None
    /\ Goto(p, "idle")
    /\ UNCHANGED <<fence, clock, owner, now, handle, seen, gen, until, holder, owners, crashes>>

-----------------------------------------------------------------------------

Crash(p) ==
    /\ crashes < MaxCrashes
    /\ pc[p] # "idle"
    /\ crashes' = crashes + 1
    /\ Forget(p)
    /\ holder' = [holder EXCEPT ![p] = "none"]
    /\ Goto(p, "idle")
    /\ UNCHANGED <<fence, file, clock, owner, now, handle, seen, gen, owners>>

Tick ==
    /\ clock < MaxTime
    /\ clock' = clock + 1
    /\ UNCHANGED <<fence, file, pc, owner, now, handle, seen, gen, until, holder, owners, crashes>>

Step(p) ==
    \/ Start(p) \/ Begin(p) \/ Open(p) \/ Fill(p) \/ ClaimNew(p) \/ Undo(p)
    \/ Read(p) \/ Take(p) \/ Reread(p) \/ Rename(p) \/ Create(p) \/ Install(p)
    \/ Renew(p) \/ Check(p) \/ Reopen(p) \/ Truncate(p) \/ Write(p)
    \/ Release(p) \/ Unlock(p) \/ Remove(p)

Next == Tick \/ \E p \in Procs : Step(p) \/ Crash(p)

Spec == Init /\ [][Next]_leaseVars

-----------------------------------------------------------------------------
(* Properties.                                                             *)

\* Every variable has its type.
TypeOK ==
    /\ fence \in LeaseRecord \cup {None}
    /\ file \in File \cup {None}
    /\ clock \in Nat /\ owners \in Nat /\ crashes \in Nat
    /\ pc \in [Procs -> PCs]
    /\ owner \in [Procs -> Nat] /\ now \in [Procs -> Nat]
    /\ gen \in [Procs -> Nat] /\ until \in [Procs -> Nat]
    /\ holder \in [Procs -> {"none", "caller", "timer"}]
    /\ seen \in [Procs -> LeaseRecord \cup {None}] /\ handle \in [Procs -> Nat]

\* Two processes never believe at one time that the vault is theirs: whatever
\* happens to the lock file, which a late rename, removal or write of another
\* process may take away, a lease that was won or renewed and has not run out
\* is the only one.  Filesystem mutations, which no transaction guards, rely on it.
LeasesDisjoint ==
    \A p, q \in Procs : p # q => until[p] <= clock \/ until[q] <= clock

\* The lease object never lies about being the only one.
LeaseSafe == TypeOK /\ LeasesDisjoint

\* docs/project-roadmap.md: "hard-kill around credential claim, lease/fence, [...]
\* leaves recoverable exact state".  A lock file that nobody is about to write
\* can be read, so that the next acquire can tell whether its owner is gone.
CrashLeavesReadableLock ==
    (\A p \in Procs : pc[p] \notin {"fill", "install", "write"})
        => file = None \/ file.content # Empty
=============================================================================
