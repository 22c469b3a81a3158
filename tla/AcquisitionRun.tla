--------------------------- MODULE AcquisitionRun ---------------------------
(***************************************************************************)
(* A market acquisition from its declaration to its end: whoever holds its *)
(* AcquisitionStateMachine applies events, a transition is stored before   *)
(* the machine adopts it, and a machine that is lost is opened again from  *)
(* the last row.  One process at a time holds it.  Beyond LiveAttempt's    *)
(* execute, who applies which event is not in the repository: the holder   *)
(* is external and may apply any event at any time, except that it begins  *)
(* a preflight only of a declared acquisition, as execute does.            *)
(***************************************************************************)
EXTENDS AcquisitionMachine, JournalOrder

CONSTANTS LastTime,      \* bound: how far the trusted clock goes
          MaxLosses      \* bound: how often the holder dies

VARIABLES saved,    \* the snapshot in the last transition row, or None
          kinds,    \* the checkpoints of the rows, in order
          held,     \* the snapshot that the holder has in memory, or None
          clock,    \* the trusted clock
          losses

runVars == <<saved, kinds, held, clock, losses>>

RunInit == saved = None /\ kinds = <<>> /\ held = None /\ clock = 0 /\ losses = 0

LoadedSnapshot == IF saved = None THEN createInitialAcquisitionSnapshot ELSE saved

\* openOwnedAcquisitionStateMachine; the constructor validates what it loads.
Open ==
    /\ held = None /\ validateSnapshot(LoadedSnapshot)
    /\ held' = LoadedSnapshot
    /\ UNCHANGED <<saved, kinds, clock, losses>>

Payloads(ev) ==
    CASE ev \in {"preflightStopped", "preflightFailed", "attemptStopped", "attemptFailed", "policyStopped"} -> Reasons
      [] ev = "retryCleanup" -> Failures
      [] ev = "pageCheckpointed" -> Tokens \cup {Terminal}
      [] ev = "normalizationCompleted" -> 0..(normalizedFacts + 1)
      [] OTHER -> {None}

\* persistOwnedAcquisitionTransition takes the row: not after the deadline, and only
\* from the state of the last row.
StoreAdmits == clock < acquisitionDeadlineMs /\ held.state = LoadedSnapshot.state

\* The transition is derived and its row is stored.
StoreRow(ev, x) ==
    /\ held # None
    /\ ev = "beginPreflight" => held.state = "declared"
    /\ Permitted(held, ev, x, clock) /\ StoreAdmits
    /\ saved' = deriveNext(held, ev, x, clock)
    /\ kinds' = LET k == checkpointForEvent(held, ev) IN IF k = None THEN kinds ELSE Append(kinds, k)
    /\ UNCHANGED clock

\* applyAcquisitionEvent: the machine adopts what is stored.
ApplyEvent(ev, x) == StoreRow(ev, x) /\ held' = saved' /\ UNCHANGED losses

\* The row is stored and the holder dies before it adopts it.
DieAfterStore(ev, x) ==
    /\ losses < MaxLosses
    /\ StoreRow(ev, x)
    /\ held' = None /\ losses' = losses + 1

\* The holder dies; what is stored stays.
Die ==
    /\ losses < MaxLosses /\ held # None
    /\ held' = None /\ losses' = losses + 1
    /\ UNCHANGED <<saved, kinds, clock>>

Pass == clock < LastTime /\ clock' = clock + 1 /\ UNCHANGED <<saved, kinds, held, losses>>

RunNext ==
    \/ Open \/ Die \/ Pass
    \/ \E ev \in Events : \E x \in Payloads(ev) : ApplyEvent(ev, x) \/ DieAfterStore(ev, x)

RunSpec == RunInit /\ [][RunNext]_runVars

-----------------------------------------------------------------------------
(* Properties.                                                             *)

Late == {"chain-complete", "normalizing", "ready-for-selection", "selecting", "completed"}

\* The pages of an acquisition are one chain: contiguous from page 0, each asked
\* for by the token that the page before it named, no token twice; nothing is
\* normalized or selected unless the last page says that it is the last
\* (pr-2e-p1-10-acquisition-state-machine.md:347).
PagesChained ==
    saved # None =>
        LET chain == saved.chain
        IN  /\ \A i \in DOMAIN chain :
                   /\ chain[i].page = i - 1
                   /\ chain[i].token = (IF i = 1 THEN NoToken ELSE chain[i - 1].next)
                   /\ \A j \in 1..(i - 1) : chain[j].token # chain[i].token
            /\ saved.state \in Late => chain # <<>> /\ chain[Len(chain)].next = Terminal

\* The checkpoints that the machine plans are ones that the journal takes, in the
\* order in which it takes them; in particular nothing follows the end.
JournalTakes ==
    \A i \in DOMAIN kinds :
        IF i = 1 THEN kinds[i] = "acquisition-declared"
        ELSE kinds[i] \in NonterminalTransitions[kinds[i - 1]]

\* What becomes of an acquisition, whatever events are applied and wherever its
\* holders die: its pages are one chain, and the journal can record its rows.
AcquisitionSound == PagesChained /\ JournalTakes
=============================================================================
