--------------------------- MODULE MCAcquisition ---------------------------
(* A market acquisition in two ways, each on its own: a behaviour is about   *)
(* two processes that call execute, or about one holder that takes the       *)
(* machine through all its states, with three pages and one page token, so   *)
(* that the provider may name a token again.                                 *)
EXTENDS LiveAttempt, AcquisitionRun, TLC

CONSTANTS c1, c2, t1

VARIABLE subject

MCCallers == {c1, c2}
MCOneCaller == {c1}
MCTokens == {t1}
MCDelays == <<1>>
MCRetryAfters == {2}
MCSymmetry == Permutations(MCCallers)

SharedInit == subject \in {"execute", "machine"} /\ Init /\ RunInit

SharedNext ==
    \/ subject = "execute" /\ Next /\ UNCHANGED <<subject, runVars>>
    \/ subject = "machine" /\ RunNext /\ UNCHANGED <<subject, vars>>

SharedSpec == SharedInit /\ [][SharedNext]_<<subject, vars, runVars>>
=============================================================================
