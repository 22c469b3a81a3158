------------------------------ MODULE MCVault ------------------------------
(* The artifact vault and its writer lease, each on its own: a behaviour is  *)
(* about two processes that compete for the lease, or about the calls of the *)
(* process that holds it: two attempts whose bytes have one digest, a        *)
(* reader, a reconciliation and a fault.                                     *)
EXTENDS WriterLease, VaultRecovery, TLC

CONSTANTS p1, p2

VARIABLE subject

MCProcs == {p1, p2}
MCSymmetry == Permutations(MCProcs)
OneDigest == [a \in 1..NAttempts |-> 1]

SharedInit == subject \in {"lease", "vault"} /\ Init /\ VaultInit

SharedNext ==
    \/ subject = "lease" /\ Next /\ UNCHANGED <<subject, vaultVars>>
    \/ subject = "vault" /\ VaultNext /\ UNCHANGED <<subject, leaseVars>>

SharedSpec == SharedInit /\ [][SharedNext]_<<subject, leaseVars, vaultVars>>
=============================================================================
