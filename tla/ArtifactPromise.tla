-------------------------- MODULE ArtifactPromise --------------------------
(***************************************************************************)
(* What the artifact vault promises its callers, without files, intents,   *)
(* stages or reconciliation: every attempt gets at most one verdict, a     *)
(* digest is announced only while its bytes are on disk, and the bytes of  *)
(* an announced digest stay there unless the disk damaged a copy or        *)
(* retention denied its use.                                               *)
(***************************************************************************)
EXTENDS Integers

CONSTANTS Attempts, Digests, DigestOf

VARIABLES verdict,   \* of each attempt: none, accepted, refused
          known,     \* digests with a metadata row
          kept,      \* digests with undamaged bytes somewhere in the vault
          excused    \* digests damaged or denied: nothing is promised of them

vars == <<verdict, known, kept, excused>>

Init ==
  /\ verdict = [a \in Attempts |-> "none"]
  /\ known = {} /\ kept = {} /\ excused = {}

(* Bytes may come at any time; they go only where no promise is made.      *)
Keep ==
  /\ excused \subseteq excused' /\ excused' \subseteq Digests
  /\ kept' \subseteq Digests
  /\ (kept \intersect known) \ excused' \subseteq kept'

Accept(a) ==
  /\ verdict[a] = "none" /\ DigestOf[a] \in kept \union excused
  /\ verdict' = [verdict EXCEPT ![a] = "accepted"]
  /\ known' = known \union {DigestOf[a]}

Refuse(a) ==
  /\ verdict[a] = "none"
  /\ verdict' = [verdict EXCEPT ![a] = "refused"] /\ UNCHANGED known

(* A verified file without a row is adopted.                               *)
Adopt(d) == d \in kept /\ known' = known \union {d} /\ UNCHANGED verdict

Next ==
  /\ Keep
  /\ \/ \E a \in Attempts : Accept(a) \/ Refuse(a)
     \/ \E d \in Digests : Adopt(d)
     \/ UNCHANGED <<verdict, known>>

Spec == Init /\ [][Next]_vars
=============================================================================
