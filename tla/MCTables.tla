------------------------------ MODULE MCTables ------------------------------
(* The tables that processes share through SQLite, each on its own: a        *)
(* behaviour is about the events, the delivery rows or the research tables.  *)
(* Two producers, three provider records on two subjects, and two            *)
(* conflicting versions of the first; two intents and two workers whose      *)
(* clocks may say anything; two hosts of different builds and three          *)
(* manifests, two of them of one epoch.                                      *)
EXTENDS Capture, Delivery, ResearchRegistry, TLC

CONSTANTS k1, k2, k3, a1, a2, s1, s2, x, y, p1, p2,
          i1, i2, w1, w2,
          h1, h2, m1, m2, m3

VARIABLE table

MCKeys == {k1, k2, k3}
MCArtifacts == {a1, a2}
MCSubjects == {s1, s2}
MCPayloads == {x, y}
MCProducers == {p1, p2}
MCIntents == {i1, i2}
MCWorkers == {w1, w2}
MCBuild == (h1 :> "old") @@ (h2 :> "new")
MCEpochOf == (m1 :> "e1") @@ (m2 :> "e1") @@ (m3 :> "e2")

DraftOf(k, a, s, m) == [key |-> k, artifact |-> a, subject |-> s, payload |-> m]

\* The first record; the same with a changed artifact; the same with changed
\* metadata; a second record of that subject; a record of another subject.
MCDrafts == {DraftOf(k1, a1, s1, x), DraftOf(k1, a2, s1, x), DraftOf(k1, a1, s1, y),
             DraftOf(k2, a1, s1, x), DraftOf(k3, a1, s2, x)}

Symmetry == Permutations(MCProducers) \cup Permutations(MCIntents) \cup Permutations(MCWorkers)

tablesVars == <<table, captureVars, deliveryVars, registryVars>>

TablesInit ==
    /\ table \in {"events", "deliveries", "research"}
    /\ Init /\ InitDelivery /\ RegistryInit

TablesNext ==
    \/ table = "events" /\ Next /\ UNCHANGED <<table, deliveryVars, registryVars>>
    \/ table = "deliveries" /\ DeliveryNext /\ UNCHANGED <<table, captureVars, registryVars>>
    \/ table = "research" /\ RegistryNext /\ UNCHANGED <<table, captureVars, deliveryVars>>
    \/ table # "events" /\ UNCHANGED tablesVars  \* only capture never comes to an end

TablesSpec == TablesInit /\ [][TablesNext]_tablesVars
=============================================================================
