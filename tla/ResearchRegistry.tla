-------------------------- MODULE ResearchRegistry --------------------------
(***************************************************************************)
(* The registry of research results (src/research/sqlite-registry.ts):     *)
(* processes on one database register manifests, run and replay their      *)
(* evaluation, and may die between any two statements.  Each process has a *)
(* build; evaluateManifest is a function of the manifest and the build.    *)
(***************************************************************************)
EXTENDS Naturals, FiniteSets

CONSTANTS Hosts, Build,        \* processes, and the build of each
          Manifests, EpochOf,  \* manifests, and the epoch of each
          MaxStarts            \* attempts per manifest, for TLC

ASSUME RegistryAssumption == Manifests # {}

VARIABLES manifests,  \* research_manifests
          records,    \* research_records
          step,       \* what a process does next
          task,       \* the manifest it is at
          attempt,    \* the number of its attempt
          answers     \* <<manifest, evaluation>> that a run or replay returned

registryVars == <<manifests, records, step, task, attempt, answers>>

Record(m, kind, key, body) == [manifest |-> m, kind |-> kind, key |-> key, body |-> body]
RowsOf(m, kind) == {r \in records : r.manifest = m /\ r.kind = kind}

(* What an evaluation leaves: features, labels, trials and signals under   *)
(* their identities, which depend on the build, and the result.            *)
evaluateManifest(m, b) == <<"evaluation", m, b>>
ResultRows(m, b) ==
  {Record(m, kind, <<kind, m, b>>, <<kind>>) : kind \in {"features", "labels", "trials", "signals"}}
ResultRow(m, b) == Record(m, "evaluation", <<"result">>, evaluateManifest(m, b))

(* An attempt is keyed by its number.                                      *)
Start(m, n) == Record(m, "attempt-start", <<"attempt", n>>, <<"started">>)
End(m, n, status) == Record(m, "attempt-end", <<"attempt", n>>, <<status>>)

(* append: a row that is there already is left, one with its key and       *)
(* another body is a conflict.                                             *)
Conflicts(row) ==
  \E r \in records : r.manifest = row.manifest /\ r.kind = row.kind /\ r.key = row.key /\ r # row

RegistryInit ==
  /\ manifests = {} /\ records = {} /\ answers = {}
  /\ step = [h \in Hosts |-> "idle"]
  /\ task = [h \in Hosts |-> CHOOSE m \in Manifests : TRUE]
  /\ attempt = [h \in Hosts |-> 0]

Goes(h, to) == step' = [step EXCEPT ![h] = to]

(* register: the SELECT, and the INSERT if no row has the epoch.           *)
Register(h, m) ==
  /\ step[h] = "idle"
  /\ Goes(h, IF \E n \in manifests : EpochOf[n] = EpochOf[m] THEN "idle" ELSE "insert")
  /\ task' = [task EXCEPT ![h] = m]
  /\ UNCHANGED <<manifests, records, attempt, answers>>

(* The triggers refuse a row whose id or epoch is there by now.            *)
Insert(h) ==
  /\ step[h] = "insert" /\ Goes(h, "idle")
  /\ manifests' = IF \E n \in manifests : EpochOf[n] = EpochOf[task[h]] THEN manifests
                  ELSE manifests \cup {task[h]}
  /\ UNCHANGED <<records, task, attempt, answers>>

(* run: the manifest and a completed evaluation are read.                  *)
Run(h, m) ==
  /\ step[h] = "idle" /\ m \in manifests
  /\ Goes(h, IF RowsOf(m, "evaluation") = {} THEN "start" ELSE "replay")
  /\ task' = [task EXCEPT ![h] = m]
  /\ UNCHANGED <<manifests, records, attempt, answers>>

StartAttempt(h) ==
  LET m == task[h]
      n == Cardinality(RowsOf(m, "attempt-start")) + 1
  IN /\ step[h] = "start" /\ n <= MaxStarts
     /\ Goes(h, "evaluate")
     /\ ~Conflicts(Start(m, n))
     /\ records' = records \cup {Start(m, n)}
     /\ attempt' = [attempt EXCEPT ![h] = n]
     /\ UNCHANGED <<manifests, task, answers>>

(* Mutant: the appends before a conflict stay.                             *)
FinishWrites_Piecewise(m, n, b) ==
  IF Conflicts(ResultRow(m, b)) THEN ResultRows(m, b)
  ELSE ResultRows(m, b) \cup {ResultRow(m, b), End(m, n, "completed")}

(* One transaction: all the rows of the evaluation, or none.               *)
FinishWrites(m, n, b) ==
  LET added == ResultRows(m, b) \cup {ResultRow(m, b), End(m, n, "completed")}
  IN IF \E row \in added : Conflicts(row) THEN {} ELSE added

Finish(h) ==
  LET m == task[h]
      added == FinishWrites(m, attempt[h], Build[h])
      ended == End(m, attempt[h], "completed") \in added
  IN /\ step[h] = "evaluate" /\ Goes(h, IF ended THEN "idle" ELSE "failed")
     /\ records' = records \cup added
     /\ answers' = IF ended THEN answers \cup {<<m, evaluateManifest(m, Build[h])>>} ELSE answers
     /\ UNCHANGED <<manifests, task, attempt>>

(* The transaction fails as a whole: a full disk, a busy database.         *)
FinishFails(h) ==
  /\ step[h] = "evaluate" /\ Goes(h, "failed")
  /\ UNCHANGED <<manifests, records, task, attempt, answers>>

EndFailed(h) ==
  LET row == End(task[h], attempt[h], "failed")
  IN /\ step[h] = "failed" /\ Goes(h, "idle")
     /\ records' = IF Conflicts(row) THEN records ELSE records \cup {row}
     /\ UNCHANGED <<manifests, task, attempt, answers>>

(* replay: throws unless what is stored is what this build computes.       *)
Replays(m, b) ==
  /\ ResultRow(m, b) \in records
  /\ \A kind \in {"features", "labels", "trials", "signals"} :
       RowsOf(m, kind) = {row \in ResultRows(m, b) : row.kind = kind}

Replay(h) ==
  LET m == task[h]
  IN /\ step[h] = "replay" /\ Goes(h, "idle")
     /\ answers' = IF Replays(m, Build[h]) THEN answers \cup {<<m, evaluateManifest(m, Build[h])>>} ELSE answers
     /\ UNCHANGED <<manifests, records, task, attempt>>

Die(h) ==
  /\ step[h] # "idle" /\ Goes(h, "idle")
  /\ UNCHANGED <<manifests, records, task, attempt, answers>>

RegistryNext ==
  \E h \in Hosts :
    \/ \E m \in Manifests : Register(h, m) \/ Run(h, m)
    \/ Insert(h) \/ StartAttempt(h) \/ Finish(h) \/ FinishFails(h) \/ EndFailed(h) \/ Replay(h)
    \/ Die(h)

RegistrySpec == RegistryInit /\ [][RegistryNext]_registryVars

-----------------------------------------------------------------------------
(* An epoch has one manifest.  Attempts are numbered without a gap and     *)
(* retained, none ends twice.  Results are there entire or not at all,     *)
(* computed by one build; all that was ever returned is that evaluation,   *)
(* and an attempt that ended well leaves it behind.                        *)
ResultsFrozen ==
  /\ \A m, n \in manifests : EpochOf[m] = EpochOf[n] => m = n
  /\ \A m \in Manifests :
       LET starts == {r.key[2] : r \in RowsOf(m, "attempt-start")}
           ends == RowsOf(m, "attempt-end")
           computed == {b \in {Build[h] : h \in Hosts} : ResultRow(m, b) \in records}
           stored == UNION {RowsOf(m, kind) : kind \in {"features", "labels", "trials", "signals"}}
       IN /\ starts = 1..Cardinality(starts)
          /\ starts # {} => m \in manifests
          /\ \A r \in ends : r.key[2] \in starts /\ ~\E s \in ends : s.key = r.key /\ s # r
          /\ Cardinality(computed) <= 1
          /\ stored = UNION {ResultRows(m, b) : b \in computed}
          /\ \A a \in answers : a[1] = m => \E b \in computed : a[2] = evaluateManifest(m, b)
          /\ (\E r \in ends : r.body = <<"completed">>) <=> computed # {}
=============================================================================
