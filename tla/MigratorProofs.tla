---------------------------- MODULE MigratorProofs ----------------------------
(***************************************************************************)
(* Proofs about Migrator, for any set of processes, any list of migrations *)
(* and any number of failures and calls of Down.                           *)
(***************************************************************************)
EXTENDS Migrator, TLAPS

(* The variables hold what the tables and the processes can hold.          *)
TypeOK ==
    /\ tracking \in BOOLEAN /\ recorded \subseteq Versions
    /\ made \in [Versions -> {"absent", "present", "removed"}]
    /\ pc \in [Instances -> Migrating \cup {"off", "recover", "up"}]
    /\ task \in [Instances -> {"up", "down"}]
    /\ next \in [Instances -> 0..(Last + 1)]
    /\ wrote \in [Instances -> BOOLEAN]

Runs(i) == pc[i] # "off"

(* Nobody is at work beside a call of Down.                                *)
DownAlone ==
    \A i, j \in Instances : Runs(i) /\ task[i] = "down" /\ Runs(j) => i = j

(* Up has behind it what is recorded, Down what is not.                    *)
Behind(i) ==
    IF task[i] = "up" THEN \A m \in Versions : m < next[i] => m \in recorded
                      ELSE \A m \in Versions : m > next[i] => m \notin recorded
PassedDone == \A i \in Instances : Runs(i) => Behind(i)

(* What a process knows of the migration it is at: what it would commit    *)
(* leaves the migration applied, and what it is about to record nobody     *)
(* else has recorded, nor is about to.                                     *)
InTransaction == {"execute", "record", "commit"}
Knows(i) ==
    /\ task[i] = "up" => next[i] > 0
    /\ pc[i] \in InTransaction => next[i] \in Versions
    /\ pc[i] \in {"record", "commit"} =>
          wrote[i] \/ (task[i] = "up" /\ made[next[i]] # "absent")
    /\ pc[i] = "commit" /\ task[i] = "up" => next[i] \notin recorded
    /\ pc[i] \in {"recover", "up"} => task[i] = "up" /\ next[i] = Last + 1
AllKnow == \A i \in Instances : Knows(i)
OneCommits ==
    \A i, j \in Instances : pc[i] = "commit" /\ pc[j] = "commit" /\ next[i] = next[j] => i = j

(* Only through a process that serves is anything deleted, and then every  *)
(* migration is recorded.                                                  *)
RemovedRecorded == \A m \in Versions : made[m] = "removed" => m \in recorded

MigratorInv ==
    /\ TypeOK /\ RecordedApplied /\ DownAlone /\ PassedDone /\ AllKnow /\ OneCommits
    /\ RemovedRecorded

-----------------------------------------------------------------------------
(* A step of one process, as the others see it.                            *)
OthersStay(i) ==
    \A j \in Instances \ {i} : /\ pc'[j] = pc[j] /\ task'[j] = task[j]
                               /\ next'[j] = next[j] /\ wrote'[j] = wrote[j]

(* A process that changes nothing others can see keeps the invariant if it *)
(* keeps its own part of it.                                               *)
LEMMA ProcessStep ==
    ASSUME MigratorInv, NEW i \in Instances, UNCHANGED <<recorded, made>>, TypeOK',
           OthersStay(i), DownAlone', Runs(i)' => Behind(i)', Knows(i)',
           \A j \in Instances \ {i} :
              pc'[i] = "commit" /\ pc[j] = "commit" => next'[i] # next[j]
    PROVE  MigratorInv'
<1>1. PassedDone'
  BY DEF PassedDone, MigratorInv, OthersStay, Behind, Runs
<1>2. AllKnow'
  BY DEF AllKnow, MigratorInv, OthersStay, Knows
<1>3. OneCommits'
  BY DEF OneCommits, MigratorInv, OthersStay
<1>4. RecordedApplied' /\ RemovedRecorded'
  BY DEF MigratorInv, RecordedApplied, RemovedRecorded
<1> QED
  BY <1>1, <1>2, <1>3, <1>4 DEF MigratorInv

(* A process that was at work goes on with its task, or exits.             *)
LEMMA GoesOn ==
    ASSUME MigratorInv, NEW i \in Instances, Runs(i), OthersStay(i),
           ~Runs(i)' \/ task'[i] = task[i]
    PROVE  DownAlone'
  BY DEF MigratorInv, DownAlone, Runs, OthersStay

LEMMA ExitStep ==
    ASSUME MigratorInv, NEW i \in Instances, Runs(i), Exit(i), UNCHANGED <<recorded, made>>,
           tracking' \in BOOLEAN
    PROVE  MigratorInv'
<1>1. /\ TypeOK' /\ OthersStay(i) /\ ~Runs(i)' /\ pc'[i] = "off"
  BY DEF MigratorInv, TypeOK, Exit, OthersStay, Runs
<1>2. Knows(i)'
  <2>1. Knows(i) /\ task'[i] = task[i] /\ next'[i] = next[i]
    BY DEF MigratorInv, AllKnow, Exit
  <2> QED
    BY <1>1, <2>1 DEF Knows, InTransaction
<1> QED
  BY <1>1, <1>2, GoesOn, ProcessStep

(* A process that goes to a step outside the transaction of a migration.   *)
LEMMA GoToStep ==
    ASSUME MigratorInv, NEW i \in Instances, Runs(i), NEW step \in {"create", "check", "up"},
           step = "up" => pc[i] = "recover", GoTo(i, step),
           UNCHANGED <<recorded, made>>, tracking' \in BOOLEAN
    PROVE  MigratorInv'
<1>1. /\ TypeOK' /\ OthersStay(i) /\ pc'[i] = step
      /\ task'[i] = task[i] /\ next'[i] = next[i] /\ wrote'[i] = wrote[i]
  BY DEF MigratorInv, TypeOK, GoTo, OthersStay, Migrating
<1>2. Knows(i)'
  <2>1. Knows(i) /\ step \notin InTransaction \cup {"recover"}
    BY DEF MigratorInv, AllKnow, InTransaction
  <2>2. step = "up" => task[i] = "up" /\ next[i] = Last + 1
    BY <2>1 DEF Knows
  <2> QED
    BY <1>1, <2>1, <2>2 DEF Knows, InTransaction
<1>3. Behind(i)'
  BY <1>1 DEF Behind, MigratorInv, PassedDone
<1>4. pc'[i] # "commit"
  BY <1>1
<1> QED
  BY <1>1, <1>2, <1>3, <1>4, GoesOn, ProcessStep

-----------------------------------------------------------------------------
(* The invariant holds at first, and each action keeps it.                 *)
LEMMA MigratorInit == Init => MigratorInv
<1> SUFFICES ASSUME Init PROVE MigratorInv
  OBVIOUS
<1>1. TypeOK
  <2>1. made \in [Versions -> {"absent", "present", "removed"}]
    BY DEF Init
  <2>2. 1 \in 0..(Last + 1)
    BY VersionsAssumption
  <2> QED
    BY <2>1, <2>2 DEF Init, TypeOK
<1>2. RecordedApplied /\ RemovedRecorded
  BY DEF Init, RecordedApplied, RemovedRecorded
<1>3. DownAlone /\ PassedDone /\ AllKnow /\ OneCommits
  BY VersionsAssumption DEF Init, DownAlone, Runs, PassedDone, AllKnow, Knows, InTransaction, OneCommits
<1> QED
  BY <1>1, <1>2, <1>3 DEF MigratorInv

LEMMA BootStep == ASSUME MigratorInv, NEW i \in Instances, Boot(i) PROVE MigratorInv'
<1>1. /\ pc[i] = "off" /\ pc'[i] = "look" /\ task'[i] = "up" /\ next'[i] = 1
      /\ OthersStay(i) /\ UNCHANGED database /\ TypeOK'
  BY VersionsAssumption DEF MigratorInv, TypeOK, Boot, Start, OthersStay, Migrating, database
<1>2. DownAlone'
  BY <1>1 DEF MigratorInv, DownAlone, Runs, OthersStay, Boot, DownRuns
<1>3. Behind(i)'
  BY <1>1, VersionsAssumption DEF Behind, Versions
<1>4. Knows(i)'
  BY <1>1, VersionsAssumption DEF Knows, InTransaction
<1> QED
  BY <1>1, <1>2, <1>3, <1>4, ProcessStep DEF database

LEMMA DownStep == ASSUME MigratorInv, NEW i \in Instances, Down(i) PROVE MigratorInv'
<1>1. /\ pc[i] = "off" /\ pc'[i] = "look" /\ task'[i] = "down" /\ next'[i] = Last
      /\ OthersStay(i) /\ UNCHANGED database /\ TypeOK'
  BY VersionsAssumption DEF MigratorInv, TypeOK, Down, Start, OthersStay, Migrating, database
<1>2. DownAlone'
  BY <1>1 DEF MigratorInv, DownAlone, Runs, OthersStay, Down, Alone
<1>3. Behind(i)'
  BY <1>1, VersionsAssumption DEF Behind, Versions
<1>4. Knows(i)'
  BY <1>1, VersionsAssumption DEF Knows, InTransaction
<1> QED
  BY <1>1, <1>2, <1>3, <1>4, ProcessStep DEF database

LEMMA Continues ==
    ASSUME TypeOK, NEW i \in Instances, next[i] \in Versions, Continue(i),
           UNCHANGED <<tracking, recorded, made>>
    PROVE  /\ TypeOK' /\ OthersStay(i) /\ pc'[i] = "check" /\ task'[i] = task[i]
           /\ next'[i] = IF task[i] = "up" THEN next[i] + 1 ELSE next[i] - 1
<1>1. (IF task[i] = "up" THEN next[i] + 1 ELSE next[i] - 1) \in 0..(Last + 1)
  BY VersionsAssumption DEF Versions
<1>2. "check" \in Migrating
  BY DEF Migrating
<1> QED
  BY <1>1, <1>2 DEF TypeOK, Continue, OthersStay

LEMMA CheckStep == ASSUME MigratorInv, NEW i \in Instances, Check(i) PROVE MigratorInv'
<1>0. Runs(i) /\ Behind(i) /\ TypeOK /\ UNCHANGED <<recorded, made, tracking>> /\ next[i] \in Int
  BY VersionsAssumption DEF TypeOK, Check, Runs, MigratorInv, PassedDone, database
<1>1. CASE next[i] \notin Versions /\ task[i] = "up"
  <2>1. /\ TypeOK' /\ OthersStay(i) /\ pc'[i] = "recover"
        /\ task'[i] = task[i] /\ next'[i] = next[i] /\ wrote'[i] = wrote[i]
    BY <1>0, <1>1 DEF Check, TypeOK, GoTo, OthersStay
  <2>2. next[i] # 0
    BY <1>1 DEF Knows, MigratorInv, AllKnow
  <2>3. Knows(i)'
    BY <1>0, <1>1, <2>1, <2>2, VersionsAssumption DEF Knows, InTransaction, TypeOK, Versions
  <2>4. Behind(i)'
    BY <1>0, <2>1 DEF Behind
  <2> QED
    BY <1>0, <2>1, <2>3, <2>4, GoesOn, ProcessStep
<1>2. CASE next[i] \notin Versions /\ task[i] # "up"
  BY <1>0, <1>2, ExitStep DEF Check, TypeOK
<1>3. CASE next[i] \in Versions /\ (next[i] \in recorded) = (task[i] = "up")
  <2>1. Continue(i)
    BY <1>3 DEF Check
  <2>2. /\ TypeOK' /\ OthersStay(i) /\ pc'[i] = "check" /\ task'[i] = task[i]
        /\ next'[i] = IF task[i] = "up" THEN next[i] + 1 ELSE next[i] - 1
    BY <1>0, <1>3, <2>1, Continues
  <2>3. Behind(i)'
    <3>1. CASE task[i] = "up"
      BY <1>0, <1>3, <2>2, <3>1, VersionsAssumption DEF Behind, Versions
    <3>2. CASE task[i] # "up"
      BY <1>0, <1>3, <2>2, <3>2, VersionsAssumption DEF Behind, Versions
    <3> QED
      BY <3>1, <3>2
  <2>4. Knows(i)'
    BY <1>3, <2>2 DEF Knows, InTransaction, Versions
  <2> QED
    BY <1>0, <2>2, <2>3, <2>4, GoesOn, ProcessStep
<1>4. CASE next[i] \in Versions /\ (next[i] \in recorded) # (task[i] = "up")
  <2>1. /\ TypeOK' /\ OthersStay(i) /\ pc'[i] = "execute"
        /\ task'[i] = task[i] /\ next'[i] = next[i]
    BY <1>0, <1>4 DEF Check, TypeOK, GoTo, OthersStay, Migrating
  <2>2. Behind(i)' /\ Knows(i)'
    BY <1>0, <1>4, <2>1 DEF Behind, Knows, Versions
  <2> QED
    BY <1>0, <2>1, <2>2, GoesOn, ProcessStep
<1> QED
  BY <1>1, <1>2, <1>3, <1>4

LEMMA ExecuteStep == ASSUME MigratorInv, NEW i \in Instances, Execute(i) PROVE MigratorInv'
<1>0. Runs(i) /\ Behind(i) /\ Knows(i) /\ TypeOK
  BY DEF Execute, Runs, MigratorInv, PassedDone, AllKnow
<1>1. /\ TypeOK' /\ OthersStay(i) /\ pc'[i] = "record" /\ task'[i] = task[i]
      /\ next'[i] = next[i] /\ wrote'[i] = (task[i] = "down" \/ made[next[i]] # "present")
      /\ UNCHANGED <<recorded, made>>
  BY <1>0 DEF Execute, TypeOK, OthersStay, Migrating, database
<1>2. Knows(i)'
  BY <1>0, <1>1 DEF Knows, Execute, InTransaction, TypeOK
<1>3. Behind(i)'
  BY <1>0, <1>1 DEF Behind
<1> QED
  BY <1>0, <1>1, <1>2, <1>3, GoesOn, ProcessStep

LEMMA RecordStep == ASSUME MigratorInv, NEW i \in Instances, Record(i) PROVE MigratorInv'
<1>0. Runs(i) /\ Behind(i) /\ Knows(i) /\ TypeOK /\ UNCHANGED <<recorded, made, tracking>>
  BY DEF Record, Runs, MigratorInv, PassedDone, AllKnow, database
<1>1. CASE task[i] = "up" /\ next[i] \in recorded
  BY <1>0, <1>1, ExitStep DEF Record, TypeOK
<1>2. CASE ~(task[i] = "up" /\ next[i] \in recorded)
  <2>1. /\ TypeOK' /\ OthersStay(i) /\ pc'[i] = "commit" /\ task'[i] = task[i]
        /\ next'[i] = next[i] /\ wrote'[i] = wrote[i]
    BY <1>0, <1>2 DEF Record, GoTo, TypeOK, OthersStay, Migrating
  <2>2. Knows(i)' /\ Behind(i)'
    BY <1>0, <1>2, <2>1 DEF Knows, Behind, Record, InTransaction
  <2>3. \A j \in Instances \ {i} : pc[j] = "commit" => next'[i] # next[j]
    BY <2>1 DEF Record, Recording
  <2> QED
    BY <1>0, <2>1, <2>2, <2>3, GoesOn, ProcessStep
<1> QED
  BY <1>1, <1>2

(* A commit of Up records the migration that comes next, applied; one of   *)
(* Down takes back the last that is recorded.                              *)
UpCommitted(n) == recorded' = recorded \cup {n} /\ \A m \in 1..n : m \in recorded'
DownCommitted(n) == recorded' = recorded \ {n} /\ \A m \in recorded' : m < n

LEMMA CommitWrites ==
    ASSUME MigratorInv, NEW i \in Instances, Commit(i)
    PROVE  /\ next[i] \in Versions
           /\ IF task[i] = "up" THEN UpCommitted(next[i]) /\ next[i] \notin recorded
              ELSE DownCommitted(next[i]) /\ made'[next[i]] = "absent"
           /\ \A m \in Versions \ {next[i]} : made'[m] = made[m]
           /\ task[i] = "up" => made'[next[i]] \in {"present", made[next[i]]} \ {"absent"}
           /\ made' \in [Versions -> {"absent", "present", "removed"}]
<1> DEFINE n == next[i]
<1>1. /\ pc[i] = "commit" /\ Knows(i) /\ Behind(i) /\ TypeOK /\ n \in Versions
      /\ Committed(i) /\ recorded \subseteq Versions /\ task[i] \in {"up", "down"}
  BY DEF Commit, MigratorInv, AllKnow, PassedDone, Runs, Knows, InTransaction, TypeOK
<1>2. CASE task[i] = "up"
  <2>1. UpCommitted(n) /\ n \notin recorded
    BY <1>1, <1>2, VersionsAssumption DEF Committed, UpCommitted, Behind, Knows, Versions
  <2>2. /\ \A m \in Versions \ {n} : made'[m] = made[m]
        /\ made'[n] \in {"present", made[n]} \ {"absent"}
        /\ made' \in [Versions -> {"absent", "present", "removed"}]
    BY <1>1, <1>2 DEF Committed, Knows, TypeOK
  <2> QED
    BY <1>1, <1>2, <2>1, <2>2
<1>3. CASE task[i] = "down"
  <2>1. wrote[i]
    BY <1>1, <1>3 DEF Knows
  <2>2. recorded' = recorded \ {n} /\ made' = [made EXCEPT ![n] = "absent"]
    BY <1>1, <1>3, <2>1 DEF Committed
  <2>3. \A m \in recorded' : m < n
    BY <1>1, <1>3, <2>2, VersionsAssumption DEF Behind, Versions
  <2> QED
    BY <1>1, <1>3, <2>2, <2>3 DEF DownCommitted, TypeOK
<1> QED
  BY <1>1, <1>2, <1>3

LEMMA CommitStep == ASSUME MigratorInv, NEW i \in Instances, Commit(i) PROVE MigratorInv'
<1> DEFINE n == next[i]
<1>1. /\ pc[i] = "commit" /\ Knows(i) /\ Behind(i) /\ Runs(i) /\ TypeOK /\ n \in Versions /\ n \in Int
      /\ tracking' = tracking /\ recorded \subseteq Versions /\ task[i] \in {"up", "down"}
  BY VersionsAssumption
     DEF Commit, MigratorInv, AllKnow, PassedDone, Runs, Knows, InTransaction, TypeOK, Versions
<1>2. /\ \/ /\ pc'[i] = "check" /\ task'[i] = task[i]
            /\ next'[i] = IF task[i] = "up" THEN n + 1 ELSE n - 1
         \/ ~Runs(i)' /\ task'[i] = task[i] /\ next'[i] = n /\ pc'[i] = "off"
      /\ OthersStay(i)
      /\ pc' \in [Instances -> Migrating \cup {"off", "recover", "up"}]
      /\ task' \in [Instances -> {"up", "down"}]
      /\ next' \in [Instances -> 0..(Last + 1)]
      /\ wrote' \in [Instances -> BOOLEAN]
  <2>1. CASE Continue(i)
    <3>1. (IF task[i] = "up" THEN next[i] + 1 ELSE next[i] - 1) \in 0..(Last + 1)
      BY <1>1, VersionsAssumption DEF Versions
    <3> QED
      BY <1>1, <2>1, <3>1 DEF TypeOK, Continue, OthersStay, Migrating
  <2>2. CASE Exit(i)
    BY <1>1, <2>2 DEF TypeOK, Exit, OthersStay, Runs
  <2> QED
    BY <2>1, <2>2 DEF Commit
<1>3. /\ IF task[i] = "up" THEN UpCommitted(n) /\ n \notin recorded
         ELSE DownCommitted(n) /\ made'[n] = "absent"
      /\ \A m \in Versions \ {n} : made'[m] = made[m]
      /\ task[i] = "up" => made'[n] \in {"present", made[n]} \ {"absent"}
      /\ made' \in [Versions -> {"absent", "present", "removed"}]
  BY CommitWrites
<1>4. TypeOK'
  BY <1>1, <1>2, <1>3 DEF TypeOK, UpCommitted, DownCommitted
<1>5. DownAlone'
  BY <1>1, <1>2, GoesOn
<1>6. RecordedApplied' /\ RemovedRecorded'
  <2>1. RecordedApplied /\ RemovedRecorded
    BY DEF MigratorInv
  <2>2. CASE task[i] = "up"
    <3>1. recorded' = recorded \cup {n} /\ \A m \in 1..n : m \in recorded'
      BY <1>3, <2>2 DEF UpCommitted
    <3>2. \A m \in recorded' : made'[m] # "absent"
      BY <1>1, <1>3, <2>1, <2>2, <3>1 DEF RecordedApplied
    <3>3. \A m \in recorded' : \A k \in 1..m : k \in recorded'
      BY <2>1, <3>1 DEF RecordedApplied
    <3>4. RemovedRecorded'
      BY <1>3, <2>1, <3>1 DEF RemovedRecorded
    <3> QED
      BY <3>2, <3>3, <3>4 DEF RecordedApplied
  <2>3. CASE task[i] # "up"
    <3>1. recorded' = recorded \ {n} /\ \A m \in recorded' : m < n
      BY <1>3, <2>3 DEF DownCommitted
    <3>2. \A m \in recorded' : made'[m] # "absent"
      BY <1>1, <1>3, <2>1, <3>1 DEF RecordedApplied
    <3>3. ASSUME NEW m \in recorded', NEW k \in 1..m PROVE k \in recorded'
      <4>1. m \in recorded /\ m \in Int /\ m < n
        BY <1>1, <3>1, VersionsAssumption DEF Versions
      <4>2. k \in recorded /\ k # n
        BY <1>1, <2>1, <4>1 DEF RecordedApplied
      <4> QED
        BY <3>1, <4>2
    <3>4. RemovedRecorded'
      BY <1>3, <2>1, <2>3, <3>1 DEF RemovedRecorded
    <3> QED
      BY <3>2, <3>3, <3>4 DEF RecordedApplied
  <2> QED
    BY <2>2, <2>3
<1>7. ASSUME NEW j \in Instances \ {i}, Runs(j) PROVE task[i] = "up" /\ task[j] = "up"
  BY <1>1, <1>7 DEF MigratorInv, DownAlone, TypeOK
<1>8. \A j \in Instances \ {i} : Runs(j) => Behind(j)'
  <2>1. ASSUME NEW j \in Instances \ {i}, Runs(j) PROVE Behind(j)'
    <3>1. task[i] = "up" /\ task'[j] = "up" /\ next'[j] = next[j] /\ Behind(j) /\ task[j] = "up"
      BY <1>2, <1>7, <2>1 DEF OthersStay, MigratorInv, PassedDone
    <3>2. recorded \subseteq recorded'
      BY <1>3, <3>1 DEF UpCommitted
    <3> QED
      BY <3>1, <3>2 DEF Behind
  <2> QED
    BY <2>1
<1>9. PassedDone'
  <2>1. Runs(i)' => Behind(i)'
    <3>1. ASSUME Runs(i)', task[i] = "up" PROVE Behind(i)'
      BY <1>1, <1>2, <1>3, <3>1 DEF Behind, UpCommitted, Versions, Runs
    <3>2. ASSUME Runs(i)', task[i] # "up" PROVE Behind(i)'
      BY <1>1, <1>2, <1>3, <3>2 DEF Behind, DownCommitted, Versions, Runs
    <3> QED
      BY <3>1, <3>2
  <2> QED
    BY <1>2, <1>8, <2>1 DEF PassedDone, OthersStay, Runs
<1>10. ASSUME NEW j \in Instances PROVE Knows(j)'
  <2>1. Knows(j)
    BY DEF MigratorInv, AllKnow
  <2>2. CASE j = i
    BY <1>1, <1>2, <2>1, <2>2 DEF Knows, InTransaction, Runs, Versions
  <2>3. CASE j # i /\ ~Runs(j)
    BY <1>2, <2>1, <2>3 DEF Knows, InTransaction, Runs, OthersStay
  <2>4. CASE j # i /\ Runs(j)
    <3>1. /\ task[i] = "up" /\ UpCommitted(n) /\ made'[n] # "absent"
          /\ pc'[j] = pc[j] /\ task'[j] = task[j] /\ next'[j] = next[j] /\ wrote'[j] = wrote[j]
      BY <1>2, <1>3, <1>7, <2>4 DEF OthersStay
    <3>2. pc[j] = "commit" => next[j] # n
      BY <1>1, <2>4 DEF MigratorInv, OneCommits
    <3>3. pc[j] \in InTransaction => next[j] \in Versions
      BY <2>1 DEF Knows
    <3>4. pc[j] \in {"record", "commit"} /\ made[next[j]] # "absent" => made'[next[j]] # "absent"
      BY <1>3, <3>1, <3>3 DEF InTransaction
    <3> QED
      BY <2>1, <3>1, <3>2, <3>3, <3>4 DEF Knows, UpCommitted
  <2> QED
    BY <2>2, <2>3, <2>4
<1>11. OneCommits'
  BY <1>2 DEF OneCommits, MigratorInv, OthersStay
<1> QED
  BY <1>4, <1>5, <1>6, <1>9, <1>10, <1>11 DEF MigratorInv, AllKnow

(* A process that serves has every migration behind it.                    *)
LEMMA ServingHasAll ==
    ASSUME MigratorInv, NEW i \in Instances, pc[i] \in {"recover", "up"} PROVE recorded = Versions
<1>1. task[i] = "up" /\ next[i] = Last + 1 /\ Behind(i) /\ recorded \subseteq Versions
  BY DEF MigratorInv, AllKnow, Knows, PassedDone, Runs, TypeOK
<1>2. \A m \in Versions : m < Last + 1
  BY VersionsAssumption DEF Versions
<1> QED
  BY <1>1, <1>2 DEF Behind

LEMMA RemoveStep == ASSUME MigratorInv, NEW m \in Seeds, Remove(m) PROVE MigratorInv'
<1>1. /\ made' = [made EXCEPT ![m] = "removed"] /\ m \in Versions
      /\ UNCHANGED <<tracking, recorded, pc, task, next, wrote>> /\ TypeOK
  BY VersionsAssumption DEF Remove, process, MigratorInv
<1>2. recorded = Versions
  BY ServingHasAll DEF Remove
<1>3. TypeOK' /\ RecordedApplied' /\ RemovedRecorded'
  BY <1>1, <1>2 DEF TypeOK, MigratorInv, RecordedApplied, RemovedRecorded
<1>4. DownAlone' /\ PassedDone' /\ OneCommits'
  BY <1>1 DEF MigratorInv, DownAlone, PassedDone, Behind, Runs, OneCommits
<1>5. AllKnow'
  BY <1>1 DEF MigratorInv, AllKnow, Knows, InTransaction, TypeOK
<1> QED
  BY <1>3, <1>4, <1>5 DEF MigratorInv

LEMMA MigratorNext == MigratorInv /\ [Next]_vars => MigratorInv'
<1> SUFFICES ASSUME MigratorInv, [Next]_vars PROVE MigratorInv'
  OBVIOUS
<1> USE DEF Runs, database
<1>1. ASSUME NEW i \in Instances, Look(i) PROVE MigratorInv'
  BY <1>1, GoToStep DEF Look, MigratorInv, TypeOK
<1>2. ASSUME NEW i \in Instances, Create(i) PROVE MigratorInv'
  BY <1>2, GoToStep, ExitStep DEF Create
<1>3. ASSUME NEW i \in Instances, Recover(i) PROVE MigratorInv'
  BY <1>3, GoToStep DEF Recover, MigratorInv, TypeOK
<1>4. ASSUME NEW i \in Instances, Fail(i) \/ Stop(i) PROVE MigratorInv'
  BY <1>4, ExitStep DEF Fail, Stop, Migrating, MigratorInv, TypeOK
<1>5. CASE UNCHANGED vars
  BY <1>5 DEF vars, process, MigratorInv, TypeOK, RecordedApplied, DownAlone, PassedDone, Behind,
              AllKnow, Knows, OneCommits, RemovedRecorded
<1> QED
  BY <1>1, <1>2, <1>3, <1>4, <1>5, BootStep, DownStep, CheckStep, ExecuteStep, RecordStep,
     CommitStep, RemoveStep DEF Next, Step

(* Every reachable state satisfies it.                                     *)
THEOREM MigratorCorrect == Spec => []MigratorInv
  BY MigratorInit, MigratorNext, PTL DEF Spec

(* However boots overlap, fail and start again, the migrations recorded    *)
(* are a beginning of the list, and each of them is applied.               *)
THEOREM AlwaysApplied == Spec => []RecordedApplied
<1>1. MigratorInv => RecordedApplied
  BY DEF MigratorInv
<1> QED
  BY <1>1, MigratorCorrect, PTL

(* A process that serves has the whole schema.                             *)
THEOREM ServesWhole == Spec => []ServesComplete
<1>1. MigratorInv => ServesComplete
  BY ServingHasAll DEF ServesComplete
<1> QED
  BY <1>1, MigratorCorrect, PTL

(* What operators have deleted stays deleted while its migration is        *)
(* recorded: nobody makes it again, however late.                          *)
THEOREM RemovedNotMade == Spec => RemovedStays
<1> DEFINE Stays == \A m \in recorded' : made[m] = "removed" => made'[m] = "removed"
<1>1. MigratorInv /\ [Next]_vars => [Stays]_vars
  <2> SUFFICES ASSUME MigratorInv, Next PROVE Stays
    OBVIOUS
  <2>1. ASSUME NEW i \in Instances, Commit(i) PROVE Stays
    <3>1. /\ IF task[i] = "up" THEN next[i] \notin recorded ELSE next[i] \notin recorded'
          /\ \A m \in Versions \ {next[i]} : made'[m] = made[m]
          /\ recorded' \subseteq Versions
      BY <2>1, CommitWrites DEF UpCommitted, DownCommitted, MigratorInv, TypeOK
    <3>2. next[i] \notin recorded => made[next[i]] # "removed"
      BY <2>1, CommitWrites DEF MigratorInv, RemovedRecorded
    <3> QED
      BY <3>1, <3>2
  <2>2. ASSUME NEW m \in Seeds, Remove(m) PROVE Stays
    BY <2>2, VersionsAssumption DEF Remove, MigratorInv, TypeOK
  <2>3. ASSUME made' = made PROVE Stays
    BY <2>3
  <2> QED
    BY <2>1, <2>2, <2>3 DEF Next, Step, Boot, Down, Look, Create, Check, Execute, Record,
                            Recover, Fail, Stop, database
<1> QED
  BY <1>1, MigratorCorrect, PTL DEF Spec, RemovedStays
=============================================================================
