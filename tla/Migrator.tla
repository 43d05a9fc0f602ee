------------------------------ MODULE Migrator ------------------------------
(***************************************************************************)
(* The boot of server processes on one database: Migrator.Up and Down, and *)
(* main, which exits when Up fails and serves when it has succeeded.  The  *)
(* container runtime starts a process again that has exited.               *)
(*                                                                         *)
(* A migration runs in a transaction of its own: its statements, then its  *)
(* row in schema_migrations.  What a transaction writes becomes visible    *)
(* when it commits; another that writes the same waits for its end.  The   *)
(* sync events that a process recovers at boot are those of SyncService.   *)
(***************************************************************************)
EXTENDS Integers

CONSTANTS Instances,  \* server processes, and test programs that call Down
          Last,       \* AvailableMigrations are 1..Last
          Seeds,      \* migrations that insert rows, which operators may delete
          MaxFaults,  \* bound: statements that fail, and processes that die
          MaxDowns    \* bound: calls of Down

Versions == 1..Last

ASSUME VersionsAssumption == Last \in Nat \ {0} /\ Seeds \subseteq Versions
ASSUME BoundsAssumption == MaxFaults \in Nat /\ MaxDowns \in Nat

VARIABLES tracking,  \* the table schema_migrations exists
          recorded,  \* its rows
          made,      \* what each migration makes, as far as it is committed
          pc,        \* what each process does next
          task,      \* which of Up and Down it runs
          next,      \* mig.Version
          wrote,     \* its transaction has made something
          faults, downs

database == <<tracking, recorded, made>>
process == <<pc, task, next, wrote>>
vars == <<database, process, faults, downs>>

Migrating == {"look", "create", "check", "execute", "record", "commit"}

-----------------------------------------------------------------------------
(* An empty database, or one to which the schema and the data were pushed  *)
(* by other means (the Supabase migrations).                               *)
Init ==
    /\ tracking = FALSE /\ recorded = {}
    /\ \E n \in 0..Last :
          made = [m \in Versions |-> IF m <= n THEN "present" ELSE "absent"]
    /\ pc = [i \in Instances |-> "off"] /\ task = [i \in Instances |-> "up"]
    /\ next = [i \in Instances |-> 1] /\ wrote = [i \in Instances |-> FALSE]
    /\ faults = 0 /\ downs = 0

Fault == faults < MaxFaults /\ faults' = faults + 1

(* A task begins, with the table schema_migrations.                        *)
Start(i, t, first) ==
    /\ pc' = [pc EXCEPT ![i] = "look"]
    /\ task' = [task EXCEPT ![i] = t]
    /\ next' = [next EXCEPT ![i] = first]
    /\ UNCHANGED wrote

GoTo(i, step) ==
    /\ pc' = [pc EXCEPT ![i] = step]
    /\ UNCHANGED <<task, next, wrote>>

(* The next migration: ascending for Up, descending for Down.              *)
Continue(i) ==
    /\ pc' = [pc EXCEPT ![i] = "check"]
    /\ next' = [next EXCEPT ![i] = IF task[i] = "up" THEN @ + 1 ELSE @ - 1]
    /\ wrote' = [wrote EXCEPT ![i] = FALSE]
    /\ UNCHANGED task

(* The process exits; the transaction, if any, is rolled back.             *)
Exit(i) ==
    /\ pc' = [pc EXCEPT ![i] = "off"]
    /\ wrote' = [wrote EXCEPT ![i] = FALSE]
    /\ UNCHANGED <<task, next>>

-----------------------------------------------------------------------------
(* Only the tests call Down, with no server at work on the database.       *)
Alone(i) == \A j \in Instances \ {i} : pc[j] = "off"
DownRuns == \E j \in Instances : pc[j] # "off" /\ task[j] = "down"

Boot(i) ==
    /\ pc[i] = "off" /\ ~DownRuns
    /\ Start(i, "up", 1)
    /\ UNCHANGED <<database, faults, downs>>

Down(i) ==
    /\ pc[i] = "off" /\ Alone(i)
    /\ downs < MaxDowns /\ downs' = downs + 1
    /\ Start(i, "down", Last)
    /\ UNCHANGED <<database, faults>>

(* Slip: the table is created without IF NOT EXISTS.                       *)
LookNowhere(i) ==
    /\ pc[i] = "look"
    /\ GoTo(i, "create")
    /\ UNCHANGED <<database, faults, downs>>

(* CREATE TABLE IF NOT EXISTS looks for the table, then creates it, and    *)
(* fails if another process has created it in between.                     *)
Look(i) ==
    /\ pc[i] = "look"
    /\ GoTo(i, IF tracking THEN "check" ELSE "create")
    /\ UNCHANGED <<database, faults, downs>>

Create(i) ==
    /\ pc[i] = "create"
    /\ tracking' = TRUE
    /\ IF tracking THEN Exit(i) ELSE GoTo(i, "check")
    /\ UNCHANGED <<recorded, made, faults, downs>>

(* After the last migration Up returns, and main goes on to Recover; the   *)
(* test program that called Down ends.                                     *)
Check(i) ==
    /\ pc[i] = "check"
    /\ IF next[i] \notin Versions THEN IF task[i] = "up" THEN GoTo(i, "recover") ELSE Exit(i)
       ELSE IF (next[i] \in recorded) = (task[i] = "up") THEN Continue(i)
       ELSE GoTo(i, "execute")
    /\ UNCHANGED <<database, faults, downs>>

-----------------------------------------------------------------------------
(* The transaction of a migration                                          *)

(* Others that have made, or recorded, what i is about to, not committed.  *)
Making(i) == {j \in Instances \ {i} : wrote[j] /\ next[j] = next[i]}
Recording(i) == {j \in Instances \ {i} : pc[j] = "commit" /\ next[j] = next[i]}

(* Slip: the statements run on the pool instead of the transaction.        *)
ExecuteOnPool(i) ==
    /\ pc[i] = "execute"
    /\ Making(i) = {}
    /\ made' = [made EXCEPT ![next[i]] = "present"]
    /\ GoTo(i, "record")
    /\ UNCHANGED <<tracking, recorded, faults, downs>>

(* CREATE ... IF NOT EXISTS and INSERT ... ON CONFLICT DO NOTHING make     *)
(* what is not there.  The down files undo it, whatever is left of it.     *)
Execute(i) ==
    /\ pc[i] = "execute"
    /\ Making(i) = {}
    /\ pc' = [pc EXCEPT ![i] = "record"]
    /\ wrote' = [wrote EXCEPT ![i] = task[i] = "down" \/ made[next[i]] # "present"]
    /\ UNCHANGED <<database, task, next, faults, downs>>

(* Slip: the row is inserted on the pool instead of the transaction.       *)
RecordOnPool(i) ==
    /\ pc[i] = "record"
    /\ Recording(i) = {}
    /\ recorded' = IF task[i] = "up" THEN recorded \cup {next[i]} ELSE recorded
    /\ IF task[i] = "up" /\ next[i] \in recorded THEN Exit(i) ELSE GoTo(i, "commit")
    /\ UNCHANGED <<tracking, made, faults, downs>>

(* version is the primary key: of two processes that found the migration   *)
(* not applied, one inserts the row and the other fails.                   *)
Record(i) ==
    /\ pc[i] = "record"
    /\ Recording(i) = {}
    /\ IF task[i] = "up" /\ next[i] \in recorded THEN Exit(i) ELSE GoTo(i, "commit")
    /\ UNCHANGED <<database, faults, downs>>

Committed(i) ==
    /\ recorded' = IF task[i] = "up" THEN recorded \cup {next[i]} ELSE recorded \ {next[i]}
    /\ made' = IF ~wrote[i] THEN made
               ELSE [made EXCEPT ![next[i]] = IF task[i] = "up" THEN "present" ELSE "absent"]

(* The answer to COMMIT may be lost: the process exits, the work is done.  *)
Commit(i) ==
    /\ pc[i] = "commit"
    /\ Committed(i)
    /\ \/ Continue(i) /\ UNCHANGED faults
       \/ Exit(i) /\ Fault
    /\ UNCHANGED <<tracking, downs>>

(* Slip: main logs the error of Up and goes on, as it does for Recover.    *)
FailOnly(i) ==
    /\ pc[i] \in Migrating
    /\ Fault
    /\ IF task[i] = "up"
       THEN /\ pc' = [pc EXCEPT ![i] = "recover"]
            /\ wrote' = [wrote EXCEPT ![i] = FALSE] /\ UNCHANGED <<task, next>>
       ELSE Exit(i)
    /\ UNCHANGED <<database, downs>>

(* A statement fails, the five seconds for the boot are over, or the       *)
(* process is killed.                                                      *)
Fail(i) ==
    /\ pc[i] \in Migrating
    /\ Fault
    /\ Exit(i)
    /\ UNCHANGED <<database, downs>>

-----------------------------------------------------------------------------
(* An error of Recover is logged and no more.                              *)
Recover(i) ==
    /\ pc[i] = "recover"
    /\ GoTo(i, "up")
    /\ UNCHANGED <<database, faults, downs>>

(* Through a process that serves, operators delete what was inserted.      *)
Remove(m) ==
    /\ \E i \in Instances : pc[i] = "up"
    /\ m \in Seeds /\ made[m] = "present"
    /\ made' = [made EXCEPT ![m] = "removed"]
    /\ UNCHANGED <<tracking, recorded, process, faults, downs>>

(* A shutdown, or a crash.                                                 *)
Stop(i) ==
    /\ pc[i] \in {"recover", "up"}
    /\ Fault
    /\ Exit(i)
    /\ UNCHANGED <<database, downs>>

-----------------------------------------------------------------------------
Step(i) ==
    \/ Look(i) \/ Create(i) \/ Check(i) \/ Execute(i) \/ Record(i) \/ Commit(i)
    \/ Recover(i)

Next ==
    \/ \E i \in Instances : Boot(i) \/ Down(i) \/ Step(i) \/ Fail(i) \/ Stop(i)
    \/ \E m \in Seeds : Remove(m)

Spec == Init /\ [][Next]_vars

(* Processes run, and the runtime starts those again that have exited      *)
(* (restart: unless-stopped).  Nobody has to call Down.                    *)
Fairness == \A i \in Instances : WF_vars(Boot(i)) /\ WF_vars(Step(i))

FairSpec == Spec /\ Fairness

-----------------------------------------------------------------------------
(* Properties                                                              *)

(* The migrations that are recorded are applied, and they are the first    *)
(* ones of the list: however boots overlap, fail and start again, and with *)
(* Down in between, none is skipped and none is recorded for nothing.      *)
RecordedApplied ==
    \A m \in recorded : made[m] # "absent" /\ \A k \in 1..m : k \in recorded

(* A process that serves works on the whole schema, with the data that the *)
(* last migration inserted at some time.                                   *)
ServesComplete ==
    \A i \in Instances : pc[i] \in {"recover", "up"} => recorded = Versions

(* What operators have deleted does not come back with a restart, nor with *)
(* a second process that is late to find the migration applied.            *)
RemovedStays ==
    [][\A m \in recorded' : made[m] = "removed" => made'[m] = "removed"]_vars

(* Processes that boot at the same time may make each other fail, but not  *)
(* for ever: in the end all of them serve.                                 *)
AllServe == \A i \in Instances : []<>(pc[i] = "up")
=============================================================================
