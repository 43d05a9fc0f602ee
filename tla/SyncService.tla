----------------------------- MODULE SyncService -----------------------------
(***************************************************************************)
(* The global sync override: syncService and syncRepo with their callers.  *)
(*                                                                         *)
(* The sync_events table is shared by every server instance.  Each HTTP    *)
(* request is a process that runs on one instance and may be interleaved   *)
(* with any other between two of its database calls, its accesses to the   *)
(* `ended` map and its notifications; each expiry timer is a process too.  *)
(* An instance may crash between any two steps: its requests, timers and   *)
(* `ended` map are lost, its open transaction is rolled back, the table    *)
(* stays.  A database call may fail, with or without having taken effect.  *)
(***************************************************************************)
EXTENDS Integers, FiniteSets

CONSTANTS Requests,       \* HTTP handlers that may run at once
          Instances,      \* server processes on the same database
          Home,           \* the instance each request runs on
          Durations,      \* lengths of sync that operators ask for
          MaxSyncSeconds, \* longest sync that is accepted (18000 in the code)
          DbSkew,         \* database clock minus application clock
          NoRequest,      \* nobody holds the advisory lock
          MaxEvents,      \* bound: rows of sync_events
          MaxTime,        \* bound: last instant of the clock
          MaxFaults,      \* bound: database calls that fail
          MaxCrashes      \* bound: crashes of instances

Ids == 1..MaxEvents
NoId == 0
Timers == Instances \X Ids
Procs == Requests \cup Timers

ASSUME HomeAssumption == Home \in [Requests -> Instances]
ASSUME ProcsAssumption == NoRequest \notin Requests /\ Requests \cap Timers = {}
ASSUME BoundsAssumption ==
    /\ MaxEvents \in Nat /\ MaxTime \in Nat /\ MaxFaults \in Nat /\ MaxCrashes \in Nat
    /\ Durations \subseteq Int /\ MaxSyncSeconds \in Nat /\ DbSkew \in Int

VARIABLES now,       \* application clock; the database's shows now + DbSkew
          status,    \* sync_events.status by id, "none" where there is no row
          endsAt,    \* sync_events.ends_at by id
          nextId,    \* next value of the id sequence
          lock,      \* holder of the transaction-scoped advisory lock
          pc,        \* what each request and each timer does next
          ev,        \* the event a request works on
          asOf,      \* the instant a request captured: startedAt, or GetActive's now
          dur,       \* duration_seconds of a Start request
          ended,     \* by instance: events whose end has been claimed
          mode,      \* by instance: "down", "booting" (in Recover), "up"
          recovered, \* by instance: events that Recover has read
          out,       \* notifications sent so far, by event and kind
          told,      \* what the last of them leaves displays with: the override
                     \* of an event, or none; and (history) if it came too late
          faults, crashes

table == <<status, endsAt, nextId>>
handlers == <<pc, ev, asOf, dur>>
instance == <<ended, mode, recovered>>
vars == <<now, table, lock, handlers, instance, out, told, faults, crashes>>

Statuses == {"none", "active", "completed", "cancelled"}
Kinds == {"started", "completed", "cancelled"}
RequestSteps == {"idle", "refused",                           \* no request; 409 returned
                 "lock", "check", "insert", "sync_started",   \* Start
                 "store", "cancel", "sync_cancelled",         \* Cancel
                 "read", "claim",                             \* GetActive
                 "complete", "release", "sync_ended"}         \* complete
TimerSteps == {"off", "armed", "complete", "release", "sync_ended"}
Resting == {"idle", "refused", "off"}
InTransaction == {"check", "insert"}

-----------------------------------------------------------------------------
HomeOf(p) == IF p \in Requests THEN Home[p] ELSE p[1]
Target(p) == IF p \in Requests THEN ev[p] ELSE p[2]

DbNow == now + DbSkew

(* The row that syncRepo.GetActive returns: the newest active row that the *)
(* database clock finds unexpired, NoId when there is none.                *)
Unexpired == {e \in Ids : status[e] = "active" /\ endsAt[e] > DbNow}
GetActive == IF Unexpired = {} THEN NoId
             ELSE CHOOSE e \in Unexpired : \A f \in Unexpired : f <= e

Goto(p, step) == pc' = [pc EXCEPT ![p] = step]

(* The handler returns, or the timer's function does.                      *)
Return(p, step) ==
    /\ Goto(p, IF p \in Requests THEN step ELSE "off")
    /\ ev' = IF p \in Requests THEN [ev EXCEPT ![p] = NoId] ELSE ev
    /\ asOf' = IF p \in Requests THEN [asOf EXCEPT ![p] = 0] ELSE asOf
    /\ dur' = IF p \in Requests THEN [dur EXCEPT ![p] = 0] ELSE dur

(* Notifications, in the order they are sent.  A display takes the event of*)
(* SYNC_STARTED for the override, and SYNC_ENDED, of whichever event, for  *)
(* its end.  A start is late if it is overtaken: by the announcement of    *)
(* its own end, or of the start of a later event.                          *)
NoOverride == [event |-> NoId, late |-> FALSE]
AnnouncedEnd(e) == out[e]["completed"] + out[e]["cancelled"] > 0
Overtaken(e) == AnnouncedEnd(e) \/ \E f \in Ids : f > e /\ out[f]["started"] > 0

Notify(e, kind) ==
    /\ out' = [out EXCEPT ![e][kind] = @ + 1]
    /\ told' = IF kind = "started" THEN [event |-> e, late |-> Overtaken(e)] ELSE NoOverride

Fault == faults < MaxFaults /\ faults' = faults + 1

SetStatus(e, s) == status' = [status EXCEPT ![e] = s]

-----------------------------------------------------------------------------
Init ==
    /\ now = 0
    /\ status = [e \in Ids |-> "none"] /\ endsAt = [e \in Ids |-> 0] /\ nextId = 1
    /\ lock = NoRequest
    /\ pc = [p \in Procs |-> IF p \in Requests THEN "idle" ELSE "off"]
    /\ ev = [r \in Requests |-> NoId]
    /\ asOf = [r \in Requests |-> 0] /\ dur = [r \in Requests |-> 0]
    /\ ended = [i \in Instances |-> {}]
    /\ mode = [i \in Instances |-> "up"]
    /\ recovered = [i \in Instances |-> {}]
    /\ out = [e \in Ids |-> [k \in Kinds |-> 0]] /\ told = NoOverride
    /\ faults = 0 /\ crashes = 0

Tick ==
    /\ now < MaxTime
    /\ now' = now + 1
    /\ UNCHANGED <<table, lock, handlers, instance, out, told, faults, crashes>>

Ready(r) == pc[r] \in Resting /\ mode[Home[r]] = "up"

-----------------------------------------------------------------------------
(* Start                                                                   *)

(* Bounds of the instance that is checked: a start is only asked for when  *)
(* a row is left for it and its end is within the horizon.                 *)
Starting == {r \in Requests : pc[r] \in {"lock", "check", "insert"}}
WithinBounds(d) == nextId + Cardinality(Starting) <= MaxEvents /\ now + d <= MaxTime

(* Slip: the upper limit on the duration is not validated.                 *)
StartUnlimited(r, d) ==
    /\ Ready(r)
    /\ d > 0
    /\ WithinBounds(d)
    /\ Goto(r, "lock")
    /\ asOf' = [asOf EXCEPT ![r] = now]
    /\ dur' = [dur EXCEPT ![r] = d]
    /\ UNCHANGED <<now, table, lock, ev, instance, out, told, faults, crashes>>

(* Validation, then the authoritative start time, before any lock.         *)
StartRequest(r, d) ==
    /\ Ready(r)
    /\ d > 0 /\ d <= MaxSyncSeconds
    /\ WithinBounds(d)
    /\ Goto(r, "lock")
    /\ asOf' = [asOf EXCEPT ![r] = now]
    /\ dur' = [dur EXCEPT ![r] = d]
    /\ UNCHANGED <<now, table, lock, ev, instance, out, told, faults, crashes>>

(* Slip: the answer of pg_try_advisory_xact_lock is not looked at.         *)
LockIgnored(r) ==
    /\ pc[r] = "lock"
    /\ Goto(r, "check") /\ lock' = r
    /\ UNCHANGED <<now, table, ev, asOf, dur, instance, out, told, faults, crashes>>

TryLock(r) ==
    /\ pc[r] = "lock"
    /\ IF lock = NoRequest
       THEN Goto(r, "check") /\ lock' = r /\ UNCHANGED <<ev, asOf, dur>>
       ELSE Return(r, "refused") /\ UNCHANGED lock
    /\ UNCHANGED <<now, table, instance, out, told, faults, crashes>>

(* Slip: a session lock, which a refusal does not release.                 *)
CheckKeepsLock(r) ==
    /\ pc[r] = "check"
    /\ IF \E e \in Ids : status[e] = "active" /\ endsAt[e] > asOf[r]
       THEN Return(r, "refused")
       ELSE Goto(r, "insert") /\ UNCHANGED <<ev, asOf, dur>>
    /\ UNCHANGED <<now, table, lock, instance, out, told, faults, crashes>>

(* Slip: the lock is trusted to be enough, the table is not looked at.     *)
CheckNothing(r) ==
    /\ pc[r] = "check"
    /\ Goto(r, "insert")
    /\ UNCHANGED <<now, table, lock, ev, asOf, dur, instance, out, told, faults, crashes>>

(* A refusal ends the transaction, and with it the lock.                   *)
CheckNoActive(r) ==
    /\ pc[r] = "check"
    /\ IF \E e \in Ids : status[e] = "active" /\ endsAt[e] > asOf[r]
       THEN Return(r, "refused") /\ lock' = NoRequest
       ELSE Goto(r, "insert") /\ UNCHANGED <<lock, ev, asOf, dur>>
    /\ UNCHANGED <<now, table, instance, out, told, faults, crashes>>

(* Active rows past the start time become completed, the new row is        *)
(* inserted: both visible, and the lock free, at commit.                   *)
WriteEvent(r) ==
    /\ nextId <= MaxEvents
    /\ status' = [e \in Ids |->
                    IF e = nextId THEN "active"
                    ELSE IF status[e] = "active" /\ endsAt[e] <= asOf[r] THEN "completed"
                    ELSE status[e]]
    /\ endsAt' = [endsAt EXCEPT ![nextId] = asOf[r] + dur[r]]
    /\ nextId' = nextId + 1
    /\ lock' = NoRequest

CommitStart(r) ==
    /\ pc[r] = "insert"
    /\ WriteEvent(r)
    /\ Goto(r, "sync_started")
    /\ ev' = [ev EXCEPT ![r] = nextId]
    /\ UNCHANGED <<now, asOf, dur, instance, out, told, faults, crashes>>

(* The commit takes effect and its answer is lost: Start returns an error, *)
(* nothing is announced and no timer is armed.                             *)
LoseCommitAnswer(r) ==
    /\ pc[r] = "insert"
    /\ Fault
    /\ WriteEvent(r)
    /\ Return(r, "idle")
    /\ UNCHANGED <<now, instance, out, told, crashes>>

(* A statement of the transaction fails: it is rolled back.                *)
RollbackStart(r) ==
    /\ pc[r] \in {"lock", "check", "insert"}
    /\ Fault
    /\ lock' = IF lock = r THEN NoRequest ELSE lock
    /\ Return(r, "idle")
    /\ UNCHANGED <<now, table, instance, out, told, crashes>>

(* NotifySyncStarted, then scheduleCompletion arms the timer.              *)
AnnounceStarted(r) ==
    /\ pc[r] = "sync_started"
    /\ Notify(ev[r], "started")
    /\ pc' = [pc EXCEPT ![r] = "idle", ![<<Home[r], ev[r]>>] = "armed"]
    /\ ev' = [ev EXCEPT ![r] = NoId]
    /\ asOf' = [asOf EXCEPT ![r] = 0] /\ dur' = [dur EXCEPT ![r] = 0]
    /\ UNCHANGED <<now, table, lock, instance, faults, crashes>>

-----------------------------------------------------------------------------
(* complete: the tail shared by expiry timers and GetActiveAt              *)

(* LoadOrStore on `ended`: only one caller at a time goes on to the table. *)
ClaimEnd(p, e) ==
    IF e \in ended[HomeOf(p)]
    THEN Return(p, "idle") /\ UNCHANGED ended
    ELSE /\ Goto(p, "complete")
         /\ ended' = [ended EXCEPT ![HomeOf(p)] = @ \cup {e}]
         /\ UNCHANGED <<ev, asOf, dur>>

(* Slip: the timer's delay does not reach ends_at.                         *)
FireEarly(t) ==
    /\ pc[t] = "armed"
    /\ ClaimEnd(t, t[2])
    /\ UNCHANGED <<now, table, lock, mode, recovered, out, told, faults, crashes>>

FireTimer(t) ==
    /\ pc[t] = "armed"
    /\ now >= endsAt[t[2]]
    /\ ClaimEnd(t, t[2])
    /\ UNCHANGED <<now, table, lock, mode, recovered, out, told, faults, crashes>>

(* Slip: the update has no guard on the status of the row.                 *)
CompleteAnyway(p) ==
    /\ pc[p] = "complete"
    /\ SetStatus(Target(p), "completed")
    /\ Goto(p, "sync_ended")
    /\ UNCHANGED <<now, endsAt, nextId, lock, ev, asOf, dur, instance, out, told, faults, crashes>>

MarkCompleted(p) ==
    /\ pc[p] = "complete"
    /\ IF status[Target(p)] = "active"
       THEN SetStatus(Target(p), "completed") /\ Goto(p, "sync_ended")
       ELSE Goto(p, "release") /\ UNCHANGED status
    /\ UNCHANGED <<now, endsAt, nextId, lock, ev, asOf, dur, instance, out, told, faults, crashes>>

(* MarkCompleted returns an error, having taken effect or not.             *)
FailMarkCompleted(p) ==
    /\ pc[p] = "complete"
    /\ Fault
    /\ \/ UNCHANGED status
       \/ status[Target(p)] = "active" /\ SetStatus(Target(p), "completed")
    /\ Goto(p, "release")
    /\ UNCHANGED <<now, endsAt, nextId, lock, ev, asOf, dur, instance, out, told, crashes>>

(* Slip: the claim is not given back when the update fails.                *)
KeepClaim(p) ==
    /\ pc[p] = "release"
    /\ Return(p, "idle")
    /\ UNCHANGED <<now, table, lock, instance, out, told, faults, crashes>>

(* ended.Delete after a failed update, in complete and in Cancel.          *)
ReleaseClaim(p) ==
    /\ pc[p] = "release"
    /\ ended' = [ended EXCEPT ![HomeOf(p)] = @ \ {Target(p)}]
    /\ Return(p, "idle")
    /\ UNCHANGED <<now, table, lock, mode, recovered, out, told, faults, crashes>>

AnnounceCompleted(p) ==
    /\ pc[p] = "sync_ended"
    /\ Notify(Target(p), "completed")
    /\ Return(p, "idle")
    /\ UNCHANGED <<now, table, lock, instance, faults, crashes>>

-----------------------------------------------------------------------------
(* GetActive: the instant is captured before the row is read               *)

QueryRequest(r) ==
    /\ Ready(r)
    /\ Goto(r, "read")
    /\ asOf' = [asOf EXCEPT ![r] = now]
    /\ UNCHANGED <<now, table, lock, ev, dur, instance, out, told, faults, crashes>>

ReadActive(r) ==
    /\ pc[r] = "read"
    /\ LET e == GetActive IN
       IF e # NoId /\ asOf[r] >= endsAt[e]
       THEN Goto(r, "claim") /\ ev' = [ev EXCEPT ![r] = e] /\ UNCHANGED <<asOf, dur>>
       ELSE Return(r, "idle")
    /\ UNCHANGED <<now, table, lock, instance, out, told, faults, crashes>>

ClaimExpired(r) ==
    /\ pc[r] = "claim"
    /\ ClaimEnd(r, ev[r])
    /\ UNCHANGED <<now, table, lock, mode, recovered, out, told, faults, crashes>>

-----------------------------------------------------------------------------
(* Cancel.  A refusal (SYNC_NOT_ACTIVE) or a failed read changes nothing.  *)

CancelRequest(r) ==
    /\ Ready(r)
    /\ GetActive # NoId
    /\ now < endsAt[GetActive]
    /\ Goto(r, "store")
    /\ ev' = [ev EXCEPT ![r] = GetActive]
    /\ UNCHANGED <<now, table, lock, asOf, dur, instance, out, told, faults, crashes>>

(* ended.Store, whoever holds the claim.                                   *)
StoreClaim(r) ==
    /\ pc[r] = "store"
    /\ ended' = [ended EXCEPT ![Home[r]] = @ \cup {ev[r]}]
    /\ Goto(r, "cancel")
    /\ UNCHANGED <<now, table, lock, ev, asOf, dur, mode, recovered, out, told, faults, crashes>>

(* The update has no guard on the status of the row.                       *)
MarkCancelled(r) ==
    /\ pc[r] = "cancel"
    /\ SetStatus(ev[r], "cancelled")
    /\ Goto(r, "sync_cancelled")
    /\ UNCHANGED <<now, endsAt, nextId, lock, ev, asOf, dur, instance, out, told, faults, crashes>>

(* Slip: the error of the update is ignored.                               *)
CancelDespiteError(r) ==
    /\ pc[r] = "cancel"
    /\ Fault
    /\ UNCHANGED status \/ SetStatus(ev[r], "cancelled")
    /\ Goto(r, "sync_cancelled")
    /\ UNCHANGED <<now, endsAt, nextId, lock, ev, asOf, dur, instance, out, told, crashes>>

FailMarkCancelled(r) ==
    /\ pc[r] = "cancel"
    /\ Fault
    /\ UNCHANGED status \/ SetStatus(ev[r], "cancelled")
    /\ Goto(r, "release")
    /\ UNCHANGED <<now, endsAt, nextId, lock, ev, asOf, dur, instance, out, told, crashes>>

(* Slip: the cancellation is not broadcast.                                *)
CancelSilently(r) ==
    /\ pc[r] = "sync_cancelled"
    /\ Return(r, "idle")
    /\ UNCHANGED <<now, table, lock, instance, out, told, faults, crashes>>

AnnounceCancelled(r) ==
    /\ pc[r] = "sync_cancelled"
    /\ Notify(ev[r], "cancelled")
    /\ Return(r, "idle")
    /\ UNCHANGED <<now, table, lock, instance, faults, crashes>>

-----------------------------------------------------------------------------
(* Crash of an instance, and Recover at its next boot                      *)

Crash(i) ==
    /\ mode[i] # "down"
    /\ crashes < MaxCrashes /\ crashes' = crashes + 1
    /\ mode' = [mode EXCEPT ![i] = "down"]
    /\ pc' = [p \in Procs |-> IF HomeOf(p) # i THEN pc[p]
                              ELSE IF p \in Requests THEN "idle" ELSE "off"]
    /\ ev' = [r \in Requests |-> IF Home[r] = i THEN NoId ELSE ev[r]]
    /\ asOf' = [r \in Requests |-> IF Home[r] = i THEN 0 ELSE asOf[r]]
    /\ dur' = [r \in Requests |-> IF Home[r] = i THEN 0 ELSE dur[r]]
    /\ lock' = IF lock \in Requests /\ Home[lock] = i THEN NoRequest ELSE lock
    /\ ended' = [ended EXCEPT ![i] = {}]
    /\ recovered' = [recovered EXCEPT ![i] = {}]
    /\ UNCHANGED <<now, table, out, told, faults>>

(* RecoverActiveEvents: the database clock filters out the expired rows.   *)
BootRead(i) ==
    /\ mode[i] = "down"
    /\ mode' = [mode EXCEPT ![i] = "booting"]
    /\ recovered' = [recovered EXCEPT ![i] = Unexpired]
    /\ UNCHANGED <<now, table, lock, handlers, ended, out, told, faults, crashes>>

(* The read fails: main logs a warning and serves.                         *)
FailBootRead(i) ==
    /\ mode[i] = "down"
    /\ Fault
    /\ mode' = [mode EXCEPT ![i] = "up"]
    /\ UNCHANGED <<now, table, lock, handlers, ended, recovered, out, told, crashes>>

(* Slip: the recovered events get no timer.                                *)
ReconcileOnly(i) ==
    /\ mode[i] = "booting"
    /\ mode' = [mode EXCEPT ![i] = "up"]
    /\ status' = [e \in Ids |-> IF e \in recovered[i] /\ now >= endsAt[e] /\ status[e] = "active"
                                THEN "completed" ELSE status[e]]
    /\ recovered' = [recovered EXCEPT ![i] = {}]
    /\ UNCHANGED <<now, endsAt, nextId, lock, handlers, ended, out, told, faults, crashes>>

(* Rows that have expired since the read are completed, silently and       *)
(* whether or not the update succeeds; the others get a timer.  The server *)
(* then accepts requests.                                                  *)
BootReconcile(i) ==
    /\ mode[i] = "booting"
    /\ mode' = [mode EXCEPT ![i] = "up"]
    /\ LET expired == {e \in recovered[i] : now >= endsAt[e]} IN
       /\ \/ /\ status' = [e \in Ids |-> IF e \in expired /\ status[e] = "active"
                                         THEN "completed" ELSE status[e]]
             /\ UNCHANGED faults
          \/ expired # {} /\ Fault /\ UNCHANGED status
       /\ pc' = [p \in Procs |-> IF p \in {i} \X (recovered[i] \ expired)
                                 THEN "armed" ELSE pc[p]]
    /\ recovered' = [recovered EXCEPT ![i] = {}]
    /\ UNCHANGED <<now, endsAt, nextId, lock, ev, asOf, dur, ended, out, told, crashes>>

-----------------------------------------------------------------------------
StartStep(r) == TryLock(r) \/ CheckNoActive(r) \/ CommitStart(r) \/ AnnounceStarted(r)
CompleteStep(p) == MarkCompleted(p) \/ ReleaseClaim(p) \/ AnnounceCompleted(p)
QueryStep(r) == ReadActive(r) \/ ClaimExpired(r)
CancelStep(r) == StoreClaim(r) \/ MarkCancelled(r) \/ AnnounceCancelled(r)
RequestStep(r) == StartStep(r) \/ QueryStep(r) \/ CancelStep(r) \/ CompleteStep(r)
TimerStep(t) == FireTimer(t) \/ CompleteStep(t)
BootStep(i) == BootRead(i) \/ BootReconcile(i)
FaultStep(r) == LoseCommitAnswer(r) \/ RollbackStart(r) \/ FailMarkCancelled(r)

Next ==
    \/ Tick
    \/ \E r \in Requests :
          \/ \E d \in Durations : StartRequest(r, d)
          \/ QueryRequest(r)
          \/ CancelRequest(r)
          \/ RequestStep(r)
          \/ FaultStep(r)
    \/ \E t \in Timers : TimerStep(t)
    \/ \E p \in Procs : FailMarkCompleted(p)
    \/ \E i \in Instances : Crash(i) \/ BootStep(i) \/ FailBootRead(i)

Spec == Init /\ [][Next]_vars

(* Time passes, a handler that was accepted runs to its end, a timer fires *)
(* once it is due, and the supervisor restarts an instance that is down.   *)
(* Nothing makes operators send requests, and no fault has to happen.      *)
Fairness ==
    /\ WF_vars(Tick)
    /\ \A r \in Requests : WF_vars(RequestStep(r))
    /\ \A t \in Timers : WF_vars(TimerStep(t))
    /\ \A i \in Instances : WF_vars(BootStep(i))

FairSpec == Spec /\ Fairness

-----------------------------------------------------------------------------
(* Properties                                                              *)

(* Every variable keeps its type; the end of an event lies at most one     *)
(* accepted duration after an instant of the clock.                        *)
TableOK ==
    /\ status \in [Ids -> Statuses]
    /\ endsAt \in [Ids -> 0..(MaxTime + MaxSyncSeconds)]
    /\ nextId \in 1..(MaxEvents + 1)
    /\ lock \in Requests \cup {NoRequest}
HandlersOK ==
    /\ pc \in [Procs -> RequestSteps \cup TimerSteps]
    /\ \A r \in Requests : pc[r] \in RequestSteps
    /\ \A t \in Timers : pc[t] \in TimerSteps
    /\ ev \in [Requests -> Ids \cup {NoId}]
    /\ asOf \in [Requests -> 0..MaxTime]
    /\ dur \in [Requests -> 0..MaxSyncSeconds]
InstancesOK ==
    /\ ended \in [Instances -> SUBSET Ids]
    /\ mode \in [Instances -> {"down", "booting", "up"}]
    /\ recovered \in [Instances -> SUBSET Ids]
NoticesOK ==
    /\ out \in [Ids -> [Kinds -> Nat]]
    /\ told \in [event : Ids \cup {NoId}, late : BOOLEAN]
TypeOK ==
    /\ now \in 0..MaxTime
    /\ faults \in 0..MaxFaults /\ crashes \in 0..MaxCrashes
    /\ NoticesOK
    /\ TableOK
    /\ HandlersOK
    /\ InstancesOK

(* The advisory lock belongs to the request whose transaction is open and  *)
(* to no other: no path of CreateIfNoActive, no error and no crash leaves  *)
(* it behind or lets a transaction write without it.                       *)
LockHeldInTransaction ==
    \A r \in Requests : lock = r <=> pc[r] \in InTransaction

(* At most one row of sync_events is active, whatever the interleaving of  *)
(* Start requests on any number of instances.                              *)
OneActiveRow ==
    \A e, f \in Ids : status[e] = "active" /\ status[f] = "active" => e = f

(* SYNC_ENDED with reason "completed" is sent at most once for an event,   *)
(* however many timers, state queries and reboots find it expired.         *)
CompletedOnce == \A e \in Ids : out[e]["completed"] <= 1

(* SYNC_ENDED is never sent before the table says so: "completed" only for *)
(* a row that was completed, "cancelled" only for one that is cancelled.   *)
EndIsRecorded ==
    \A e \in Ids :
        /\ out[e]["completed"] > 0 => status[e] \in {"completed", "cancelled"}
        /\ out[e]["cancelled"] > 0 => status[e] = "cancelled"

(* No event is announced as completed before its ends_at.                  *)
CompletedAfterDeadline == \A e \in Ids : out[e]["completed"] > 0 => now >= endsAt[e]

(* A claim in `ended` on an event that is still active belongs to a        *)
(* handler or a timer still at work on it: neither a failed cancellation   *)
(* nor a failed completion leaves a claim that blocks every later one.     *)
ClaimHasOwner ==
    \A i \in Instances : \A e \in ended[i] : status[e] = "active" =>
        \E p \in Procs : /\ HomeOf(p) = i /\ Target(p) = e
                         /\ pc[p] \in {"complete", "cancel", "release"}

(* While a server that is up (with no database failure, one instance)      *)
(* serves an active event that has not expired, its expiry timer is armed, *)
(* or its Start has yet to arm it: also after crashes and reboots.         *)
ArmedWhileActive ==
    \A i \in Instances, e \in Ids :
        mode[i] = "up" /\ status[e] = "active" /\ now < endsAt[e] =>
            \/ pc[<<i, e>>] = "armed"
            \/ \E r \in Requests : Home[r] = i /\ ev[r] = e /\ pc[r] = "sync_started"

(* The life of a row: created once, never active again once it is over,    *)
(* and a cancellation is never overwritten by a late completion.           *)
RowLifecycle ==
    [][\A e \in Ids :
          /\ status[e] # "none" => status'[e] # "none" /\ endsAt'[e] = endsAt[e]
          /\ status[e] = "completed" => status'[e] \in {"completed", "cancelled"}
          /\ status[e] = "cancelled" => status'[e] = "cancelled"]_vars

(* The override the displays were told of does not outlive its event.  The *)
(* announcement of a start is followed, later and in this order, by that   *)
(* of an end or of the start of another event: unless it is itself late.   *)
(* No call fails and nothing crashes.  A late one is not remedied by the   *)
(* server: whoever ended the event holds the claim, and the timer that its *)
(* Start arms then has nothing to announce.                                *)
OverrideReleased ==
    \A e \in Ids : told.event = e /\ ~told.late ~>
        told.event # e \/ crashes > 0 \/ faults > 0

(* The row that is active, seen as the override in force.                  *)
ActiveRow == IF \E e \in Ids : status[e] = "active"
             THEN CHOOSE e \in Ids : status[e] = "active" ELSE NoId
Override == INSTANCE SyncOverride WITH
    clock <- now, current <- ActiveRow, deadline <- endsAt,
    record <- [e \in Ids |-> IF status[e] = "active" THEN "none" ELSE status[e]]

(* Start, Cancel, completion and recovery, step by step and interleaved,   *)
(* do no more than one atomic Begin, Complete or Cancel at a time.         *)
ImplementsOverride == Override!Spec

-----------------------------------------------------------------------------
(* What documents and comments say, and the code does not do               *)

(* Comment in Cancel: the claim keeps the expiry timer from emitting a     *)
(* second, conflicting SYNC_ENDED.                                         *)
OneEndReason ==
    \A e \in Ids : ~(out[e]["completed"] > 0 /\ out[e]["cancelled"] > 0)
=============================================================================
