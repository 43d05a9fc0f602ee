-------------------------- MODULE SyncServiceProofs --------------------------
(***************************************************************************)
(* Proofs about SyncService, for any number of instances, requests and     *)
(* events, any clock skew and any number of faults and crashes.            *)
(***************************************************************************)
EXTENDS SyncService, TLAPS

(* The steps at which a request works on an event.                         *)
EventSteps == {"sync_started", "store", "cancel", "sync_cancelled",
               "claim", "complete", "release", "sync_ended"}
Over == {"completed", "cancelled"}

(* The event a request works on has a row.                                 *)
EventHasRow ==
    \A r \in Requests : pc[r] \in EventSteps => ev[r] \in Ids /\ status[ev[r]] # "none"

(* A request past its check, holding the lock, faces no active row that    *)
(* its own expiry update would spare.                                      *)
NoRowInTheWay ==
    \A r \in Requests : pc[r] = "insert" =>
        \A e \in Ids : status[e] = "active" => endsAt[e] <= asOf[r]

(* Ids from the sequence on have no row; a timer that runs has one.        *)
FreshIds == \A e \in Ids : e >= nextId => status[e] = "none"
TimerHasRow == \A t \in Timers : pc[t] # "off" => status[t[2]] # "none"
RecoveredHaveRows == \A i \in Instances : \A e \in recovered[i] : status[e] # "none"

TableInv ==
    /\ TypeOK
    /\ EventHasRow
    /\ TimerHasRow
    /\ RecoveredHaveRows
    /\ FreshIds
    /\ LockHeldInTransaction
    /\ NoRowInTheWay
    /\ OneActiveRow

(* An end about to be announced is that of a row that is over, not yet     *)
(* announced, and about to be announced by nobody else.                    *)
EndPending ==
    \A p \in Procs : pc[p] = "sync_ended" =>
        /\ status[Target(p)] \in Over
        /\ out[Target(p)]["completed"] = 0
        /\ \A q \in Procs : pc[q] = "sync_ended" /\ Target(q) = Target(p) => q = p

CompletedRecorded == \A e \in Ids : out[e]["completed"] > 0 => status[e] \in Over

EndInv == CompletedOnce /\ CompletedRecorded /\ EndPending

-----------------------------------------------------------------------------
(* A process is a request or a timer, never both.                          *)
LEMMA ProcFacts ==
    /\ \A r \in Requests : r \in Procs /\ r \notin Timers /\ HomeOf(r) = Home[r]
                           /\ Home[r] \in Instances /\ Target(r) = ev[r]
    /\ \A t \in Timers : t \in Procs /\ t \notin Requests /\ HomeOf(t) = t[1]
                         /\ t[1] \in Instances /\ t[2] \in Ids /\ Target(t) = t[2]
    /\ \A p \in Procs : HomeOf(p) \in Instances
  BY HomeAssumption, ProcsAssumption DEF Procs, Timers, HomeOf, Target

(* As there is at most one active row, GetActive finds it if it is         *)
(* unexpired.                                                              *)
LEMMA GetActiveFound ==
    ASSUME OneActiveRow, GetActive # NoId
    PROVE  GetActive \in Unexpired
<1>1. PICK e \in Unexpired : TRUE
  BY DEF GetActive
<1>2. \A f \in Unexpired : f = e
  BY <1>1 DEF Unexpired, OneActiveRow
<1>3. \A f \in Unexpired : f <= e
  BY <1>1, <1>2 DEF Unexpired, Ids
<1> QED
  BY <1>1, <1>3 DEF GetActive

-----------------------------------------------------------------------------
(* The actions that write the table, and what all others leave alone.      *)
TableWrite ==
    \/ \E r \in Requests : \/ CommitStart(r) \/ LoseCommitAnswer(r)
                           \/ MarkCancelled(r) \/ FailMarkCancelled(r)
    \/ \E p \in Procs : MarkCompleted(p) \/ FailMarkCompleted(p)
    \/ \E i \in Instances : BootReconcile(i)

(* Every other action leaves the three columns of the table alone.         *)
LEMMA TableFrame ==
    ASSUME [Next]_vars, ~TableWrite
    PROVE  UNCHANGED table
<1>1. CASE \E r \in Requests : StartStep(r) \/ QueryStep(r) \/ CancelStep(r) \/ FaultStep(r)
  BY <1>1 DEF StartStep, QueryStep, CancelStep, FaultStep, TryLock, CheckNoActive,
     AnnounceStarted, ReadActive, ClaimExpired, StoreClaim, AnnounceCancelled,
     RollbackStart, TableWrite, table
<1>2. CASE \E p \in Procs : CompleteStep(p)
  BY <1>2 DEF CompleteStep, ReleaseClaim, AnnounceCompleted, TableWrite, table
<1>3. CASE \E i \in Instances : Crash(i) \/ BootStep(i) \/ FailBootRead(i)
  BY <1>3 DEF BootStep, Crash, BootRead, FailBootRead, TableWrite, table
<1>4. CASE \E r \in Requests : \/ QueryRequest(r) \/ CancelRequest(r)
                               \/ \E d \in Durations : StartRequest(r, d)
  BY <1>4 DEF QueryRequest, CancelRequest, StartRequest, table
<1>5. CASE Tick \/ UNCHANGED vars \/ \E t \in Timers : FireTimer(t)
  BY <1>5 DEF Tick, vars, FireTimer, table
<1> QED
  BY <1>1, <1>2, <1>3, <1>4, <1>5 DEF Next, RequestStep, TimerStep, TableWrite, Procs

(* A row is created by the commit of a Start, as the only active one, and  *)
(* no other write makes a row active or takes one away.                    *)
RowStep ==
    \A e \in Ids : /\ status[e] # "none" => status'[e] # "none" /\ endsAt'[e] = endsAt[e]
                   /\ status[e] \in Over => status'[e] \in Over
                   /\ status[e] = "cancelled" => status'[e] = "cancelled"
TableTypes ==
    /\ status \in [Ids -> Statuses]
    /\ endsAt \in [Ids -> 0..(MaxTime + MaxSyncSeconds)]
    /\ nextId \in 1..(MaxEvents + 1)

(* What a step does to the table: types, free ids, one active row, and     *)
(* the life of each row.                                                   *)
LEMMA TableNext ==
    ASSUME TableInv, [Next]_vars
    PROVE  TableTypes' /\ FreshIds' /\ OneActiveRow' /\ RowStep
<1> DEFINE Goal == TableTypes' /\ FreshIds' /\ OneActiveRow' /\ RowStep
<1> SUFFICES Goal
  OBVIOUS
<1> USE BoundsAssumption, ProcFacts
    DEF TableInv, TypeOK, TableOK, TableTypes, RowStep, FreshIds, OneActiveRow, Statuses, Over, Ids
<1>1. ASSUME NEW r \in Requests, pc[r] = "insert", WriteEvent(r) PROVE Goal
  <2>1. TableTypes' /\ FreshIds'
    <3>1. asOf[r] + dur[r] \in 0..(MaxTime + MaxSyncSeconds) /\ nextId \in 1..MaxEvents
      BY <1>1 DEF WriteEvent, HandlersOK
    <3>2. status' \in [Ids -> Statuses] /\ nextId' \in 1..(MaxEvents + 1)
      BY <1>1, <3>1 DEF WriteEvent
    <3>3. endsAt' \in [Ids -> 0..(MaxTime + MaxSyncSeconds)]
      BY <1>1, <3>1 DEF WriteEvent
    <3>4. FreshIds'
      BY <1>1, <3>1 DEF WriteEvent
    <3> QED
      BY <3>2, <3>3, <3>4
  <2>2. RowStep
    BY <1>1 DEF WriteEvent, HandlersOK
  <2>3. OneActiveRow'
    BY <1>1 DEF WriteEvent, NoRowInTheWay, HandlersOK
  <2> QED
    BY <2>1, <2>2, <2>3
<1>2. ASSUME NEW r \in Requests, pc[r] = "cancel", SetStatus(ev[r], "cancelled"),
             UNCHANGED <<endsAt, nextId>>
      PROVE  Goal
  BY <1>2 DEF SetStatus, EventHasRow, EventSteps
<1>3. ASSUME NEW p \in Procs, pc[p] = "complete", status[Target(p)] = "active",
             SetStatus(Target(p), "completed"), UNCHANGED <<endsAt, nextId>>
      PROVE  Goal
  BY <1>3 DEF SetStatus
<1>4. ASSUME NEW i \in Instances, BootReconcile(i) PROVE Goal
  BY <1>4 DEF BootReconcile
<1>5. CASE UNCHANGED table
  BY <1>5 DEF table
<1> HIDE BoundsAssumption, ProcFacts
    DEF Goal, TableInv, TypeOK, TableOK, TableTypes, RowStep, FreshIds, OneActiveRow, Statuses, Over, Ids
<1>6. CASE \E r \in Requests : \/ CommitStart(r) \/ LoseCommitAnswer(r)
                               \/ MarkCancelled(r) \/ FailMarkCancelled(r)
  BY <1>6, <1>1, <1>2, <1>5 DEF CommitStart, LoseCommitAnswer, MarkCancelled, FailMarkCancelled, table
<1>7. CASE \E p \in Procs : MarkCompleted(p) \/ FailMarkCompleted(p)
  BY <1>7, <1>3, <1>5 DEF MarkCompleted, FailMarkCompleted, table
<1> QED
  BY <1>4, <1>5, <1>6, <1>7, TableFrame DEF TableWrite

-----------------------------------------------------------------------------
(* Types of what the handlers and the timers keep.                         *)
PcOK == /\ pc \in [Procs -> RequestSteps \cup TimerSteps]
        /\ \A r \in Requests : pc[r] \in RequestSteps
        /\ \A t \in Timers : pc[t] \in TimerSteps

(* Typing of a process that goes to a step of its kind.                    *)
LEMMA GotoTyped ==
    ASSUME PcOK, NEW p \in Procs, NEW s, Goto(p, s),
           p \in Requests => s \in RequestSteps, p \in Timers => s \in TimerSteps
    PROVE  PcOK'
  BY DEF Goto, PcOK, Procs

(* Typing of a handler or a timer function that returns.                   *)
LEMMA ReturnTyped ==
    ASSUME HandlersOK, NEW p \in Procs, NEW s \in {"idle", "refused"}, Return(p, s)
    PROVE  HandlersOK'
<1>1. PcOK'
  BY GotoTyped, ProcFacts DEF Return, HandlersOK, PcOK, RequestSteps, TimerSteps, Procs
<1>2. /\ ev' \in [Requests -> Ids \cup {NoId}]
      /\ asOf' \in [Requests -> 0..MaxTime]
      /\ dur' \in [Requests -> 0..MaxSyncSeconds]
  BY BoundsAssumption DEF Return, HandlersOK, NoId
<1> QED
  BY <1>1, <1>2 DEF HandlersOK, PcOK

(* A step that moves one process and leaves ev, asOf and dur alone.        *)
LEMMA MoveTyped ==
    ASSUME HandlersOK, NEW p \in Procs, NEW s, Goto(p, s), UNCHANGED <<ev, asOf, dur>>,
           p \in Requests => s \in RequestSteps, p \in Timers => s \in TimerSteps
    PROVE  HandlersOK'
  BY GotoTyped DEF HandlersOK, PcOK

(* Typing of LoadOrStore on the ended map.                                 *)
LEMMA ClaimTyped ==
    ASSUME HandlersOK, NEW p \in Procs, NEW e, ClaimEnd(p, e)
    PROVE  HandlersOK'
<1>1. CASE Return(p, "idle")
  BY <1>1, ReturnTyped
<1>2. CASE Goto(p, "complete") /\ UNCHANGED <<ev, asOf, dur>>
  BY <1>2, MoveTyped DEF RequestSteps, TimerSteps
<1> QED
  BY <1>1, <1>2 DEF ClaimEnd

(* Every step keeps the types of what handlers and timers hold.            *)
LEMMA HandlersNext ==
    ASSUME TableInv, [Next]_vars
    PROVE  HandlersOK'
<1> HandlersOK /\ PcOK
  BY DEF TableInv, TypeOK, HandlersOK, PcOK
<1> USE ProcFacts
<1>1. CASE UNCHANGED handlers
  BY <1>1 DEF handlers, HandlersOK
<1>2. ASSUME NEW r \in Requests, NEW d \in Durations, StartRequest(r, d) PROVE HandlersOK'
  <2>1. PcOK'
    BY <1>2, GotoTyped DEF StartRequest, RequestSteps
  <2>2. d \in 0..MaxSyncSeconds /\ now \in 0..MaxTime
    BY <1>2, BoundsAssumption DEF StartRequest, TableInv, TypeOK
  <2> QED
    BY <1>2, <2>1, <2>2 DEF StartRequest, HandlersOK, PcOK
<1>3. ASSUME NEW r \in Requests, QueryRequest(r) PROVE HandlersOK'
  <2>1. PcOK'
    BY <1>3, GotoTyped DEF QueryRequest, RequestSteps
  <2> QED
    BY <1>3, <2>1 DEF QueryRequest, HandlersOK, PcOK, TableInv, TypeOK
<1>4. ASSUME NEW r \in Requests, CancelRequest(r) PROVE HandlersOK'
  <2>1. PcOK'
    BY <1>4, GotoTyped DEF CancelRequest, RequestSteps
  <2>2. GetActive \in Ids
    BY <1>4, GetActiveFound DEF CancelRequest, Unexpired, TableInv
  <2> QED
    BY <1>4, <2>1, <2>2 DEF CancelRequest, HandlersOK, PcOK
<1>5. ASSUME NEW r \in Requests, TryLock(r) \/ CheckNoActive(r) PROVE HandlersOK'
  <2>1. CASE Return(r, "refused")
    BY <2>1, ReturnTyped
  <2>2. CASE (Goto(r, "check") \/ Goto(r, "insert")) /\ UNCHANGED <<ev, asOf, dur>>
    BY <2>2, MoveTyped DEF RequestSteps
  <2> QED
    BY <1>5, <2>1, <2>2 DEF TryLock, CheckNoActive
<1>6. ASSUME NEW r \in Requests, CommitStart(r) PROVE HandlersOK'
  <2>1. PcOK'
    BY <1>6, GotoTyped DEF CommitStart, RequestSteps
  <2>2. nextId \in Ids
    BY <1>6, BoundsAssumption DEF CommitStart, WriteEvent, TableInv, TypeOK, TableOK, Ids
  <2> QED
    BY <1>6, <2>1, <2>2 DEF CommitStart, HandlersOK, PcOK
<1>7. ASSUME NEW r \in Requests, AnnounceStarted(r) PROVE HandlersOK'
  <2>1. <<Home[r], ev[r]>> \in Timers
    BY <1>7 DEF AnnounceStarted, TableInv, EventHasRow, EventSteps, Timers
  <2>2. PcOK'
    BY <1>7, <2>1 DEF AnnounceStarted, HandlersOK, PcOK, RequestSteps, TimerSteps
  <2> QED
    BY <1>7, <2>2, BoundsAssumption DEF AnnounceStarted, HandlersOK, PcOK, NoId
<1>8. ASSUME NEW r \in Requests, ReadActive(r) PROVE HandlersOK'
  <2>1. CASE Return(r, "idle")
    BY <2>1, ReturnTyped
  <2>2. CASE /\ GetActive # NoId /\ Goto(r, "claim")
             /\ ev' = [ev EXCEPT ![r] = GetActive] /\ UNCHANGED <<asOf, dur>>
    <3>1. GetActive \in Ids
      BY <2>2, GetActiveFound DEF Unexpired, TableInv
    <3>2. PcOK'
      BY <2>2, GotoTyped DEF RequestSteps
    <3> QED
      BY <2>2, <3>1, <3>2 DEF HandlersOK, PcOK
  <2> QED
    BY <1>8, <2>1, <2>2 DEF ReadActive
<1>9. ASSUME NEW p \in Procs, \/ ReleaseClaim(p) \/ AnnounceCompleted(p)
                              \/ p \in Requests /\ AnnounceCancelled(p)
                              \/ p \in Requests /\ (LoseCommitAnswer(p) \/ RollbackStart(p))
      PROVE  HandlersOK'
  BY <1>9, ReturnTyped DEF ReleaseClaim, AnnounceCompleted, AnnounceCancelled,
     LoseCommitAnswer, RollbackStart
<1>10. ASSUME NEW r \in Requests, StoreClaim(r) \/ MarkCancelled(r) \/ FailMarkCancelled(r)
       PROVE  HandlersOK'
  BY <1>10, MoveTyped DEF StoreClaim, MarkCancelled, FailMarkCancelled, RequestSteps
<1>11. ASSUME NEW p \in Procs, MarkCompleted(p) \/ FailMarkCompleted(p) PROVE HandlersOK'
  <2>1. PICK s \in {"sync_ended", "release"} : Goto(p, s)
    BY <1>11 DEF MarkCompleted, FailMarkCompleted
  <2>2. UNCHANGED <<ev, asOf, dur>>
    BY <1>11 DEF MarkCompleted, FailMarkCompleted
  <2> QED
    BY <2>1, <2>2, MoveTyped DEF RequestSteps, TimerSteps
<1>12. ASSUME NEW r \in Requests, ClaimExpired(r) PROVE HandlersOK'
  BY <1>12, ClaimTyped DEF ClaimExpired
<1>13. ASSUME NEW t \in Timers, FireTimer(t) PROVE HandlersOK'
  BY <1>13, ClaimTyped DEF FireTimer
<1>14. ASSUME NEW i \in Instances, Crash(i) PROVE HandlersOK'
  BY <1>14, BoundsAssumption DEF Crash, HandlersOK, PcOK, RequestSteps, TimerSteps, NoId, Procs
<1>15. ASSUME NEW i \in Instances, BootReconcile(i) PROVE HandlersOK'
  <2> DEFINE armed == {i} \X (recovered[i] \ {e \in recovered[i] : now >= endsAt[e]})
  <2>1. pc' = [p \in Procs |-> IF p \in armed THEN "armed" ELSE pc[p]]
    BY <1>15 DEF BootReconcile
  <2>2. armed \subseteq Timers
    BY DEF TableInv, TypeOK, InstancesOK, Timers
  <2>3. PcOK'
    <3> HIDE DEF armed
    <3> QED BY <2>1, <2>2 DEF PcOK, TimerSteps
  <2> QED
    BY <1>15, <2>3 DEF BootReconcile, HandlersOK, PcOK
<1>16. ASSUME Tick \/ UNCHANGED vars \/ \E i \in Instances : BootRead(i) \/ FailBootRead(i)
       PROVE  HandlersOK'
  BY <1>16, <1>1 DEF Tick, vars, handlers, BootRead, FailBootRead
<1> HIDE ProcFacts
<1> QED
  BY <1>2, <1>3, <1>4, <1>5, <1>6, <1>7, <1>8, <1>9, <1>10, <1>11, <1>12, <1>13, <1>14,
     <1>15, <1>16
  DEF Next, RequestStep, TimerStep, StartStep, CompleteStep, QueryStep, CancelStep,
      FaultStep, BootStep, Procs

-----------------------------------------------------------------------------
(* Requests, timers and Recover only ever work on events that have a row.  *)
RowsKnown == EventHasRow /\ TimerHasRow

(* A process that returns no longer works on an event.                     *)
LEMMA ReturnRows ==
    ASSUME HandlersOK, RowsKnown, RowStep, NEW p \in Procs, NEW s \in {"idle", "refused"},
           Return(p, s)
    PROVE  RowsKnown'
<1>1. ASSUME NEW r \in Requests, pc'[r] \in EventSteps
      PROVE  pc[r] \in EventSteps /\ ev'[r] = ev[r]
  BY <1>1, ProcFacts DEF Return, Goto, HandlersOK, EventSteps
<1>2. ASSUME NEW t \in Timers, pc'[t] # "off" PROVE pc[t] # "off"
  BY <1>2, ProcFacts DEF Return, Goto, HandlersOK
<1> QED
  BY <1>1, <1>2, ProcFacts DEF RowsKnown, EventHasRow, TimerHasRow, RowStep

(* A process that moves on with its event still has a row.                 *)
LEMMA MoveRows ==
    ASSUME HandlersOK, RowsKnown, RowStep, NEW p \in Procs, NEW s, Goto(p, s), UNCHANGED ev,
           p \in Requests /\ s \in EventSteps => pc[p] \in EventSteps,
           p \in Timers => pc[p] # "off"
    PROVE  RowsKnown'
<1>1. ASSUME NEW r \in Requests, pc'[r] \in EventSteps
      PROVE  pc[r] \in EventSteps /\ ev'[r] = ev[r]
  BY <1>1, ProcFacts DEF Goto, HandlersOK
<1>2. ASSUME NEW t \in Timers, pc'[t] # "off" PROVE pc[t] # "off"
  BY <1>2, ProcFacts DEF Goto, HandlersOK
<1> QED
  BY <1>1, <1>2, ProcFacts DEF RowsKnown, EventHasRow, TimerHasRow, RowStep

(* A request that starts to work on an event that has a row.               *)
LEMMA TakeRows ==
    ASSUME HandlersOK, RowsKnown, RowStep, NEW r \in Requests, NEW e \in Ids, status'[e] # "none",
           NEW s, Goto(r, s), ev' = [ev EXCEPT ![r] = e]
    PROVE  RowsKnown'
<1>1. ASSUME NEW q \in Requests, pc'[q] \in EventSteps
      PROVE  ev'[q] = e \/ (pc[q] \in EventSteps /\ ev'[q] = ev[q])
  BY <1>1, ProcFacts DEF Goto, HandlersOK
<1>2. ASSUME NEW t \in Timers PROVE pc[t] = pc'[t]
  BY <1>2, ProcFacts DEF Goto, HandlersOK
<1> QED
  BY <1>1, <1>2, ProcFacts DEF RowsKnown, EventHasRow, TimerHasRow, RowStep

(* Claiming the end of an event keeps its row.                             *)
LEMMA ClaimRows ==
    ASSUME HandlersOK, RowsKnown, RowStep, NEW p \in Procs, NEW e, ClaimEnd(p, e),
           p \in Requests => pc[p] \in EventSteps, p \in Timers => pc[p] # "off"
    PROVE  RowsKnown'
<1>1. CASE Return(p, "idle")
  BY <1>1, ReturnRows
<1>2. CASE Goto(p, "complete") /\ UNCHANGED <<ev, asOf, dur>>
  BY <1>2, MoveRows
<1> QED
  BY <1>1, <1>2 DEF ClaimEnd

(* Every step keeps a row for each event that a request or a timer works   *)
(* on.                                                                     *)
LEMMA RowsNext ==
    ASSUME TableInv, [Next]_vars
    PROVE  RowsKnown'
<1>a. HandlersOK /\ RowsKnown /\ RowStep
  BY TableNext DEF TableInv, TypeOK, RowsKnown
<1> USE <1>a, ProcFacts
<1>1. CASE UNCHANGED <<pc, ev>>
  BY <1>1 DEF RowsKnown, EventHasRow, TimerHasRow, RowStep
<1>2. ASSUME NEW r \in Requests, QueryRequest(r) PROVE RowsKnown'
  BY <1>2, MoveRows DEF QueryRequest, EventSteps
<1>3. ASSUME NEW r \in Requests, CancelRequest(r) PROVE RowsKnown'
  <2>1. GetActive \in Ids /\ status[GetActive] # "none"
    BY <1>3, GetActiveFound DEF CancelRequest, Unexpired, TableInv
  <2> QED
    BY <1>3, <2>1, TakeRows DEF CancelRequest, RowStep
<1>4. ASSUME NEW r \in Requests, TryLock(r) \/ CheckNoActive(r) PROVE RowsKnown'
  <2>1. CASE Return(r, "refused")
    BY <2>1, ReturnRows
  <2>2. CASE (Goto(r, "check") \/ Goto(r, "insert")) /\ UNCHANGED <<ev, asOf, dur>>
    BY <2>2, MoveRows DEF EventSteps
  <2> QED
    BY <1>4, <2>1, <2>2 DEF TryLock, CheckNoActive
<1>5. ASSUME NEW r \in Requests, CommitStart(r) PROVE RowsKnown'
  <2>1. nextId \in Ids /\ status'[nextId] = "active"
    BY <1>5, BoundsAssumption DEF CommitStart, WriteEvent, TableInv, TypeOK, TableOK, Ids
  <2> QED
    BY <1>5, <2>1, TakeRows DEF CommitStart
<1>6. ASSUME NEW r \in Requests, AnnounceStarted(r) PROVE RowsKnown'
  <2>1. <<Home[r], ev[r]>> \in Timers /\ status'[ev[r]] # "none"
    BY <1>6 DEF AnnounceStarted, TableInv, EventHasRow, EventSteps, Timers, RowStep
  <2>2. ASSUME NEW q \in Requests, pc'[q] \in EventSteps
        PROVE  pc[q] \in EventSteps /\ ev'[q] = ev[q]
    BY <1>6, <2>1, <2>2 DEF AnnounceStarted, HandlersOK, EventSteps
  <2>3. ASSUME NEW t \in Timers, pc'[t] # "off" PROVE pc[t] # "off" \/ t[2] = ev[r]
    BY <1>6, <2>1, <2>3 DEF AnnounceStarted, HandlersOK
  <2> QED
    BY <2>1, <2>2, <2>3 DEF RowsKnown, EventHasRow, TimerHasRow, RowStep
<1>7. ASSUME NEW r \in Requests, ReadActive(r) PROVE RowsKnown'
  <2>1. CASE Return(r, "idle")
    BY <2>1, ReturnRows
  <2>2. CASE GetActive # NoId /\ Goto(r, "claim") /\ ev' = [ev EXCEPT ![r] = GetActive]
    <3>1. GetActive \in Ids /\ status[GetActive] # "none"
      BY <2>2, GetActiveFound DEF Unexpired, TableInv
    <3> QED
      BY <2>2, <3>1, TakeRows DEF RowStep
  <2> QED
    BY <1>7, <2>1, <2>2 DEF ReadActive
<1>8. ASSUME NEW p \in Procs, \/ ReleaseClaim(p) \/ AnnounceCompleted(p)
                              \/ p \in Requests /\ AnnounceCancelled(p)
                              \/ p \in Requests /\ (LoseCommitAnswer(p) \/ RollbackStart(p))
      PROVE  RowsKnown'
  BY <1>8, ReturnRows DEF ReleaseClaim, AnnounceCompleted, AnnounceCancelled,
     LoseCommitAnswer, RollbackStart
<1>9. ASSUME NEW r \in Requests, StoreClaim(r) \/ MarkCancelled(r) \/ FailMarkCancelled(r)
      PROVE  RowsKnown'
  BY <1>9, MoveRows DEF StoreClaim, MarkCancelled, FailMarkCancelled, EventSteps
<1>10. ASSUME NEW p \in Procs, MarkCompleted(p) \/ FailMarkCompleted(p) PROVE RowsKnown'
  <2>1. PICK s \in {"sync_ended", "release"} : Goto(p, s)
    BY <1>10 DEF MarkCompleted, FailMarkCompleted
  <2>2. pc[p] = "complete" /\ UNCHANGED ev
    BY <1>10 DEF MarkCompleted, FailMarkCompleted
  <2> QED
    BY <2>1, <2>2, MoveRows DEF EventSteps
<1>11. ASSUME NEW r \in Requests, ClaimExpired(r) PROVE RowsKnown'
  BY <1>11, ClaimRows DEF ClaimExpired, EventSteps
<1>12. ASSUME NEW t \in Timers, FireTimer(t) PROVE RowsKnown'
  BY <1>12, ClaimRows DEF FireTimer
<1>13. ASSUME NEW i \in Instances, Crash(i) PROVE RowsKnown'
  <2>1. ASSUME NEW q \in Requests, pc'[q] \in EventSteps
        PROVE  pc[q] \in EventSteps /\ ev'[q] = ev[q]
    BY <1>13, <2>1 DEF Crash, EventSteps
  <2>2. ASSUME NEW t \in Timers, pc'[t] # "off" PROVE pc[t] # "off"
    BY <1>13, <2>2 DEF Crash
  <2> QED
    BY <2>1, <2>2 DEF RowsKnown, EventHasRow, TimerHasRow, RowStep
<1>14. ASSUME NEW i \in Instances, BootReconcile(i) PROVE RowsKnown'
  <2>1. ASSUME NEW q \in Requests PROVE pc'[q] = pc[q] /\ ev'[q] = ev[q]
    BY <1>14, <2>1 DEF BootReconcile, TableInv, TypeOK, InstancesOK, Timers
  <2>2. ASSUME NEW t \in Timers, pc'[t] # "off" PROVE pc[t] # "off" \/ t[2] \in recovered[i]
    BY <1>14, <2>2 DEF BootReconcile
  <2>3. \A e \in recovered[i] : e \in Ids /\ status[e] # "none"
    BY DEF TableInv, RecoveredHaveRows, TypeOK, InstancesOK
  <2> QED
    BY <2>1, <2>2, <2>3 DEF RowsKnown, EventHasRow, TimerHasRow, RowStep
<1>15. ASSUME Tick \/ UNCHANGED vars \/ \E i \in Instances : BootRead(i) \/ FailBootRead(i)
       PROVE  RowsKnown'
  BY <1>15, <1>1 DEF Tick, vars, handlers, BootRead, FailBootRead
<1>16. ASSUME NEW r \in Requests, NEW d \in Durations, StartRequest(r, d) PROVE RowsKnown'
  BY <1>16, MoveRows DEF StartRequest, EventSteps
<1> HIDE ProcFacts, <1>a
<1> QED
  BY <1>2, <1>3, <1>4, <1>5, <1>6, <1>7, <1>8, <1>9, <1>10, <1>11, <1>12, <1>13, <1>14,
     <1>15, <1>16
  DEF Next, RequestStep, TimerStep, StartStep, CompleteStep, QueryStep, CancelStep,
      FaultStep, BootStep, Procs

-----------------------------------------------------------------------------
(* Types of what an instance keeps, and of the notifications.              *)
LEMMA InstancesNext ==
    ASSUME TableInv, [Next]_vars
    PROVE  InstancesOK' /\ RecoveredHaveRows'
<1>a. InstancesOK /\ RecoveredHaveRows /\ RowStep
  BY TableNext DEF TableInv, TypeOK
<1>b. \A r \in Requests : pc[r] = "store" => ev[r] \in Ids
  BY DEF TableInv, EventHasRow, EventSteps
<1>c. \A r \in Requests : pc[r] = "claim" => ev[r] \in Ids
  BY DEF TableInv, EventHasRow, EventSteps
<1> USE <1>a, ProcFacts DEF InstancesOK, RecoveredHaveRows, RowStep
<1>1. CASE UNCHANGED instance
  BY <1>1 DEF instance
<1>2. ASSUME NEW p \in Procs, NEW e \in Ids, ClaimEnd(p, e), UNCHANGED <<mode, recovered>>
      PROVE  InstancesOK' /\ RecoveredHaveRows'
  BY <1>2 DEF ClaimEnd
<1>3. ASSUME NEW r \in Requests, StoreClaim(r) PROVE InstancesOK' /\ RecoveredHaveRows'
  BY <1>3, <1>b DEF StoreClaim
<1>4. ASSUME NEW p \in Procs, ReleaseClaim(p) PROVE InstancesOK' /\ RecoveredHaveRows'
  BY <1>4 DEF ReleaseClaim
<1>5. ASSUME NEW i \in Instances, \/ Crash(i) \/ BootRead(i) \/ FailBootRead(i)
                                  \/ BootReconcile(i)
      PROVE  InstancesOK' /\ RecoveredHaveRows'
  BY <1>5 DEF Crash, BootRead, FailBootRead, BootReconcile, Unexpired
<1> HIDE ProcFacts, <1>a DEF InstancesOK, RecoveredHaveRows, RowStep
<1>6. ASSUME NEW r \in Requests,
             \/ QueryRequest(r) \/ CancelRequest(r) \/ StartStep(r) \/ FaultStep(r)
             \/ ReadActive(r) \/ MarkCancelled(r) \/ AnnounceCancelled(r)
             \/ \E d \in Durations : StartRequest(r, d)
      PROVE  UNCHANGED instance
  BY <1>6 DEF QueryRequest, CancelRequest, StartStep, TryLock, CheckNoActive, CommitStart,
     AnnounceStarted, FaultStep, LoseCommitAnswer, RollbackStart, FailMarkCancelled,
     ReadActive, MarkCancelled, AnnounceCancelled, StartRequest
<1>7. ASSUME NEW p \in Procs, MarkCompleted(p) \/ FailMarkCompleted(p) \/ AnnounceCompleted(p)
      PROVE  UNCHANGED instance
  BY <1>7 DEF MarkCompleted, FailMarkCompleted, AnnounceCompleted
<1>8. ASSUME NEW r \in Requests, ClaimExpired(r) PROVE InstancesOK' /\ RecoveredHaveRows'
  BY <1>8, <1>2, <1>c, ProcFacts DEF ClaimExpired
<1>9. ASSUME NEW t \in Timers, FireTimer(t) PROVE InstancesOK' /\ RecoveredHaveRows'
  BY <1>9, <1>2, ProcFacts DEF FireTimer
<1>10. ASSUME Tick \/ UNCHANGED vars PROVE UNCHANGED instance
  BY <1>10 DEF Tick, vars
<1> QED
  BY <1>1, <1>3, <1>4, <1>5, <1>6, <1>7, <1>8, <1>9, <1>10
  DEF Next, RequestStep, TimerStep, CompleteStep, QueryStep, CancelStep, BootStep, Procs

(* Every step keeps the types of the clock, the counters and the           *)
(* notifications.                                                          *)
LEMMA CountersNext ==
    ASSUME TableInv, [Next]_vars
    PROVE  /\ now' \in 0..MaxTime /\ faults' \in 0..MaxFaults /\ crashes' \in 0..MaxCrashes
           /\ NoticesOK'
<1> DEFINE Goal == /\ now' \in 0..MaxTime /\ faults' \in 0..MaxFaults
                   /\ crashes' \in 0..MaxCrashes /\ NoticesOK'
<1> SUFFICES Goal
  OBVIOUS
<1>a. /\ now \in 0..MaxTime /\ faults \in 0..MaxFaults /\ crashes \in 0..MaxCrashes
      /\ NoticesOK
  BY DEF TableInv, TypeOK
<1>1. CASE UNCHANGED <<now, out, told, faults, crashes>>
  BY <1>1, <1>a DEF NoticesOK
<1>2. CASE Tick
  BY <1>2, <1>a, BoundsAssumption DEF Tick, NoticesOK
<1>3. ASSUME Fault, UNCHANGED <<now, out, told, crashes>> PROVE Goal
  BY <1>3, <1>a, BoundsAssumption DEF Fault, NoticesOK
<1>4. ASSUME NEW i \in Instances, Crash(i) PROVE Goal
  BY <1>4, <1>a, BoundsAssumption DEF Crash, NoticesOK
<1>5. ASSUME NEW e \in Ids, NEW k \in Kinds, Notify(e, k), UNCHANGED <<now, faults, crashes>> PROVE Goal
  <2>1. out' \in [Ids -> [Kinds -> Nat]]
    BY <1>5, <1>a DEF Notify, NoticesOK
  <2>2. NoOverride \in [event : Ids \cup {NoId}, late : BOOLEAN]
    BY DEF NoOverride
  <2>3. told' \in [event : Ids \cup {NoId}, late : BOOLEAN]
    <3>1. Overtaken(e) \in BOOLEAN
      BY DEF Overtaken
    <3> QED
      BY <1>5, <2>2, <3>1 DEF Notify
  <2> QED
    BY <1>5, <1>a, <2>1, <2>3 DEF NoticesOK
<1> HIDE DEF Goal
<1>6. ASSUME NEW r \in Requests,
             \/ QueryRequest(r) \/ CancelRequest(r) \/ TryLock(r) \/ CheckNoActive(r)
             \/ CommitStart(r) \/ QueryStep(r) \/ StoreClaim(r) \/ MarkCancelled(r)
             \/ \E d \in Durations : StartRequest(r, d)
      PROVE  UNCHANGED <<now, out, told, faults, crashes>>
  <2>1. CASE \/ QueryRequest(r) \/ CancelRequest(r)
             \/ \E d \in Durations : StartRequest(r, d)
    BY <2>1 DEF QueryRequest, CancelRequest, StartRequest
  <2>2. CASE TryLock(r) \/ CheckNoActive(r) \/ CommitStart(r)
    BY <2>2 DEF TryLock, CheckNoActive, CommitStart
  <2>3. CASE QueryStep(r) \/ StoreClaim(r) \/ MarkCancelled(r)
    BY <2>3 DEF QueryStep, ReadActive, ClaimExpired, StoreClaim, MarkCancelled
  <2> QED
    BY <1>6, <2>1, <2>2, <2>3
<1>7. ASSUME NEW r \in Requests, FaultStep(r) PROVE Goal
  BY <1>7, <1>3 DEF FaultStep, LoseCommitAnswer, RollbackStart, FailMarkCancelled
<1>8. ASSUME NEW r \in Requests, AnnounceStarted(r) \/ AnnounceCancelled(r) PROVE Goal
  <2>1. ev[r] \in Ids
    BY <1>8 DEF AnnounceStarted, AnnounceCancelled, TableInv, EventHasRow, EventSteps
  <2> QED
    BY <1>8, <2>1, <1>5 DEF AnnounceStarted, AnnounceCancelled, Kinds
<1>9. ASSUME NEW p \in Procs, AnnounceCompleted(p) PROVE Goal
  <2>1. Target(p) \in Ids
    BY <1>9, ProcFacts DEF AnnounceCompleted, TableInv, EventHasRow, EventSteps, Procs
  <2> QED
    BY <1>9, <2>1, <1>5 DEF AnnounceCompleted, Kinds
<1>10. ASSUME NEW p \in Procs, MarkCompleted(p) \/ ReleaseClaim(p)
       PROVE  UNCHANGED <<now, out, told, faults, crashes>>
  BY <1>10 DEF MarkCompleted, ReleaseClaim
<1>11. ASSUME NEW p \in Procs, FailMarkCompleted(p) PROVE Goal
  BY <1>11, <1>3 DEF FailMarkCompleted
<1>12. ASSUME NEW i \in Instances, BootRead(i) PROVE UNCHANGED <<now, out, told, faults, crashes>>
  BY <1>12 DEF BootRead
<1>13. ASSUME NEW i \in Instances, FailBootRead(i) \/ BootReconcile(i) PROVE Goal
  BY <1>13, <1>1, <1>3 DEF FailBootRead, BootReconcile
<1>14. ASSUME UNCHANGED vars \/ \E t \in Timers : FireTimer(t)
       PROVE  UNCHANGED <<now, out, told, faults, crashes>>
  BY <1>14 DEF vars, FireTimer
<1> QED
  BY <1>1, <1>2, <1>4, <1>6, <1>7, <1>8, <1>9, <1>10, <1>11, <1>12, <1>13, <1>14
  DEF Next, RequestStep, TimerStep, StartStep, CompleteStep, CancelStep, BootStep, Procs

-----------------------------------------------------------------------------
(* Mutual exclusion of the transactions of CreateIfNoActive.               *)

(* What every step but TryLock, CheckNoActive and the ends of a            *)
(* transaction does: it leaves the transactions where they are.            *)
Outside ==
    /\ UNCHANGED lock
    /\ \A r \in Requests : /\ pc'[r] \in InTransaction <=> pc[r] \in InTransaction
                           /\ pc'[r] = "insert" => pc[r] = "insert" /\ asOf'[r] = asOf[r]
Inside ==
    \/ \E r \in Requests : \/ TryLock(r) \/ CheckNoActive(r) \/ CommitStart(r)
                           \/ LoseCommitAnswer(r) \/ RollbackStart(r)
    \/ \E i \in Instances : Crash(i)

(* A return outside a transaction touches neither lock nor transaction.    *)
LEMMA ReturnOutside ==
    ASSUME HandlersOK, NEW p \in Procs, NEW s \in {"idle", "refused"}, Return(p, s),
           pc[p] \notin InTransaction, UNCHANGED lock
    PROVE  Outside
  BY ProcFacts DEF Return, Goto, HandlersOK, Outside, InTransaction

(* A move outside a transaction touches neither lock nor transaction.      *)
LEMMA MoveOutside ==
    ASSUME HandlersOK, NEW p \in Procs, NEW s, s \notin InTransaction, Goto(p, s),
           pc[p] \notin InTransaction, UNCHANGED lock,
           \A q \in Requests : q # p => asOf'[q] = asOf[q]
    PROVE  Outside
  BY ProcFacts DEF Goto, HandlersOK, Outside, InTransaction

(* All actions but those of CreateIfNoActive and crashes stay outside      *)
(* transactions.                                                           *)
LEMMA OutsideNext ==
    ASSUME TableInv, [Next]_vars, ~Inside
    PROVE  Outside
<1>a. HandlersOK
  BY DEF TableInv, TypeOK
<1> USE <1>a, ProcFacts
<1>1. CASE UNCHANGED <<lock, pc, asOf>>
  BY <1>1 DEF Outside
<1>2. ASSUME NEW r \in Requests, QueryRequest(r) \/ CancelRequest(r) PROVE Outside
  BY <1>2, MoveOutside DEF QueryRequest, CancelRequest, Ready, Resting, HandlersOK, InTransaction
<1>3. ASSUME NEW r \in Requests, NEW d \in Durations, StartRequest(r, d) PROVE Outside
  BY <1>3, MoveOutside DEF StartRequest, Ready, Resting, HandlersOK, InTransaction
<1>4. ASSUME NEW r \in Requests, StoreClaim(r) \/ MarkCancelled(r) \/ FailMarkCancelled(r)
      PROVE  Outside
  BY <1>4, MoveOutside DEF StoreClaim, MarkCancelled, FailMarkCancelled, InTransaction
<1>5. ASSUME NEW p \in Procs, \/ ReleaseClaim(p) \/ AnnounceCompleted(p)
                              \/ p \in Requests /\ AnnounceCancelled(p)
      PROVE  Outside
  BY <1>5, ReturnOutside DEF ReleaseClaim, AnnounceCompleted, AnnounceCancelled, InTransaction
<1>6. ASSUME NEW r \in Requests, AnnounceStarted(r) PROVE Outside
  <2>1. <<Home[r], ev[r]>> \in Timers
    BY <1>6 DEF AnnounceStarted, TableInv, EventHasRow, EventSteps, Timers
  <2> QED
    BY <1>6, <2>1 DEF AnnounceStarted, HandlersOK, Outside, InTransaction
<1>7. ASSUME NEW r \in Requests, ReadActive(r) PROVE Outside
  <2>1. CASE Return(r, "idle")
    BY <1>7, <2>1, ReturnOutside DEF ReadActive, InTransaction
  <2>2. CASE Goto(r, "claim") /\ UNCHANGED <<asOf, dur>>
    BY <1>7, <2>2, MoveOutside DEF ReadActive, InTransaction
  <2> QED
    BY <1>7, <2>1, <2>2 DEF ReadActive
<1>8. ASSUME NEW p \in Procs, NEW e, ClaimEnd(p, e), UNCHANGED lock, pc[p] \notin InTransaction
      PROVE  Outside
  <2>1. CASE Return(p, "idle")
    BY <1>8, <2>1, ReturnOutside
  <2>2. CASE Goto(p, "complete") /\ UNCHANGED <<ev, asOf, dur>>
    BY <1>8, <2>2, MoveOutside DEF InTransaction
  <2> QED
    BY <1>8, <2>1, <2>2 DEF ClaimEnd
<1>9. ASSUME NEW r \in Requests, ClaimExpired(r) PROVE Outside
  BY <1>9, <1>8 DEF ClaimExpired, InTransaction
<1>10. ASSUME NEW t \in Timers, FireTimer(t) PROVE Outside
  BY <1>10, <1>8 DEF FireTimer, InTransaction
<1>11. ASSUME NEW p \in Procs, MarkCompleted(p) \/ FailMarkCompleted(p) PROVE Outside
  <2>1. PICK s \in {"sync_ended", "release"} : Goto(p, s)
    BY <1>11 DEF MarkCompleted, FailMarkCompleted
  <2>2. pc[p] = "complete" /\ UNCHANGED <<lock, asOf>>
    BY <1>11 DEF MarkCompleted, FailMarkCompleted
  <2> QED
    BY <2>1, <2>2, MoveOutside DEF InTransaction
<1>12. ASSUME NEW i \in Instances, BootReconcile(i) PROVE Outside
  <2>1. \A q \in Requests : pc'[q] = pc[q]
    BY <1>12 DEF BootReconcile, TableInv, TypeOK, InstancesOK, Timers
  <2> QED
    BY <1>12, <2>1 DEF BootReconcile, Outside
<1>13. ASSUME Tick \/ UNCHANGED vars \/ \E i \in Instances : BootRead(i) \/ FailBootRead(i)
       PROVE  Outside
  BY <1>13, <1>1 DEF Tick, vars, handlers, BootRead, FailBootRead
<1> HIDE ProcFacts, <1>a
<1> QED
  BY <1>2, <1>3, <1>4, <1>5, <1>6, <1>7, <1>9, <1>10, <1>11, <1>12, <1>13
  DEF Next, RequestStep, TimerStep, StartStep, CompleteStep, QueryStep, CancelStep,
      FaultStep, BootStep, Procs, Inside

(* Every step keeps the advisory lock with the open transaction.           *)
LEMMA LockNext ==
    ASSUME TableInv, [Next]_vars
    PROVE  LockHeldInTransaction' /\ lock' \in Requests \cup {NoRequest}
<1>a. /\ HandlersOK /\ LockHeldInTransaction
      /\ lock \in Requests \cup {NoRequest}
  BY DEF TableInv, TypeOK, TableOK
<1> USE <1>a, ProcFacts, ProcsAssumption DEF LockHeldInTransaction, InTransaction, HandlersOK
<1>1. CASE Outside
  BY <1>1 DEF Outside
<1>2. CASE \E r \in Requests : TryLock(r)
  BY <1>2 DEF TryLock, Goto, Return
<1>3. CASE \E r \in Requests : CheckNoActive(r)
  BY <1>3 DEF CheckNoActive, Goto, Return
<1>4. CASE \E r \in Requests : CommitStart(r)
  BY <1>4 DEF CommitStart, WriteEvent, Goto
<1>5. CASE \E r \in Requests : LoseCommitAnswer(r)
  BY <1>5 DEF LoseCommitAnswer, WriteEvent, Return, Goto
<1>6. CASE \E r \in Requests : RollbackStart(r)
  BY <1>6 DEF RollbackStart, Return, Goto
<1>7. CASE \E i \in Instances : Crash(i)
  BY <1>7 DEF Crash
<1> HIDE <1>a, ProcFacts, ProcsAssumption DEF LockHeldInTransaction, InTransaction, HandlersOK
<1> QED
  BY <1>1, <1>2, <1>3, <1>4, <1>5, <1>6, <1>7, OutsideNext DEF Inside

(* Nobody but the holder of the lock creates a row, so what the holder     *)
(* found in its check still holds when it inserts.                         *)
LEMMA NoRowInTheWayNext ==
    ASSUME TableInv, [Next]_vars
    PROVE  NoRowInTheWay'
<1>a. /\ HandlersOK /\ LockHeldInTransaction /\ NoRowInTheWay
      /\ \A q, r \in Requests : pc[q] \in InTransaction /\ pc[r] \in InTransaction => q = r
  BY DEF TableInv, TypeOK, LockHeldInTransaction
<1>b. RowStep /\ TableTypes'
  BY TableNext
<1> USE <1>a, <1>b, ProcFacts DEF NoRowInTheWay, InTransaction, HandlersOK
<1>1. ASSUME NEW r \in Requests, CommitStart(r) \/ LoseCommitAnswer(r) PROVE NoRowInTheWay'
  <2>1. \A q \in Requests : pc'[q] # "insert"
    BY <1>1 DEF CommitStart, LoseCommitAnswer, Return, Goto
  <2> QED
    BY <2>1
<1>2. ASSUME ~\E r \in Requests : CommitStart(r) \/ LoseCommitAnswer(r)
      PROVE  \A e \in Ids : status'[e] = "active" => status[e] = "active" /\ endsAt'[e] = endsAt[e]
  <2>1. CASE UNCHANGED table
    BY <2>1 DEF table
  <2>2. CASE \E r \in Requests : MarkCancelled(r) \/ FailMarkCancelled(r)
    BY <2>2 DEF MarkCancelled, FailMarkCancelled, SetStatus, TableInv, TypeOK, TableOK
  <2>3. CASE \E p \in Procs : MarkCompleted(p) \/ FailMarkCompleted(p)
    BY <2>3 DEF MarkCompleted, FailMarkCompleted, SetStatus, TableInv, TypeOK, TableOK
  <2>4. CASE \E i \in Instances : BootReconcile(i)
    BY <2>4 DEF BootReconcile
  <2> QED
    BY <1>2, <2>1, <2>2, <2>3, <2>4, TableFrame DEF TableWrite
<1>3. CASE Outside /\ ~\E r \in Requests : CommitStart(r) \/ LoseCommitAnswer(r)
  BY <1>2, <1>3 DEF Outside
<1>4. ASSUME NEW r \in Requests, TryLock(r) \/ RollbackStart(r) PROVE NoRowInTheWay'
  <2>1. \A q \in Requests : pc'[q] = "insert" => pc[q] = "insert" /\ asOf'[q] = asOf[q]
    BY <1>4 DEF TryLock, RollbackStart, Return, Goto
  <2>2. UNCHANGED table
    BY <1>4 DEF TryLock, RollbackStart
  <2> QED
    BY <2>1, <2>2 DEF table
<1>5. ASSUME NEW r \in Requests, CheckNoActive(r) PROVE NoRowInTheWay'
  <2>1. UNCHANGED table
    BY <1>5 DEF CheckNoActive
  <2>2. CASE Return(r, "refused")
    <3>1. \A q \in Requests : pc'[q] = "insert" => pc[q] = "insert" /\ asOf'[q] = asOf[q]
      BY <2>2 DEF Return, Goto
    <3> QED
      BY <2>1, <3>1 DEF table
  <2>3. CASE /\ ~\E e \in Ids : status[e] = "active" /\ endsAt[e] > asOf[r]
             /\ Goto(r, "insert") /\ UNCHANGED asOf
    <3>1. \A e \in Ids : status[e] = "active" => endsAt[e] <= asOf[r]
      BY <2>3, BoundsAssumption DEF TableInv, TypeOK, TableOK
    <3>2. \A q \in Requests : pc'[q] = "insert" => q = r \/ pc[q] = "insert"
      BY <2>3 DEF Goto
    <3> QED
      BY <2>1, <2>3, <3>1, <3>2 DEF table
  <2> QED
    BY <1>5, <2>2, <2>3 DEF CheckNoActive
<1>6. ASSUME NEW i \in Instances, Crash(i) PROVE NoRowInTheWay'
  BY <1>6 DEF Crash, table
<1> HIDE <1>a, <1>b, ProcFacts DEF NoRowInTheWay, InTransaction, HandlersOK
<1> QED
  BY <1>1, <1>3, <1>4, <1>5, <1>6, OutsideNext DEF Inside

-----------------------------------------------------------------------------
(* The table                                                               *)

(* The table invariant holds of the empty table.                           *)
LEMMA TableInvInit == Init => TableInv
<1> SUFFICES ASSUME Init PROVE TableInv
  OBVIOUS
<1>1. TypeOK
  BY HomeAssumption, ProcsAssumption, BoundsAssumption
  DEF Init, TypeOK, NoticesOK, NoOverride, TableOK, HandlersOK, InstancesOK, Procs, Timers, Ids,
      NoId, Statuses, Kinds, RequestSteps, TimerSteps
<1>2. \A p \in Procs : pc[p] \in {"idle", "off"} /\ (p \in Timers => pc[p] = "off")
  BY ProcFacts DEF Init
<1> QED
  BY <1>1, <1>2, ProcFacts, ProcsAssumption
  DEF Init, TableInv, EventHasRow, EventSteps, TimerHasRow, RecoveredHaveRows, FreshIds,
      LockHeldInTransaction, InTransaction, NoRowInTheWay, OneActiveRow

(* Every step keeps the table invariant.                                   *)
LEMMA TableInvNext == TableInv /\ [Next]_vars => TableInv'
<1> SUFFICES ASSUME TableInv, [Next]_vars PROVE TableInv'
  OBVIOUS
<1>1. TypeOK'
  BY CountersNext, TableNext, LockNext, HandlersNext, InstancesNext
  DEF TypeOK, TableOK, TableTypes
<1> QED
  BY <1>1, RowsNext, InstancesNext, TableNext, LockNext, NoRowInTheWayNext
  DEF TableInv, RowsKnown

(* The sync_events table, the advisory lock and the handlers at work on    *)
(* them stay consistent: the inductive invariant that the other theorems   *)
(* start from.                                                             *)
THEOREM TableCorrect == Spec => []TableInv
<1> QED
  BY TableInvInit, TableInvNext, PTL DEF Spec

(* Every variable keeps its type.                                          *)
THEOREM TypeCorrect == Spec => []TypeOK
<1>1. TableInv => TypeOK
  BY DEF TableInv
<1> QED
  BY <1>1, TableCorrect, PTL

(* The advisory lock is held by the transaction that is open, and by       *)
(* nobody after a refusal, an error or a crash.                            *)
THEOREM LockCorrect == Spec => []LockHeldInTransaction
<1>1. TableInv => LockHeldInTransaction
  BY DEF TableInv
<1> QED
  BY <1>1, TableCorrect, PTL

(* At most one row of sync_events is active, for any number of instances,  *)
(* requests, faults and crashes and any skew of the database clock.        *)
THEOREM AtMostOneActive == Spec => []OneActiveRow
<1>1. TableInv => OneActiveRow
  BY DEF TableInv
<1> QED
  BY <1>1, TableCorrect, PTL

(* A row that is over never becomes active again, and a cancelled row is   *)
(* never overwritten by a late completion.                                 *)
THEOREM RowsOnlyEnd == Spec => RowLifecycle
<1>1. TableInv /\ [Next]_vars =>
        [\A e \in Ids :
          /\ status[e] # "none" => status'[e] # "none" /\ endsAt'[e] = endsAt[e]
          /\ status[e] = "completed" => status'[e] \in {"completed", "cancelled"}
          /\ status[e] = "cancelled" => status'[e] = "cancelled"]_vars
  BY TableNext DEF RowStep, Over
<1> QED
  BY <1>1, TableCorrect, PTL DEF Spec, RowLifecycle

-----------------------------------------------------------------------------
(* SYNC_ENDED is announced at most once as a completion                    *)

(* Nothing has been announced at first.                                    *)
LEMMA EndInvInit == Init => EndInv
<1> SUFFICES ASSUME Init PROVE EndInv
  OBVIOUS
<1>1. \A p \in Procs : pc[p] # "sync_ended"
  BY DEF Init
<1> QED
  BY <1>1 DEF Init, EndInv, CompletedOnce, CompletedRecorded, EndPending, Kinds

(* What every step does that neither completes a row nor announces a       *)
(* completion: it sends no completion and brings nobody to sync_ended.     *)
Quiet ==
    /\ \A e \in Ids : out'[e]["completed"] = out[e]["completed"]
    /\ \A p \in Procs : pc'[p] = "sync_ended" =>
          pc[p] = "sync_ended" /\ (p \in Requests => ev'[p] = ev[p])

(* A step that announces no completion and completes no row keeps          *)
(* EndInv.                                                                 *)
LEMMA EndQuiet ==
    ASSUME TableInv, EndInv, RowStep, Quiet
    PROVE  EndInv'
<1>1. \A p \in Procs : pc[p] = "sync_ended" => Target(p) \in Ids
  BY ProcFacts DEF TableInv, EventHasRow, EventSteps, Procs
<1>2. \A p \in Procs : pc'[p] = "sync_ended" => pc[p] = "sync_ended" /\ Target(p)' = Target(p)
  BY DEF Target, Quiet
<1>3. CompletedOnce' /\ CompletedRecorded'
  BY DEF EndInv, CompletedOnce, CompletedRecorded, RowStep, Quiet
<1>4. EndPending'
  <2> SUFFICES ASSUME NEW p \in Procs, pc'[p] = "sync_ended"
               PROVE  /\ status'[Target(p)'] \in Over
                      /\ out'[Target(p)']["completed"] = 0
                      /\ \A q \in Procs : pc'[q] = "sync_ended" /\ Target(q)' = Target(p)' => q = p
    BY DEF EndPending
  <2> QED
    BY <1>1, <1>2 DEF EndInv, EndPending, RowStep, Quiet
<1> QED
  BY <1>3, <1>4 DEF EndInv

(* A return announces nothing.                                             *)
LEMMA ReturnQuiet ==
    ASSUME HandlersOK, NEW p \in Procs, NEW s \in {"idle", "refused"}, Return(p, s),
           \A e \in Ids : out'[e]["completed"] = out[e]["completed"]
    PROVE  Quiet
  BY ProcFacts DEF Return, Goto, HandlersOK, Quiet

(* A move to another step than the announcement announces nothing.         *)
LEMMA MoveQuiet ==
    ASSUME HandlersOK, NEW p \in Procs, NEW s, s # "sync_ended", Goto(p, s), UNCHANGED out,
           \A r \in Requests : r # p => ev'[r] = ev[r]
    PROVE  Quiet
  BY ProcFacts DEF Goto, HandlersOK, Quiet

(* All actions but MarkCompleted and AnnounceCompleted are quiet.          *)
LEMMA QuietNext ==
    ASSUME TableInv, [Next]_vars,
           ~\E p \in Procs : MarkCompleted(p) \/ AnnounceCompleted(p)
    PROVE  Quiet
<1>a. HandlersOK /\ out \in [Ids -> [Kinds -> Nat]]
  BY DEF TableInv, TypeOK, NoticesOK
<1> USE <1>a, ProcFacts
<1>1. CASE UNCHANGED <<pc, ev, out>>
  BY <1>1 DEF Quiet
<1>2. ASSUME NEW r \in Requests, \/ QueryRequest(r) \/ CancelRequest(r) \/ CommitStart(r)
                                 \/ StoreClaim(r) \/ MarkCancelled(r) \/ FailMarkCancelled(r)
      PROVE  Quiet
  BY <1>2, MoveQuiet DEF QueryRequest, CancelRequest, CommitStart, StoreClaim, MarkCancelled,
     FailMarkCancelled, HandlersOK
<1>3. ASSUME NEW r \in Requests, NEW d \in Durations, StartRequest(r, d) PROVE Quiet
  BY <1>3, MoveQuiet DEF StartRequest
<1>4. ASSUME NEW r \in Requests, TryLock(r) \/ CheckNoActive(r) PROVE Quiet
  <2>1. CASE Return(r, "refused")
    BY <1>4, <2>1, ReturnQuiet DEF TryLock, CheckNoActive
  <2>2. CASE (Goto(r, "check") \/ Goto(r, "insert")) /\ UNCHANGED <<ev, asOf, dur>>
    BY <1>4, <2>2, MoveQuiet DEF TryLock, CheckNoActive
  <2> QED
    BY <1>4, <2>1, <2>2 DEF TryLock, CheckNoActive
<1>5. ASSUME NEW p \in Procs, \/ ReleaseClaim(p)
                              \/ p \in Requests /\ (LoseCommitAnswer(p) \/ RollbackStart(p))
      PROVE  Quiet
  BY <1>5, ReturnQuiet DEF ReleaseClaim, LoseCommitAnswer, RollbackStart
<1>6. ASSUME NEW r \in Requests, AnnounceCancelled(r) PROVE Quiet
  <2>1. \A e \in Ids : out'[e]["completed"] = out[e]["completed"]
    BY <1>6 DEF AnnounceCancelled, Notify, Kinds
  <2> QED
    BY <1>6, <2>1, ReturnQuiet DEF AnnounceCancelled
<1>7. ASSUME NEW r \in Requests, AnnounceStarted(r) PROVE Quiet
  <2>1. \A e \in Ids : out'[e]["completed"] = out[e]["completed"]
    BY <1>7 DEF AnnounceStarted, Notify, Kinds
  <2>2. \A p \in Procs : pc'[p] = "sync_ended" => pc[p] = "sync_ended" /\ p # r
    BY <1>7 DEF AnnounceStarted, HandlersOK
  <2> QED
    BY <1>7, <2>1, <2>2 DEF AnnounceStarted, Quiet, HandlersOK
<1>8. ASSUME NEW r \in Requests, ReadActive(r) PROVE Quiet
  <2>1. CASE Return(r, "idle")
    BY <1>8, <2>1, ReturnQuiet DEF ReadActive
  <2>2. CASE Goto(r, "claim") /\ ev' = [ev EXCEPT ![r] = GetActive]
    BY <1>8, <2>2, MoveQuiet DEF ReadActive, HandlersOK
  <2> QED
    BY <1>8, <2>1, <2>2 DEF ReadActive
<1>9. ASSUME NEW p \in Procs, NEW e, ClaimEnd(p, e), UNCHANGED out PROVE Quiet
  <2>1. CASE Return(p, "idle")
    BY <1>9, <2>1, ReturnQuiet
  <2>2. CASE Goto(p, "complete") /\ UNCHANGED <<ev, asOf, dur>>
    BY <1>9, <2>2, MoveQuiet
  <2> QED
    BY <1>9, <2>1, <2>2 DEF ClaimEnd
<1>10. ASSUME NEW r \in Requests, ClaimExpired(r) PROVE Quiet
  BY <1>10, <1>9 DEF ClaimExpired
<1>11. ASSUME NEW t \in Timers, FireTimer(t) PROVE Quiet
  BY <1>11, <1>9 DEF FireTimer
<1>12. ASSUME NEW p \in Procs, FailMarkCompleted(p) PROVE Quiet
  BY <1>12, MoveQuiet DEF FailMarkCompleted
<1>13. ASSUME NEW i \in Instances, Crash(i) PROVE Quiet
  BY <1>13 DEF Crash, Quiet
<1>14. ASSUME NEW i \in Instances, BootReconcile(i) PROVE Quiet
  BY <1>14 DEF BootReconcile, Quiet
<1>15. ASSUME Tick \/ UNCHANGED vars \/ \E i \in Instances : BootRead(i) \/ FailBootRead(i)
       PROVE  Quiet
  BY <1>15, <1>1 DEF Tick, vars, handlers, BootRead, FailBootRead
<1> HIDE ProcFacts, <1>a
<1> QED
  BY <1>2, <1>3, <1>4, <1>5, <1>6, <1>7, <1>8, <1>10, <1>11, <1>12, <1>13, <1>14, <1>15
  DEF Next, RequestStep, TimerStep, StartStep, CompleteStep, QueryStep, CancelStep,
      FaultStep, BootStep, Procs

(* The update that completes a row succeeds for one caller only, and the   *)
(* announcement that follows is the only one.                              *)
LEMMA EndInvNext == TableInv /\ EndInv /\ [Next]_vars => EndInv'
<1> SUFFICES ASSUME TableInv, EndInv, [Next]_vars PROVE EndInv'
  OBVIOUS
<1>a. /\ RowStep /\ HandlersOK /\ out \in [Ids -> [Kinds -> Nat]]
      /\ status \in [Ids -> Statuses]
  BY TableNext DEF TableInv, TypeOK, NoticesOK, TableOK
<1>b. \A p \in Procs : pc[p] \in {"complete", "sync_ended"} => Target(p) \in Ids
  BY ProcFacts DEF TableInv, EventHasRow, EventSteps, Procs
<1>1. ASSUME NEW p \in Procs, MarkCompleted(p) PROVE EndInv'
  <2>1. CASE status[Target(p)] # "active"
    <3>1. Quiet
      BY <1>1, <2>1, <1>a, MoveQuiet DEF MarkCompleted
    <3> QED
      BY <3>1, <1>a, EndQuiet
  <2>2. CASE status[Target(p)] = "active"
    <3>1. /\ \A q \in Procs : pc'[q] = "sync_ended" => q = p \/ pc[q] = "sync_ended"
          /\ UNCHANGED out
          /\ \A q \in Procs : Target(q)' = Target(q)
      BY <1>1, <1>a, <2>2, ProcFacts DEF MarkCompleted, Goto, HandlersOK, Target
    <3>2. status'[Target(p)] \in Over
      BY <1>1, <1>a, <1>b, <2>2 DEF MarkCompleted, SetStatus, Over
    <3>3. out[Target(p)]["completed"] = 0
      BY <1>1, <1>a, <1>b, <2>2 DEF EndInv, CompletedRecorded, Over, Kinds, MarkCompleted
    <3>4. \A q \in Procs : pc[q] = "sync_ended" => Target(q) # Target(p)
      BY <2>2 DEF EndInv, EndPending, Over
    <3>5. EndPending'
      <4> SUFFICES ASSUME NEW q \in Procs, pc'[q] = "sync_ended"
                   PROVE  /\ status'[Target(q)] \in Over
                          /\ out[Target(q)]["completed"] = 0
                          /\ \A u \in Procs : pc'[u] = "sync_ended" /\ Target(u) = Target(q)
                                 => u = q
        BY <3>1 DEF EndPending
      <4>1. CASE q = p
        BY <4>1, <3>1, <3>2, <3>3, <3>4
      <4>2. CASE q # p
        BY <4>2, <3>1, <3>4, <1>a, <1>b DEF EndInv, EndPending, RowStep
      <4> QED
        BY <4>1, <4>2
    <3> QED
      BY <3>1, <3>5, <1>a DEF EndInv, CompletedOnce, CompletedRecorded, RowStep
  <2> QED
    BY <2>1, <2>2
<1>2. ASSUME NEW p \in Procs, AnnounceCompleted(p) PROVE EndInv'
  <2> DEFINE e == Target(p)
  <2>1. /\ e \in Ids /\ status[e] \in Over /\ out[e]["completed"] = 0
        /\ \A q \in Procs : pc[q] = "sync_ended" /\ Target(q) = e => q = p
    BY <1>2, <1>b DEF AnnounceCompleted, EndInv, EndPending
  <2>2. /\ out'[e]["completed"] = 1
        /\ \A f \in Ids : f # e => out'[f] = out[f]
    BY <1>2, <1>a, <2>1 DEF AnnounceCompleted, Notify, Kinds
  <2>3. \A q \in Procs : pc'[q] = "sync_ended" =>
            q # p /\ pc[q] = "sync_ended" /\ Target(q)' = Target(q)
    BY <1>2, <1>a, ProcFacts DEF AnnounceCompleted, Return, Goto, HandlersOK, Target
  <2>4. CompletedOnce' /\ CompletedRecorded'
    BY <1>a, <2>1, <2>2 DEF EndInv, CompletedOnce, CompletedRecorded, RowStep
  <2>5. EndPending'
    <3> HIDE DEF e
    <3> SUFFICES ASSUME NEW q \in Procs, pc'[q] = "sync_ended"
                 PROVE  /\ status'[Target(q)'] \in Over
                        /\ out'[Target(q)']["completed"] = 0
                        /\ \A u \in Procs : pc'[u] = "sync_ended" /\ Target(u)' = Target(q)'
                               => u = q
      BY DEF EndPending
    <3>1. pc[q] = "sync_ended" /\ Target(q)' = Target(q) /\ Target(q) # e /\ Target(q) \in Ids
      BY <1>b, <2>1, <2>3
    <3> QED
      BY <1>a, <2>2, <2>3, <3>1 DEF EndInv, EndPending, RowStep
  <2> QED
    BY <2>4, <2>5 DEF EndInv
<1> QED
  BY <1>1, <1>2, <1>a, QuietNext, EndQuiet

(* SYNC_ENDED with reason "completed" is sent at most once for an event.   *)
THEOREM CompletionAnnouncedOnce == Spec => []CompletedOnce
<1>1. EndInv => CompletedOnce
  BY DEF EndInv
<1> QED
  BY <1>1, TableCorrect, EndInvInit, EndInvNext, PTL DEF Spec

-----------------------------------------------------------------------------
(* Nothing completes an event before its deadline                          *)

DueSteps == {"claim", "complete", "sync_ended"}

(* Captured instants are past; whoever completes an event found it expired.*)
DueInv ==
    /\ \A r \in Requests : asOf[r] <= now
    /\ \A p \in Procs : pc[p] \in DueSteps => endsAt[Target(p)] <= now
    /\ CompletedAfterDeadline

(* Nothing is due at first.                                                *)
LEMMA DueInvInit == Init => DueInv
<1> SUFFICES ASSUME Init PROVE DueInv
  OBVIOUS
<1>1. \A p \in Procs : pc[p] \notin DueSteps
  BY DEF Init, DueSteps
<1> QED
  BY <1>1 DEF Init, DueInv, CompletedAfterDeadline, Kinds

(* The step of one process, seen from the clock and the deadlines.         *)
DueStep ==
    /\ \A r \in Requests : asOf'[r] \in {asOf[r], now, 0}
    /\ \A p \in Procs : pc'[p] \in DueSteps =>
          \/ pc[p] \in DueSteps /\ Target(p)' = Target(p)
          \/ Target(p)' \in Ids /\ status[Target(p)'] # "none" /\ endsAt[Target(p)'] <= now

(* A process that returns is no longer completing anything.                *)
LEMMA ReturnDue ==
    ASSUME HandlersOK, NEW p \in Procs, NEW s \in {"idle", "refused"}, Return(p, s)
    PROVE  DueStep
<1>1. \A q \in Procs : pc'[q] \in DueSteps => q # p /\ pc[q] \in DueSteps
  BY ProcFacts DEF Return, Goto, HandlersOK, DueSteps
<1>2. \A q \in Procs : q # p => Target(q)' = Target(q)
  BY ProcFacts DEF Return, Target, HandlersOK
<1>3. \A r \in Requests : asOf'[r] \in {asOf[r], 0}
  BY DEF Return, HandlersOK
<1> QED
  BY <1>1, <1>2, <1>3 DEF DueStep

(* A process that goes to a step outside complete.                         *)
LEMMA MoveDue ==
    ASSUME HandlersOK, NEW p \in Procs, NEW s, s \notin DueSteps, Goto(p, s),
           \A r \in Requests : asOf'[r] \in {asOf[r], now},
           \A r \in Requests : r # p => ev'[r] = ev[r]
    PROVE  DueStep
<1>1. \A q \in Procs : pc'[q] \in DueSteps => q # p /\ pc[q] \in DueSteps
  BY DEF Goto, HandlersOK
<1>2. \A q \in Procs : q # p => Target(q)' = Target(q)
  BY DEF Target
<1> QED
  BY <1>1, <1>2 DEF DueStep

(* A process that goes on working on an event that is due.                 *)
LEMMA StayDue ==
    ASSUME HandlersOK, NEW p \in Procs, NEW s, Goto(p, s), UNCHANGED <<asOf, ev>>,
           \/ pc[p] \in DueSteps
           \/ Target(p) \in Ids /\ status[Target(p)] # "none" /\ endsAt[Target(p)] <= now
    PROVE  DueStep
<1>1. \A q \in Procs : pc'[q] \in DueSteps => q = p \/ pc[q] \in DueSteps
  BY DEF Goto, HandlersOK
<1>2. \A q \in Procs : Target(q)' = Target(q)
  BY DEF Target
<1> QED
  BY <1>1, <1>2 DEF DueStep

(* Whatever process is led to complete an event, the event is due by       *)
(* then.                                                                   *)
LEMMA DueStepNext ==
    ASSUME TableInv, DueInv, [Next]_vars
    PROVE  DueStep
<1>a. HandlersOK /\ TableTypes /\ now \in Nat
  BY BoundsAssumption DEF TableInv, TypeOK, TableOK, TableTypes
<1> USE <1>a, ProcFacts
<1>1. CASE UNCHANGED <<pc, ev, asOf>>
  <2>1. \A p \in Procs : Target(p)' = Target(p)
    BY <1>1 DEF Target
  <2> QED
    BY <1>1, <2>1 DEF DueStep
<1>2. ASSUME NEW r \in Requests, \/ QueryRequest(r) \/ CancelRequest(r) \/ CommitStart(r)
                                 \/ StoreClaim(r) \/ MarkCancelled(r) \/ FailMarkCancelled(r)
      PROVE  DueStep
  <2>1. PICK s \in {"read", "store", "sync_started", "cancel", "sync_cancelled", "release"} :
            Goto(r, s)
    BY <1>2 DEF QueryRequest, CancelRequest, CommitStart, StoreClaim, MarkCancelled,
       FailMarkCancelled
  <2>2. \A q \in Requests : asOf'[q] \in {asOf[q], now} /\ (q # r => ev'[q] = ev[q])
    BY <1>2 DEF QueryRequest, CancelRequest, CommitStart, StoreClaim, MarkCancelled,
       FailMarkCancelled, HandlersOK
  <2> QED
    BY <2>1, <2>2, MoveDue DEF DueSteps
<1>3. ASSUME NEW r \in Requests, NEW d \in Durations, StartRequest(r, d) PROVE DueStep
  BY <1>3, MoveDue DEF StartRequest, DueSteps, HandlersOK
<1>4. ASSUME NEW r \in Requests, TryLock(r) \/ CheckNoActive(r) PROVE DueStep
  <2>1. CASE Return(r, "refused")
    BY <2>1, ReturnDue
  <2>2. CASE (Goto(r, "check") \/ Goto(r, "insert")) /\ UNCHANGED <<ev, asOf, dur>>
    BY <2>2, MoveDue DEF DueSteps
  <2> QED
    BY <1>4, <2>1, <2>2 DEF TryLock, CheckNoActive
<1>5. ASSUME NEW p \in Procs, \/ ReleaseClaim(p) \/ AnnounceCompleted(p)
                              \/ p \in Requests /\ AnnounceCancelled(p)
                              \/ p \in Requests /\ (LoseCommitAnswer(p) \/ RollbackStart(p))
      PROVE  DueStep
  BY <1>5, ReturnDue DEF ReleaseClaim, AnnounceCompleted, AnnounceCancelled, LoseCommitAnswer,
     RollbackStart
<1>6. ASSUME NEW r \in Requests, AnnounceStarted(r) PROVE DueStep
  <2>1. \A p \in Procs : pc'[p] \in DueSteps => pc[p] \in DueSteps /\ p # r
    BY <1>6 DEF AnnounceStarted, HandlersOK, DueSteps
  <2>2. \A p \in Procs : p # r => Target(p)' = Target(p)
    BY <1>6 DEF AnnounceStarted, Target, HandlersOK
  <2>3. \A q \in Requests : asOf'[q] \in {asOf[q], 0}
    BY <1>6 DEF AnnounceStarted, HandlersOK
  <2> QED
    BY <2>1, <2>2, <2>3 DEF DueStep
<1>7. ASSUME NEW r \in Requests, ReadActive(r) PROVE DueStep
  <2>1. CASE Return(r, "idle")
    BY <2>1, ReturnDue
  <2>2. CASE /\ GetActive # NoId /\ asOf[r] >= endsAt[GetActive] /\ Goto(r, "claim")
             /\ ev' = [ev EXCEPT ![r] = GetActive] /\ UNCHANGED <<asOf, dur>>
    <3>1. GetActive \in Ids /\ status[GetActive] # "none"
      BY <2>2, GetActiveFound DEF Unexpired, TableInv
    <3>2. endsAt[GetActive] <= now
      BY <2>2, <3>1, BoundsAssumption DEF DueInv, HandlersOK, TableTypes
    <3>3. \A q \in Procs : pc'[q] \in DueSteps => q = r \/ pc[q] \in DueSteps
      BY <2>2 DEF Goto, HandlersOK
    <3>4. Target(r)' = GetActive /\ \A q \in Procs : q # r => Target(q)' = Target(q)
      BY <2>2 DEF Target, HandlersOK
    <3> QED
      BY <2>2, <3>1, <3>2, <3>3, <3>4 DEF DueStep
  <2> QED
    BY <1>7, <2>1, <2>2 DEF ReadActive
<1>8. ASSUME NEW r \in Requests, ClaimExpired(r) PROVE DueStep
  <2>1. CASE Return(r, "idle")
    BY <2>1, ReturnDue
  <2>2. CASE Goto(r, "complete") /\ UNCHANGED <<ev, asOf, dur>>
    BY <1>8, <2>2, StayDue DEF ClaimExpired, DueSteps
  <2> QED
    BY <1>8, <2>1, <2>2 DEF ClaimExpired, ClaimEnd
<1>9. ASSUME NEW t \in Timers, FireTimer(t) PROVE DueStep
  <2>1. CASE Return(t, "idle")
    BY <2>1, ReturnDue
  <2>2. CASE Goto(t, "complete") /\ UNCHANGED <<ev, asOf, dur>>
    <3>1. status[t[2]] # "none" /\ endsAt[t[2]] <= now
      BY <1>9, BoundsAssumption DEF FireTimer, TableInv, TimerHasRow, TableTypes
    <3> QED
      BY <2>2, <3>1, StayDue
  <2> QED
    BY <1>9, <2>1, <2>2 DEF FireTimer, ClaimEnd
<1>10. ASSUME NEW p \in Procs, MarkCompleted(p) \/ FailMarkCompleted(p) PROVE DueStep
  <2>1. PICK s \in {"sync_ended", "release"} : Goto(p, s)
    BY <1>10 DEF MarkCompleted, FailMarkCompleted
  <2>2. pc[p] = "complete" /\ UNCHANGED <<ev, asOf>>
    BY <1>10 DEF MarkCompleted, FailMarkCompleted
  <2> QED
    BY <2>1, <2>2, StayDue DEF DueSteps
<1>11. ASSUME NEW i \in Instances, Crash(i) PROVE DueStep
  <2>1. \A p \in Procs : pc'[p] \in DueSteps => pc[p] \in DueSteps /\ HomeOf(p) # i
    BY <1>11 DEF Crash, DueSteps
  <2>2. \A p \in Procs : HomeOf(p) # i => Target(p)' = Target(p)
    BY <1>11 DEF Crash, Target
  <2>3. \A q \in Requests : asOf'[q] \in {asOf[q], 0}
    BY <1>11 DEF Crash
  <2> QED
    BY <2>1, <2>2, <2>3 DEF DueStep
<1>12. ASSUME NEW i \in Instances, BootReconcile(i) PROVE DueStep
  <2>1. \A p \in Procs : pc'[p] \in DueSteps => pc[p] \in DueSteps
    BY <1>12 DEF BootReconcile, DueSteps
  <2>2. \A p \in Procs : Target(p)' = Target(p)
    BY <1>12 DEF BootReconcile, Target
  <2> QED
    BY <1>12, <2>1, <2>2 DEF BootReconcile, DueStep
<1>13. ASSUME Tick \/ UNCHANGED vars \/ \E i \in Instances : BootRead(i) \/ FailBootRead(i)
       PROVE  DueStep
  BY <1>13, <1>1 DEF Tick, vars, handlers, BootRead, FailBootRead
<1> HIDE ProcFacts, <1>a
<1> QED
  BY <1>2, <1>3, <1>4, <1>5, <1>6, <1>7, <1>8, <1>9, <1>10, <1>11, <1>12, <1>13
  DEF Next, RequestStep, TimerStep, StartStep, CompleteStep, QueryStep, CancelStep,
      FaultStep, BootStep, Procs

(* The clock moves by Tick only.                                           *)
LEMMA ClockNext == ASSUME TableInv, [Next]_vars PROVE now' = now \/ Tick
<1>1. CASE \E r \in Requests : StartStep(r) \/ QueryStep(r) \/ CancelStep(r) \/ FaultStep(r)
  BY <1>1 DEF StartStep, QueryStep, CancelStep, FaultStep, TryLock, CheckNoActive, CommitStart,
     AnnounceStarted, ReadActive, ClaimExpired, StoreClaim, MarkCancelled, AnnounceCancelled,
     LoseCommitAnswer, RollbackStart, FailMarkCancelled
<1>2. CASE \E p \in Procs : CompleteStep(p) \/ FailMarkCompleted(p)
  BY <1>2 DEF CompleteStep, MarkCompleted, ReleaseClaim, AnnounceCompleted, FailMarkCompleted
<1>3. CASE \E i \in Instances : Crash(i) \/ BootStep(i) \/ FailBootRead(i)
  BY <1>3 DEF BootStep, Crash, BootRead, FailBootRead, BootReconcile
<1>4. CASE \E r \in Requests : \/ QueryRequest(r) \/ CancelRequest(r)
                               \/ \E d \in Durations : StartRequest(r, d)
  BY <1>4 DEF QueryRequest, CancelRequest, StartRequest
<1>5. CASE Tick \/ UNCHANGED vars \/ \E t \in Timers : FireTimer(t)
  BY <1>5 DEF vars, FireTimer
<1> QED
  BY <1>1, <1>2, <1>3, <1>4, <1>5 DEF Next, RequestStep, TimerStep, Procs

(* Every step keeps: what is being completed or announced as completed     *)
(* is due.                                                                 *)
LEMMA DueInvNext == TableInv /\ EndInv /\ DueInv /\ [Next]_vars => DueInv'
<1> SUFFICES ASSUME TableInv, EndInv, DueInv, [Next]_vars PROVE DueInv'
  OBVIOUS
<1>a. /\ DueStep /\ RowStep /\ HandlersOK /\ TableTypes
      /\ now \in Nat /\ now' \in Nat /\ now <= now'
      /\ out \in [Ids -> [Kinds -> Nat]]
  BY DueStepNext, TableNext, ClockNext, BoundsAssumption
  DEF TableInv, TypeOK, NoticesOK, TableOK, TableTypes, Tick
<1>b. \A p \in Procs : pc[p] \in DueSteps => Target(p) \in Ids /\ status[Target(p)] # "none"
  BY ProcFacts DEF TableInv, EventHasRow, TimerHasRow, EventSteps, DueSteps, Procs
<1>1. \A r \in Requests : asOf'[r] <= now'
  BY <1>a, BoundsAssumption DEF DueStep, DueInv, HandlersOK
<1>2. \A p \in Procs : pc'[p] \in DueSteps => endsAt'[Target(p)'] <= now'
  <2> SUFFICES ASSUME NEW p \in Procs, pc'[p] \in DueSteps PROVE endsAt'[Target(p)'] <= now'
    OBVIOUS
  <2>1. /\ Target(p)' \in Ids /\ status[Target(p)'] # "none" /\ endsAt[Target(p)'] <= now
    BY <1>a, <1>b DEF DueStep, DueInv
  <2>2. endsAt'[Target(p)'] = endsAt[Target(p)'] /\ endsAt[Target(p)'] \in Int
    BY <1>a, <2>1, BoundsAssumption DEF RowStep, TableTypes
  <2> QED
    BY <1>a, <2>1, <2>2
<1>3. CompletedAfterDeadline'
  <2> SUFFICES ASSUME NEW e \in Ids, out'[e]["completed"] > 0 PROVE now' >= endsAt'[e]
    BY DEF CompletedAfterDeadline
  <2>1. endsAt[e] \in Int
    BY <1>a, BoundsAssumption DEF TableTypes
  <2>2. CASE out[e]["completed"] > 0
    <3>1. endsAt'[e] = endsAt[e] /\ endsAt[e] <= now
      BY <1>a, <2>1, <2>2 DEF EndInv, CompletedRecorded, RowStep, Over, DueInv, CompletedAfterDeadline
    <3> QED
      BY <1>a, <2>1, <3>1
  <2>3. CASE ~(out[e]["completed"] > 0)
    <3>1. PICK p \in Procs : AnnounceCompleted(p)
      <4> SUFFICES ASSUME ~\E p \in Procs : AnnounceCompleted(p) PROVE FALSE
        OBVIOUS
      <4>1. CASE \E p \in Procs : MarkCompleted(p)
        BY <4>1, <2>3 DEF MarkCompleted
      <4> QED
        BY <4>1, <2>3, QuietNext DEF Quiet
    <3>2. Target(p) = e
      BY <3>1, <2>3, <1>a DEF AnnounceCompleted, Notify
    <3>3. endsAt[e] <= now /\ endsAt'[e] = endsAt[e]
      BY <3>1, <3>2, <1>a DEF AnnounceCompleted, DueInv, DueSteps, table
    <3> QED
      BY <1>a, <2>1, <3>3
  <2> QED
    BY <2>2, <2>3
<1> QED
  BY <1>1, <1>2, <1>3 DEF DueInv

(* The three inductive invariants, together.                               *)
LEMMA InvariantsHold == Spec => [](TableInv /\ EndInv /\ DueInv)
<1> QED
  BY TableCorrect, EndInvInit, EndInvNext, DueInvInit, DueInvNext, PTL DEF Spec

(* No event is announced as completed before its ends_at.                  *)
THEOREM NoEarlyCompletion == Spec => []CompletedAfterDeadline
<1>1. DueInv => CompletedAfterDeadline
  BY DEF DueInv
<1> QED
  BY <1>1, InvariantsHold, PTL

-----------------------------------------------------------------------------
(* SyncService implements SyncOverride                                     *)

(* The active row, where there is one, is the override in force.           *)
LEMMA ActiveRowIs ==
    ASSUME OneActiveRow, NEW e \in Ids, status[e] = "active"
    PROVE  ActiveRow = e
  BY DEF ActiveRow, OneActiveRow

(* The same, after a step.                                                 *)
LEMMA ActiveRowIs1 ==
    ASSUME OneActiveRow', NEW e \in Ids, status'[e] = "active"
    PROVE  ActiveRow' = e
  BY DEF ActiveRow, OneActiveRow

(* No active row: no override in force.                                    *)
LEMMA ActiveRowNone ==
    /\ (\A e \in Ids : status[e] # "active") => ActiveRow = NoId
    /\ (\A e \in Ids : status'[e] # "active") => ActiveRow' = NoId
    /\ NoId \notin Ids
  BY DEF ActiveRow, NoId, Ids

(* The empty table is an initial state of the abstract override.           *)
LEMMA OverrideInit == Init => Override!Init
  BY ActiveRowNone DEF Init, Override!Init

(* Each write of the table is one step of the override, and everything     *)
(* else that a handler, a timer or a boot does is invisible to it.         *)
LEMMA OverrideNext ==
    ASSUME TableInv, EndInv, DueInv, [Next]_vars
    PROVE  [Override!Next]_(Override!vars)
<1>a. /\ OneActiveRow /\ OneActiveRow' /\ FreshIds
      /\ TableTypes /\ TableTypes' /\ HandlersOK /\ now \in Nat
  BY TableNext, BoundsAssumption DEF TableInv, TypeOK, TableOK, TableTypes
<1> DEFINE goal == [Override!Next]_(Override!vars)
<1> SUFFICES goal
  OBVIOUS
<1>1. CASE UNCHANGED table
  <2>1. CASE Tick
    BY <2>1 DEF Tick, table, ActiveRow, Override!Next, Override!Tick
  <2>2. CASE now' = now
    BY <1>1, <2>2 DEF table, ActiveRow, Override!vars
  <2> QED
    BY <2>1, <2>2, ClockNext
<1>2. ASSUME NEW e \in Ids, status[e] = "active", endsAt[e] <= now,
             SetStatus(e, "completed"), UNCHANGED <<now, endsAt>>
      PROVE  goal
  <2>1. \A f \in Ids : f # e => status[f] # "active" /\ status'[f] = status[f]
    BY <1>2, <1>a DEF SetStatus, OneActiveRow, TableTypes
  <2>2. status'[e] = "completed"
    BY <1>2, <1>a DEF SetStatus, TableTypes
  <2>3. ActiveRow = e /\ ActiveRow' = NoId /\ e # NoId
    BY <1>2, <1>a, <2>1, <2>2, ActiveRowIs, ActiveRowNone
  <2>4. Override!Complete
    BY <1>2, <2>1, <2>2, <2>3 DEF Override!Complete
  <2> QED
    BY <2>4 DEF Override!Next
<1>3. ASSUME NEW e \in Ids, status[e] # "none", SetStatus(e, "cancelled"),
             UNCHANGED <<now, endsAt>>
      PROVE  goal
  <2>1. status'[e] = "cancelled" /\ \A f \in Ids : f # e => status'[f] = status[f]
    BY <1>3, <1>a DEF SetStatus, TableTypes
  <2>2. CASE status[e] = "active"
    <3>1. \A f \in Ids : f # e => status[f] # "active"
      BY <1>a, <2>2 DEF OneActiveRow
    <3>2. ActiveRow = e /\ ActiveRow' = NoId /\ e # NoId
      BY <1>a, <2>1, <2>2, <3>1, ActiveRowIs, ActiveRowNone
    <3>3. Override!Cancel
      BY <1>3, <2>1, <2>2, <3>1, <3>2 DEF Override!Cancel
    <3> QED
      BY <3>3 DEF Override!Next
  <2>3. CASE status[e] # "active"
    <3>1. status[e] \in {"completed", "cancelled"}
      BY <1>3, <1>a, <2>3 DEF TableTypes, Statuses
    <3>2. ActiveRow' = ActiveRow
      <4>1. CASE \E f \in Ids : status[f] = "active"
        BY <4>1, <1>a, <2>1, <2>3, ActiveRowIs, ActiveRowIs1
      <4>2. CASE \A f \in Ids : status[f] # "active"
        BY <4>2, <2>1, ActiveRowNone
      <4> QED
        BY <4>1, <4>2
    <3>3. CASE status[e] = "completed"
      <4>1. Override!CancelLate(e)
        BY <1>3, <2>1, <3>2, <3>3 DEF Override!CancelLate
      <4> QED
        BY <4>1 DEF Override!Next
    <3>4. CASE status[e] = "cancelled"
      BY <1>3, <1>a, <2>1, <3>2, <3>4 DEF Override!vars, TableTypes
    <3> QED
      BY <3>1, <3>3, <3>4
  <2> QED
    BY <2>2, <2>3
<1>4. ASSUME NEW r \in Requests, pc[r] = "insert", WriteEvent(r), UNCHANGED now
      PROVE  goal
  <2>0. PICK e \in Ids : e = nextId
    BY <1>4, <1>a, BoundsAssumption DEF WriteEvent, Ids, TableTypes
  <2>1. e \in Ids /\ status[e] = "none" /\ status'[e] = "active" /\ e # NoId
    BY <1>4, <1>a, <2>0, BoundsAssumption, ActiveRowNone DEF WriteEvent, FreshIds, TableTypes
  <2>2. \A f \in Ids : f # e =>
            /\ endsAt'[f] = endsAt[f]
            /\ status'[f] = IF status[f] = "active" THEN "completed" ELSE status[f]
    BY <1>4, <1>a, <2>0 DEF WriteEvent, TableTypes, TableInv, NoRowInTheWay
  <2>3. \A f \in Ids : status[f] = "active" => endsAt[f] <= now
    BY <1>4, <1>a, BoundsAssumption DEF TableInv, NoRowInTheWay, DueInv, HandlersOK, TableTypes
  <2>4. ActiveRow' = e
    BY <1>a, <2>1, ActiveRowIs1
  <2>5. endsAt' \in [Ids -> Nat]
    BY <1>a, BoundsAssumption DEF TableTypes
  <2>6. CASE \E f \in Ids : status[f] = "active"
    <3>1. PICK f \in Ids : status[f] = "active"
      BY <2>6
    <3>2. ActiveRow = f /\ f # e /\ f # NoId
      BY <3>1, <2>1, <1>a, ActiveRowIs, ActiveRowNone
    <3>3. \A g \in Ids : status[g] = "active" => g = f
      BY <3>1, <1>a DEF OneActiveRow
    <3>4. Override!Begin(e)
      BY <1>4, <2>1, <2>2, <2>3, <2>4, <2>5, <3>1, <3>2, <3>3 DEF Override!Begin
    <3> QED
      BY <3>4, <2>1 DEF Override!Next
  <2>7. CASE \A f \in Ids : status[f] # "active"
    <3>1. ActiveRow = NoId
      BY <2>7, ActiveRowNone
    <3>2. Override!Begin(e)
      BY <1>4, <2>1, <2>2, <2>4, <2>5, <2>7, <3>1, ActiveRowNone DEF Override!Begin
    <3> QED
      BY <3>2, <2>1 DEF Override!Next
  <2> QED
    BY <2>6, <2>7
<1>5. ASSUME NEW i \in Instances, BootReconcile(i) PROVE goal
  <2>1. UNCHANGED <<now, endsAt>>
    BY <1>5 DEF BootReconcile
  <2>2. CASE status' = status
    <3>1. ActiveRow' = ActiveRow
      BY <2>2 DEF ActiveRow
    <3> QED
      BY <2>1, <2>2, <3>1 DEF Override!vars
  <2>3. CASE status' # status
    <3>1. PICK e \in Ids : /\ status[e] = "active" /\ endsAt[e] <= now
                           /\ status'[e] = "completed"
      BY <1>5, <1>a, <2>3, BoundsAssumption DEF BootReconcile, TableTypes
    <3>2. \A f \in Ids : f # e => status'[f] = status[f]
      BY <1>5, <1>a, <3>1 DEF BootReconcile, OneActiveRow
    <3>3. SetStatus(e, "completed")
      BY <1>a, <3>1, <3>2 DEF SetStatus, TableTypes
    <3> QED
      BY <1>2, <2>1, <3>1, <3>3
  <2> QED
    BY <2>2, <2>3
<1> HIDE DEF goal
<1>b. /\ \A r \in Requests : pc[r] = "cancel" => ev[r] \in Ids /\ status[ev[r]] # "none"
      /\ \A p \in Procs : pc[p] = "complete" => Target(p) \in Ids /\ endsAt[Target(p)] <= now
  BY ProcFacts DEF TableInv, EventHasRow, EventSteps, Procs, DueInv, DueSteps
<1>6. ASSUME NEW r \in Requests, CommitStart(r) \/ LoseCommitAnswer(r) PROVE goal
  BY <1>6, <1>4 DEF CommitStart, LoseCommitAnswer
<1>7. ASSUME NEW r \in Requests, MarkCancelled(r) \/ FailMarkCancelled(r) PROVE goal
  BY <1>7, <1>1, <1>3, <1>b DEF MarkCancelled, FailMarkCancelled, table
<1>8. ASSUME NEW p \in Procs, MarkCompleted(p) \/ FailMarkCompleted(p) PROVE goal
  BY <1>8, <1>1, <1>2, <1>b DEF MarkCompleted, FailMarkCompleted, table
<1> QED
  BY <1>1, <1>5, <1>6, <1>7, <1>8, TableFrame DEF TableWrite

(* Interleaved requests, timers, crashes and database failures never do    *)
(* to the override in force what one atomic Begin, Complete, Cancel or     *)
(* late Cancel could not do.                                               *)
THEOREM Refinement == Spec => ImplementsOverride
<1>1. Init => Override!Init
  BY OverrideInit
<1>2. TableInv /\ EndInv /\ DueInv /\ [Next]_vars => [Override!Next]_(Override!vars)
  BY OverrideNext
<1> QED
  BY <1>1, <1>2, InvariantsHold, PTL DEF Spec, ImplementsOverride, Override!Spec

=============================================================================
