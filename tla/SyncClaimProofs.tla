--------------------------- MODULE SyncClaimProofs ---------------------------
(***************************************************************************)
(* More proofs about SyncService: what is announced has been recorded, no  *)
(* claim in `ended` outlives the work on it, and an event that is active   *)
(* on a server that is up has a timer.                                     *)
(***************************************************************************)
EXTENDS SyncServiceProofs

(* A cancellation about to be announced is in the table.                   *)
CancelPending == \A r \in Requests : pc[r] = "sync_cancelled" => status[ev[r]] = "cancelled"
RecordInv == CancelPending /\ EndIsRecorded

(* Requests and timers are only at work on a server that is up.  The timer *)
(* that a Start is about to arm is not at work already: nobody else knows  *)
(* the row as a new one, and a boot, which would, is over or yet to come.  *)
AtWorkIfUp == \A p \in Procs : pc[p] \notin Resting => mode[HomeOf(p)] = "up"
StartAlone ==
    \A r \in Requests : pc[r] = "sync_started" =>
        /\ pc[<<Home[r], ev[r]>>] = "off"
        /\ \A q \in Requests : pc[q] = "sync_started" /\ ev[q] = ev[r] => q = r
StartedInv == AtWorkIfUp /\ StartAlone

(* Who may hold a claim; only events with a row are claimed.               *)
Claiming == {"complete", "cancel", "release"}
Owns(p, i, e) == HomeOf(p) = i /\ Target(p) = e /\ pc[p] \in Claiming
ClaimsHaveRows == \A i \in Instances : \A e \in ended[i] : status[e] # "none"
ClaimInv == ClaimsHaveRows /\ ClaimHasOwner

-----------------------------------------------------------------------------
(* Announcements of cancellations                                          *)

(* The step of one process, seen from the cancellations.                   *)
CancelledStep ==
    /\ \A r \in Requests : pc'[r] = "sync_cancelled" =>
          \/ pc[r] = "sync_cancelled" /\ ev'[r] = ev[r]
          \/ ev'[r] \in Ids /\ status'[ev'[r]] = "cancelled"
    /\ \A e \in Ids : out'[e]["cancelled"] = out[e]["cancelled"] \/ status[e] = "cancelled"

(* A return, or a move to another step than the announcement.              *)
LEMMA ReturnCancelled ==
    ASSUME HandlersOK, NEW p \in Procs, NEW s \in {"idle", "refused"}, Return(p, s),
           \A e \in Ids : out'[e]["cancelled"] = out[e]["cancelled"] \/ status[e] = "cancelled"
    PROVE  CancelledStep
  BY ProcFacts DEF Return, Goto, HandlersOK, CancelledStep

LEMMA MoveCancelled ==
    ASSUME HandlersOK, NEW p \in Procs, NEW s, s # "sync_cancelled", Goto(p, s), UNCHANGED out,
           \A r \in Requests : r # p => ev'[r] = ev[r]
    PROVE  CancelledStep
  BY ProcFacts DEF Goto, HandlersOK, CancelledStep

(* Every step of the service.                                              *)
LEMMA CancelledNext == ASSUME TableInv, CancelPending, [Next]_vars PROVE CancelledStep
<1>a. HandlersOK /\ out \in [Ids -> [Kinds -> Nat]] /\ status \in [Ids -> Statuses]
  BY DEF TableInv, TypeOK, NoticesOK, TableOK
<1> USE <1>a, ProcFacts
<1>1. CASE UNCHANGED <<pc, ev, out>>
  BY <1>1 DEF CancelledStep
<1>2. ASSUME NEW r \in Requests, \/ QueryRequest(r) \/ CancelRequest(r) \/ CommitStart(r)
                                 \/ StoreClaim(r) \/ FailMarkCancelled(r)
      PROVE  CancelledStep
  BY <1>2, MoveCancelled DEF QueryRequest, CancelRequest, CommitStart, StoreClaim,
     FailMarkCancelled, HandlersOK
<1>3. ASSUME NEW r \in Requests, NEW d \in Durations, StartRequest(r, d) PROVE CancelledStep
  BY <1>3, MoveCancelled DEF StartRequest
<1>4. ASSUME NEW r \in Requests, TryLock(r) \/ CheckNoActive(r) PROVE CancelledStep
  <2>1. CASE Return(r, "refused")
    BY <1>4, <2>1, ReturnCancelled DEF TryLock, CheckNoActive
  <2>2. CASE (Goto(r, "check") \/ Goto(r, "insert")) /\ UNCHANGED <<ev, asOf, dur>>
    BY <1>4, <2>2, MoveCancelled DEF TryLock, CheckNoActive
  <2> QED
    BY <1>4, <2>1, <2>2 DEF TryLock, CheckNoActive
<1>5. ASSUME NEW p \in Procs, \/ ReleaseClaim(p)
                              \/ p \in Requests /\ (LoseCommitAnswer(p) \/ RollbackStart(p))
      PROVE  CancelledStep
  BY <1>5, ReturnCancelled DEF ReleaseClaim, LoseCommitAnswer, RollbackStart
<1>6. ASSUME NEW r \in Requests, AnnounceCancelled(r) PROVE CancelledStep
  <2>1. status[ev[r]] = "cancelled"
    BY <1>6 DEF AnnounceCancelled, CancelPending
  <2>2. \A e \in Ids : out'[e]["cancelled"] = out[e]["cancelled"] \/ status[e] = "cancelled"
    BY <1>6, <2>1 DEF AnnounceCancelled, Notify
  <2> QED
    BY <1>6, <2>2, ReturnCancelled DEF AnnounceCancelled
<1>7. ASSUME NEW p \in Procs, AnnounceCompleted(p) PROVE CancelledStep
  <2>1. \A e \in Ids : out'[e]["cancelled"] = out[e]["cancelled"]
    BY <1>7 DEF AnnounceCompleted, Notify, Kinds
  <2> QED
    BY <1>7, <2>1, ReturnCancelled DEF AnnounceCompleted
<1>8. ASSUME NEW r \in Requests, AnnounceStarted(r) PROVE CancelledStep
  <2>1. \A e \in Ids : out'[e]["cancelled"] = out[e]["cancelled"]
    BY <1>8 DEF AnnounceStarted, Notify, Kinds
  <2>2. \A p \in Requests : pc'[p] = "sync_cancelled" => pc[p] = "sync_cancelled" /\ p # r
    BY <1>8 DEF AnnounceStarted, HandlersOK
  <2> QED
    BY <1>8, <2>1, <2>2 DEF AnnounceStarted, CancelledStep, HandlersOK
<1>9. ASSUME NEW r \in Requests, ReadActive(r) PROVE CancelledStep
  <2>1. CASE Return(r, "idle")
    BY <1>9, <2>1, ReturnCancelled DEF ReadActive
  <2>2. CASE Goto(r, "claim") /\ ev' = [ev EXCEPT ![r] = GetActive]
    BY <1>9, <2>2, MoveCancelled DEF ReadActive, HandlersOK
  <2> QED
    BY <1>9, <2>1, <2>2 DEF ReadActive
<1>10. ASSUME NEW p \in Procs, NEW e, ClaimEnd(p, e), UNCHANGED out PROVE CancelledStep
  <2>1. CASE Return(p, "idle")
    BY <1>10, <2>1, ReturnCancelled
  <2>2. CASE Goto(p, "complete") /\ UNCHANGED <<ev, asOf, dur>>
    BY <1>10, <2>2, MoveCancelled
  <2> QED
    BY <1>10, <2>1, <2>2 DEF ClaimEnd
<1>11. ASSUME NEW r \in Requests, ClaimExpired(r) PROVE CancelledStep
  BY <1>11, <1>10 DEF ClaimExpired
<1>12. ASSUME NEW t \in Timers, FireTimer(t) PROVE CancelledStep
  BY <1>12, <1>10 DEF FireTimer
<1>13. ASSUME NEW p \in Procs, MarkCompleted(p) \/ FailMarkCompleted(p) PROVE CancelledStep
  <2>1. PICK s \in {"sync_ended", "release"} : Goto(p, s)
    BY <1>13 DEF MarkCompleted, FailMarkCompleted
  <2> QED
    BY <1>13, <2>1, MoveCancelled DEF MarkCompleted, FailMarkCompleted
<1>14. ASSUME NEW r \in Requests, MarkCancelled(r) PROVE CancelledStep
  <2>1. ev[r] \in Ids
    BY <1>14 DEF MarkCancelled, TableInv, EventHasRow, EventSteps
  <2>2. status'[ev[r]] = "cancelled" /\ UNCHANGED <<ev, out>>
    BY <1>14, <2>1 DEF MarkCancelled, SetStatus
  <2>3. \A q \in Requests : q # r => pc'[q] = pc[q]
    BY <1>14 DEF MarkCancelled, Goto, HandlersOK
  <2> QED
    BY <2>1, <2>2, <2>3 DEF CancelledStep
<1>15. ASSUME NEW i \in Instances, Crash(i) PROVE CancelledStep
  BY <1>15 DEF Crash, CancelledStep
<1>16. ASSUME NEW i \in Instances, BootReconcile(i) PROVE CancelledStep
  BY <1>16 DEF BootReconcile, CancelledStep
<1>17. ASSUME Tick \/ UNCHANGED vars \/ \E i \in Instances : BootRead(i) \/ FailBootRead(i)
       PROVE  CancelledStep
  BY <1>17, <1>1 DEF Tick, vars, handlers, BootRead, FailBootRead
<1> HIDE ProcFacts, <1>a
<1> QED
  BY <1>2, <1>3, <1>4, <1>5, <1>6, <1>7, <1>8, <1>9, <1>11, <1>12, <1>13, <1>14, <1>15, <1>16, <1>17
  DEF Next, RequestStep, TimerStep, StartStep, CompleteStep, QueryStep, CancelStep,
      FaultStep, BootStep, Procs

LEMMA RecordInvInit == Init => RecordInv
<1> SUFFICES ASSUME Init PROVE RecordInv
  OBVIOUS
<1>1. CancelPending
  BY ProcFacts DEF Init, CancelPending
<1>2. EndIsRecorded
  BY DEF Init, EndIsRecorded, Kinds
<1> QED
  BY <1>1, <1>2 DEF RecordInv

(* A cancelled row stays cancelled, so what was announced stays true.      *)
LEMMA RecordInvNext == TableInv /\ EndInv /\ RecordInv /\ [Next]_vars => RecordInv'
<1> SUFFICES ASSUME TableInv, EndInv, RecordInv, [Next]_vars PROVE RecordInv'
  OBVIOUS
<1>1. /\ CancelledStep /\ RowStep /\ EndInv'
      /\ status \in [Ids -> Statuses] /\ out \in [Ids -> [Kinds -> Nat]]
  BY CancelledNext, TableNext, EndInvNext DEF RecordInv, TableInv, TypeOK, NoticesOK, TableOK
<1>2. CancelPending'
  <2>1. \A r \in Requests : pc[r] = "sync_cancelled" => ev[r] \in Ids
    BY DEF TableInv, EventHasRow, EventSteps
  <2> QED
    BY <1>1, <2>1 DEF CancelPending, CancelledStep, RowStep, RecordInv
<1>3. \A e \in Ids : out'[e]["completed"] > 0 => status'[e] \in Over
  BY <1>1 DEF EndInv, CompletedRecorded
<1>4. \A e \in Ids : out'[e]["cancelled"] > 0 => status'[e] = "cancelled"
  BY <1>1 DEF CancelledStep, RowStep, RecordInv, EndIsRecorded
<1> QED
  BY <1>2, <1>3, <1>4 DEF RecordInv, EndIsRecorded, Over

(* SYNC_ENDED is never sent before the table says so.                      *)
THEOREM AnnouncedIsRecorded == Spec => []EndIsRecorded
<1>1. RecordInv => EndIsRecorded
  BY DEF RecordInv
<1> QED
  BY <1>1, InvariantsHold, RecordInvInit, RecordInvNext, PTL DEF Spec

-----------------------------------------------------------------------------
(* The timer that a Start arms                                             *)

(* The step of one process, seen from the timers that have yet to be armed *)
(* and from the servers that are up; r0 is the Start that makes it.        *)
StartedBy(r0) ==
    /\ \A r \in Requests : pc'[r] = "sync_started" =>
          \/ pc[r] = "sync_started" /\ ev'[r] = ev[r]
          \/ r = r0 /\ pc[r] = "insert" /\ ev'[r] \in Ids /\ status[ev'[r]] = "none"
    /\ \A t \in Timers : pc'[t] # "off" =>
          \/ pc[t] # "off" \/ mode[t[1]] = "booting"
          \/ /\ r0 \in Requests /\ pc[r0] = "sync_started" /\ pc'[r0] # "sync_started"
             /\ t = <<Home[r0], ev[r0]>>
AtWorkStep ==
    \A p \in Procs : pc'[p] \notin Resting =>
        \/ mode'[HomeOf(p)] = "up"
        \/ pc[p] \notin Resting /\ mode'[HomeOf(p)] = mode[HomeOf(p)]
StartedStep == AtWorkStep /\ \E r0 \in Requests \cup {NoRequest} : StartedBy(r0)

LEMMA ReturnStarted ==
    ASSUME HandlersOK, NEW p \in Procs, NEW s \in {"idle", "refused"}, Return(p, s), UNCHANGED mode
    PROVE  StartedStep
<1>1. \A q \in Procs : q # p => pc'[q] = pc[q]
  BY DEF Return, Goto, HandlersOK
<1>2. pc'[p] \in Resting
  BY DEF Return, Goto, HandlersOK, Resting
<1>3. \A r \in Requests : r # p => ev'[r] = ev[r]
  BY DEF Return, HandlersOK
<1>4. AtWorkStep
  BY <1>1, <1>2, ProcFacts DEF AtWorkStep
<1>5. p \in Timers => pc'[p] = "off"
  BY ProcFacts DEF Return, Goto, HandlersOK
<1>6. StartedBy(NoRequest)
  BY <1>1, <1>2, <1>3, <1>5, ProcFacts DEF StartedBy, Resting
<1> QED
  BY <1>4, <1>6 DEF StartedStep

LEMMA MoveStarted ==
    ASSUME HandlersOK, NEW p \in Procs, NEW s, s # "sync_started", Goto(p, s), UNCHANGED mode,
           \A r \in Requests : r # p => ev'[r] = ev[r],
           IF p \in Requests THEN pc[p] \notin Resting \/ mode[Home[p]] = "up"
                            ELSE pc[p] \notin Resting
    PROVE  StartedStep
<1>1. (\A q \in Procs : q # p => pc'[q] = pc[q]) /\ pc'[p] = s
  BY DEF Goto, HandlersOK
<1>2. AtWorkStep
  BY <1>1, ProcFacts DEF AtWorkStep
<1>3. StartedBy(NoRequest)
  BY <1>1, ProcFacts DEF StartedBy, Resting
<1> QED
  BY <1>2, <1>3 DEF StartedStep

(* Every step of the service.                                              *)
LEMMA StartedNext == ASSUME TableInv, StartedInv, [Next]_vars PROVE StartedStep
<1>a. HandlersOK /\ InstancesOK /\ nextId \in 1..(MaxEvents + 1)
  BY DEF TableInv, TypeOK, TableOK
<1> USE <1>a, ProcFacts
<1>1. CASE UNCHANGED <<pc, ev, mode>>
  <2>1. StartedBy(NoRequest) /\ AtWorkStep
    BY <1>1 DEF StartedBy, AtWorkStep
  <2> QED
    BY <2>1 DEF StartedStep
<1>2. ASSUME NEW r \in Requests, \/ QueryRequest(r) \/ CancelRequest(r)
                                 \/ StoreClaim(r) \/ MarkCancelled(r) \/ FailMarkCancelled(r)
      PROVE  StartedStep
  <2>1. PICK s \in {"read", "store", "cancel", "sync_cancelled", "release"} : Goto(r, s)
    BY <1>2 DEF QueryRequest, CancelRequest, StoreClaim, MarkCancelled, FailMarkCancelled
  <2>2. /\ UNCHANGED mode /\ \A q \in Requests : q # r => ev'[q] = ev[q]
        /\ pc[r] \notin Resting \/ mode[Home[r]] = "up"
    BY <1>2 DEF QueryRequest, CancelRequest, StoreClaim, MarkCancelled, FailMarkCancelled,
       HandlersOK, Resting, Ready, instance
  <2> QED
    BY <2>1, <2>2, MoveStarted
<1>3. ASSUME NEW r \in Requests, NEW d \in Durations, StartRequest(r, d) PROVE StartedStep
  BY <1>3, MoveStarted DEF StartRequest, Ready, instance
<1>4. ASSUME NEW r \in Requests, TryLock(r) \/ CheckNoActive(r) PROVE StartedStep
  <2>1. UNCHANGED mode /\ pc[r] \notin Resting
    BY <1>4 DEF TryLock, CheckNoActive, instance, Resting
  <2>2. CASE Return(r, "refused")
    BY <2>1, <2>2, ReturnStarted
  <2>3. CASE (Goto(r, "check") \/ Goto(r, "insert")) /\ UNCHANGED <<ev, asOf, dur>>
    BY <2>1, <2>3, MoveStarted
  <2> QED
    BY <1>4, <2>2, <2>3 DEF TryLock, CheckNoActive
<1>5. ASSUME NEW p \in Procs, \/ ReleaseClaim(p) \/ AnnounceCompleted(p)
                              \/ p \in Requests /\ AnnounceCancelled(p)
                              \/ p \in Requests /\ (LoseCommitAnswer(p) \/ RollbackStart(p))
      PROVE  StartedStep
  BY <1>5, ReturnStarted
     DEF ReleaseClaim, AnnounceCompleted, AnnounceCancelled, LoseCommitAnswer, RollbackStart, instance
<1>6. ASSUME NEW r \in Requests, CommitStart(r) PROVE StartedStep
  <2>1. /\ pc[r] = "insert" /\ ev'[r] = nextId /\ nextId \in Ids /\ UNCHANGED mode
        /\ \A q \in Requests : q # r => ev'[q] = ev[q]
        /\ \A q \in Procs : q # r => pc'[q] = pc[q]
    BY <1>6, BoundsAssumption DEF CommitStart, WriteEvent, Goto, HandlersOK, instance, Ids
  <2>2. status[nextId] = "none"
    BY <2>1, BoundsAssumption DEF TableInv, FreshIds, Ids
  <2>3. StartedBy(r)
    BY <2>1, <2>2 DEF StartedBy
  <2>4. AtWorkStep
    BY <2>1 DEF AtWorkStep, Resting
  <2> QED
    BY <2>3, <2>4 DEF StartedStep
<1>7. ASSUME NEW r \in Requests, AnnounceStarted(r) PROVE StartedStep
  <2> DEFINE timer == <<Home[r], ev[r]>>
  <2>1. pc[r] = "sync_started" /\ pc'[r] = "idle" /\ UNCHANGED mode /\ timer \in Timers
    BY <1>7 DEF AnnounceStarted, HandlersOK, instance, TableInv, EventHasRow, EventSteps, Timers
  <2>2. /\ \A q \in Procs : q # r /\ q # timer => pc'[q] = pc[q]
        /\ \A q \in Requests : q # r => ev'[q] = ev[q] /\ pc'[q] = pc[q]
    BY <1>7, <2>1 DEF AnnounceStarted, HandlersOK
  <2>3. StartedBy(r)
    BY <2>1, <2>2 DEF StartedBy
  <2>4. mode'[timer[1]] = "up" /\ HomeOf(timer) = timer[1]
    BY <2>1 DEF StartedInv, AtWorkIfUp, Resting
  <2>5. AtWorkStep
    BY <2>1, <2>2, <2>4 DEF AtWorkStep, Resting
  <2> QED
    BY <2>3, <2>5 DEF StartedStep
<1>8. ASSUME NEW r \in Requests, ReadActive(r) PROVE StartedStep
  <2>1. UNCHANGED mode /\ pc[r] \notin Resting
    BY <1>8 DEF ReadActive, instance, Resting
  <2>2. CASE Return(r, "idle")
    BY <2>1, <2>2, ReturnStarted
  <2>3. CASE Goto(r, "claim") /\ ev' = [ev EXCEPT ![r] = GetActive]
    BY <2>1, <2>3, MoveStarted DEF HandlersOK
  <2> QED
    BY <1>8, <2>2, <2>3 DEF ReadActive
<1>9. ASSUME NEW p \in Procs, NEW e, ClaimEnd(p, e), UNCHANGED mode, pc[p] \in {"claim", "armed"}
      PROVE  StartedStep
  <2>1. CASE Return(p, "idle")
    BY <1>9, <2>1, ReturnStarted
  <2>2. CASE Goto(p, "complete") /\ UNCHANGED <<ev, asOf, dur>>
    BY <1>9, <2>2, MoveStarted DEF Resting
  <2> QED
    BY <1>9, <2>1, <2>2 DEF ClaimEnd
<1>10. ASSUME NEW r \in Requests, ClaimExpired(r) PROVE StartedStep
  BY <1>10, <1>9 DEF ClaimExpired
<1>11. ASSUME NEW t \in Timers, FireTimer(t) PROVE StartedStep
  BY <1>11, <1>9 DEF FireTimer
<1>12. ASSUME NEW p \in Procs, MarkCompleted(p) \/ FailMarkCompleted(p) PROVE StartedStep
  <2>1. PICK s \in {"sync_ended", "release"} : Goto(p, s)
    BY <1>12 DEF MarkCompleted, FailMarkCompleted
  <2>2. UNCHANGED <<mode, ev>> /\ pc[p] = "complete"
    BY <1>12 DEF MarkCompleted, FailMarkCompleted, instance
  <2> QED
    BY <2>1, <2>2, MoveStarted DEF Resting
<1>13. ASSUME NEW i \in Instances, Crash(i) PROVE StartedStep
  <2>1. /\ \A q \in Procs : HomeOf(q) # i => pc'[q] = pc[q]
        /\ \A r \in Requests : IF Home[r] = i THEN pc'[r] = "idle" ELSE ev'[r] = ev[r]
        /\ \A t \in Timers : t[1] = i => pc'[t] = "off"
        /\ \A j \in Instances : j # i => mode'[j] = mode[j]
        /\ \A q \in Procs : HomeOf(q) = i => pc'[q] \in Resting
    BY <1>13 DEF Crash, InstancesOK, Resting
  <2>2. StartedBy(NoRequest)
    BY <2>1 DEF StartedBy
  <2>3. AtWorkStep
    BY <2>1 DEF AtWorkStep
  <2> QED
    BY <2>2, <2>3 DEF StartedStep
<1>14. ASSUME NEW i \in Instances, BootReconcile(i) PROVE StartedStep
  <2>1. mode[i] = "booting" /\ mode' = [mode EXCEPT ![i] = "up"] /\ UNCHANGED ev
    BY <1>14 DEF BootReconcile
  <2>2. PICK S \in SUBSET Ids : pc' = [p \in Procs |-> IF p \in {i} \X S THEN "armed" ELSE pc[p]]
    <3>1. (recovered[i] \ {e \in recovered[i] : now >= endsAt[e]}) \in SUBSET Ids
      BY DEF InstancesOK
    <3> QED
      BY <1>14, <3>1 DEF BootReconcile
  <2>3. ({i} \X S) \subseteq Timers /\ \A t \in {i} \X S : t[1] = i
    BY DEF Timers
  <2>4. /\ \A r \in Requests : pc'[r] = pc[r]
        /\ \A t \in Timers : t[1] # i => pc'[t] = pc[t]
        /\ \A q \in Procs : HomeOf(q) # i => pc'[q] = pc[q]
    BY <2>2, <2>3
  <2>5. StartedBy(NoRequest)
    BY <2>1, <2>4 DEF StartedBy
  <2>6. AtWorkStep
    BY <2>1, <2>4 DEF AtWorkStep, InstancesOK
  <2> QED
    BY <2>5, <2>6 DEF StartedStep
<1>15. ASSUME NEW i \in Instances, BootRead(i) \/ FailBootRead(i) PROVE StartedStep
  <2>1. /\ UNCHANGED <<pc, ev>> /\ mode[i] = "down"
        /\ \A j \in Instances : j # i => mode'[j] = mode[j]
    BY <1>15 DEF BootRead, FailBootRead, handlers, InstancesOK
  <2>2. StartedBy(NoRequest)
    BY <2>1 DEF StartedBy
  <2>3. AtWorkStep
    BY <2>1 DEF AtWorkStep, StartedInv, AtWorkIfUp
  <2> QED
    BY <2>2, <2>3 DEF StartedStep
<1>16. ASSUME Tick \/ UNCHANGED vars PROVE StartedStep
  BY <1>16, <1>1 DEF Tick, vars, handlers, instance
<1> HIDE ProcFacts, <1>a
<1> QED
  BY <1>2, <1>3, <1>4, <1>5, <1>6, <1>7, <1>8, <1>10, <1>11, <1>12, <1>13, <1>14, <1>15, <1>16
  DEF Next, RequestStep, TimerStep, StartStep, CompleteStep, QueryStep, CancelStep,
      FaultStep, BootStep, Procs

LEMMA StartedInvInit == Init => StartedInv
  BY ProcFacts DEF Init, StartedInv, AtWorkIfUp, StartAlone, Resting

LEMMA StartedInvNext == TableInv /\ StartedInv /\ [Next]_vars => StartedInv'
<1> SUFFICES ASSUME TableInv, StartedInv, [Next]_vars PROVE StartedInv'
  OBVIOUS
<1>1. AtWorkStep /\ \E r0 \in Requests \cup {NoRequest} : StartedBy(r0)
  BY StartedNext DEF StartedStep
<1>2. PICK r0 \in Requests \cup {NoRequest} : StartedBy(r0)
  BY <1>1
<1>3. AtWorkIfUp'
  BY <1>1, ProcFacts DEF AtWorkIfUp, AtWorkStep, StartedInv
<1>4. ASSUME NEW r \in Requests, pc'[r] = "sync_started" PROVE pc'[<<Home[r], ev'[r]>>] = "off"
  <2> DEFINE t == <<Home[r], ev'[r]>>
  <2>1. /\ pc[r] \notin Resting /\ ev'[r] \in Ids
        /\ \/ pc[r] = "sync_started" /\ ev'[r] = ev[r]
           \/ r = r0 /\ pc[r] = "insert" /\ status[ev'[r]] = "none"
    BY <1>2, <1>4 DEF StartedBy, Resting, TableInv, EventHasRow, EventSteps
  <2>2. t \in Timers /\ t[1] = Home[r] /\ t[2] = ev'[r] /\ mode[t[1]] = "up"
    BY <2>1, ProcFacts DEF Timers, StartedInv, AtWorkIfUp
  <2>3. pc[t] = "off"
    BY <2>1, <2>2 DEF StartedInv, StartAlone, TableInv, TimerHasRow
  <2>4. ~(r0 \in Requests /\ pc[r0] = "sync_started" /\ pc'[r0] # "sync_started"
          /\ t = <<Home[r0], ev[r0]>>)
    BY <1>4, <2>1 DEF StartedInv, StartAlone, TableInv, EventHasRow, EventSteps
  <2> HIDE DEF t
  <2>5. pc'[t] = "off"
    BY <1>2, <2>2, <2>3, <2>4 DEF StartedBy
  <2> QED
    BY <2>5 DEF t
<1>5. ASSUME NEW r \in Requests, NEW q \in Requests, pc'[r] = "sync_started",
             pc'[q] = "sync_started", ev'[q] = ev'[r]
      PROVE  q = r
  <2>1. \A s \in {r, q} : \/ pc[s] = "sync_started" /\ ev'[s] = ev[s] /\ status[ev[s]] # "none"
                          \/ s = r0 /\ status[ev'[s]] = "none"
    BY <1>2, <1>5 DEF StartedBy, TableInv, EventHasRow, EventSteps
  <2>2. CASE status[ev'[r]] = "none"
    BY <1>5, <2>1, <2>2
  <2>3. CASE status[ev'[r]] # "none"
    <3>1. \A s \in {r, q} : pc[s] = "sync_started" /\ ev'[s] = ev[s]
      BY <1>5, <2>1, <2>3
    <3> QED
      BY <1>5, <3>1 DEF StartedInv, StartAlone
  <2> QED
    BY <2>2, <2>3
<1> QED
  BY <1>3, <1>4, <1>5 DEF StartedInv, StartAlone

-----------------------------------------------------------------------------
(* Claims                                                                  *)

(* Every claim of a step is an old one, which keeps its owners as long as  *)
(* its row is active, or a new one with an owner.                          *)
KeepsOwners(i, e) == \A q \in Procs : Owns(q, i, e) => Owns(q, i, e)'
ClaimStep ==
    \A i \in Instances : \A e \in ended'[i] :
        \/ e \in ended[i] /\ (status'[e] = "active" => KeepsOwners(i, e))
        \/ status[e] # "none" /\ \E q \in Procs : Owns(q, i, e)'

(* The processes other than p that hold a claim stay where they are.       *)
Others(p) == \A q \in Procs : q # p /\ pc[q] \in Claiming => pc'[q] = pc[q] /\ Target(q)' = Target(q)

LEMMA ReturnOthers ==
    ASSUME HandlersOK, NEW p \in Procs, NEW s, Return(p, s)
    PROVE  Others(p)
  BY DEF Return, Goto, HandlersOK, Others, Target

LEMMA MoveOthers ==
    ASSUME HandlersOK, NEW p \in Procs, NEW s, Goto(p, s), \A r \in Requests : r # p => ev'[r] = ev[r]
    PROVE  Others(p)
  BY DEF Goto, HandlersOK, Others, Target

(* The step of a process that holds no claim, of one that still does, and  *)
(* of one that is done with a row that is not active.                      *)
LEMMA OutsideClaims ==
    ASSUME NEW p \in Procs, Others(p), UNCHANGED ended, pc[p] \notin Claiming
    PROVE  ClaimStep
<1>1. \A i \in Instances : \A e : KeepsOwners(i, e)
  BY DEF Others, KeepsOwners, Owns, HomeOf
<1> QED
  BY <1>1 DEF ClaimStep

LEMMA StayClaims ==
    ASSUME NEW p \in Procs, Others(p), UNCHANGED ended, pc'[p] \in Claiming, Target(p)' = Target(p)
    PROVE  ClaimStep
<1>1. \A i \in Instances : \A e : KeepsOwners(i, e)
  BY DEF Others, KeepsOwners, Owns, HomeOf
<1> QED
  BY <1>1 DEF ClaimStep

LEMMA DoneClaims ==
    ASSUME NEW p \in Procs, Others(p), UNCHANGED ended, status'[Target(p)] # "active"
    PROVE  ClaimStep
<1>1. \A i \in Instances : \A e : e # Target(p) => KeepsOwners(i, e)
  BY DEF Others, KeepsOwners, Owns, HomeOf
<1> QED
  BY <1>1 DEF ClaimStep

(* A new claim has its owner, a claim that is given back is gone.          *)
LEMMA TakeClaims ==
    ASSUME InstancesOK, NEW p \in Procs, Others(p), pc[p] \notin Claiming, pc'[p] \in Claiming,
           Target(p)' = Target(p), status[Target(p)] # "none",
           ended' = [ended EXCEPT ![HomeOf(p)] = @ \cup {Target(p)}]
    PROVE  ClaimStep
<1>1. \A i \in Instances : \A e : KeepsOwners(i, e)
  BY DEF Others, KeepsOwners, Owns, HomeOf
<1>2. HomeOf(p)' = HomeOf(p) /\ HomeOf(p) \in Instances
  BY ProcFacts DEF HomeOf
<1>3. Owns(p, HomeOf(p), Target(p))'
  BY <1>2 DEF Owns
<1>4. \A i \in Instances : \A e \in ended'[i] : e \in ended[i] \/ (i = HomeOf(p) /\ e = Target(p))
  BY DEF InstancesOK
<1> QED
  BY <1>1, <1>3, <1>4 DEF ClaimStep

LEMMA GiveBackClaims ==
    ASSUME InstancesOK, NEW p \in Procs, Others(p),
           ended' = [ended EXCEPT ![HomeOf(p)] = @ \ {Target(p)}]
    PROVE  ClaimStep
<1>1. \A i \in Instances : \A e : i # HomeOf(p) \/ e # Target(p) => KeepsOwners(i, e)
  BY DEF Others, KeepsOwners, Owns, HomeOf
<1>2. \A i \in Instances : \A e \in ended'[i] : e \in ended[i] /\ (i # HomeOf(p) \/ e # Target(p))
  BY ProcFacts DEF InstancesOK
<1> QED
  BY <1>1, <1>2 DEF ClaimStep

(* Every step of the service.                                              *)
LEMMA ClaimNext == ASSUME TableInv, StartedInv, [Next]_vars PROVE ClaimStep
<1>a. HandlersOK /\ InstancesOK /\ status \in [Ids -> Statuses]
  BY DEF TableInv, TypeOK, TableOK
<1> USE <1>a, ProcFacts
<1>1. CASE UNCHANGED <<pc, ev, ended>>
  BY <1>1 DEF ClaimStep, KeepsOwners, Owns, HomeOf, Target
<1>2. ASSUME NEW r \in Requests, QueryRequest(r) \/ CancelRequest(r) \/ CommitStart(r) PROVE ClaimStep
  <2>1. UNCHANGED ended /\ pc[r] \notin Claiming
    BY <1>2 DEF QueryRequest, CancelRequest, CommitStart, Ready, Resting, Claiming, instance
  <2>2. Others(r)
    BY <1>2, MoveOthers DEF QueryRequest, CancelRequest, CommitStart, HandlersOK
  <2> QED
    BY <2>1, <2>2, OutsideClaims
<1>3. ASSUME NEW r \in Requests, NEW d \in Durations, StartRequest(r, d) PROVE ClaimStep
  <2>1. UNCHANGED ended /\ pc[r] \notin Claiming /\ Others(r)
    BY <1>3, MoveOthers DEF StartRequest, Ready, Resting, Claiming, instance
  <2> QED
    BY <2>1, OutsideClaims
<1>4. ASSUME NEW r \in Requests, \/ TryLock(r) \/ CheckNoActive(r) \/ ReadActive(r)
                                 \/ LoseCommitAnswer(r) \/ RollbackStart(r)
      PROVE  ClaimStep
  <2>1. UNCHANGED ended /\ pc[r] \notin Claiming
    BY <1>4 DEF TryLock, CheckNoActive, ReadActive, LoseCommitAnswer, RollbackStart, Claiming, instance
  <2>2. \/ \E s : Return(r, s)
        \/ \E s : Goto(r, s) /\ \A q \in Requests : q # r => ev'[q] = ev[q]
    BY <1>4 DEF TryLock, CheckNoActive, ReadActive, LoseCommitAnswer, RollbackStart, HandlersOK
  <2>3. Others(r)
    BY <2>2, MoveOthers, ReturnOthers
  <2> QED
    BY <2>1, <2>3, OutsideClaims
<1>5. ASSUME NEW p \in Procs, AnnounceCompleted(p) \/ (p \in Requests /\ AnnounceCancelled(p))
      PROVE  ClaimStep
  <2>1. UNCHANGED ended /\ pc[p] \notin Claiming /\ Others(p)
    BY <1>5, ReturnOthers DEF AnnounceCompleted, AnnounceCancelled, Claiming, instance
  <2> QED
    BY <2>1, OutsideClaims
<1>6. ASSUME NEW r \in Requests, AnnounceStarted(r) PROVE ClaimStep
  <2> DEFINE timer == <<Home[r], ev[r]>>
  <2>1. pc[r] = "sync_started" /\ pc[timer] = "off" /\ UNCHANGED ended
    BY <1>6 DEF AnnounceStarted, StartedInv, StartAlone, instance
  <2>2. \A q \in Procs : q # r /\ q # timer => pc'[q] = pc[q] /\ Target(q)' = Target(q)
    BY <1>6 DEF AnnounceStarted, HandlersOK, Target
  <2>3. Others(r)
    BY <2>1, <2>2 DEF Others, Claiming
  <2> QED
    BY <2>1, <2>3, OutsideClaims DEF Claiming
<1>7. ASSUME NEW p \in Procs, MarkCompleted(p) \/ FailMarkCompleted(p) PROVE ClaimStep
  <2>1. /\ \E s : Goto(p, s)
        /\ UNCHANGED <<ev, ended>>
        /\ pc'[p] = "release" \/ status' = [status EXCEPT ![Target(p)] = "completed"]
    BY <1>7 DEF MarkCompleted, FailMarkCompleted, Goto, SetStatus, HandlersOK, instance
  <2>2. Others(p) /\ Target(p)' = Target(p)
    BY <2>1, MoveOthers DEF Target
  <2>3. CASE pc'[p] = "release"
    BY <2>1, <2>2, <2>3, StayClaims DEF Claiming
  <2>4. CASE status' = [status EXCEPT ![Target(p)] = "completed"]
    <3>1. Target(p) \in Ids
      BY <1>7 DEF MarkCompleted, FailMarkCompleted, TableInv, EventHasRow, EventSteps, Procs
    <3>2. status'[Target(p)] = "completed"
      BY <2>4, <3>1
    <3> QED
      BY <2>1, <2>2, <3>2, DoneClaims
  <2> QED
    BY <2>1, <2>3, <2>4
<1>8. ASSUME NEW r \in Requests, MarkCancelled(r) \/ FailMarkCancelled(r) PROVE ClaimStep
  <2>1. /\ \E s : Goto(r, s)
        /\ UNCHANGED <<ev, ended>>
        /\ pc'[r] = "release" \/ status' = [status EXCEPT ![Target(r)] = "cancelled"]
    BY <1>8 DEF MarkCancelled, FailMarkCancelled, Goto, SetStatus, HandlersOK, instance
  <2>2. Others(r) /\ Target(r)' = Target(r)
    BY <2>1, MoveOthers DEF Target
  <2>3. CASE pc'[r] = "release"
    BY <2>1, <2>2, <2>3, StayClaims DEF Claiming
  <2>4. CASE status' = [status EXCEPT ![Target(r)] = "cancelled"]
    <3>1. Target(r) \in Ids
      BY <1>8 DEF MarkCancelled, FailMarkCancelled, TableInv, EventHasRow, EventSteps
    <3>2. status'[Target(r)] = "cancelled"
      BY <2>4, <3>1
    <3> QED
      BY <2>1, <2>2, <3>2, DoneClaims
  <2> QED
    BY <2>1, <2>3, <2>4
<1>9. ASSUME NEW p \in Procs, ReleaseClaim(p) PROVE ClaimStep
  BY <1>9, ReturnOthers, GiveBackClaims DEF ReleaseClaim
<1>10. ASSUME NEW p \in Procs, pc[p] \in {"claim", "armed"}, ClaimEnd(p, Target(p)) PROVE ClaimStep
  <2>1. pc[p] \notin Claiming
    BY <1>10 DEF Claiming
  <2>2. CASE Return(p, "idle") /\ UNCHANGED ended
    BY <2>1, <2>2, ReturnOthers, OutsideClaims
  <2>3. CASE Goto(p, "complete") /\ ended' = [ended EXCEPT ![HomeOf(p)] = @ \cup {Target(p)}] /\ UNCHANGED ev
    <3>1. Others(p) /\ Target(p)' = Target(p) /\ pc'[p] \in Claiming
      BY <2>3, MoveOthers DEF Target, Goto, HandlersOK, Claiming
    <3>2. status[Target(p)] # "none"
      <4>1. CASE p \in Requests
        BY <1>10, <4>1 DEF TableInv, EventHasRow, EventSteps, HandlersOK, TimerSteps, RequestSteps
      <4>2. CASE p \in Timers
        BY <1>10, <4>2 DEF TableInv, TimerHasRow
      <4> QED
        BY <4>1, <4>2 DEF Procs
    <3> QED
      BY <2>1, <2>3, <3>1, <3>2, TakeClaims
  <2> QED
    BY <1>10, <2>2, <2>3 DEF ClaimEnd
<1>11. ASSUME NEW r \in Requests, ClaimExpired(r) PROVE ClaimStep
  BY <1>11, <1>10 DEF ClaimExpired
<1>12. ASSUME NEW t \in Timers, FireTimer(t) PROVE ClaimStep
  BY <1>12, <1>10 DEF FireTimer
<1>13. ASSUME NEW r \in Requests, StoreClaim(r) PROVE ClaimStep
  <2>1. pc[r] \notin Claiming /\ status[Target(r)] # "none"
    BY <1>13 DEF StoreClaim, Claiming, TableInv, EventHasRow, EventSteps
  <2>2. Others(r) /\ Target(r)' = Target(r) /\ pc'[r] \in Claiming
    BY <1>13, MoveOthers DEF StoreClaim, Target, Goto, HandlersOK, Claiming
  <2> QED
    BY <1>13, <2>1, <2>2, TakeClaims DEF StoreClaim
<1>14. ASSUME NEW i \in Instances, Crash(i) PROVE ClaimStep
  <2>1. /\ \A q \in Procs : HomeOf(q) # i => pc'[q] = pc[q] /\ Target(q)' = Target(q)
        /\ \A j \in Instances : ended'[j] = IF j = i THEN {} ELSE ended[j]
    BY <1>14 DEF Crash, InstancesOK, Target
  <2>2. \A j \in Instances : \A e : j # i => KeepsOwners(j, e)
    BY <2>1 DEF KeepsOwners, Owns, HomeOf
  <2> QED
    BY <2>1, <2>2 DEF ClaimStep
<1>15. ASSUME NEW i \in Instances, BootReconcile(i) PROVE ClaimStep
  <2>1. mode[i] = "booting" /\ UNCHANGED <<ended, ev>>
    BY <1>15 DEF BootReconcile
  <2>2. \A q \in Procs : pc'[q] = pc[q] \/ HomeOf(q) = i
    <3> DEFINE S == recovered[i] \ {e \in recovered[i] : now >= endsAt[e]}
    <3>1. pc' = [q \in Procs |-> IF q \in {i} \X S THEN "armed" ELSE pc[q]]
      BY <1>15 DEF BootReconcile
    <3>2. {i} \X S \subseteq Timers /\ \A q \in {i} \X S : q[1] = i
      BY DEF Timers, InstancesOK
    <3> HIDE DEF S
    <3> QED
      BY <3>1, <3>2
  <2>3. \A q \in Procs : pc[q] \in Claiming => pc'[q] = pc[q] /\ Target(q)' = Target(q)
    BY <2>1, <2>2 DEF StartedInv, AtWorkIfUp, Resting, Claiming, Target
  <2> QED
    BY <2>1, <2>3 DEF ClaimStep, KeepsOwners, Owns, HomeOf
<1>16. ASSUME Tick \/ UNCHANGED vars \/ \E i \in Instances : BootRead(i) \/ FailBootRead(i)
       PROVE  ClaimStep
  BY <1>16, <1>1 DEF Tick, vars, handlers, instance, BootRead, FailBootRead
<1> HIDE ProcFacts, <1>a
<1> QED
  BY <1>2, <1>3, <1>4, <1>5, <1>6, <1>7, <1>8, <1>9, <1>11, <1>12, <1>13, <1>14, <1>15, <1>16
  DEF Next, RequestStep, TimerStep, StartStep, CompleteStep, QueryStep, CancelStep,
      FaultStep, BootStep, Procs

LEMMA ClaimInvInit == Init => StartedInv /\ ClaimInv
  BY StartedInvInit DEF Init, ClaimInv, ClaimsHaveRows, ClaimHasOwner

(* A claim on an active row was one before the step, or is a new one.      *)
LEMMA ClaimInvNext == TableInv /\ StartedInv /\ ClaimInv /\ [Next]_vars => ClaimInv'
<1> SUFFICES ASSUME TableInv, StartedInv, ClaimInv, [Next]_vars PROVE ClaimInv'
  OBVIOUS
<1>1. ClaimStep /\ RowStep /\ InstancesOK' /\ TypeOK /\ TypeOK'
  BY ClaimNext, TableNext, TableInvNext DEF TableInv, TypeOK
<1>2. ASSUME NEW i \in Instances, NEW e \in ended'[i]
      PROVE  status'[e] # "none" /\ (status'[e] = "active" => \E q \in Procs : Owns(q, i, e)')
  <2>1. e \in Ids
    BY <1>1, <1>2 DEF InstancesOK
  <2>2. CASE e \in ended[i] /\ (status'[e] = "active" => KeepsOwners(i, e))
    <3>1. status[e] # "none"
      BY <2>2 DEF ClaimInv, ClaimsHaveRows
    <3>2. status'[e] # "none" /\ (status'[e] = "active" => status[e] = "active")
      BY <1>1, <2>1, <3>1 DEF RowStep, TypeOK, TableOK, Statuses, Over
    <3>3. status[e] = "active" => \E q \in Procs : Owns(q, i, e)
      BY <2>2 DEF ClaimInv, ClaimHasOwner, Owns, Claiming
    <3> QED
      BY <2>2, <3>2, <3>3 DEF KeepsOwners
  <2>3. CASE status[e] # "none" /\ \E q \in Procs : Owns(q, i, e)'
    BY <1>1, <2>1, <2>3 DEF RowStep
  <2> QED
    BY <1>1, <1>2, <2>2, <2>3 DEF ClaimStep
<1>3. ClaimsHaveRows'
  BY <1>2 DEF ClaimsHaveRows
<1>4. ClaimHasOwner'
  BY <1>2 DEF ClaimHasOwner, Owns, Claiming
<1> QED
  BY <1>3, <1>4 DEF ClaimInv

(* A claim in `ended` on an active event belongs to a handler or a timer   *)
(* at work on it, so that no failed completion or cancellation leaves one  *)
(* that blocks every later completion of the event.                        *)
THEOREM ClaimsAreOwned == Spec => []ClaimHasOwner
<1>1. ClaimInv => ClaimHasOwner
  BY DEF ClaimInv
<1> QED
  BY <1>1, InvariantsHold, ClaimInvInit, StartedInvNext, ClaimInvNext, PTL DEF Spec

-----------------------------------------------------------------------------
(* Expiry timers                                                           *)

(* One server, no database call that fails, and a database clock that is   *)
(* not ahead: otherwise RecoverActiveEvents leaves out a row that the      *)
(* server still serves, and a server has no timer for another one's event. *)
OneServer == MaxFaults = 0 /\ DbSkew <= 0 /\ \A i, j \in Instances : i = j

Armed(i, e) ==
    \/ pc[<<i, e>>] = "armed"
    \/ \E r \in Requests : Home[r] = i /\ ev[r] = e /\ pc[r] = "sync_started"

(* A server that boots has read every event it has to arm a timer for.     *)
BootKnows ==
    \A i \in Instances, e \in Ids :
        mode[i] = "booting" /\ status[e] = "active" /\ now < endsAt[e] => e \in recovered[i]
ArmedInv == OneServer => BootKnows /\ ArmedWhileActive

(* What a process does that neither leaves the announcement of a start nor *)
(* fires before its time.                                                  *)
Untimed(p) ==
    /\ \A q \in Procs : q # p => pc'[q] = pc[q]
    /\ \A r \in Requests : r # p => ev'[r] = ev[r]
    /\ pc[p] # "sync_started" /\ (pc[p] = "armed" => now >= endsAt[Target(p)])
    /\ UNCHANGED <<now, endsAt, mode, recovered>>
    /\ \A e \in Ids : status'[e] = "active" => status[e] = "active"

LEMMA UntimedArmed ==
    ASSUME TableInv, ArmedInv, NEW p \in Procs, Untimed(p) PROVE ArmedInv'
<1> SUFFICES ASSUME OneServer PROVE BootKnows' /\ ArmedWhileActive'
  BY DEF ArmedInv, OneServer
<1>1. BootKnows'
  BY DEF ArmedInv, BootKnows, Untimed
<1>2. ASSUME NEW i \in Instances, NEW e \in Ids, now < endsAt[e], Armed(i, e) PROVE Armed(i, e)'
  <2>1. CASE pc[<<i, e>>] = "armed"
    <3>1. <<i, e>> \in Timers
      BY DEF Timers
    <3>2. <<i, e>> # p
      BY <1>2, <2>1, <3>1, ProcFacts DEF Untimed, TableInv, TypeOK, TableOK, Ids
    <3> QED
      BY <2>1, <3>1, <3>2, ProcFacts DEF Untimed, Armed
  <2>2. ASSUME NEW r \in Requests, Home[r] = i /\ ev[r] = e /\ pc[r] = "sync_started"
        PROVE  Armed(i, e)'
    BY <2>2, ProcFacts DEF Untimed, Armed
  <2> QED
    BY <1>2, <2>1, <2>2 DEF Armed
<1>3. ArmedWhileActive'
  BY <1>2 DEF ArmedInv, ArmedWhileActive, Armed, Untimed
<1> QED
  BY <1>1, <1>3

(* Steps of processes that write no row, or end one.                       *)
LEMMA UntimedNext ==
    ASSUME TableInv, NEW p \in Procs,
           \/ p \in Requests /\ \/ \E d \in Durations : StartRequest(p, d)
                                \/ QueryRequest(p) \/ CancelRequest(p)
                                \/ TryLock(p) \/ CheckNoActive(p) \/ ReadActive(p) \/ ClaimExpired(p)
                                \/ StoreClaim(p) \/ MarkCancelled(p) \/ AnnounceCancelled(p)
           \/ p \in Timers /\ FireTimer(p)
           \/ MarkCompleted(p) \/ ReleaseClaim(p) \/ AnnounceCompleted(p)
    PROVE  Untimed(p)
<1>a. HandlersOK /\ status \in [Ids -> Statuses]
  BY DEF TableInv, TypeOK, TableOK
<1>1. \/ \E s : Goto(p, s) /\ \A r \in Requests : r # p => ev'[r] = ev[r]
      \/ \E s : Return(p, s)
  BY <1>a DEF StartRequest, QueryRequest, CancelRequest, TryLock, CheckNoActive, ReadActive,
     ClaimExpired, StoreClaim, MarkCancelled, AnnounceCancelled, FireTimer, ClaimEnd, MarkCompleted,
     ReleaseClaim, AnnounceCompleted, HandlersOK
<1>2. /\ \A q \in Procs : q # p => pc'[q] = pc[q]
      /\ \A r \in Requests : r # p => ev'[r] = ev[r]
  BY <1>1, <1>a DEF Goto, Return, HandlersOK
<1>3. pc[p] # "sync_started" /\ (pc[p] = "armed" => now >= endsAt[Target(p)])
  BY <1>a, ProcFacts DEF StartRequest, QueryRequest, CancelRequest, TryLock, CheckNoActive, ReadActive,
     ClaimExpired, StoreClaim, MarkCancelled, AnnounceCancelled, FireTimer, MarkCompleted,
     ReleaseClaim, AnnounceCompleted, Ready, Resting
<1>4. UNCHANGED <<now, endsAt, mode, recovered>>
  BY DEF StartRequest, QueryRequest, CancelRequest, TryLock, CheckNoActive, ReadActive,
     ClaimExpired, StoreClaim, MarkCancelled, AnnounceCancelled, FireTimer, MarkCompleted,
     ReleaseClaim, AnnounceCompleted, table, instance
<1>5. \/ UNCHANGED status
      \/ \E s \in {"completed", "cancelled"} : status' = [status EXCEPT ![Target(p)] = s]
  BY ProcFacts DEF StartRequest, QueryRequest, CancelRequest, TryLock, CheckNoActive, ReadActive,
     ClaimExpired, StoreClaim, MarkCancelled, AnnounceCancelled, FireTimer, MarkCompleted,
     ReleaseClaim, AnnounceCompleted, table, SetStatus
<1>6. \A e \in Ids : status'[e] = "active" => status[e] = "active"
  BY <1>5, <1>a
<1> QED
  BY <1>2, <1>3, <1>4, <1>6 DEF Untimed

LEMMA ArmedInvInit == Init => ArmedInv
  BY DEF Init, ArmedInv, BootKnows, ArmedWhileActive

(* A new row is created by a Start that has yet to arm its timer; a boot   *)
(* arms the timer of every row it has read.                                *)
LEMMA ArmedInvNext == TableInv /\ StartedInv /\ ArmedInv /\ [Next]_vars => ArmedInv'
<1> SUFFICES ASSUME TableInv, StartedInv, ArmedInv, [Next]_vars, OneServer
             PROVE  BootKnows' /\ ArmedWhileActive'
  BY DEF ArmedInv, OneServer
<1>a. /\ HandlersOK /\ InstancesOK /\ status \in [Ids -> Statuses] /\ nextId \in 1..(MaxEvents + 1)
      /\ endsAt \in [Ids -> 0..(MaxTime + MaxSyncSeconds)] /\ now \in 0..MaxTime
  BY DEF TableInv, TypeOK, TableOK
<1>b. BootKnows /\ ArmedWhileActive /\ ~Fault
  <2>1. faults \in 0..MaxFaults /\ MaxFaults = 0
    BY DEF TableInv, TypeOK, OneServer
  <2> QED
    BY <2>1 DEF ArmedInv, Fault
<1>1. ASSUME NEW p \in Procs, Untimed(p) PROVE BootKnows' /\ ArmedWhileActive'
  BY <1>1, UntimedArmed DEF ArmedInv, OneServer
<1>2. CASE UNCHANGED vars
  BY <1>2, <1>b DEF vars, table, handlers, instance, BootKnows, ArmedWhileActive
<1>3. CASE Tick
  BY <1>3, <1>a, <1>b DEF Tick, table, handlers, instance, BootKnows, ArmedWhileActive, Ids
<1>4. ASSUME NEW r \in Requests, CommitStart(r) PROVE BootKnows' /\ ArmedWhileActive'
  <2>1. /\ pc[r] = "insert" /\ nextId \in Ids /\ endsAt' = [endsAt EXCEPT ![nextId] = asOf[r] + dur[r]]
        /\ \A e \in Ids : status'[e] = "active" => e = nextId \/ status[e] = "active"
        /\ pc' = [pc EXCEPT ![r] = "sync_started"] /\ ev' = [ev EXCEPT ![r] = nextId]
        /\ UNCHANGED <<now, mode, recovered>>
    BY <1>4, <1>a, BoundsAssumption DEF CommitStart, WriteEvent, Goto, instance, Ids
  <2>2. mode[Home[r]] = "up" /\ \A i \in Instances : i = Home[r]
    BY <2>1, ProcFacts DEF StartedInv, AtWorkIfUp, Resting, OneServer
  <2>3. BootKnows'
    BY <2>1, <2>2 DEF BootKnows
  <2>4. pc'[r] = "sync_started" /\ ev'[r] = nextId
    BY <2>1, <1>a, ProcFacts DEF HandlersOK
  <2>5. ASSUME NEW i \in Instances, NEW e \in Ids, mode'[i] = "up", status'[e] = "active",
               now' < endsAt'[e]
        PROVE  Armed(i, e)'
    <3>1. CASE e = nextId
      BY <2>2, <2>4, <3>1 DEF Armed
    <3>2. CASE e # nextId
      <4>1. Armed(i, e)
        BY <2>1, <2>5, <3>2, <1>a, <1>b DEF ArmedWhileActive, Armed
      <4>2. \A q \in Requests : q # r => pc'[q] = pc[q] /\ ev'[q] = ev[q]
        BY <2>1, <1>a DEF HandlersOK
      <4>3. <<i, e>> \in Timers /\ pc'[<<i, e>>] = pc[<<i, e>>]
        <5>1. <<i, e>> \in Timers
          BY DEF Timers
        <5> QED
          BY <2>1, <5>1, <1>a, ProcFacts DEF HandlersOK
      <4> QED
        BY <2>1, <4>1, <4>2, <4>3 DEF Armed
    <3> QED
      BY <3>1, <3>2
  <2>6. ArmedWhileActive'
    BY <2>5 DEF ArmedWhileActive, Armed
  <2> QED
    BY <2>3, <2>6
<1>5. ASSUME NEW r \in Requests, AnnounceStarted(r) PROVE BootKnows' /\ ArmedWhileActive'
  <2> DEFINE timer == <<Home[r], ev[r]>>
  <2>1. /\ timer \in Timers /\ pc' = [pc EXCEPT ![r] = "idle", ![timer] = "armed"]
        /\ ev' = [ev EXCEPT ![r] = NoId] /\ UNCHANGED <<now, status, endsAt, mode, recovered>>
    BY <1>5, ProcFacts DEF AnnounceStarted, table, instance, Timers, TableInv, EventHasRow, EventSteps
  <2>2. BootKnows'
    BY <2>1, <1>b DEF BootKnows
  <2>3. /\ pc'[timer] = "armed"
        /\ \A q \in Procs : q # r /\ q # timer => pc'[q] = pc[q]
        /\ \A q \in Requests : q # r => pc'[q] = pc[q] /\ ev'[q] = ev[q]
    BY <2>1, <1>a, ProcFacts DEF HandlersOK
  <2>4. ASSUME NEW i \in Instances, NEW e \in Ids, Armed(i, e) PROVE Armed(i, e)'
    <3>1. <<i, e>> \in Timers
      BY DEF Timers
    <3>2. CASE pc[<<i, e>>] = "armed"
      BY <2>3, <3>1, <3>2, ProcFacts DEF Armed
    <3>3. ASSUME NEW q \in Requests, Home[q] = i /\ ev[q] = e /\ pc[q] = "sync_started"
          PROVE  Armed(i, e)'
      BY <2>3, <3>3 DEF Armed
    <3> QED
      BY <2>4, <3>2, <3>3 DEF Armed
  <2>5. ASSUME NEW i \in Instances, NEW e \in Ids, mode'[i] = "up", status'[e] = "active",
               now' < endsAt'[e]
        PROVE  Armed(i, e)'
    <3>1. mode[i] = "up" /\ status[e] = "active" /\ now < endsAt[e]
      BY <2>1, <2>5
    <3>2. Armed(i, e)
      BY <3>1, <1>b DEF ArmedWhileActive, Armed
    <3> QED
      BY <2>4, <3>2
  <2>6. ArmedWhileActive'
    BY <2>5 DEF ArmedWhileActive, Armed
  <2> QED
    BY <2>2, <2>6
<1>6. ASSUME NEW i \in Instances, Crash(i) \/ BootRead(i) PROVE BootKnows' /\ ArmedWhileActive'
  <2>1. /\ UNCHANGED <<now, status, endsAt>> /\ \A j \in Instances : mode'[j] # "up"
        /\ (\A j \in Instances : mode'[j] = "down") \/ recovered'[i] = Unexpired
    BY <1>6, <1>a DEF Crash, BootRead, table, OneServer, InstancesOK
  <2>2. \A e \in Ids : status[e] = "active" /\ now < endsAt[e] => e \in Unexpired
    BY <1>a, BoundsAssumption DEF Unexpired, DbNow, OneServer
  <2>3. \A j \in Instances : j = i
    BY DEF OneServer
  <2> QED
    BY <2>1, <2>2, <2>3 DEF BootKnows, ArmedWhileActive
<1>7. ASSUME NEW i \in Instances, BootReconcile(i) PROVE BootKnows' /\ ArmedWhileActive'
  <2> DEFINE S == recovered[i] \ {e \in recovered[i] : now >= endsAt[e]}
  <2>1. /\ mode[i] = "booting" /\ mode' = [mode EXCEPT ![i] = "up"]
        /\ \A e \in Ids : status'[e] = "active" => status[e] = "active"
        /\ UNCHANGED <<now, endsAt>>
        /\ pc' = [p \in Procs |-> IF p \in {i} \X S THEN "armed" ELSE pc[p]]
    BY <1>7 DEF BootReconcile
  <2>2. \A j \in Instances : j = i
    BY DEF OneServer
  <2>3. BootKnows'
    BY <2>1, <2>2, <1>a DEF BootKnows, InstancesOK
  <2>4. ASSUME NEW e \in Ids, status'[e] = "active", now < endsAt[e] PROVE pc'[<<i, e>>] = "armed"
    <3>1. e \in recovered[i] /\ ~(now >= endsAt[e])
      BY <2>1, <2>4, <1>a, <1>b DEF BootKnows, Ids
    <3>2. <<i, e>> \in Procs /\ <<i, e>> \in {i} \X S
      BY <3>1 DEF Procs, Timers
    <3> QED
      BY <2>1, <3>2
  <2>5. ArmedWhileActive'
    BY <2>1, <2>2, <2>4 DEF ArmedWhileActive
  <2> QED
    BY <2>3, <2>5
<1> QED
  BY <1>b, <1>1, <1>2, <1>3, <1>4, <1>5, <1>6, <1>7, UntimedNext, ProcFacts
  DEF Next, RequestStep, TimerStep, StartStep, CompleteStep, QueryStep, CancelStep, FaultStep,
      BootStep, LoseCommitAnswer, RollbackStart, FailMarkCancelled, FailMarkCompleted, FailBootRead

(* On a server of its own that is up, an active event that has not expired *)
(* has its expiry timer armed, or its Start is about to arm it: through    *)
(* any number of crashes and boots.                                        *)
THEOREM TimerForEveryEvent == Spec => [](OneServer => ArmedWhileActive)
<1>1. ArmedInv => (OneServer => ArmedWhileActive)
  BY DEF ArmedInv
<1> QED
  BY <1>1, InvariantsHold, StartedInvInit, StartedInvNext, ArmedInvInit, ArmedInvNext, PTL DEF Spec
=============================================================================
