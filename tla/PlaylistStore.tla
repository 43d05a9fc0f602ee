---------------------------- MODULE PlaylistStore ----------------------------
(***************************************************************************)
(* The playlist of one window: playlistService and playlistRepo on the     *)
(* playlist_items table, with windowService, which creates, changes and    *)
(* deletes the row of the window, and mediaService, which does the same    *)
(* with the media.                                                         *)
(*                                                                         *)
(* A request first reads without a lock, then runs a transaction that      *)
(* locks the row of the window (SELECT ... FOR UPDATE) until it commits or *)
(* rolls back; other requests run in between.  Writes become visible at    *)
(* commit.  uq_window_position and the other constraints are checked by    *)
(* the database row by row.                                                *)
(***************************************************************************)
EXTENDS Integers, Sequences, FiniteSets, FiniteSetsExt

CONSTANTS Requests,    \* HTTP handlers that may run at once
          NoRequest,   \* nobody holds the row lock
          Media,       \* ids of media_items
          NoMedium,    \* no medium
          Durations,   \* durations asked for; 0 where the request has none
          Cycles,      \* cycle durations asked for; 0 where the request has none
          DefaultCycle,   \* the cycle of a window that is created without one
          MaxItems,    \* bound: rows ever inserted in playlist_items
          MaxFaults    \* bound: transactions that the database rolls back

Ids == 1..MaxItems

ASSUME RequestsAssumption == NoRequest \notin Requests
ASSUME DurationsAssumption ==
    /\ Durations \subseteq Int /\ Cycles \subseteq Int
    /\ DefaultCycle \in Nat \ {0}
ASSUME MediaAssumption == NoMedium \notin Media
ASSUME BoundsAssumption == MaxItems \in Nat /\ MaxFaults \in Nat

VARIABLES cycle,     \* windows.cycle_duration_seconds, 0 once the window is gone
          media,     \* media_items.default_duration_seconds, 0 before there is a row
          position,  \* playlist_items.position by id, 0 where there is no row
          duration,  \* playlist_items.duration_seconds by id
          medium,    \* playlist_items.media_item_id by id
          nextId,    \* next value of the id sequence
          rowLock,   \* who holds the lock on the row of the window
          pc,        \* what each request does next
          arg,       \* its argument: a duration, an item, a cycle (0: none)
          wanted,    \* the medium it is about
          plan,      \* the order a Reorder request asks for
          seen,      \* what it read: the cycle, the next position, a row to write back
          faults

Gone == -1               \* a medium that was deleted; ids are not used again

table == <<position, duration, medium, nextId>>
request == <<arg, wanted, plan, seen>>
vars == <<cycle, media, table, rowLock, pc, request, faults>>

Steps == {"idle", "add_lock", "add_measure", "add_insert", "delete_lock", "delete_write",
          "reorder_lock", "reorder_write", "update_write", "media_write"}
Waiting == {"add_lock", "delete_lock", "reorder_lock"}
Locked == [add_lock |-> "add_measure", delete_lock |-> "delete_write",
           reorder_lock |-> "reorder_write"]
InTransaction == {"add_measure", "add_insert", "delete_write", "reorder_write"}

-----------------------------------------------------------------------------
Rows == {e \in Ids : position[e] > 0}
Size == Cardinality(Rows)
(* The sum of the durations, as the number of the seconds of all items.    *)
Seconds == UNION {{e} \X (1..duration[e]) : e \in Rows}
TotalSeconds == Cardinality(Seconds)
LastPosition == Max({0} \cup {position[e] : e \in Rows})

Elements(s) == {s[k] : k \in DOMAIN s}
Orders(S) == {s \in [1..Cardinality(S) -> S] : Elements(s) = S}

Begin(r, step, m, a, p, s) ==
    /\ pc' = [pc EXCEPT ![r] = step]
    /\ wanted' = [wanted EXCEPT ![r] = m]
    /\ arg' = [arg EXCEPT ![r] = a]
    /\ plan' = [plan EXCEPT ![r] = p]
    /\ seen' = [seen EXCEPT ![r] = s]

(* The request ends; its transaction, if any, with its lock.               *)
End(r) ==
    /\ Begin(r, "idle", NoMedium, 0, <<>>, 0)
    /\ rowLock' = IF rowLock = r THEN NoRequest ELSE rowLock

(* The rows of E go; those of the others move to p.                        *)
Keep(p, E) ==
    /\ position' = [e \in Ids |-> IF e \in E THEN 0 ELSE p[e]]
    /\ duration' = [e \in Ids |-> IF e \in E THEN 0 ELSE duration[e]]
    /\ medium' = [e \in Ids |-> IF e \in E THEN NoMedium ELSE medium[e]]

(* The window as it is created, with the cycle asked for or the default.   *)
Created(c) == IF c = 0 THEN DefaultCycle ELSE c

Init ==
    /\ \E c \in Cycles : c >= 0 /\ cycle = Created(c)
    /\ media = [m \in Media |-> 0]
    /\ position = [e \in Ids |-> 0] /\ duration = [e \in Ids |-> 0]
    /\ medium = [e \in Ids |-> NoMedium] /\ nextId = 1
    /\ rowLock = NoRequest
    /\ pc = [r \in Requests |-> "idle"]
    /\ arg = [r \in Requests |-> 0] /\ plan = [r \in Requests |-> <<>>]
    /\ seen = [r \in Requests |-> 0] /\ wanted = [r \in Requests |-> NoMedium]
    /\ faults = 0

-----------------------------------------------------------------------------
(* Requests, as far as the service takes them without a lock.  A refusal   *)
(* changes nothing.                                                        *)

Ready(r) == pc[r] = "idle" /\ cycle > 0

(* Bound of the instance that is checked: a row is left for the item.      *)
Adding == {r \in Requests : pc[r] \in {"add_lock", "add_measure", "add_insert"}}

AddRequest(r, m, d) ==
    /\ Ready(r) /\ media[m] > 0
    /\ d >= 0
    /\ nextId + Cardinality(Adding) <= MaxItems
    /\ Begin(r, "add_lock", m, IF d = 0 THEN media[m] ELSE d, <<>>, 0)
    /\ UNCHANGED <<cycle, media, table, rowLock, faults>>

DeleteRequest(r, e) ==
    /\ Ready(r)
    /\ e \in Rows
    /\ Begin(r, "delete_lock", NoMedium, e, <<>>, 0)
    /\ UNCHANGED <<cycle, media, table, rowLock, faults>>

(* The ids asked for are those of the rows that are there now, each once.  *)
ReorderRequest(r, p) ==
    /\ Ready(r)
    /\ p # <<>>
    /\ Begin(r, "reorder_lock", NoMedium, 0, p, 0)
    /\ UNCHANGED <<cycle, media, table, rowLock, faults>>

(* Update reads the whole row, to write it back with what it was asked to  *)
(* change: another cycle duration, or (c = 0) other fields only.           *)
UpdateRequest(r, c) ==
    /\ Ready(r)
    /\ c >= 0
    /\ Begin(r, "update_write", NoMedium, c, <<>>, IF c = 0 THEN cycle ELSE c)
    /\ UNCHANGED <<cycle, media, table, rowLock, faults>>

(* Update of a medium: d seconds by default, or (d = 0) other fields only. *)
UpdateMediumRequest(r, m, d) ==
    /\ pc[r] = "idle" /\ media[m] > 0
    /\ d >= 0
    /\ Begin(r, "media_write", m, d, <<>>, IF d = 0 THEN media[m] ELSE d)
    /\ UNCHANGED <<cycle, media, table, rowLock, faults>>

-----------------------------------------------------------------------------
(* Transactions                                                            *)

(* Slip: an Add does not lock the row it reads.                            *)
LockDeletesOnly(r) ==
    /\ pc[r] \in Waiting
    /\ rowLock = NoRequest
    /\ IF cycle = 0 THEN End(r)
       ELSE /\ rowLock' = IF pc[r] = "add_lock" THEN NoRequest ELSE r
            /\ pc' = [pc EXCEPT ![r] = Locked[@]]
            /\ seen' = [seen EXCEPT ![r] = cycle]
            /\ UNCHANGED <<arg, wanted, plan>>
    /\ UNCHANGED <<cycle, media, table, faults>>

(* Wait for the row of the window; it may be gone by then.                 *)
LockWindow(r) ==
    /\ pc[r] \in Waiting
    /\ rowLock = NoRequest
    /\ IF cycle = 0 THEN End(r)
       ELSE /\ rowLock' = r
            /\ pc' = [pc EXCEPT ![r] = Locked[@]]
            /\ seen' = [seen EXCEPT ![r] = cycle]
            /\ UNCHANGED <<arg, wanted, plan>>
    /\ UNCHANGED <<cycle, media, table, faults>>

(* Slip: a refusal leaves the transaction open.                            *)
MeasureKeepsLock(r) ==
    /\ pc[r] = "add_measure"
    /\ IF TotalSeconds + arg[r] > seen[r]
       THEN Begin(r, "idle", NoMedium, 0, <<>>, 0)
       ELSE Begin(r, "add_insert", wanted[r], arg[r], <<>>, LastPosition + 1)
    /\ UNCHANGED <<cycle, media, table, rowLock, faults>>

(* Slip: the item is measured without those that are there.                *)
MeasureAlone(r) ==
    /\ pc[r] = "add_measure"
    /\ IF arg[r] > seen[r]
       THEN End(r)
       ELSE Begin(r, "add_insert", wanted[r], arg[r], <<>>, LastPosition + 1) /\ UNCHANGED rowLock
    /\ UNCHANGED <<cycle, media, table, faults>>

Measure(r) ==
    /\ pc[r] = "add_measure"
    /\ IF TotalSeconds + arg[r] > seen[r]
       THEN End(r)
       ELSE Begin(r, "add_insert", wanted[r], arg[r], <<>>, LastPosition + 1) /\ UNCHANGED rowLock
    /\ UNCHANGED <<cycle, media, table, faults>>

Inserted(r) ==
    /\ nextId <= MaxItems
    /\ position' = [position EXCEPT ![nextId] = seen[r]]
    /\ duration' = [duration EXCEPT ![nextId] = arg[r]]
    /\ medium' = [medium EXCEPT ![nextId] = wanted[r]]
    /\ nextId' = nextId + 1

(* Slip: media_item_id has no foreign key; the medium was there before.    *)
InsertUnchecked(r) ==
    /\ pc[r] = "add_insert"
    /\ IF cycle = 0 \/ \E e \in Rows : position[e] = seen[r]
       THEN UNCHANGED table
       ELSE Inserted(r)
    /\ End(r)
    /\ UNCHANGED <<cycle, media, faults>>

(* The window, the place or the medium may be gone or taken by now.        *)
Insert(r) ==
    /\ pc[r] = "add_insert"
    /\ IF cycle = 0 \/ media[wanted[r]] = Gone \/ \E e \in Rows : position[e] = seen[r]
       THEN UNCHANGED table
       ELSE Inserted(r)
    /\ End(r)
    /\ UNCHANGED <<cycle, media, faults>>

(* Slip: the positions behind the item are not compacted.                  *)
DeleteLeavesGap(r) ==
    /\ pc[r] = "delete_write"
    /\ Keep(position, {arg[r]})
    /\ End(r)
    /\ UNCHANGED <<cycle, media, nextId, faults>>

(* The item may be gone.  The rows behind it move up by one: the database  *)
(* takes them in any order, and fails if one moves to a place that another *)
(* has yet to leave.                                                       *)
Behind(p) == {e \in Rows : position[e] > p}
Delete(r) ==
    /\ pc[r] = "delete_write"
    /\ LET p == position[arg[r]] IN
       \/ /\ p > 0
          /\ Keep([e \in Ids |-> IF e \in Behind(p) THEN position[e] - 1 ELSE position[e]],
                  {arg[r]})
       \/ (p = 0 \/ Cardinality(Behind(p)) > 1) /\ UNCHANGED <<position, duration, medium>>
    /\ End(r)
    /\ UNCHANGED <<cycle, media, nextId, faults>>

(* Slip: the number of rows that got a temporary position is not checked.  *)
ReorderWhatIsLeft(r) ==
    /\ pc[r] = "reorder_write"
    /\ position' = [e \in Ids |-> IF e \in Rows /\ e \in Elements(plan[r])
                                  THEN CHOOSE k \in DOMAIN plan[r] : plan[r][k] = e
                                  ELSE position[e]]
    /\ End(r)
    /\ UNCHANGED <<cycle, media, duration, medium, nextId, faults>>

(* Rows of the plan that are gone, and rows outside it that hold one of    *)
(* the places it gives: either rolls the transaction back.                 *)
Missing(r) == Elements(plan[r]) \ Rows
InTheWay(r) == {e \in Rows \ Elements(plan[r]) : position[e] \in DOMAIN plan[r]}
Reorder(r) ==
    /\ pc[r] = "reorder_write"
    /\ position' = IF Missing(r) = {} /\ InTheWay(r) = {}
                   THEN [e \in Ids |-> IF e \in Elements(plan[r])
                                       THEN CHOOSE k \in DOMAIN plan[r] : plan[r][k] = e
                                       ELSE position[e]]
                   ELSE position
    /\ End(r)
    /\ UNCHANGED <<cycle, media, duration, medium, nextId, faults>>

(* A statement fails, or the connection is lost: the database rolls back.  *)
Rollback(r) ==
    /\ pc[r] \in InTransaction
    /\ faults < MaxFaults /\ faults' = faults + 1
    /\ End(r)
    /\ UNCHANGED <<cycle, media, table>>

-----------------------------------------------------------------------------
(* The row of the window: single statements, which wait for its lock       *)

UpdateWindow(r) ==
    /\ pc[r] = "update_write"
    /\ rowLock = NoRequest
    /\ cycle' = IF cycle = 0 THEN 0 ELSE seen[r]
    /\ End(r)
    /\ UNCHANGED <<media, table, faults>>

(* The rows of the playlist go with their window.                          *)
DeleteWindow ==
    /\ cycle > 0
    /\ rowLock = NoRequest
    /\ cycle' = 0
    /\ Keep(position, Ids)
    /\ UNCHANGED <<media, nextId, rowLock, pc, request, faults>>

-----------------------------------------------------------------------------
(* The media: single statements                                            *)

CreateMedium(m, d) ==
    /\ media[m] = 0
    /\ d > 0
    /\ media' = [media EXCEPT ![m] = d]
    /\ UNCHANGED <<cycle, table, rowLock, pc, request, faults>>

UpdateMedium(r) ==
    /\ pc[r] = "media_write"
    /\ media' = IF media[wanted[r]] = Gone THEN media ELSE [media EXCEPT ![wanted[r]] = seen[r]]
    /\ End(r)
    /\ UNCHANGED <<cycle, table, faults>>

(* ON DELETE RESTRICT: refused while a playlist has the medium, and also   *)
(* while sync_events has it, in which case nothing happens here.           *)
DeleteMedium(m) ==
    /\ media[m] > 0
    /\ \A e \in Rows : medium[e] # m
    /\ media' = [media EXCEPT ![m] = Gone]
    /\ UNCHANGED <<cycle, table, rowLock, pc, request, faults>>

-----------------------------------------------------------------------------
WriteStep(r) ==
    Measure(r) \/ Insert(r) \/ Delete(r) \/ Reorder(r) \/ UpdateWindow(r) \/ UpdateMedium(r)

Next ==
    \/ \E r \in Requests :
          \/ \E m \in Media, d \in Durations : AddRequest(r, m, d) \/ UpdateMediumRequest(r, m, d)
          \/ \E e \in Ids : DeleteRequest(r, e)
          \/ \E p \in Orders(Rows) : ReorderRequest(r, p)
          \/ \E c \in Cycles : UpdateRequest(r, c)
          \/ LockWindow(r) \/ WriteStep(r) \/ Rollback(r)
    \/ DeleteWindow
    \/ \E m \in Media : DeleteMedium(m) \/ \E d \in Durations : CreateMedium(m, d)

Spec == Init /\ [][Next]_vars

(* Handlers run to their end; PostgreSQL grants a row lock in the order of *)
(* the requests for it.  Nothing makes operators send requests.            *)
Fairness ==
    \A r \in Requests : /\ SF_vars(LockWindow(r) \/ UpdateWindow(r))
                        /\ WF_vars(Measure(r) \/ Insert(r) \/ Delete(r) \/ Reorder(r)
                                \/ UpdateMedium(r))

FairSpec == Spec /\ Fairness

-----------------------------------------------------------------------------
(* Properties                                                              *)

(* Rows, requests and the row lock are what the tables and the service can *)
(* hold; a request owns the lock of the window exactly in its transaction. *)
TypeOK ==
    /\ cycle \in Nat /\ media \in [Media -> Nat \cup {Gone}]
    /\ position \in [Ids -> 0..MaxItems] /\ duration \in [Ids -> Nat]
    /\ medium \in [Ids -> Media \cup {NoMedium}]
    /\ nextId \in 1..(MaxItems + 1)
    /\ rowLock \in Requests \cup {NoRequest}
    /\ pc \in [Requests -> Steps]
    /\ arg \in [Requests -> Nat] /\ seen \in [Requests -> Nat]
    /\ plan \in [Requests -> Seq(Ids)] /\ wanted \in [Requests -> Media \cup {NoMedium}]
    /\ faults \in 0..MaxFaults
    /\ \A r \in Requests : pc[r] \in InTransaction <=> rowLock = r

(* The positions of a playlist are 1, 2, 3... without gaps or duplicates,  *)
(* after any interleaving of additions, deletions and reorders, with plans *)
(* and items that are stale by the time they are applied.                  *)
Dense == {position[e] : e \in Rows} = 1..Size

(* Whoever plays an item finds its medium: a medium that was there when an *)
(* Add request looked is not deleted under the item, and none is deleted   *)
(* that a playlist still has.                                              *)
MediaKept == \A e \in Rows : medium[e] \in Media /\ media[medium[e]] > 0

(* An item is added only if the playlist then fits the cycle of its window *)
(* as it is at that moment.                                                *)
AddFits == [][nextId' # nextId => TotalSeconds' <= cycle]_vars

(* Every request that was accepted ends: no transaction stays open, and    *)
(* none waits for ever for the row of the window.                          *)
RequestEnds == \A r \in Requests : pc[r] # "idle" ~> pc[r] = "idle"

(* The items by position, as the playlist that displays play; 0 in a gap.  *)
Items == [k \in 1..Size |-> IF \E e \in Rows : position[e] = k
                            THEN CHOOSE e \in Rows : position[e] = k ELSE 0]
Sequence == INSTANCE Playlist WITH Items <- Ids, list <- Items

(* The transactions do no more than append one item, remove one, or put    *)
(* all of them in another order: whatever a request read before, no item   *)
(* is lost or doubled by the way, and none but the last place is given to  *)
(* an item that is new.                                                    *)
ImplementsPlaylist == Sequence!Spec

=============================================================================
