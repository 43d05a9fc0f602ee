---------------------------- MODULE SyncOverride ----------------------------
(***************************************************************************)
(* What the global sync override promises, with no database, requests,     *)
(* locks or timers: at most one event overrides the playlists at a time;   *)
(* it runs until its deadline unless an operator cancels it; an event that *)
(* is over never runs again.  SyncService implements it.                   *)
(***************************************************************************)
EXTENDS Integers

CONSTANTS Ids,      \* identities of sync events
          NoId      \* no event: not a member of Ids

VARIABLES clock,    \* wall-clock time
          current,  \* the event that overrides the playlists, or NoId
          deadline, \* the end time given to an event when it began
          record    \* how an event ended: "none" (it has not), "completed", "cancelled"

vars == <<clock, current, deadline, record>>

Init ==
    /\ clock = 0
    /\ current = NoId
    /\ deadline = [e \in Ids |-> 0]
    /\ record = [e \in Ids |-> "none"]

Tick == 
    /\ clock' = clock + 1
    /\ UNCHANGED <<current, deadline, record>>

(* A new event begins: nothing runs, or what runs is past its deadline and *)
(* is recorded as completed.                                               *)
Begin(e) ==
    /\ current # NoId => deadline[current] <= clock
    /\ e # current /\ record[e] = "none"
    /\ current' = e
    /\ deadline' \in [Ids -> Nat]
    /\ \A f \in Ids \ {e} : deadline'[f] = deadline[f]
    /\ record' = [f \in Ids |-> IF f = current THEN "completed" ELSE record[f]]
    /\ UNCHANGED clock

Complete ==
    /\ current # NoId
    /\ deadline[current] <= clock
    /\ record' = [record EXCEPT ![current] = "completed"]
    /\ current' = NoId
    /\ UNCHANGED <<clock, deadline>>

Cancel ==
    /\ current # NoId
    /\ record' = [record EXCEPT ![current] = "cancelled"]
    /\ current' = NoId
    /\ UNCHANGED <<clock, deadline>>

(* A cancellation that reaches an event already completed only rewrites    *)
(* its record.                                                             *)
CancelLate(e) ==
    /\ record[e] = "completed"
    /\ record' = [record EXCEPT ![e] = "cancelled"]
    /\ UNCHANGED <<clock, current, deadline>>

Next ==
    \/ Tick
    \/ Complete
    \/ Cancel
    \/ \E e \in Ids : Begin(e) \/ CancelLate(e)

Spec == Init /\ [][Next]_vars
=============================================================================
