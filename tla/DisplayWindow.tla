---------------------------- MODULE DisplayWindow ----------------------------
(***************************************************************************)
(* A display and what it is shown: useWindowPlayback on the page, and, on  *)
(* the server, PlaybackService.CalculateAt, the goroutines that announce a *)
(* change after it is committed, and the hub's answer to SUBSCRIBE.        *)
(*                                                                         *)
(* What is in force has three parts: the window's row, its playlist and    *)
(* the sync override.  A part is known by its version.  An answer is the   *)
(* sequence of the versions read so far, in the order CalculateAt reads    *)
(* them: the row and the playlist, which are taken together, and later the *)
(* sync event.  A request is sent and first read in one step, which delays *)
(* before it do not need.  Answers to requests come back in any order, the *)
(* messages of a connection in theirs.  DisplayConnection has the          *)
(* reconnection itself: here a connection is up or down.                   *)
(***************************************************************************)
EXTENDS Integers, Sequences, FiniteSets

CONSTANTS Empty,      \* versions of the playlist that have no item
          MaxFetches, \* bound: REST requests of the display under way
          Budget      \* bound: pairs of a number of changes of what is in force and
                      \* of a number of troubles (what fails, connections lost)

Win == 1
List == 2
Sync == 3
Parts == {Win, List, Sync}

ASSUME BoundsAssumption ==
    /\ MaxFetches \in Nat \ {0} /\ Budget \subseteq Nat \X Nat
    /\ Empty \subseteq Nat

VARIABLES content,    \* what is in force; an odd version of Sync is an event that runs
          pending,    \* notices that the server's goroutines have yet to send
          up,         \* the display's connection is open and registered
          asks,       \* SUBSCRIBE frames on their way to the server
          serving,    \* the answer that handleInbound is reading
          subscribed, \* the client is among the window's subscribers
          wire,       \* messages on their way to the display
          fetches,    \* by slot: the answer to a REST request, as far as it is read
          shown,      \* windowDetails, playlist and playbackState
          override,   \* the event that isSyncActive and syncMedia show, or 0
          error,      \* the display shows an error and no medium
          timer,      \* the transition timer is armed
          troubles,   \* failures and lost connections so far
          failed,     \* history: what failed on its own, without a restart
          raced       \* history: something old was shown after something newer

server == <<content, pending>>
connection == <<up, asks, serving, subscribed, wire>>
screen == <<shown, override, timer>>
vars == <<server, connection, fetches, screen, error, troubles, failed, raced>>

Slots == 1..MaxFetches
NoRead == <<-1>>         \* no answer is being read; a marker, not versions
Lost == <<-2>>           \* the server went away with the request
Odd(n) == n % 2 = 1

Reading(a) == a \notin {NoRead, Lost} /\ Len(a) < Cardinality(Parts)
Complete(a) == a \notin {NoRead, Lost} /\ Len(a) = Cardinality(Parts)

(* What a display should show for the three versions.                      *)
Effective(a) ==
    IF Odd(a[Sync]) THEN <<"sync", a[Sync]>>
    ELSE IF a[List] \in Empty THEN <<"idle">>
    ELSE <<"playlist", a[Win], a[List]>>

-----------------------------------------------------------------------------
(* The initial REST load is under way, nothing else has happened.          *)
Init ==
    /\ content = [p \in Parts |-> 0] /\ pending = {}
    /\ up = FALSE /\ asks = 0 /\ serving = NoRead /\ subscribed = FALSE
    /\ wire = <<>>
    /\ fetches = [i \in Slots |-> IF i = 1 THEN <<0, 0>> ELSE NoRead]
    /\ shown = <<>> /\ override = 0 /\ timer = FALSE
    /\ error = FALSE
    /\ troubles = 0 /\ failed = {} /\ raced = FALSE

Changes == content[Win] + content[List] + content[Sync]

Trouble == <<Changes, troubles + 1>> \in Budget /\ troubles' = troubles + 1

Change(p) ==
    /\ <<Changes + 1, troubles>> \in Budget
    /\ content' = [content EXCEPT ![p] = @ + 1]

(* What a notice waits for: "read" if its goroutine reads the playlist     *)
(* first, which can fail.  What it carries, the display does not use.      *)
Announce(kind, no, waits) ==
    pending' = pending \cup {[kind |-> kind, no |-> no, waits |-> waits]}

-----------------------------------------------------------------------------
(* Changes, and the goroutines that announce them                          *)

(* PATCH of the window, or of a medium: nobody is told.                    *)
PatchWindow ==
    /\ Change(Win)
    /\ UNCHANGED <<pending, connection, fetches, screen, error, troubles, failed, raced>>

(* AddItem and DeleteItem leave the reading of the playlist to the         *)
(* goroutine; Reorder hands it the playlist that it has read.              *)
EditPlaylist(reorder) ==
    /\ Change(List)
    /\ Announce("playlist", content'[List], IF reorder THEN "send" ELSE "read")
    /\ UNCHANGED <<connection, fetches, screen, error, troubles, failed, raced>>

StartSync ==
    /\ ~Odd(content[Sync])
    /\ Change(Sync)
    /\ Announce("started", content'[Sync], "send")
    /\ UNCHANGED <<connection, fetches, screen, error, troubles, failed, raced>>

(* An event is cancelled or its time is over.  Its end is not announced if *)
(* the Start of the next event completes its row, or if a process dies     *)
(* (SyncService): and an end may be announced before the start, whose      *)
(* notice is then still pending (told.late there).                         *)
EndSync(announced) ==
    /\ Odd(content[Sync])
    /\ Change(Sync)
    /\ IF announced THEN Announce("ended", content[Sync], "send") ELSE UNCHANGED pending
    /\ UNCHANGED <<connection, fetches, screen, error, troubles, failed, raced>>

(* The playlist cannot be read: the goroutine returns, nothing is sent.    *)
LoseNotice(n) ==
    /\ n \in pending /\ n.waits = "read"
    /\ Trouble
    /\ pending' = pending \ {n}
    /\ UNCHANGED <<content, connection, fetches, screen, error, failed, raced>>

(* Sync notices go to all registered clients, the others to subscribers.   *)
SendNotice(n) ==
    /\ n \in pending
    /\ pending' = pending \ {n}
    /\ wire' = IF up /\ (n.kind = "playlist" => subscribed) THEN Append(wire, n) ELSE wire
    /\ UNCHANGED <<content, up, asks, serving, subscribed, fetches, screen, error, troubles, failed, raced>>

-----------------------------------------------------------------------------
(* CalculateAt, for a request of the display and for a SUBSCRIBE           *)

(* The window's row and its playlist, then the event that runs.            *)
ReadNext(a) == IF a = <<>> THEN <<content[Win], content[List]>> ELSE Append(a, content[Sync])

(* An error of the last read counts as "no event runs".                    *)
MissSync(a) == Len(a) = Sync - 1 /\ Trouble

ReadFetch(i) ==
    /\ Reading(fetches[i])
    /\ \/ fetches' = [fetches EXCEPT ![i] = ReadNext(@)] /\ UNCHANGED troubles
       \/ MissSync(fetches[i]) /\ fetches' = [fetches EXCEPT ![i] = Append(@, 0)]
    /\ UNCHANGED <<server, connection, screen, error, failed, raced>>

(* handleInbound takes one frame at a time; its first read is the same     *)
(* step, the frame having waited until then.                               *)
TakeSubscribe ==
    /\ asks > 0 /\ serving = NoRead
    /\ asks' = asks - 1 /\ serving' = ReadNext(<<>>)
    /\ UNCHANGED <<server, up, subscribed, wire, fetches, screen, error, troubles, failed, raced>>

ReadSnapshot ==
    /\ Reading(serving)
    /\ \/ serving' = ReadNext(serving) /\ UNCHANGED troubles
       \/ MissSync(serving) /\ serving' = Append(serving, 0)
    /\ UNCHANGED <<server, up, asks, subscribed, wire, fetches, screen, error, failed, raced>>

(* The window cannot be read: an ERROR frame, and no subscription.         *)
RefuseSubscribe ==
    /\ Reading(serving)
    /\ Trouble
    /\ serving' = NoRead
    /\ failed' = failed \cup {"subscribe"}
    /\ UNCHANGED <<server, up, asks, subscribed, wire, fetches, screen, error, raced>>

(* subscribeClient, then the snapshot, which was read before.              *)
Subscribe ==
    /\ Complete(serving)
    /\ subscribed' = TRUE
    /\ wire' = Append(wire, [kind |-> "snapshot", answer |-> serving])
    /\ serving' = NoRead
    /\ UNCHANGED <<server, up, asks, fetches, screen, error, troubles, failed, raced>>

-----------------------------------------------------------------------------
(* The connection and the server's process                                 *)

(* Slip: only one of the two SUBSCRIBE frames is sent.                     *)
SubscribeOnce ==
    /\ ~up
    /\ up' = TRUE /\ asks' = 1
    /\ UNCHANGED <<server, serving, subscribed, wire, fetches, screen, error, troubles, failed, raced>>

(* Both the client and the display's listener send SUBSCRIBE.              *)
Connect ==
    /\ ~up
    /\ up' = TRUE /\ asks' = 2
    /\ UNCHANGED <<server, serving, subscribed, wire, fetches, screen, error, troubles, failed, raced>>

Disconnected ==
    /\ Trouble
    /\ up' = FALSE /\ asks' = 0 /\ serving' = NoRead /\ subscribed' = FALSE /\ wire' = <<>>

Drop ==
    /\ up
    /\ Disconnected
    /\ UNCHANGED <<server, fetches, screen, error, failed, raced>>

(* The server stops and is started again: with the connections go the      *)
(* notices it had yet to send and the requests it had yet to answer.       *)
Restart ==
    /\ Disconnected
    /\ pending' = {}
    /\ fetches' = [i \in Slots |-> IF fetches[i] = NoRead THEN NoRead ELSE Lost]
    /\ UNCHANGED <<content, screen, error, failed, raced>>

-----------------------------------------------------------------------------
(* The display                                                             *)

(* refreshPlayback                                                         *)
Refresh(f) == \E i \in Slots :
    /\ f[i] = NoRead /\ \A j \in 1..(i - 1) : f[j] # NoRead
    /\ fetches' = [f EXCEPT ![i] = ReadNext(<<>>)]

(* Slip: a sync override waits for SYNC_ENDED and nothing else.            *)
ArmedInPlaylist(a) == Effective(a)[1] = "playlist"

(* The effect on playbackState arms the timer if a medium plays.           *)
Armed(a) == Effective(a)[1] # "idle"

(* Slip: a snapshot or answer leaves the timer of the one before.          *)
ShowOnly(a) ==
    /\ shown' = a
    /\ override' = IF Odd(a[Sync]) THEN a[Sync] ELSE 0
    /\ raced' = (raced \/ (shown # <<>> /\ \E p \in Parts : a[p] < shown[p]))
    /\ UNCHANGED timer

Show(a) ==
    /\ shown' = a
    /\ override' = IF Odd(a[Sync]) THEN a[Sync] ELSE 0
    /\ timer' = Armed(a)
    /\ raced' = (raced \/ (shown # <<>> /\ \E p \in Parts : a[p] < shown[p]))

Answer(i) ==
    /\ Complete(fetches[i])
    /\ Show(fetches[i])
    /\ error' = FALSE
    /\ fetches' = [fetches EXCEPT ![i] = NoRead]
    /\ UNCHANGED <<server, connection, troubles, failed>>

(* A request fails: on its own, or with the server.                        *)
FailFetch(i) ==
    /\ fetches[i] # NoRead
    /\ IF fetches[i] = Lost
       THEN UNCHANGED <<troubles, failed>>
       ELSE Trouble /\ failed' = failed \cup {"request"}
    /\ error' = TRUE
    /\ fetches' = [fetches EXCEPT ![i] = NoRead]
    /\ UNCHANGED <<server, connection, screen, raced>>

SyncEnded ==
    /\ override' = 0
    /\ Refresh(fetches)
    /\ UNCHANGED <<shown, timer, error, raced>>

SyncStarted(m) ==
    /\ override' = m.no
    /\ Refresh(fetches)
    /\ UNCHANGED <<shown, timer, error, raced>>

(* The playlist in the message is an object, not an array: it is ignored.  *)
PlaylistUpdated ==
    /\ Refresh(fetches)
    /\ UNCHANGED <<shown, override, timer, error, raced>>

(* The error of a failed refresh is not cleared by a snapshot.             *)
StateSnapshot(m) ==
    /\ Show(m.answer)
    /\ UNCHANGED <<fetches, error>>

Handle ==
    /\ wire # <<>>
    /\ LET m == Head(wire) IN
       \/ m.kind = "snapshot" /\ StateSnapshot(m)
       \/ m.kind = "playlist" /\ PlaylistUpdated
       \/ m.kind = "started" /\ SyncStarted(m)
       \/ m.kind = "ended" /\ SyncEnded
    /\ wire' = Tail(wire)
    /\ UNCHANGED <<server, up, asks, serving, subscribed, troubles, failed>>

(* The transition timer: the item or the event should be over.             *)
TimerFires ==
    /\ timer
    /\ timer' = FALSE
    /\ Refresh(fetches)
    /\ UNCHANGED <<server, connection, shown, override, error, troubles, failed, raced>>

-----------------------------------------------------------------------------
Next ==
    \/ PatchWindow \/ StartSync
    \/ \E b \in BOOLEAN : EditPlaylist(b) \/ EndSync(b)
    \/ \E n \in pending : LoseNotice(n) \/ SendNotice(n)
    \/ TakeSubscribe \/ ReadSnapshot \/ RefuseSubscribe \/ Subscribe
    \/ Connect \/ Drop \/ Restart
    \/ \E i \in Slots : ReadFetch(i) \/ Answer(i) \/ FailFetch(i)
    \/ Handle \/ TimerFires

Spec == Init /\ [][Next]_vars

(* Goroutines run, requests are answered, messages arrive, the timer of    *)
(* the page fires and its client reconnects (DisplayConnection!Reconnects).*)
(* The timer is held back only by the bound on requests under way, hence   *)
(* SF.  Nobody has to change anything, and nothing has to fail.            *)
Fairness ==
    /\ WF_vars(\E n \in pending : SendNotice(n))
    /\ WF_vars(TakeSubscribe) /\ WF_vars(ReadSnapshot) /\ WF_vars(Subscribe)
    /\ WF_vars(Connect)
    /\ \A i \in Slots : WF_vars(ReadFetch(i) \/ Answer(i) \/ (fetches[i] = Lost /\ FailFetch(i)))
    /\ WF_vars(Handle) /\ SF_vars(TimerFires)

FairSpec == Spec /\ Fairness

-----------------------------------------------------------------------------
(* Properties                                                              *)

(* What the viewport shows, unless it shows the error.                     *)
Picture == IF shown = <<>> THEN <<"loading">>
           ELSE IF override # 0 THEN <<"sync", override>> ELSE Effective(shown)

Fresh == ~error /\ Picture = Effective(content)

Outstanding == \E i \in Slots : fetches[i] # NoRead

(* A display that shows a medium, or waits for its first answer, will look *)
(* again, by its timer or by a request that is under way: whatever notice, *)
(* snapshot and answer set the picture, and in whatever order they came.   *)
PlayingLooksAgain == Picture # <<"idle">> /\ ~error => timer \/ Outstanding

(* A display that plays ends up showing what is in force, although answers *)
(* overtake each other, notices are lost or overtaken, changes of windows  *)
(* are announced to nobody, reads of the sync event fail, connections drop *)
(* and the server restarts.  Apart from an idle screen, two things leave   *)
(* it behind: a request that fails on its own; and the error of a request  *)
(* that was lost with the server, if a SUBSCRIBE is refused.  Nothing is   *)
(* armed then, and neither is tried again.                                 *)
PlayingConverges ==
    <>[](\/ Fresh \/ Picture = <<"idle">>
         \/ "request" \in failed \/ (error /\ "subscribe" \in failed))

(* An idle display has no timer: it depends on notices and snapshots.      *)
(* They are enough if nothing fails and no answer overtakes a newer one.   *)
(* A snapshot may be read before the client is among the subscribers, and  *)
(* miss a change in between; the second SUBSCRIBE makes up for it.         *)
NoticesSuffice == <>[](Fresh \/ troubles > 0 \/ raced)

-----------------------------------------------------------------------------
(* What documents and comments say, and the code does not do               *)

(* WEBSOCKET.md: the STATE_SNAPSHOT that follows a reconnection updates    *)
(* the display without a reload of the page.  The error of a request that  *)
(* was lost with the server stays, and covers what the snapshot brought.   *)
TakesSnapshot == up' /\ wire # <<>> /\ Head(wire).kind = "snapshot" /\ wire' = Tail(wire)

SnapshotResyncs == [][TakesSnapshot /\ "request" \notin failed => ~error']_vars
=============================================================================
