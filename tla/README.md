# EVA Bharat media sequencer: formal models

TLA+ models of the multi-window media sequencer in `src/` (a Go server on
PostgreSQL and a React client), checked with TLC and, as far as safety goes,
proved with TLAPS. Paths below are relative to `src/`; `service/`, `repository/`, `ws/` and
`handlers/` stand for the packages under `backend/internal/`.

## The system

Display windows play their own playlists on a cycle that starts at an epoch:
what a window shows is a function of its row, its playlist and the time. A
global sync event overrides all windows for a while. Operators change
playlists, windows, media and sync events over HTTP; displays hold a WebSocket
and are told of changes.

| Component | State | Operations | Interacts with |
|---|---|---|---|
| SyncService (`service/sync_service.go`, `repository/postgres/sync_repo.go`) | rows of `sync_events`; per instance the `ended` map and the expiry timers | Start, GetActive(At), Cancel, timer expiry, Recover on boot | the database (advisory lock), Hub (notifications), PlaybackService |
| Hub (`ws/hub.go`, `ws/client.go`, `ws/handler.go`) | registered clients, subscribers by window, channels, one buffer per client | ServeWS, Register, SUBSCRIBE, Unregister, Notify*, Run, Shutdown | services (Notify), PlaybackService (snapshots), browsers |
| PlaylistService (`service/playlist_service.go`, `repository/postgres/playlist_repo.go`) | rows of `playlist_items` | AddItem, DeleteItem, Reorder | row of the window (lock), MediaService's rows |
| WindowService (`service/window_service.go`, `window_repo.go`) | rows of `windows` | Create, Update, Delete | PlaylistService (cascade, cycle) |
| MediaService (`service/media_service.go`, `media_repo.go`) | rows of `media_items` | Create, Update, Delete | playlist and sync rows (RESTRICT) |
| PlaybackEngine (`service/playback_engine.go`) | none: a pure function | Calculate | PlaybackService |
| PlaybackService (`service/playback_service.go`) | none | CalculateAt: window, playlist and sync event read one after the other | all of the above |
| HTTP handlers (`handlers/`) | none | decode, call, answer; `playlist_handler.go` notifies from goroutines | services, Hub |
| Migrator (`repository/postgres/migrator.go`, `backend/migrations/`) | `schema_migrations`, the schema | Up, Down | the database, boot |
| Server process (`backend/cmd/server/main.go`) | none | migrate, recover, serve, shut down | all |
| Display client (`frontend/src/websocket/`, `frontend/src/hooks/`) | socket, reconnect timer, playback state | connect, resubscribe, merge snapshots, notices and polls | Hub, REST |
| Pages, components, REST client (`frontend/src/`) | form state | rendering | REST |

What is hard, and what makes each part correct:

* **SyncService.** Handlers, timers and reboots, on any number of instances,
  share one table; between two database calls anything may run. At most one
  event is active; it ends once, not early, for a recorded reason; an event
  that is active has somebody who will end it; displays that were told of a
  start are told of an end.
* **Hub.** Each connection has two goroutines, the hub one, and each notice
  that meets a full channel one more. A client may be removed by its reader,
  its writer's failure, a broadcast that finds it slow, or Shutdown, in any
  order with a SUBSCRIBE. Nothing is sent on a closed channel, the two records
  of a subscription agree, no sync notice is lost while its client stays, and
  notices stay in order.
* **PlaylistService.** Requests validate against what they read before their
  transaction. Positions stay 1, 2, 3, ...; an addition fits the cycle.
  An item's medium stays while the item does.
* **PlaybackEngine.** Boundaries of items, playlists, cycles and seconds.
* **Display client.** Socket events, a timer and the page meet in one object;
  answers, snapshots and notices each replace the picture. There is one socket,
  a way back to it, the right window is subscribed on it, and the picture ends
  up being what is in force.
* **Migrator.** Processes boot together, fail and start again. Nothing is
  recorded that is not applied, nobody serves an incomplete schema, and in the
  end everybody serves.

## Modules

| Module | What it is |
|---|---|
| `SyncOverride` | abstract: one event at a time, that begins, completes at its deadline, or is cancelled, each in one step |
| `SyncService` | the service, its repository, callers, timers, boot and crashes; implements `SyncOverride` |
| `SyncServiceProofs` | theorems about `SyncService`: the table, the lock, ends of events, refinement |
| `SyncClaimProofs` | more of them, on the same invariants: announcements, claims, expiry timers |
| `Hub` | hub, clients, pumps, notifying goroutines, Shutdown |
| `HubProofs` | theorems about `Hub`: registry, subscriptions, sends and closes, delivery and order of notices |
| `Playlist` | abstract: a sequence of items that is appended to, shortened, and rearranged |
| `PlaylistStore` | the transactions on the playlist of one window; implements `Playlist` |
| `PlaylistStoreProofs` | theorems about `PlaylistStore` |
| `PlaybackEngine` | `Calculate`, and a display that asks at every tick |
| `PlaybackEngineProofs` | theorems about `PlaybackEngine`, with the arithmetic they need |
| `DisplayConnection` | the browser's WebSocket client, its reconnection timer and the pages that call it |
| `DisplayConnectionProofs` | theorems about `DisplayConnection` |
| `DisplayWindow` | a display and what it is shown: requests, `CalculateAt`, notices, SUBSCRIBE, the page's state |
| `DisplayWindowProofs` | the theorem about `DisplayWindow` |
| `Migrator` | the boot of processes on one database |
| `MigratorProofs` | theorems about `Migrator` |
| `MCSyncService`, `MCHub`, `MCPlaylistStore`, `MCPlaybackEngine`, `MCDisplayConnection`, `MCDisplayWindow`, `MCMigrator` | values of constants, symmetries |

The models meet where the components do. `DisplayWindow` takes from the others
what they show: that a client which stays connected gets its notices in order
(`Hub`: `NoticeKept`, `SyncDelivered`, `InOrder`), that some ends of events are
not announced (`SyncService`), that a transaction on the playlist is one step
(`PlaylistStore`: `ImplementsPlaylist`), that a client gets its connection back
and asks for its window (`DisplayConnection`: `Reconnects`,
`SubscribedToWanted`). It replaces rows and payloads by versions.

A definition marked `Slip:` in a comment is a plausible mistake in the
definition it stands before; no behaviour uses it. Putting it in place of that
definition must break the property named in `PROJECT.json`.

### SyncService

`table` is `sync_events` (status, `ends_at`, the id sequence); `lock` the
transaction-scoped advisory lock; `ended` and `mode` belong to an instance;
`pc`, `ev`, `asOf` and `dur` are the local state of a handler or timer. `out`
counts the notifications by event and kind. `told` keeps their order, as far as
a display can tell: SYNC_STARTED sets it to the event, SYNC_ENDED of any event
clears it, and `late` says that this start was overtaken by its own end or by a
later start. One action is what lies between two points where others may run:

| Actions | Code |
|---|---|
| StartRequest, TryLock, CheckNoActive, CommitStart, AnnounceStarted | `Start` and `CreateIfNoActive`: validation and timestamps; try-lock; check; expire, insert and commit; notify and arm the timer |
| LoseCommitAnswer, RollbackStart | commit that took effect but returned an error; any earlier failure |
| FireTimer, MarkCompleted, AnnounceCompleted, FailMarkCompleted, ReleaseClaim | `scheduleCompletion` and `complete`, run by a timer or by a query |
| QueryRequest, ReadActive, ClaimExpired | `GetActiveAt`, which completes an event it finds expired |
| CancelRequest, StoreClaim, MarkCancelled, AnnounceCancelled, FailMarkCancelled | `Cancel` |
| Crash, BootRead, BootReconcile, FailBootRead | end of the process; `Recover` before requests are served |

Within the transaction, expiry of old rows and the insert are one action: both
are invisible until the commit, and only a request that holds the lock runs
them. Time advances by whole seconds; the clock of the database differs from
the server's by the constant `DbSkew`.

### Hub

An action is one critical section of `h.mu`, or one channel operation. `c.mu` is
held over several steps, because `SendRaw` looks at `closed` and then sends:

| Actions | Code |
|---|---|
| Begin | a broadcast copies its targets under `h.mu` |
| EnterSendRaw, PutMessage; RefuseClosed | `SendRaw` of one target, in any order (the code ranges over a map): the lock and the look at `closed`, then the send; or the refusal |
| SendSnapshot or ReadInvalid, PutReply | the same for what the reader answers (`reader[c] = "sending"`) |
| DropSlow | `UnregisterClient`, where `SendRaw` has returned false |
| RemoveClients, Close | `removeClient`: the maps, then `Close`, at once if nobody is inside that client's `SendRaw` (`Unlocked`), or later (`closing`) |

While a `Close` waits (`closing`), its caller keeps `h.mu`, and nobody else gets
it (`HubFree`); and nobody new enters the `SendRaw` of that client, as Go's
RWMutex lets no reader pass a writer that waits. The goroutine that called
`UnregisterClient` does not itself wait in the model. What it does next is one
of two: it ends, or it goes on to another client, which commutes with what those
inside `SendRaw` do. `SetWindowID` may wait for `c.mu` as well; a sender does
not look at the window. A notice is a pair of a topic (a window, or the
global one) and a number; payloads are left out. `Notify` on a full channel
adds the notice to `spilled`: a goroutine that blocks or sends on its own.
`wire` is what the writer has written to the connection: delivery beyond it is
TCP's. Ping, pong and deadlines appear as `PeerGone`, which may happen at any
time to an open connection.

### PlaylistStore

A request reads without a lock (`AddRequest`, `DeleteRequest`,
`ReorderRequest`, `UpdateRequest`), waits for the row of the window
(`LockWindow`), and runs its statements. `Measure` and `Insert` are separate
because each is a statement of its own and may fail after the other; the
statements of `Delete` and of `Reorder` are one action each, since nobody sees
anything between them: other requests wait for the row, readers see what was
committed, and a failure in the middle undoes all (`Rollback`). PostgreSQL checks
`uq_window_position` after each row of an UPDATE, in the order it visits them,
which is its own choice: so `Delete` may fail when more than one row moves.

`media` is `media_items` (`CreateMedium`, `UpdateMediumRequest` and
`UpdateMedium`, `DeleteMedium`), as far as playlists depend on it: that the row
is there, and its default duration. The foreign key refuses both the insert of
an item whose medium is gone and the deletion of a medium that an item has.
The window is created in `Init`, with a cycle or the default. The SUM that `Add`
asks the database for is the number of the seconds of all items (`Seconds`,
`TotalSeconds`), which is what its check speaks of.

### PlaybackEngine

`Calculate` with `TicksPerSecond` ticks in the place of 10^9 nanoseconds. The
behaviour asks at each tick, so that properties can speak of what a display
sees from one instant to the next. `StartOf` sums the durations as the loop of
`Calculate` does (`cumulative`); a walk over items stops at the `First` index
that meets its condition. The schedule that `FollowsSchedule` compares with is
not computed that way: it lays the playlist out second by second.

### DisplayConnection

One action is one task of the browser's event loop. `socket` is `this.socket`;
`phase` the `readyState` of each WebSocket object that is still alive, `bound`
those whose `onclose` and `onerror` the client has not taken off, so that late
events of old sockets reach the handlers they would reach. `watched` is the
window of a display, whose client is its own and dies with it; on the control
pages (`watched = NoWindow`) one client is shared, and buttons call it.

| Actions | Code (`frontend/src/websocket/client.ts`) |
|---|---|
| Connect, TimerFires | `connect` after its early return; `connect` from the timer |
| NewSocket, NoNewSocket, Schedule | the constructor of WebSocket succeeds, or throws; `scheduleReconnect` |
| Subscribe, Disconnect | `subscribe`, `disconnect` |
| Open, PeerCloses, Close (with OnClose) | `onopen` with the listeners' SUBSCRIBE; closing handshake; `onerror` and `onclose` |

### DisplayWindow

What is in force is three version numbers: the window's row, its playlist, and
the sync event, odd while one runs. An answer is the sequence of versions read
so far, so that changes fall between the reads of `CalculateAt`: it takes the
row and the playlist in one step (in the code they are two queries) and the sync
event in a later one. The locked part of `subscribeClient` and the snapshot it
sends are one step, too. `PatchWindow` stands for every change of which nobody
is told, those of media included.

| Actions | Code |
|---|---|
| PatchWindow, EditPlaylist, StartSync, EndSync | a committed change and the goroutine or call that is to announce it |
| LoseNotice, SendNotice | `notifyRefreshedPlaylist` cannot read; the hub's Notify functions |
| ReadFetch, ReadSnapshot, TakeSubscribe, RefuseSubscribe, Subscribe | `CalculateAt` for a request and for `handleInbound`; `subscribeClient` |
| Connect, Drop, Restart | a connection with its two SUBSCRIBE frames, its loss, the end of the server |
| Answer, FailFetch | the two ends of `refreshPlayback` |
| Handle: StateSnapshot, PlaylistUpdated, SyncStarted, SyncEnded | the branches of `onMessage` in `useWindowPlayback.ts` |
| TimerFires | the transition timer |

`shown`, `override`, `error` and `timer` are the state of the page; `Picture`
is what `DisplayWindow.tsx` makes of it. `failed` and `raced` record that the
run has seen a request or a SUBSCRIBE fail by itself, or an old answer shown
after a newer one: the code has no remedy for these in some states, and the
properties say in which.

### Migrator

A process looks for `schema_migrations`, creates it, and for each migration
checks, begins, executes, records and commits; `main` exits when `Up` fails,
and the runtime starts it again. `made` says of each migration whether what it
makes is there; `wrote` that an open transaction has made it. Another process
that wants the same row or relation waits (`Making`, `Recording`), as the
database has it. The five seconds that `main` gives the boot are one of the
failures. `Down` is called by tests only, with no server at work (`Alone`,
`DownRuns`; `backend/tests/database_test.go:235`). The sequences that the seed sets
forward (`000002_seed_data.up.sql:39`, `setval`) stay so after a rollback; no
property depends on them.

## What the runs check

| Run | Instance | Shows |
|---|---|---|
| `sync_instances` | 2 instances with a handler each, 1 crash, database clock behind by 1 | the advisory lock is held exactly in a transaction; one active row; one completion; refinement of `SyncOverride` |
| `sync_faults` | 1 instance, 2 handlers, 2 events, durations 1 to 3 of which 3 is refused, 1 fault, 1 crash, database clock behind by 1 | types and bounds; a claim on an active event has an owner; an announced end is recorded; no completion before `ends_at` |
| `sync_release` | 1 instance, 2 handlers, 2 events, durations 0 to 2 of which 0 is refused, 1 crash, fair | a server that is up has a timer for an active event; life of a row; the announcement of a start is followed by that of an end or of another start |
| `hub_delivery` | 2 clients, 1 window, 1 sync notice, buffer and channels of 1 | types and bounds; registered or closed, never both; the two records of a subscription agree; no channel is closed while somebody is about to send on it; no notice is lost while its client stays |
| `hub_liveness` | 1 client, 2 sync notices, fair | notices arrive, in order; dead connections leave the registry; Shutdown returns |
| `playlist_requests` | 2 requests, 3 items, 1 medium of 1 or 2 seconds, a cycle of 2 and the default of 3, 1 fault, fair | dense positions; additions fit the cycle of the moment; items keep their medium; refinement of `Playlist`; every accepted request ends |
| `engine_schedule` | all playlists of up to 3 items, also invalid ones, cycles 0, 1, 4 and 5, every half second from -1 to 12 | the item shown is that of the schedule laid out second by second; elapsed and remaining add up and are in range; no jumps |
| `client_connection` | 4 sockets alive at once, 2 windows, control page or display, 2 throws of the constructor, fair | one live socket; one way back; the right window subscribed; reconnection |
| `display_view` | 2 requests under way, an empty first playlist; 2 changes with 1 failure, lost connection or restart, or 1 change with 3, or none with 5; fair | a display that plays will look again, and ends up showing what is in force, apart from two failures that nothing tries again; without failures, an idle one too |
| `boot_migrate` | 3 processes, 2 migrations of which one seeds rows, 2 failures, 1 rollback, fair | recorded is applied; nobody serves an incomplete schema; what was deleted stays deleted; all serve in the end |

Type invariants are stated where the proofs rest on them: in `SyncService`,
`Hub` and `PlaylistStore`.

Why the bounds are enough: two handlers and a timer are the smallest number for
each race the hazards name (two Starts; Start against the completion of the
event before; Cancel against the timer; a query against both); two events give
an earlier and a later one, whose notifications may cross. While one playlist
request waits with what it has read, the other may run any number of requests
to their end, so two are enough to make any plan stale.
Two sockets let the close of an old one meet the life of a new one; four let
several such closes be late. A display's picture is set by the
last thing it heard: two requests and a queue of messages suffice for one to
overtake another, two changes for a sync event with its end, or for a change
between the reads of an answer. Failures add up: to be left with an error takes
a restart and two refused SUBSCRIBEs, which is why some behaviours have three and
five of them; 2 * changes + failures <= 5 keeps the run small (`Several`). Of three
processes that boot, two meet and the third comes late. With buffers and
channels of one, full is reached by one notice, and the
second spills. The engine's behaviour depends on sums and remainders only; the
instances hold playlists shorter than, equal to and longer than the cycle, and
cycles that divide by the playlist and that do not.
`SubscriptionsAgree` is checked with one window; the theorem has any number.
Deadlock is checked in the sync runs. It is not in the others: the hub stops
after Shutdown, a window may be deleted, the engine's instants are finite, a
display that is stopped or has nothing to wait for rests, and processes that
serve have no more to do at boot.

### Where documents and code differ

Two runs each check one sentence of a document or a comment that the code does
not keep; `PROJECT.json` quotes them under `findings`.

| Run | What happens |
|---|---|
| `sync_two_reasons` | the expiry timer and a cancellation both announce the end |
| `display_error` | a request is lost with the server; the snapshot after the reconnection leaves its error on the screen |

Neither breaks the invariants above: they are kept as runs so that a change
of the code or of the text shows. The models contain more behaviours of this
kind, for which there is no run:

* The Start of the next event completes the row of the last one
  (`sync_repo.go:107`); its timer then finds nothing to announce, and no
  SYNC_ENDED is sent for it (`CommitStart`).
* SYNC_STARTED is sent after the commit and without a lock (`sync_service.go:135`),
  so a Cancel may announce the end of the event before its start. The timer that
  Start then arms finds the claim taken and announces nothing: displays are left
  with an override that is over, until the request that the notice makes them send
  is answered, or their timer fires. Likewise for a start that is announced after
  that of a later event. `OverrideReleased` exempts these (`told.late`).
* A SUBSCRIBE that is handled after `removeClient` puts the closed client back
  among the subscribers for good (`hub.go:205`, `Subscribe`). Sends to it are refused
  (`RefuseClosed`).
* A cycle may be shortened under a playlist that then does not fit
  (`window_service.go:106`, `UpdateWindow`).
* WEBSOCKET.md gives PLAYLIST_UPDATED an array of items; the handler sends a
  `PlaylistResponse` object (`playlist_handler.go:158`), which the display
  ignores (`useWindowPlayback.ts:137`): it is up to date only when the request
  that follows is answered (`PlaylistUpdated`).
* A refresh that fails alone is not repeated: after the transition timer has
  fired nothing is armed, and the display shows the error until a notice comes
  (`FailFetch`; `"request" \in failed` in `PlayingConverges`).
* A request that is lost with the server leaves its error on the screen, too. If
  the server then cannot read the window when the display subscribes, it answers
  with an ERROR frame (`hub.go:251-255`), which the display does not act upon: it is
  not subscribed, nothing is armed, and the error stays (`RefuseSubscribe`;
  `"subscribe" \in failed` in `PlayingConverges`).
* The snapshot is read before the client is among the subscribers
  (`hub.go:251-257`), so a change in between reaches it by neither. That
  displays send SUBSCRIBE twice on a new connection, once by the client and
  once by the listener of `useWindowPlayback`, closes the gap: with one,
  `NoticesSuffice` fails.
* `onclose` clears `this.socket` whichever socket it is about
  (`client.ts:195`). `OneConnection` holds because the page offers Connect only
  when it is not connected; a call at another time, while an old socket is
  closing, would lead to two.
* A medium that was ever synced cannot be deleted (`sync_events` refers to it).
* PATCH of a medium has the lost update that PATCH of a window has
  (`UpdateMediumRequest`, `UpdateMedium`).
* `Down` beside a process that boots or serves could leave migrations recorded
  whose tables are gone; only tests call it, alone.
* Recover reads unexpired rows only (`sync_repo.go:261`), so an event that
  expired while the server was down stays `active` until the next Start or
  query, where SYNC.md says that it is reconciled on boot (`BootRead`).
* Of two Starts at once, one is told that a sync is active before any is
  (`TryLock`).
* A broadcast under way reaches a client that has changed its window
  (`Begin`, `Subscribe`, `PutMessage`); the snapshot that answers SUBSCRIBE is
  dropped when the buffer is full (`PutReply`).
* A Reorder whose plan is stale collides with an item added since, and fails
  (`InTheWay`); the compaction after a deletion may collide row by row and roll
  the deletion back (`Delete`); a PATCH writes back the cycle it read over
  another's change (`UpdateRequest`, `UpdateWindow`).
* The remaining seconds of an item ignore that the cycle may end first
  (`Remaining`).

## Fairness

* `SyncService!Fairness`: the clock advances, a handler or timer that can take a
  step takes it, an instance that is down is restarted
  (`docker-compose.yml`: `restart: unless-stopped`). Weak fairness is enough,
  as the advisory lock is only tried and never waited for. No request has to
  arrive and no fault to happen.
* `Hub!Fairness`: weak for goroutines, also for one that waits in `Close`, since
  `c.mu` lets no new reader in before it; strong for the cases of the `select` in
  `Run`: Go picks a ready case at random, so one that is ready again and again
  is taken. A peer need not stay and callers need not notify, but
  a notification that a caller has begun by the time of Shutdown comes to its end.
* `PlaylistStore!Fairness`: strong for the row lock, which PostgreSQL grants in
  the order of requests; weak for the statements after it.
* `DisplayConnection!Fairness`: timers fire and handshakes end, as the browser
  sees to; of the attempts to connect, which go on for ever, some succeeds (strong):
  the server is not down for ever.
* `DisplayWindow!Fairness`: weak for goroutines, reads, messages and the client's
  reconnection; strong for the transition timer, because the model's bound on
  requests under way, which the code does not have, can hold it back again and
  again. No change has to be made and nothing has to fail; there are finitely
  many of both.
* `Migrator!Fairness`: processes run, and one that has exited is started again.

## What is proved

Every safety property of the passing runs, invariant or action property, is the
statement of a theorem, and so are both refinements. A theorem holds for every
value of the constants that their assumptions allow: any number of requests,
instances, clients, sockets, processes and items, any bounds and capacities.
The assumptions are the `ASSUME`s of the modules, which TLC evaluates on every
run: bounds are numbers, names of different things differ, a process belongs
to an instance. Each proof module states the inductive invariant that its
theorems rest on.

`SyncServiceProofs`. `TableInv` is `TypeOK`, `LockHeldInTransaction`,
`OneActiveRow`, and what the last one needs: `NoRowInTheWay` (a request between
its check and its commit faces no active row that its own expiry update would
spare: the lock keeps others from inserting one meanwhile), `EventHasRow`,
`TimerHasRow`, `RecoveredHaveRows` and `FreshIds`. The proof follows the parts
of the state: handlers, rows, instances, counters, and steps outside the table.
Theorems `TypeCorrect`, `LockCorrect`, `AtMostOneActive`, `RowsOnlyEnd`.
On top of it, `EndInv`: the update that completes a row is also what entitles
one process to announce it (`EndPending`), whence `CompletionAnnouncedOnce`; and
`DueInv`: whoever is about to complete an event found it past its `ends_at`,
which is fixed once the row exists (`NoEarlyCompletion`). `Refinement`: every
step maps to one of `SyncOverride` or to a stutter.

`SyncClaimProofs` goes on from there.

* `AnnouncedIsRecorded` (`RecordInv`): a cancellation that is about to be
  announced is in the table already (`CancelPending`).
* `ClaimsAreOwned` (`ClaimInv`): a claim is only stored by a process that goes on
  to work on it, and every way out of that work ends the event or gives the
  claim back. Each action is shown to keep the owners of the claims it does not
  touch (`KeepsOwners`, `ClaimStep`).
* `TimerForEveryEvent`: `OneServer => ArmedWhileActive`. The hypothesis
  `OneServer` says: one instance, no failing database call, and a database clock
  that is not ahead. It is what the property is about (run `sync_release`): a
  server has no timer for another one's event, a timer whose UPDATE failed is not
  armed again, and a database that is ahead leaves out of `RecoverActiveEvents`
  a row that the server still serves. Crashes and boots are any number. It
  rests on `AtWorkIfUp` (processes at work are on a server that is up),
  `StartAlone` (the timer that a Start will arm is not at work yet) and
  `BootKnows` (a boot has read every event it has to arm a timer for).

`HubProofs`. `HubInv` adds to `TypeOK`, `ServedOrClosed` and
`SubscriptionsAgree` what makes them inductive: a client whose reader has not
started remembers no window, so registering it cannot make the records of a
subscription disagree, and one about to subscribe has a window to subscribe to
(`ReadersOK`); a worker with targets left has a message for them
(`JobsHaveMessages`). Theorems `HubTypeCorrect`, `NeverHalfRemoved`,
`OneSubscription`.

* `ClosedStaysSilent`: nobody is inside the `SendRaw` of a client that is closed.
  A step that enters `SendRaw` finds the client open and does not close it
  (`ReadersEnterOpen`, `WorkersEnterOpen`); a step that closes a client finds
  nobody inside (`Outside`, `ClosedFromOutside`): either `RemoveClients`, for those
  it closes at once, or `Close`, later.

* `NoSyncNoticeLost` (`KeptInv`): a step that serves nobody new and takes a
  notice only out of one place into another keeps it (`SafeStep`); a worker that
  holds a notice still has each member it has not reached among its targets,
  and the goroutine of a notice sends that one (`OwnNotice`).
* `NoticesInOrder` (`OrderInv`): the order in a buffer and on the wire is kept by
  the order of what comes before: what waits in the hub's channels is in order
  (`QueuesOrdered`) and later than what `Run` is sending (`TurnFirst`) and than
  what clients have (`PassedFirst`), what `Run` is sending is later than what its
  remaining targets have (`TurnLast`), and numbers grow (`Numbered`). The lemmas
  about `Ordered` sequences under Append, Tail and concatenation are general.

`PlaylistStoreProofs`. `StoreInv`: the rows take different places and none is
behind their number (`Placed`), from which `Dense` follows by counting; ids are
used in order; what a request has read is still so when it uses it
(`ReadsHold`), which for an Add is the work of the lock on the row of the
window, and for a plan that it names each item once. Theorems `TypeCorrect`,
`AlwaysDense`, `AlwaysMediaKept`, `AdditionsFit`. `Refinement`: under the
invariant one sequence, and only one, gives each row its place (`ItemFacts`),
and each transaction is an operation of `Playlist` on it.

`PlaybackEngineProofs`. The invariant only says that what is shown was
calculated; the work is in the calculation. The sums are recursive functions.
What is said of them is said of every index by its least counterexample
(`LeastNumber`, `UpTo`), and the same principle gives that the recursion defines
a function (`RecursionDefines`). `StartOfNext` is the recurrence, `EndsBeforeStart`
its monotonicity, so each instant of a valid playlist has one owner
(`SomeOwner`, `OneOwner`), which is why the error at the end of `Calculate` is
unreachable (`WalkFindsItem`). `AllLaidOut` relates the ticks of the code to the
seconds of the reference, and `UnitsWithin` their remainders, for
`AlwaysOnSchedule`. `ElapsedAndRemaining` gives `AlwaysAddUp`; `NextPlace`, with
the two ends of the playlist and of an item, `AlwaysSeamless`. `ItemsAssumption`
and `CycleAssumption` say that durations, positions and cycles are integers,
negative ones and 0 included.

`DisplayConnectionProofs`. `ClientInv`: `OneWayBack` and `SubscribedToWanted` with
what makes them inductive. Only the socket in use has the client's handlers
(`OwnHandlers`) and only it may be live (`OnlyOwnLives`): `onclose`, which does
not ask which socket it is about, is right for that reason. Until `onclose`
comes, the badge keeps the connect button of a control page away from a socket
that is closing (`InUse`). Theorems `AlwaysOneWayBack`, `AlwaysSubscribed`,
`AtMostOneConnection`.

`DisplayWindowProofs`. `DisplayInv`: every branch that puts a medium on the screen
sets the timer or asks, and a timer that goes off asks (`LooksInv`). A display
that shows nothing yet is covered as well, so what is shown must be an answer
read to its end: that needs the types of what is on the wire, in the hands of
the server and in the slots (`AnswersOK`, `MessagesOK`).

`MigratorProofs`. `MigratorInv`: nobody is at work beside a call of `Down`
(`DownAlone`); Up has behind it what is recorded, Down what is not
(`PassedDone`); what a process would commit leaves its migration applied, and nobody
else commits the same one (`AllKnow`, `OneCommits`); what was deleted was
recorded (`RemovedRecorded`). Theorems `AlwaysApplied`, `ServesWhole`,
`RemovedNotMade`.

Only model-checked: liveness (`OverrideReleased`, `SyncDelivered`,
`GoneIsRemoved`, `ShutdownEnds`, `RequestEnds`, `Reconnects`, `PlayingConverges`,
`NoticesSuffice`, `AllServe`), which the provers do not support, and the two
runs that expect a violation.

## Not modelled

* The clock offset of the client, the local progress ticker, the player of
  videos, forms and lists of the control pages: they set nothing that other
  parts read.
* The draining of HTTP requests at shutdown, health checks, decoding of requests.
* Displays under more than one server instance: `SyncService` has any number of
  instances, but a notice that another instance sends is one that `DisplayWindow`
  leaves out.
* Payloads, JSON, wording, logging, configuration, CORS, rendering, styles,
  scripts and images: no behaviour to check.
* The database is external: transactions, row locks, the advisory lock and
  constraints are modelled as the code relies on them, at PostgreSQL's default
  isolation (READ COMMITTED).

## Plan

1. Core: `SyncOverride`, `SyncService`, its proofs (done).
2. `Hub`, `Playlist` and `PlaylistStore`, `PlaybackEngine`; `HubProofs` for the
   registry, subscriptions and closed channels (done).
3. `DisplayConnection`, `DisplayWindow`, `Migrator`; media and windows in
   `PlaylistStore` (done, checked).
4. Proofs of every safety property and of both refinements (done).
5. The safety core of the liveness properties: what must hold for each of them
   at every step, as an invariant with a proof (what is left).
