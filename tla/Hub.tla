--------------------------------- MODULE Hub ---------------------------------
(***************************************************************************)
(* The WebSocket hub: ws.Hub, ws.Client and the handler that joins them.   *)
(*                                                                         *)
(* Processes: the reader and the writer goroutine of each connection, the  *)
(* Run loop, the goroutine started for each notice that finds its channel  *)
(* full, the callers of the Notify functions, and Shutdown.  An action is  *)
(* one critical section of h.mu, or one channel operation.  What a         *)
(* goroutine read under the lock may be stale when it uses it.  SendRaw    *)
(* holds c.mu from its look at `closed` to the send.  Close waits for it,  *)
(* and keeps h.mu meanwhile.                                               *)
(***************************************************************************)
EXTENDS Integers, Sequences, FiniteSets

CONSTANTS Clients,      \* connections, each made once
          Windows,      \* display windows that exist
          NoWindow,     \* subscribedWindowID = 0
          Global,       \* topic of SYNC_STARTED and SYNC_ENDED
          TimeSync, Reply, \* messages that are not notices
          RunLoop,      \* the goroutine of Hub.Run
          NoClient, NoMessage,
          SendBuffer,   \* capacity of Client.send (64 in the code)
          ChannelSize,  \* capacity of broadcast and globalBroadcast (128)
          MaxNotices    \* bound: notices published, by topic

Topics == Windows \cup {Global}
Notices == UNION {{t} \X (1..MaxNotices[t]) : t \in Topics}
Messages == Notices \cup {TimeSync, Reply}
Workers == {RunLoop} \cup Notices

ASSUME NamesAssumption ==
    /\ Global \notin Windows /\ NoWindow \notin Windows /\ NoClient \notin Clients
    /\ NoMessage \notin Messages /\ RunLoop \notin Notices
ASSUME MessagesAssumption ==
    /\ {TimeSync, Reply} \cap Notices = {} /\ TimeSync # Reply
ASSUME BoundsAssumption ==
    /\ SendBuffer \in Nat \ {0} /\ ChannelSize \in Nat
    /\ MaxNotices \in [Topics -> Nat]

VARIABLES members,   \* h.clients
          subs,      \* h.windowClients
          stopped,   \* h.stopped
          stop,      \* h.stop is closed
          shutdown,  \* where the caller of Shutdown is
          queue,     \* h.broadcast and h.globalBroadcast
          late,      \* topics of Notify calls that Shutdown overtakes
          published, \* by topic: notices put in the channel or handed over
          spilled,   \* notices handed to a goroutine, the channel being full
          starting,  \* those whose goroutine has yet to copy its targets
          run,       \* the Run loop: "select", "exited"
          job,       \* what each worker is sending; `at`: it is inside that client's
                     \* SendRaw, `slow`: that client has refused the message
          window,    \* c.subscribedWindowID
          closing,   \* clients whose Close waits for c.mu, h.mu being held
          closed,    \* clients whose send channel is closed
          send,      \* c.send
          reader, wish, \* readPump: where it is, the window it looked up
          writer,    \* writePump
          socket,    \* the connection: "none", "open", "closed"
          wire,      \* notices written to the peer
          joined     \* global notices published before the client registered

registry == <<members, subs, window, closing, closed>>
lifecycle == <<stopped, stop, shutdown>>
notifying == <<queue, late, published, spilled, starting>>
sending == <<run, job>>
sockets == <<reader, wish, writer, socket>>
vars == <<registry, lifecycle, notifying, sending, send, sockets, wire, joined>>

Channels == {"window", "global"}
ChannelOf(t) == IF t = Global THEN "global" ELSE "window"

NoJob == [msg |-> NoMessage, todo |-> {}, at |-> NoClient, slow |-> NoClient]

-----------------------------------------------------------------------------
Init ==
    /\ members = {} /\ subs = [w \in Windows |-> {}]
    /\ window = [c \in Clients |-> NoWindow] /\ closing = {} /\ closed = {}
    /\ stopped = FALSE /\ stop = FALSE /\ shutdown = "no"
    /\ queue = [q \in Channels |-> <<>>]
    /\ late = {} /\ published = [t \in Topics |-> 0]
    /\ spilled = {} /\ starting = {}
    /\ run = "select" /\ job = [p \in Workers |-> NoJob]
    /\ send = [c \in Clients |-> <<>>]
    /\ reader = [c \in Clients |-> "none"] /\ wish = [c \in Clients |-> NoWindow]
    /\ writer = [c \in Clients |-> "none"] /\ socket = [c \in Clients |-> "none"]
    /\ wire = [c \in Clients |-> <<>>] /\ joined = [c \in Clients |-> 0]

(* Slip: the length of the buffer is not looked at.                        *)
Endless(c) == TRUE

(* The send of SendRaw, which finds room in the buffer or gives up.        *)
HasRoom(c) == Len(send[c]) < SendBuffer
Put(c, m) == send' = IF HasRoom(c) THEN [send EXCEPT ![c] = Append(@, m)] ELSE send

(* Slip: SendRaw looks at `closed` and unlocks before it sends.            *)
UnlockedEarly(c) == TRUE

(* Nobody is inside SendRaw: c.mu can be taken for writing.                *)
Unlocked(c) == reader[c] # "sending" /\ \A p \in Workers : job[p].at # c

(* h.mu is free, unless its holder waits for c.mu.                         *)
HubFree == closing = {}

(* removeClient, for a set of clients: out of its window's subscribers and *)
(* of the registry, its send channel closed now or when c.mu is free.      *)
RemoveClients(C) ==
    /\ HubFree
    /\ members' = members \ C
    /\ subs' = [w \in Windows |-> subs[w] \ {c \in C : window[c] = w}]
    /\ closing' = {c \in C : ~Unlocked(c)}
    /\ closed' = closed \cup {c \in C : Unlocked(c)}
    /\ UNCHANGED window

Close(c) ==
    /\ c \in closing /\ Unlocked(c)
    /\ closing' = closing \ {c} /\ closed' = closed \cup {c}
    /\ UNCHANGED <<members, subs, window, lifecycle, notifying, sending, send, sockets, wire,
                   joined>>

(* UnregisterClient does nothing for a client that is not registered.  Who *)
(* calls it waits for Close; what it does then is independent of those who *)
(* hold c.mu, so it need not wait here.                                    *)
Unregister(c) ==
    /\ HubFree
    /\ IF c \in members THEN RemoveClients({c}) ELSE UNCHANGED registry

-----------------------------------------------------------------------------
(* A connection: ServeWS, then its two pumps                               *)

(* ServeWS finds the hub running and upgrades the connection.              *)
Upgrade(c) ==
    /\ reader[c] = "none" /\ socket[c] = "none"
    /\ ~stopped
    /\ socket' = [socket EXCEPT ![c] = "open"]
    /\ UNCHANGED <<registry, lifecycle, notifying, sending, send, reader, wish, writer, wire,
                   joined>>

(* Slip: RegisterClient trusts the check that ServeWS made.                *)
RegisterUnchecked(c) ==
    /\ reader[c] = "none" /\ socket[c] # "none"
    /\ HubFree
    /\ members' = members \cup {c}
    /\ joined' = [joined EXCEPT ![c] = published[Global]]
    /\ reader' = [reader EXCEPT ![c] = "reading"]
    /\ writer' = [writer EXCEPT ![c] = "running"]
    /\ UNCHANGED <<subs, window, closing, closed, lifecycle, notifying, sending, send, wish,
                   socket, wire>>

(* RegisterClient, which looks at `stopped` again, and the two pumps.      *)
Register(c) ==
    /\ reader[c] = "none" /\ socket[c] # "none"
    /\ HubFree
    /\ IF stopped
       THEN Unlocked(c) /\ closed' = closed \cup {c} /\ UNCHANGED members
       ELSE members' = members \cup {c} /\ UNCHANGED closed
    /\ joined' = [joined EXCEPT ![c] = published[Global]]
    /\ reader' = [reader EXCEPT ![c] = "reading"]
    /\ writer' = [writer EXCEPT ![c] = "running"]
    /\ UNCHANGED <<subs, window, closing, lifecycle, notifying, sending, send, wish, socket,
                   wire>>

(* The peer goes away, or a deadline of the connection passes.             *)
PeerGone(c) ==
    /\ socket[c] = "open"
    /\ socket' = [socket EXCEPT ![c] = "closed"]
    /\ UNCHANGED <<registry, lifecycle, notifying, sending, send, reader, wish, writer, wire,
                   joined>>

(* Malformed JSON, an unknown type, an invalid or unknown window.          *)
(* The reader answers at once: a closed client refuses, which nobody sees. *)
ReadInvalid(c) ==
    /\ reader[c] = "reading" /\ socket[c] = "open"
    /\ c \notin closing \cup closed
    /\ reader' = [reader EXCEPT ![c] = "sending"]
    /\ UNCHANGED <<registry, lifecycle, notifying, sending, send, wish, writer, socket, wire,
                   joined>>

(* SUBSCRIBE: the window and its playback are read, with no lock held.     *)
ReadSubscribe(c, w) ==
    /\ reader[c] = "reading" /\ socket[c] = "open"
    /\ reader' = [reader EXCEPT ![c] = "subscribing"]
    /\ wish' = [wish EXCEPT ![c] = w]
    /\ UNCHANGED <<registry, lifecycle, notifying, sending, send, writer, socket, wire, joined>>

(* Slip: the hub keeps the window of a client, the client itself does not. *)
SubscribeHubOnly(c) ==
    /\ reader[c] = "subscribing"
    /\ HubFree
    /\ IF stopped
       THEN reader' = [reader EXCEPT ![c] = "reading"] /\ UNCHANGED registry
       ELSE /\ subs' = [subs EXCEPT ![wish[c]] = @ \cup {c}]
            /\ reader' = [reader EXCEPT ![c] = "replying"]
            /\ UNCHANGED <<members, closing, closed, window>>
    /\ wish' = [wish EXCEPT ![c] = NoWindow]
    /\ UNCHANGED <<lifecycle, notifying, sending, send, writer, socket, wire, joined>>

(* The locked part of subscribeClient.  SetWindowID may have to wait for   *)
(* c.mu as well; who is inside SendRaw then does not look at the window.   *)
Subscribe(c) ==
    /\ reader[c] = "subscribing"
    /\ HubFree
    /\ IF stopped
       THEN reader' = [reader EXCEPT ![c] = "reading"] /\ UNCHANGED registry
       ELSE /\ subs' = [w \in Windows |-> IF w = wish[c] THEN subs[w] \cup {c}
                                          ELSE IF w = window[c] THEN subs[w] \ {c}
                                          ELSE subs[w]]
            /\ window' = [window EXCEPT ![c] = wish[c]]
            /\ reader' = [reader EXCEPT ![c] = "replying"]
            /\ UNCHANGED <<members, closing, closed>>
    /\ wish' = [wish EXCEPT ![c] = NoWindow]
    /\ UNCHANGED <<lifecycle, notifying, sending, send, writer, socket, wire, joined>>

(* The snapshot, sent once h.mu is free; nobody looks at the result.       *)
SendSnapshot(c) ==
    /\ reader[c] = "replying" /\ c \notin closing
    /\ reader' = [reader EXCEPT ![c] = IF c \in closed THEN "reading" ELSE "sending"]
    /\ UNCHANGED <<registry, lifecycle, notifying, sending, send, wish, writer, socket, wire,
                   joined>>

PutReply(c) ==
    /\ reader[c] = "sending"
    /\ Put(c, Reply)
    /\ reader' = [reader EXCEPT ![c] = "reading"]
    /\ UNCHANGED <<registry, lifecycle, notifying, sending, wish, writer, socket, wire, joined>>

(* Slip: the reader ends without unregistering its client.                 *)
ExitRegistered(c) ==
    /\ reader[c] = "reading" /\ socket[c] = "closed"
    /\ reader' = [reader EXCEPT ![c] = "exited"]
    /\ UNCHANGED <<registry, lifecycle, notifying, sending, send, wish, writer, socket, wire,
                   joined>>

(* A read fails: the deferred UnregisterClient, then the connection closes.*)
ReaderExit(c) ==
    /\ reader[c] = "reading" /\ socket[c] = "closed"
    /\ Unregister(c)
    /\ reader' = [reader EXCEPT ![c] = "exited"]
    /\ UNCHANGED <<lifecycle, notifying, sending, send, wish, writer, socket, wire, joined>>

WriteMessage(c) ==
    /\ writer[c] = "running" /\ socket[c] = "open"
    /\ send[c] # <<>>
    /\ send' = [send EXCEPT ![c] = Tail(@)]
    /\ wire' = IF Head(send[c]) \in Notices
               THEN [wire EXCEPT ![c] = Append(@, Head(send[c]))] ELSE wire
    /\ UNCHANGED <<registry, lifecycle, notifying, sending, sockets, joined>>

(* A drained, closed channel, or a write or a ping that fails: writePump   *)
(* closes the connection, which ends the reader.                           *)
WriterExit(c) ==
    /\ writer[c] = "running"
    /\ (c \in closed /\ send[c] = <<>>) \/ socket[c] = "closed"
    /\ writer' = [writer EXCEPT ![c] = "exited"]
    /\ socket' = [socket EXCEPT ![c] = "closed"]
    /\ UNCHANGED <<registry, lifecycle, notifying, sending, send, reader, wish, wire, joined>>

-----------------------------------------------------------------------------
(* NotifyPlaylistUpdated, NotifySyncStarted, NotifySyncEnded               *)

(* Slip: a notice that finds its channel full is dropped.                  *)
DropWhenFull(t) ==
    /\ published[t] < MaxNotices[t]
    /\ ~stopped \/ t \in late
    /\ late' = late \ {t}
    /\ published' = [published EXCEPT ![t] = @ + 1]
    /\ queue' = IF Len(queue[ChannelOf(t)]) < ChannelSize
                THEN [queue EXCEPT ![ChannelOf(t)] = Append(@, <<t, published[t] + 1>>)]
                ELSE queue
    /\ UNCHANGED <<registry, lifecycle, spilled, starting, sending, send, sockets, wire, joined>>

(* Either the hub is running, or the caller found it running before        *)
(* Shutdown took the lock.  The notice goes into the channel, or to a      *)
(* goroutine of its own if that is full.                                   *)
Notify(t) ==
    /\ published[t] < MaxNotices[t]
    /\ ~stopped \/ t \in late
    /\ late' = late \ {t}
    /\ published' = [published EXCEPT ![t] = @ + 1]
    /\ LET n == <<t, published[t] + 1>> IN
       IF Len(queue[ChannelOf(t)]) < ChannelSize
       THEN /\ queue' = [queue EXCEPT ![ChannelOf(t)] = Append(@, n)]
            /\ UNCHANGED <<spilled, starting>>
       ELSE /\ spilled' = spilled \cup {n} /\ starting' = starting \cup {n}
            /\ UNCHANGED queue
    /\ UNCHANGED <<registry, lifecycle, sending, send, sockets, wire, joined>>

-----------------------------------------------------------------------------
(* Broadcasts: of the Run loop, and of the goroutines                      *)

(* The clients a message is for, copied while the lock is held.            *)
Targets(m) == CASE m = TimeSync -> {c \in members : window[c] # NoWindow}
                [] m[1] = Global -> members
                [] OTHER -> subs[m[1]]

(* A broadcast is over when its last target is served.                     *)
Job(m, C, c) ==
    IF C = {} /\ c = NoClient THEN NoJob
    ELSE [msg |-> m, todo |-> C, at |-> NoClient, slow |-> c]
Begin(p, m) ==
    /\ HubFree
    /\ job' = [job EXCEPT ![p] = Job(m, Targets(m), NoClient)]

AtSelect == run = "select" /\ job[RunLoop] = NoJob

(* Slip: the Run loop starts a goroutine for every notice.                 *)
TakeAside(q) ==
    /\ AtSelect
    /\ queue[q] # <<>>
    /\ queue' = [queue EXCEPT ![q] = Tail(@)]
    /\ starting' = starting \cup {Head(queue[q])}
    /\ UNCHANGED <<registry, lifecycle, late, published, spilled, sending, send, sockets, wire,
                   joined>>

TakeNotice(q) ==
    /\ AtSelect
    /\ queue[q] # <<>>
    /\ queue' = [queue EXCEPT ![q] = Tail(@)]
    /\ Begin(RunLoop, Head(queue[q]))
    /\ UNCHANGED <<registry, lifecycle, late, published, spilled, starting, run, send, sockets,
                   wire, joined>>

TakeTick ==
    /\ AtSelect
    /\ Begin(RunLoop, TimeSync)
    /\ UNCHANGED <<registry, lifecycle, notifying, run, send, sockets, wire, joined>>

StartSpilled(n) ==
    /\ n \in starting
    /\ starting' = starting \ {n}
    /\ Begin(n, n)
    /\ UNCHANGED <<registry, lifecycle, queue, late, published, spilled, run, send, sockets,
                   wire, joined>>

(* SendRaw takes c.mu for reading, after a Close that waits for it, and    *)
(* finds the client open, ...                                              *)
EnterSendRaw(p, c) ==
    /\ c \in job[p].todo /\ job[p].at = NoClient /\ job[p].slow = NoClient
    /\ c \notin closing \cup closed
    /\ job' = [job EXCEPT ![p].at = c]
    /\ UNCHANGED <<registry, lifecycle, notifying, run, send, sockets, wire, joined>>

(* ... or closed, which it refuses.                                        *)
RefuseClosed(p, c) ==
    /\ c \in job[p].todo /\ job[p].at = NoClient /\ job[p].slow = NoClient
    /\ c \in closed
    /\ job' = [job EXCEPT ![p] = Job(@.msg, @.todo \ {c}, c)]
    /\ UNCHANGED <<registry, lifecycle, notifying, run, send, sockets, wire, joined>>

PutMessage(p) ==
    LET c == job[p].at IN
    /\ c # NoClient
    /\ Put(c, job[p].msg)
    /\ job' = [job EXCEPT ![p] = Job(@.msg, @.todo \ {c}, IF HasRoom(c) THEN NoClient ELSE c)]
    /\ UNCHANGED <<registry, lifecycle, notifying, run, sockets, wire, joined>>

(* Slip: a slow client stays registered.                                   *)
KeepSlow(p) ==
    /\ job[p].slow # NoClient
    /\ job' = [job EXCEPT ![p] = Job(@.msg, @.todo, NoClient)]
    /\ UNCHANGED <<registry, lifecycle, notifying, run, send, sockets, wire, joined>>

(* SendRaw refused the message: UnregisterClient.                          *)
DropSlow(p) ==
    /\ job[p].slow # NoClient
    /\ Unregister(job[p].slow)
    /\ job' = [job EXCEPT ![p] = Job(@.msg, @.todo, NoClient)]
    /\ UNCHANGED <<lifecycle, notifying, run, send, sockets, wire, joined>>

-----------------------------------------------------------------------------
(* Shutdown                                                                *)

Unpublished == {t \in Topics : published[t] < MaxNotices[t]}

(* Slip: the stop channel is not closed.                                   *)
ShutdownUnsignalled ==
    /\ ~stopped
    /\ late' \in SUBSET Unpublished
    /\ stopped' = TRUE /\ shutdown' = "waiting"
    /\ RemoveClients(members)
    /\ UNCHANGED <<stop, queue, published, spilled, starting, sending, send, sockets, wire,
                   joined>>

(* Under the lock: the flag, the stop channel and every client.  Callers   *)
(* of a Notify function may be between their check and the channel.        *)
Shutdown ==
    /\ ~stopped
    /\ late' \in SUBSET Unpublished
    /\ stopped' = TRUE /\ stop' = TRUE /\ shutdown' = "waiting"
    /\ RemoveClients(members)
    /\ UNCHANGED <<queue, published, spilled, starting, sending, send, sockets, wire, joined>>

StopRun ==
    /\ AtSelect /\ stop
    /\ run' = "exited"
    /\ UNCHANGED <<registry, lifecycle, notifying, job, send, sockets, wire, joined>>

ShutdownReturns ==
    /\ shutdown = "waiting" /\ run = "exited" /\ HubFree
    /\ shutdown' = "returned"
    /\ UNCHANGED <<registry, stopped, stop, notifying, sending, send, sockets, wire, joined>>

-----------------------------------------------------------------------------
ReaderStep(c) ==
    Register(c) \/ Subscribe(c) \/ SendSnapshot(c) \/ PutReply(c) \/ ReaderExit(c)
WriterStep(c) == WriteMessage(c) \/ WriterExit(c)
WorkerStep(p) ==
    \/ \E c \in Clients : EnterSendRaw(p, c) \/ RefuseClosed(p, c)
    \/ PutMessage(p) \/ DropSlow(p)

Next ==
    \/ \E c \in Clients :
          \/ Upgrade(c) \/ PeerGone(c) \/ ReadInvalid(c)
          \/ \E w \in Windows : ReadSubscribe(c, w)
          \/ ReaderStep(c) \/ WriterStep(c) \/ Close(c)
    \/ \E t \in Topics : Notify(t)
    \/ \E p \in Workers : WorkerStep(p)
    \/ \E q \in Channels : TakeNotice(q)
    \/ \E n \in Notices : StartSpilled(n)
    \/ TakeTick \/ StopRun
    \/ Shutdown \/ ShutdownReturns

Spec == Init /\ [][Next]_vars

(* Go schedules every goroutine that can run.  The Run loop chooses at     *)
(* random among the cases that are ready, so it does not pass over one     *)
(* that is ready again and again.  Peers, requests and the shutdown signal *)
(* come when they like.                                                    *)
Fairness ==
    /\ \A c \in Clients : WF_vars(ReaderStep(c)) /\ WF_vars(WriterStep(c)) /\ WF_vars(Close(c))
    /\ \A t \in Topics : WF_vars(stopped /\ Notify(t))
    /\ \A p \in Workers : WF_vars(WorkerStep(p))
    /\ \A n \in Notices : WF_vars(StartSpilled(n))
    /\ \A q \in Channels : SF_vars(TakeNotice(q))
    /\ SF_vars(StopRun) /\ WF_vars(ShutdownReturns)

FairSpec == Spec /\ Fairness

-----------------------------------------------------------------------------
(* Properties                                                              *)

(* The registry, the buffers and the channels hold only what belongs in    *)
(* them; no buffer and no channel is ever over its capacity.               *)
TypeOK ==
    /\ members \subseteq Clients /\ closing \subseteq Clients /\ closed \subseteq Clients
    /\ subs \in [Windows -> SUBSET Clients]
    /\ window \in [Clients -> Windows \cup {NoWindow}]
    /\ stopped \in BOOLEAN /\ stop \in BOOLEAN
    /\ shutdown \in {"no", "waiting", "returned"}
    /\ queue \in [Channels -> Seq(Notices)]
    /\ \A q \in Channels : Len(queue[q]) <= ChannelSize
    /\ late \subseteq Topics
    /\ published \in [Topics -> Nat]
    /\ \A t \in Topics : published[t] <= MaxNotices[t]
    /\ spilled \subseteq Notices /\ starting \subseteq spilled
    /\ run \in {"select", "exited"}
    /\ job \in [Workers -> [msg : Notices \cup {TimeSync, NoMessage}, todo : SUBSET Clients,
                            at : Clients \cup {NoClient}, slow : Clients \cup {NoClient}]]
    /\ send \in [Clients -> Seq(Messages)]
    /\ \A c \in Clients : Len(send[c]) <= SendBuffer
    /\ reader \in [Clients -> {"none", "reading", "subscribing", "replying",
                            "sending", "exited"}]
    /\ wish \in [Clients -> Windows \cup {NoWindow}]
    /\ writer \in [Clients -> {"none", "running", "exited"}]
    /\ socket \in [Clients -> {"none", "open", "closed"}]
    /\ wire \in [Clients -> Seq(Notices)]
    /\ joined \in [Clients -> 0..MaxNotices[Global]]

(* A connection that is served is registered, or else its client has been  *)
(* closed, or is being closed: never both, never neither, and none is left *)
(* after Shutdown.                                                         *)
ServedOrClosed ==
    /\ \A c \in Clients : reader[c] # "none" => (c \in members <=> c \notin closing \cup closed)
    /\ members \cup closing \cup closed \subseteq {c \in Clients : reader[c] # "none"}
    /\ stopped => members = {}

(* The two records of a subscription agree, whatever a client subscribes   *)
(* to and whoever removes it: it is in one set of subscribers at most.     *)
SubscriptionsAgree ==
    /\ \A c \in Clients, w \in Windows : c \in subs[w] => window[c] = w
    /\ \A c \in members : window[c] # NoWindow => c \in subs[window[c]]

(* No goroutine is about to send on a channel that somebody has closed     *)
(* since it looked: the send would panic, and with it the whole server.    *)
NoSendOnClosed ==
    \A c \in closed : reader[c] # "sending" /\ \A p \in Workers : job[p].at # c

(* A sync notice published while a client was registered has reached it,   *)
(* is in its buffer, or is still held by a channel or by a worker that     *)
(* has the client among its targets: as long as the client stays.          *)
Elements(s) == {s[i] : i \in DOMAIN s}
Underway(n, c) ==
    \/ n \in Elements(queue["global"]) \cup starting
    \/ \E p \in Workers : job[p].msg = n /\ (c \in job[p].todo \/ c = job[p].slow)
NoticeKept ==
    \A c \in members : socket[c] = "open" =>
        \A n \in (joined[c] + 1)..published[Global] :
            \/ <<Global, n>> \in Elements(wire[c]) \cup Elements(send[c])
            \/ Underway(<<Global, n>>, c)

(* A client gets the notices of a topic once each and in the order they    *)
(* were published, apart from those that met a full channel.               *)
InOrder ==
    \A c \in Clients :
        LET s == wire[c] \o send[c] IN
        \A i, j \in DOMAIN s :
            i < j /\ {s[i], s[j]} \subseteq Notices \ spilled /\ s[i][1] = s[j][1]
                => s[i][2] < s[j][2]

(* A sync notice reaches every client that was registered when it was      *)
(* published, or the client's connection ends.                             *)
SyncDelivered ==
    \A c \in Clients, n \in 1..MaxNotices[Global] :
        c \in members /\ joined[c] < n /\ n <= published[Global]
            ~> <<Global, n>> \in Elements(wire[c]) \/ c \notin members

(* A connection that is gone is unregistered.                              *)
GoneIsRemoved ==
    \A c \in Clients : socket[c] = "closed" /\ reader[c] # "none" ~> c \notin members

(* Shutdown returns: the Run loop always comes back to its select.         *)
ShutdownEnds == stopped ~> shutdown = "returned"

=============================================================================
