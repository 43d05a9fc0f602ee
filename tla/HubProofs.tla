------------------------------ MODULE HubProofs ------------------------------
(***************************************************************************)
(* Proofs about Hub, for any number of clients, windows and notices and    *)
(* any capacity of buffers and channels.                                   *)
(***************************************************************************)
EXTENDS Hub, TLAPS

(* TypeOK, by the parts of the state.                                      *)
RegistryOK ==
    /\ members \subseteq Clients /\ closing \subseteq Clients /\ closed \subseteq Clients
    /\ subs \in [Windows -> SUBSET Clients]
    /\ window \in [Clients -> Windows \cup {NoWindow}]
    /\ stopped \in BOOLEAN /\ stop \in BOOLEAN
    /\ shutdown \in {"no", "waiting", "returned"}
NotifyingOK ==
    /\ queue \in [Channels -> Seq(Notices)]
    /\ \A q \in Channels : Len(queue[q]) <= ChannelSize
    /\ late \subseteq Topics
    /\ published \in [Topics -> Nat]
    /\ \A t \in Topics : published[t] <= MaxNotices[t]
    /\ spilled \subseteq Notices /\ starting \subseteq spilled
Jobs == [msg : Notices \cup {TimeSync, NoMessage}, todo : SUBSET Clients,
         at : Clients \cup {NoClient}, slow : Clients \cup {NoClient}]
SendingOK == run \in {"select", "exited"} /\ job \in [Workers -> Jobs]
BuffersOK ==
    /\ send \in [Clients -> Seq(Messages)]
    /\ \A c \in Clients : Len(send[c]) <= SendBuffer
    /\ wire \in [Clients -> Seq(Notices)]
    /\ joined \in [Clients -> 0..MaxNotices[Global]]
SocketsOK ==
    /\ reader \in [Clients -> {"none", "reading", "subscribing", "replying", "sending",
                            "exited"}]
    /\ wish \in [Clients -> Windows \cup {NoWindow}]
    /\ writer \in [Clients -> {"none", "running", "exited"}]
    /\ socket \in [Clients -> {"none", "open", "closed"}]

(* A client whose reader has not started has no window; one that is about  *)
(* to subscribe has one to subscribe to.                                   *)
ReadersOK ==
    \A c \in Clients : /\ reader[c] = "none" => window[c] = NoWindow
                       /\ reader[c] = "subscribing" => wish[c] \in Windows

(* A worker with a client left to serve has a message for it, is inside    *)
(* the SendRaw of no other client, and has dealt with one that refused.    *)
JobsHaveMessages ==
    \A p \in Workers : /\ job[p].todo # {} => job[p].msg \in Messages
                       /\ job[p].at \in job[p].todo \cup {NoClient}
                       /\ job[p].at = NoClient \/ job[p].slow = NoClient

HubInv ==
    /\ TypeOK
    /\ ReadersOK
    /\ JobsHaveMessages
    /\ ServedOrClosed
    /\ SubscriptionsAgree

-----------------------------------------------------------------------------
(* TypeOK is the conjunction of its parts.                                 *)
LEMMA TypeParts ==
    TypeOK <=> RegistryOK /\ NotifyingOK /\ SendingOK /\ BuffersOK /\ SocketsOK
  BY DEF TypeOK, RegistryOK, NotifyingOK, SendingOK, Jobs, BuffersOK, SocketsOK

(* The hub starts empty.                                                   *)
LEMMA HubInvInit == Init => HubInv
<1> SUFFICES ASSUME Init PROVE HubInv
  OBVIOUS
<1>1. RegistryOK
  BY DEF Init, RegistryOK
<1>2. NotifyingOK
  BY BoundsAssumption DEF Init, NotifyingOK, Channels, Topics
<1>3. SendingOK
  BY DEF Init, SendingOK, Jobs, NoJob
<1>4. BuffersOK
  BY BoundsAssumption DEF Init, BuffersOK, Topics
<1>5. SocketsOK
  BY DEF Init, SocketsOK
<1>6. ReadersOK /\ ServedOrClosed /\ SubscriptionsAgree
  BY NamesAssumption DEF Init, ReadersOK, ServedOrClosed, SubscriptionsAgree
<1>7. JobsHaveMessages
  BY DEF Init, JobsHaveMessages, NoJob
<1> QED
  BY <1>1, <1>2, <1>3, <1>4, <1>5, <1>6, <1>7, TypeParts DEF HubInv
-----------------------------------------------------------------------------
(* removeClient, for clients that are being served.                        *)
RegistryInv == RegistryOK /\ SocketsOK /\ ReadersOK /\ ServedOrClosed /\ SubscriptionsAgree

LEMMA Removal ==
    ASSUME RegistryInv, NEW C \in SUBSET members, RemoveClients(C),
           UNCHANGED <<wish, writer, socket>>, SocketsOK',
           \A c \in Clients : reader'[c] = reader[c] \/ (reader'[c] = "exited" /\ reader[c] # "none"),
           stopped' = stopped \/ (stopped' = TRUE /\ C = members),
           stop' \in BOOLEAN, shutdown' \in {"no", "waiting", "returned"}
    PROVE  RegistryInv'
<1> USE DEF RegistryInv, RemoveClients
<1>1. RegistryOK'
  BY DEF RegistryOK
<1>2. ReadersOK'
  BY DEF ReadersOK, SocketsOK
<1>3. ServedOrClosed'
  <2>1. members' = members \ C /\ closing' \cup closed' = closing \cup closed \cup C
    <3>1. /\ members' = members \ C /\ closing = {}
          /\ closing' = {c \in C : ~Unlocked(c)} /\ closed' = closed \cup {c \in C : Unlocked(c)}
      BY DEF HubFree
    <3> HIDE DEF RemoveClients
    <3> QED
      BY <3>1
  <2>2. \A c \in Clients : c \in closing' \cup closed' <=> c \in closing \cup closed \/ c \in C
    BY <2>1
  <2>3. closing' \cup closed' \subseteq {c \in Clients : reader'[c] # "none"}
    BY <2>1 DEF ServedOrClosed, RegistryOK
  <2>4. \A c \in Clients : reader'[c] # "none" <=> reader[c] # "none"
    OBVIOUS
  <2> HIDE DEF RemoveClients
  <2> QED
    BY <2>1, <2>2, <2>3, <2>4 DEF ServedOrClosed, RegistryOK
<1>4. SubscriptionsAgree'
  BY DEF SubscriptionsAgree, RegistryOK
<1> QED
  BY <1>1, <1>2, <1>3, <1>4

(* UnregisterClient, of a client that may be gone.                         *)
LEMMA Unregistration ==
    ASSUME RegistryInv, NEW c \in Clients, Unregister(c), UNCHANGED lifecycle,
           UNCHANGED <<wish, writer, socket>>, SocketsOK',
           \A d \in Clients : reader'[d] = reader[d] \/ (reader'[d] = "exited" /\ reader[d] # "none")
    PROVE  RegistryInv'
<1>1. CASE c \in members
  <2>1. stop' \in BOOLEAN /\ shutdown' \in {"no", "waiting", "returned"} /\ stopped' = stopped
    BY DEF lifecycle, RegistryInv, RegistryOK
  <2> QED
    BY <1>1, <2>1, Removal DEF Unregister
<1>2. CASE c \notin members
  BY <1>2 DEF Unregister, registry, lifecycle, RegistryInv, RegistryOK, ReadersOK, SocketsOK,
              ServedOrClosed, SubscriptionsAgree
<1> QED
  BY <1>1, <1>2

-----------------------------------------------------------------------------
(* What each step does to the pumps and their sockets keeps their types.   *)
LEMMA SocketsNext == ASSUME SocketsOK, Next PROVE SocketsOK'
<1> USE DEF SocketsOK, sockets
<1>1. ASSUME NEW c \in Clients, Upgrade(c) \/ PeerGone(c) \/ ReadInvalid(c) \/ Close(c)
      PROVE  SocketsOK'
  BY <1>1 DEF Upgrade, PeerGone, ReadInvalid, Close
<1>2. ASSUME NEW c \in Clients, NEW w \in Windows, ReadSubscribe(c, w) PROVE SocketsOK'
  BY <1>2 DEF ReadSubscribe
<1>3. ASSUME NEW c \in Clients, ReaderStep(c) PROVE SocketsOK'
  BY <1>3 DEF ReaderStep, Register, Subscribe, SendSnapshot, PutReply, ReaderExit
<1>4. ASSUME NEW c \in Clients, WriterStep(c) PROVE SocketsOK'
  BY <1>4 DEF WriterStep, WriteMessage, WriterExit
<1>5. ASSUME NEW t \in Topics, Notify(t) PROVE SocketsOK'
  BY <1>5 DEF Notify
<1>6. ASSUME NEW p \in Workers, WorkerStep(p) PROVE SocketsOK'
  BY <1>6 DEF WorkerStep, EnterSendRaw, RefuseClosed, PutMessage, DropSlow
<1>7. CASE \/ \E q \in Channels : TakeNotice(q)
           \/ \E n \in Notices : StartSpilled(n)
           \/ TakeTick \/ StopRun \/ Shutdown \/ ShutdownReturns
  BY <1>7 DEF TakeNotice, StartSpilled, TakeTick, StopRun, Shutdown, ShutdownReturns
<1> QED
  BY <1>1, <1>2, <1>3, <1>4, <1>5, <1>6, <1>7 DEF Next

(* The two records of a subscription, through a SUBSCRIBE.                 *)
LEMMA SubscribeRegistry ==
    ASSUME RegistryInv, SocketsOK', NEW c \in Clients, Subscribe(c) PROVE RegistryInv'
<1> USE DEF RegistryInv
<1>1. CASE stopped
  BY <1>1 DEF Subscribe, registry, lifecycle, RegistryOK, SocketsOK, ReadersOK, ServedOrClosed,
              SubscriptionsAgree
<1>2. CASE ~stopped
  <2> DEFINE v == wish[c]
  <2>0. v \in Windows /\ v # NoWindow
    BY NamesAssumption DEF Subscribe, ReadersOK
  <2>1. /\ subs' = [w \in Windows |-> IF w = v THEN subs[w] \cup {c}
                                     ELSE IF w = window[c] THEN subs[w] \ {c} ELSE subs[w]]
        /\ window' = [window EXCEPT ![c] = v]
        /\ reader' = [reader EXCEPT ![c] = "replying"] /\ reader[c] = "subscribing"
        /\ members' = members /\ closing' = closing /\ closed' = closed
        /\ wish' = [wish EXCEPT ![c] = NoWindow]
        /\ UNCHANGED <<stopped, stop, shutdown>>
    BY <1>2 DEF Subscribe, lifecycle
  <2> HIDE DEF v
  <2>2. RegistryOK'
    BY <2>0, <2>1 DEF RegistryOK
  <2>3. ReadersOK'
    BY <2>1 DEF ReadersOK, SocketsOK, RegistryOK
  <2>4. ServedOrClosed'
    BY <2>1 DEF ServedOrClosed, SocketsOK
  <2>5. SubscriptionsAgree'
    BY <2>0, <2>1 DEF SubscriptionsAgree, RegistryOK
  <2> QED
    BY <2>2, <2>3, <2>4, <2>5
<1> QED
  BY <1>1, <1>2

(* A new client is registered, or closed if the hub has been stopped.      *)
LEMMA RegisterRegistry ==
    ASSUME RegistryInv, SocketsOK', NEW c \in Clients, Register(c) PROVE RegistryInv'
<1> USE DEF RegistryInv, Register, lifecycle
<1>1. RegistryOK'
  BY DEF RegistryOK
<1>2. ReadersOK'
  BY DEF ReadersOK, SocketsOK
<1>3. ServedOrClosed'
  BY DEF ServedOrClosed, SocketsOK
<1>4. SubscriptionsAgree'
  BY DEF SubscriptionsAgree, ReadersOK
<1> QED
  BY <1>1, <1>2, <1>3, <1>4

(* A client that is being closed is closed.                                *)
LEMMA CloseRegistry ==
    ASSUME RegistryInv, NEW c \in Clients, Close(c) PROVE RegistryInv'
<1> USE DEF RegistryInv, Close, lifecycle, sockets
<1>1. RegistryOK' /\ SocketsOK'
  BY DEF RegistryOK, SocketsOK
<1>2. ReadersOK' /\ SubscriptionsAgree'
  BY DEF ReadersOK, SubscriptionsAgree
<1>3. ServedOrClosed'
  BY DEF ServedOrClosed
<1> QED
  BY <1>1, <1>2, <1>3

(* A step that leaves the registry alone, and starts no reader.            *)
LEMMA RegistryFrame ==
    ASSUME RegistryInv, SocketsOK', UNCHANGED <<registry, stopped>>,
           stop' \in BOOLEAN, shutdown' \in {"no", "waiting", "returned"},
           \A c \in Clients : reader'[c] = "none" <=> reader[c] = "none",
           \A c \in Clients : reader'[c] = "subscribing" => wish'[c] \in Windows
    PROVE  RegistryInv'
  BY DEF RegistryInv, registry, RegistryOK, ReadersOK, ServedOrClosed, SubscriptionsAgree

(* Every step keeps the registry and the subscriptions in order.           *)
LEMMA RegistryNext ==
    ASSUME RegistryInv, SendingOK, Next PROVE RegistryInv'
<1>0. SocketsOK'
  BY SocketsNext DEF RegistryInv
<1>a. /\ stop \in BOOLEAN /\ shutdown \in {"no", "waiting", "returned"}
      /\ \A c \in Clients : reader[c] = "subscribing" => wish[c] \in Windows
  BY DEF RegistryInv, RegistryOK, ReadersOK
<1>1. ASSUME NEW c \in Clients,
             Upgrade(c) \/ PeerGone(c) \/ WriterStep(c)
      PROVE  RegistryInv'
  BY <1>0, <1>1, <1>a, RegistryFrame
     DEF Upgrade, PeerGone, WriterStep, WriteMessage, WriterExit, lifecycle, sockets
<1>2. ASSUME NEW c \in Clients, NEW w \in Windows, ReadSubscribe(c, w) PROVE RegistryInv'
  BY <1>0, <1>2, <1>a, RegistryFrame DEF ReadSubscribe, lifecycle, RegistryInv, SocketsOK
<1>3. ASSUME NEW c \in Clients, Register(c) PROVE RegistryInv'
  BY <1>0, <1>3, RegisterRegistry
<1>4. ASSUME NEW c \in Clients, Subscribe(c) PROVE RegistryInv'
  BY <1>0, <1>4, SubscribeRegistry
<1>5. ASSUME NEW c \in Clients, ReadInvalid(c) \/ SendSnapshot(c) \/ PutReply(c)
      PROVE  RegistryInv'
  BY <1>0, <1>5, <1>a, RegistryFrame
     DEF ReadInvalid, SendSnapshot, PutReply, lifecycle, RegistryInv, SocketsOK
<1>10. ASSUME NEW c \in Clients, Close(c) PROVE RegistryInv'
  BY <1>10, CloseRegistry
<1>6. ASSUME NEW c \in Clients, ReaderExit(c) PROVE RegistryInv'
  <2>1. \A d \in Clients : reader'[d] = reader[d] \/ (reader'[d] = "exited" /\ reader[d] # "none")
    BY <1>6 DEF ReaderExit, RegistryInv, SocketsOK
  <2>2. Unregister(c) /\ UNCHANGED <<wish, writer, socket, lifecycle>>
    BY <1>6 DEF ReaderExit
  <2> QED
    BY <1>0, <2>1, <2>2, Unregistration
<1>7. ASSUME NEW p \in Workers, DropSlow(p) PROVE RegistryInv'
  <2>1. job[p].slow \in Clients
    BY <1>7 DEF DropSlow, SendingOK, Jobs
  <2>2. Unregister(job[p].slow) /\ UNCHANGED <<reader, wish, writer, socket, lifecycle>>
    BY <1>7 DEF DropSlow, sockets
  <2> QED
    BY <1>0, <2>1, <2>2, Unregistration
<1>8. CASE Shutdown
  <2>1. /\ RemoveClients(members) /\ stopped' = TRUE /\ stop' = TRUE /\ shutdown' = "waiting"
        /\ UNCHANGED <<reader, wish, writer, socket>>
    BY <1>8 DEF Shutdown, sockets
  <2> QED
    BY <1>0, <2>1, Removal
<1>9. CASE \/ \E t \in Topics : Notify(t)
           \/ \E p \in Workers, c \in Clients : EnterSendRaw(p, c) \/ RefuseClosed(p, c)
           \/ \E p \in Workers : PutMessage(p)
           \/ \E q \in Channels : TakeNotice(q)
           \/ \E n \in Notices : StartSpilled(n)
           \/ TakeTick \/ StopRun \/ ShutdownReturns
  BY <1>0, <1>9, <1>a, RegistryFrame
     DEF Notify, EnterSendRaw, RefuseClosed, PutMessage, TakeNotice, StartSpilled, TakeTick, StopRun,
         ShutdownReturns, lifecycle, sockets
<1> QED
  BY <1>1, <1>2, <1>3, <1>4, <1>5, <1>6, <1>7, <1>8, <1>9, <1>10
     DEF Next, ReaderStep, WorkerStep

-----------------------------------------------------------------------------
(* A notice is a message about a topic, and neither a tick nor nothing.    *)
LEMMA NoticeFacts ==
    /\ Global \in Topics /\ Channels = {"window", "global"}
    /\ \A t \in Topics : ChannelOf(t) \in Channels
    /\ \A t \in Topics : \A k \in 1..MaxNotices[t] : <<t, k>> \in Notices
    /\ \A n \in Notices : n[1] \in Topics /\ n \in Messages /\ n \in Workers /\ n # TimeSync
    /\ RunLoop \in Workers /\ {TimeSync, Reply} \subseteq Messages
  BY MessagesAssumption DEF Topics, Channels, ChannelOf, Notices, Messages, Workers

(* Publishing puts the next notice in its channel or hands it over; the    *)
(* channels keep to their capacity.                                        *)
LEMMA NotifyingNext ==
    ASSUME NotifyingOK, Next PROVE NotifyingOK'
<1> USE DEF NotifyingOK, notifying
<1>1. ASSUME NEW t \in Topics, Notify(t) PROVE NotifyingOK'
  <2> DEFINE n == <<t, published[t] + 1>>
             q == ChannelOf(t)
  <2>0. /\ published[t] < MaxNotices[t] /\ late' = late \ {t}
        /\ published' = [published EXCEPT ![t] = published[t] + 1]
    BY <1>1 DEF Notify
  <2>1. q \in Channels
    BY NoticeFacts
  <2>a. published[t] \in Nat /\ MaxNotices[t] \in Nat
    BY BoundsAssumption
  <2>b. published[t] + 1 \in 1..MaxNotices[t]
    BY <2>0, <2>a
  <2>c. n \in Notices
    BY <2>b, NoticeFacts
  <2>2. /\ published' \in [Topics -> Nat]
        /\ \A u \in Topics : published'[u] <= MaxNotices[u]
        /\ late' \subseteq Topics
    BY <2>0, <2>a
  <2>3. CASE Len(queue[q]) < ChannelSize
    <3>1. queue' = [queue EXCEPT ![q] = Append(@, n)] /\ UNCHANGED <<spilled, starting>>
      BY <1>1, <2>3 DEF Notify
    <3>2. Append(queue[q], n) \in Seq(Notices) /\ Len(Append(queue[q], n)) <= ChannelSize
      BY <2>1, <2>c, <2>3, BoundsAssumption
    <3> QED
      BY <2>1, <2>2, <3>1, <3>2
  <2>4. CASE ~(Len(queue[q]) < ChannelSize)
    BY <1>1, <2>1, <2>c, <2>2, <2>4 DEF Notify
  <2> QED
    BY <2>3, <2>4
<1>2. ASSUME NEW q \in Channels, TakeNotice(q) PROVE NotifyingOK'
  <2>1. Tail(queue[q]) \in Seq(Notices) /\ Len(Tail(queue[q])) <= ChannelSize
    BY <1>2, BoundsAssumption DEF TakeNotice
  <2> QED
    BY <1>2, <2>1 DEF TakeNotice
<1>3. CASE Shutdown
  BY <1>3 DEF Shutdown, Unpublished
<1>4. ASSUME NEW n \in Notices, StartSpilled(n) PROVE NotifyingOK'
  BY <1>4 DEF StartSpilled
<1>5. ASSUME NEW c \in Clients,
             \/ Upgrade(c) \/ PeerGone(c) \/ ReadInvalid(c) \/ Close(c)
             \/ \E w \in Windows : ReadSubscribe(c, w)
             \/ ReaderStep(c) \/ WriterStep(c)
      PROVE  NotifyingOK'
  BY <1>5 DEF Upgrade, PeerGone, ReadInvalid, Close, ReadSubscribe, ReaderStep, Register, Subscribe,
              SendSnapshot, PutReply, ReaderExit, WriterStep, WriteMessage, WriterExit
<1>6. ASSUME NEW p \in Workers, WorkerStep(p) PROVE NotifyingOK'
  BY <1>6 DEF WorkerStep, EnterSendRaw, RefuseClosed, PutMessage, DropSlow
<1>7. CASE TakeTick \/ StopRun \/ ShutdownReturns
  BY <1>7 DEF TakeTick, StopRun, ShutdownReturns
<1> HIDE DEF NotifyingOK, notifying
<1> QED
  BY <1>1, <1>2, <1>3, <1>4, <1>5, <1>6, <1>7 DEF Next

-----------------------------------------------------------------------------
(* The targets of a message are clients.                                   *)
LEMMA TargetsAreClients ==
    ASSUME RegistryOK, NEW m \in Notices \cup {TimeSync} PROVE Targets(m) \subseteq Clients
<1>1. CASE m = TimeSync
  BY <1>1 DEF Targets, RegistryOK
<1>2. CASE m # TimeSync /\ m[1] = Global
  BY <1>2 DEF Targets, RegistryOK
<1>3. CASE m # TimeSync /\ m[1] # Global
  <2>1. m[1] \in Windows
    BY <1>3, NoticeFacts DEF Topics
  <2> QED
    BY <1>3, <2>1 DEF Targets, RegistryOK
<1> QED
  BY <1>1, <1>2, <1>3

SendingInv == SendingOK /\ JobsHaveMessages

(* A worker begins a broadcast.                                            *)
LEMMA BeginTyped ==
    ASSUME SendingInv, RegistryOK, NEW p \in Workers, NEW m \in Notices \cup {TimeSync},
           Begin(p, m), run' = run
    PROVE  SendingInv'
<1>1. Targets(m) \in SUBSET Clients /\ m \in Messages
  BY TargetsAreClients, NoticeFacts
<1>2. job' = [job EXCEPT ![p] = Job(m, Targets(m), NoClient)]
  BY DEF Begin
<1>3. Job(m, Targets(m), NoClient) \in Jobs
  BY <1>1 DEF Job, Jobs, NoJob
<1>4. /\ Job(m, Targets(m), NoClient).todo # {} => Job(m, Targets(m), NoClient).msg \in Messages
      /\ Job(m, Targets(m), NoClient).at = NoClient
  BY <1>1 DEF Job, NoJob
<1> QED
  BY <1>2, <1>3, <1>4 DEF SendingInv, SendingOK, JobsHaveMessages

(* A worker goes on with its broadcast.                                    *)
LEMMA JobTyped ==
    ASSUME SendingInv, NEW p \in Workers, NEW C \in SUBSET job[p].todo,
           NEW d \in Clients \cup {NoClient}, run' = run,
           job' = [job EXCEPT ![p] = Job(job[p].msg, C, d)]
    PROVE  SendingInv'
<1> DEFINE j == Job(job[p].msg, C, d)
<1>1. j \in Jobs
  BY DEF Job, Jobs, NoJob, SendingInv, SendingOK
<1>2. (j.todo # {} => j.msg \in Messages) /\ j.at = NoClient
  BY DEF Job, NoJob, SendingInv, JobsHaveMessages
<1>3. job' = [job EXCEPT ![p] = j]
  OBVIOUS
<1> HIDE DEF j
<1> QED
  BY <1>1, <1>2, <1>3 DEF SendingInv, SendingOK, JobsHaveMessages

(* Every step keeps what the workers are sending well typed.               *)
LEMMA SendingNext ==
    ASSUME SendingInv, RegistryOK, NotifyingOK, Next PROVE SendingInv'
<1>1. ASSUME NEW p \in Workers, NEW c \in Clients, RefuseClosed(p, c) PROVE SendingInv'
  <2>1. job' = [job EXCEPT ![p] = Job(job[p].msg, job[p].todo \ {c}, c)] /\ run' = run
    BY <1>1 DEF RefuseClosed
  <2> QED
    BY <2>1, JobTyped
<1>9. ASSUME NEW p \in Workers, PutMessage(p) PROVE SendingInv'
  <2> DEFINE c == job[p].at
             d == IF HasRoom(c) THEN NoClient ELSE c
             C == job[p].todo \ {c}
  <2>1. job' = [job EXCEPT ![p] = Job(job[p].msg, C, d)] /\ run' = run
    BY <1>9 DEF PutMessage
  <2>2. C \in SUBSET job[p].todo /\ d \in Clients \cup {NoClient}
    BY DEF SendingInv, SendingOK, Jobs
  <2> HIDE DEF C, d
  <2> QED
    BY <2>1, <2>2, JobTyped
<1>10. ASSUME NEW p \in Workers, NEW c \in Clients, EnterSendRaw(p, c) PROVE SendingInv'
  <2>1. /\ job \in [Workers -> Jobs] /\ c \in job[p].todo /\ job' = [job EXCEPT ![p].at = c] /\ run' = run
        /\ job[p].slow = NoClient
    BY <1>10 DEF EnterSendRaw, SendingInv, SendingOK
  <2>2. job' \in [Workers -> Jobs]
    BY <2>1 DEF Jobs
  <2>3. JobsHaveMessages'
    BY <2>1 DEF SendingInv, JobsHaveMessages, Jobs
  <2> QED
    BY <2>1, <2>2, <2>3 DEF SendingInv, SendingOK
<1>2. ASSUME NEW p \in Workers, DropSlow(p) PROVE SendingInv'
  <2>1. job' = [job EXCEPT ![p] = Job(job[p].msg, job[p].todo, NoClient)] /\ run' = run
    BY <1>2 DEF DropSlow
  <2> QED
    BY <2>1, JobTyped
<1>3. ASSUME NEW q \in Channels, TakeNotice(q) PROVE SendingInv'
  <2>1. Head(queue[q]) \in Notices
    BY <1>3 DEF TakeNotice, NotifyingOK
  <2> QED
    BY <1>3, <2>1, BeginTyped, NoticeFacts DEF TakeNotice
<1>4. ASSUME NEW n \in Notices, StartSpilled(n) PROVE SendingInv'
  BY <1>4, BeginTyped, NoticeFacts DEF StartSpilled
<1>5. CASE TakeTick
  BY <1>5, BeginTyped, NoticeFacts DEF TakeTick
<1>6. ASSUME NEW c \in Clients,
             \/ Upgrade(c) \/ PeerGone(c) \/ ReadInvalid(c) \/ Close(c)
             \/ \E w \in Windows : ReadSubscribe(c, w)
             \/ ReaderStep(c) \/ WriterStep(c)
      PROVE  SendingInv'
  BY <1>6 DEF Upgrade, PeerGone, ReadInvalid, Close, ReadSubscribe, ReaderStep, Register, Subscribe,
              SendSnapshot, PutReply, ReaderExit, WriterStep, WriteMessage, WriterExit, sending, SendingInv,
              SendingOK, JobsHaveMessages
<1>7. ASSUME NEW t \in Topics, Notify(t) PROVE SendingInv'
  BY <1>7 DEF Notify, sending, SendingInv, SendingOK, JobsHaveMessages
<1>8. CASE StopRun \/ Shutdown \/ ShutdownReturns
  BY <1>8 DEF StopRun, Shutdown, ShutdownReturns, sending, SendingInv, SendingOK, JobsHaveMessages
<1> QED
  BY <1>1, <1>2, <1>3, <1>4, <1>5, <1>6, <1>7, <1>8, <1>9, <1>10 DEF Next, WorkerStep

-----------------------------------------------------------------------------
(* The send of SendRaw keeps to the capacity.                              *)
LEMMA PutTyped ==
    ASSUME BuffersOK, NEW c \in Clients, NEW m \in Messages, Put(c, m),
           UNCHANGED <<wire, joined>>
    PROVE  BuffersOK'
<1>1. CASE HasRoom(c)
  <2>1. Append(send[c], m) \in Seq(Messages) /\ Len(Append(send[c], m)) <= SendBuffer
    BY <1>1, BoundsAssumption DEF HasRoom, BuffersOK
  <2>2. send' = [send EXCEPT ![c] = Append(@, m)]
    BY <1>1 DEF Put
  <2> QED
    BY <2>1, <2>2 DEF BuffersOK
<1>2. CASE ~HasRoom(c)
  BY <1>2 DEF Put, BuffersOK
<1> QED
  BY <1>1, <1>2

(* Every step keeps the buffers and what was written well typed.           *)
LEMMA BuffersNext ==
    ASSUME BuffersOK, SendingInv, NotifyingOK, Next PROVE BuffersOK'
<1>1. ASSUME NEW c \in Clients, PutReply(c) PROVE BuffersOK'
  BY <1>1, PutTyped, NoticeFacts DEF PutReply
<1>2. ASSUME NEW p \in Workers, PutMessage(p) PROVE BuffersOK'
  <2>1. job[p].at \in Clients /\ job[p].msg \in Messages
    BY <1>2 DEF PutMessage, SendingInv, SendingOK, Jobs, JobsHaveMessages
  <2> QED
    BY <1>2, <2>1, PutTyped DEF PutMessage
<1>3. ASSUME NEW c \in Clients, WriteMessage(c) PROVE BuffersOK'
  <2>1. /\ Tail(send[c]) \in Seq(Messages) /\ Len(Tail(send[c])) <= SendBuffer
        /\ Head(send[c]) \in Messages
    BY <1>3, BoundsAssumption DEF WriteMessage, BuffersOK
  <2>2. Head(send[c]) \in Notices => Append(wire[c], Head(send[c])) \in Seq(Notices)
    BY <2>1 DEF BuffersOK
  <2> QED
    BY <1>3, <2>1, <2>2 DEF WriteMessage, BuffersOK
<1>5. ASSUME NEW c \in Clients, Register(c) PROVE BuffersOK'
  <2>1. published[Global] \in 0..MaxNotices[Global]
    BY NoticeFacts, BoundsAssumption DEF NotifyingOK
  <2> QED
    BY <1>5, <2>1 DEF Register, BuffersOK
<1>6. ASSUME UNCHANGED <<send, wire, joined>> PROVE BuffersOK'
  BY <1>6 DEF BuffersOK
<1>7. ASSUME NEW c \in Clients,
             \/ Upgrade(c) \/ PeerGone(c) \/ \E w \in Windows : ReadSubscribe(c, w)
             \/ ReadInvalid(c) \/ Subscribe(c) \/ SendSnapshot(c) \/ ReaderExit(c)
             \/ WriterExit(c) \/ Close(c)
      PROVE  BuffersOK'
  BY <1>6, <1>7 DEF Upgrade, PeerGone, ReadSubscribe, ReadInvalid, Subscribe, SendSnapshot,
                    ReaderExit, WriterExit, Close, sockets
<1>8. ASSUME NEW p \in Workers,
             DropSlow(p) \/ \E c \in Clients : EnterSendRaw(p, c) \/ RefuseClosed(p, c)
      PROVE  BuffersOK'
  BY <1>6, <1>8 DEF DropSlow, EnterSendRaw, RefuseClosed
<1>9. CASE \/ \E t \in Topics : Notify(t)
           \/ \E q \in Channels : TakeNotice(q)
           \/ \E n \in Notices : StartSpilled(n)
           \/ TakeTick \/ StopRun \/ Shutdown \/ ShutdownReturns
  BY <1>6, <1>9 DEF Notify, TakeNotice, StartSpilled, TakeTick, StopRun, Shutdown, ShutdownReturns
<1> QED
  BY <1>1, <1>2, <1>3, <1>5, <1>7, <1>8, <1>9
     DEF Next, ReaderStep, WriterStep, WorkerStep

-----------------------------------------------------------------------------
(* The invariant is inductive.                                             *)
LEMMA HubInvNext == HubInv /\ [Next]_vars => HubInv'
<1> SUFFICES ASSUME HubInv, [Next]_vars PROVE HubInv'
  OBVIOUS
<1>0. RegistryInv /\ NotifyingOK /\ SendingInv /\ BuffersOK
  BY TypeParts DEF HubInv, RegistryInv, SendingInv
<1>1. CASE Next
  <2>1. RegistryInv' /\ NotifyingOK' /\ SendingInv' /\ BuffersOK'
    BY <1>0, <1>1, RegistryNext, NotifyingNext, SendingNext, BuffersNext
       DEF RegistryInv, SendingInv
  <2>2. TypeOK'
    BY <2>1 DEF RegistryInv, SendingInv, TypeOK, RegistryOK, NotifyingOK, SendingOK, Jobs,
                BuffersOK, SocketsOK
  <2> QED
    BY <2>1, <2>2 DEF HubInv, RegistryInv, SendingInv
<1>2. CASE UNCHANGED vars
  BY <1>2 DEF vars, registry, lifecycle, notifying, sending, sockets, HubInv, TypeOK, ReadersOK,
              JobsHaveMessages, ServedOrClosed, SubscriptionsAgree
<1> QED
  BY <1>1, <1>2

(* All of it holds in every reachable state.                               *)
LEMMA HubInvHolds == Spec => []HubInv
<1> QED
  BY HubInvInit, HubInvNext, PTL DEF Spec

(* The registry, the buffers, the channels and the workers hold what       *)
(* belongs in them, and no more than their capacity, for any capacity.     *)
THEOREM HubTypeCorrect == Spec => []TypeOK
<1>1. HubInv => TypeOK
  BY DEF HubInv
<1> QED
  BY <1>1, HubInvHolds, PTL

(* Whoever removes a client, and whenever: one that is served is either    *)
(* registered or closed, and after Shutdown none is registered.            *)
THEOREM NeverHalfRemoved == Spec => []ServedOrClosed
<1>1. HubInv => ServedOrClosed
  BY DEF HubInv
<1> QED
  BY <1>1, HubInvHolds, PTL

(* The window a client remembers and the sets of subscribers agree.        *)
THEOREM OneSubscription == Spec => []SubscriptionsAgree
<1>1. HubInv => SubscriptionsAgree
  BY DEF HubInv
<1> QED
  BY <1>1, HubInvHolds, PTL

(* Nobody is inside the SendRaw of a client when it is closed.             *)
Outside(c) == reader[c] # "sending" /\ \A p \in Workers : job[p].at # c

LEMMA ClosedFromOutside ==
    ASSUME HubInv, NoSendOnClosed, Next PROVE \A c \in closed' : Outside(c)
<1>0. /\ \A c \in closed : Outside(c)
      /\ \A c : Unlocked(c) => Outside(c)
  BY DEF NoSendOnClosed, Outside, Unlocked
<1>1. CASE UNCHANGED closed
  BY <1>0, <1>1
<1>2. ASSUME NEW C, RemoveClients(C) PROVE \A c \in closed' : Outside(c)
  BY <1>0, <1>2 DEF RemoveClients
<1>3. ASSUME NEW c, Unregister(c) PROVE \A d \in closed' : Outside(d)
  BY <1>1, <1>2, <1>3 DEF Unregister, registry
<1>4. ASSUME NEW c \in Clients, ReaderExit(c) PROVE \A d \in closed' : Outside(d)
  BY <1>3, <1>4 DEF ReaderExit
<1>5. ASSUME NEW p \in Workers, DropSlow(p) PROVE \A c \in closed' : Outside(c)
  BY <1>3, <1>5 DEF DropSlow
<1>6. CASE Shutdown
  BY <1>2, <1>6 DEF Shutdown
<1>7. ASSUME NEW c \in Clients, Close(c) \/ Register(c) PROVE \A d \in closed' : Outside(d)
  BY <1>0, <1>7 DEF Close, Register
<1>8. ASSUME NEW c \in Clients,
             \/ Upgrade(c) \/ PeerGone(c) \/ \E w \in Windows : ReadSubscribe(c, w)
             \/ ReadInvalid(c) \/ Subscribe(c) \/ SendSnapshot(c) \/ PutReply(c) \/ WriterStep(c)
      PROVE  \A d \in closed' : Outside(d)
  BY <1>1, <1>8 DEF Upgrade, PeerGone, ReadSubscribe, ReadInvalid, Subscribe, SendSnapshot, PutReply,
                    WriterStep, WriteMessage, WriterExit, registry
<1>9. ASSUME NEW p \in Workers,
             PutMessage(p) \/ \E c \in Clients : EnterSendRaw(p, c) \/ RefuseClosed(p, c)
      PROVE  \A c \in closed' : Outside(c)
  BY <1>1, <1>9 DEF PutMessage, EnterSendRaw, RefuseClosed, registry
<1>10. CASE \/ \E t \in Topics : Notify(t)
            \/ \E q \in Channels : TakeNotice(q)
            \/ \E n \in Notices : StartSpilled(n)
            \/ TakeTick \/ StopRun \/ ShutdownReturns
  BY <1>1, <1>10 DEF Notify, TakeNotice, StartSpilled, TakeTick, StopRun, ShutdownReturns, registry
<1> QED
  BY <1>4, <1>5, <1>6, <1>7, <1>8, <1>9, <1>10 DEF Next, ReaderStep, WorkerStep

(* Who comes to be inside finds the client open.                           *)
LEMMA ReadersEnterOpen ==
    ASSUME HubInv, Next, NEW c \in Clients, reader'[c] = "sending", reader[c] # "sending"
    PROVE  c \notin closed'
<1>0. reader \in [Clients -> {"none", "reading", "subscribing", "replying", "sending", "exited"}]
  BY TypeParts DEF HubInv, SocketsOK
<1>1. ASSUME NEW d \in Clients, ReadInvalid(d) \/ SendSnapshot(d) PROVE c \notin closed'
  BY <1>0, <1>1 DEF ReadInvalid, SendSnapshot, registry
<1>2. ASSUME NEW d \in Clients,
             \/ Upgrade(d) \/ PeerGone(d) \/ \E w \in Windows : ReadSubscribe(d, w)
             \/ Register(d) \/ Subscribe(d) \/ PutReply(d) \/ ReaderExit(d)
             \/ WriterStep(d) \/ Close(d)
      PROVE  FALSE
  BY <1>0, <1>2 DEF Upgrade, PeerGone, ReadSubscribe, Register, Subscribe, PutReply, ReaderExit,
                    WriterStep, WriteMessage, WriterExit, Close, sockets
<1>3. ASSUME UNCHANGED reader PROVE FALSE
  BY <1>0, <1>3
<1>4. ASSUME NEW p \in Workers, WorkerStep(p) PROVE FALSE
  BY <1>3, <1>4 DEF WorkerStep, EnterSendRaw, RefuseClosed, PutMessage, DropSlow, sockets
<1>5. ASSUME \/ \E t \in Topics : Notify(t)
             \/ \E q \in Channels : TakeNotice(q)
             \/ \E n \in Notices : StartSpilled(n)
             \/ TakeTick \/ StopRun \/ Shutdown \/ ShutdownReturns
      PROVE  FALSE
  BY <1>3, <1>5 DEF Notify, TakeNotice, StartSpilled, TakeTick, StopRun, Shutdown, ShutdownReturns, sockets
<1> QED
  BY <1>1, <1>2, <1>4, <1>5 DEF Next, ReaderStep

LEMMA WorkersEnterOpen ==
    ASSUME HubInv, Next, NEW p \in Workers, NEW c \in Clients, job'[p].at = c, job[p].at # c
    PROVE  c \notin closed'
<1>0. job \in [Workers -> Jobs] /\ c # NoClient
  BY TypeParts, NamesAssumption DEF HubInv, SendingOK
<1>1. ASSUME NEW q \in Workers, NEW m, NEW C, NEW s, job' = [job EXCEPT ![q] = Job(m, C, s)]
      PROVE  FALSE
  <2>1. Job(m, C, s).at = NoClient
    BY DEF Job, NoJob
  <2> QED
    BY <1>0, <1>1, <2>1
<1>2. ASSUME NEW q \in Workers, NEW d \in Clients, EnterSendRaw(q, d) PROVE c \notin closed'
  <2>1. job' = [job EXCEPT ![q].at = d] /\ d \notin closed'
    BY <1>2 DEF EnterSendRaw, registry
  <2>2. p = q /\ c = d
    BY <1>0, <2>1 DEF Jobs
  <2> QED
    BY <2>1, <2>2
<1>3. ASSUME NEW q \in Workers,
             PutMessage(q) \/ DropSlow(q) \/ \E d \in Clients : RefuseClosed(q, d)
      PROVE  FALSE
  <2>1. \E m, C, s : job' = [job EXCEPT ![q] = Job(m, C, s)]
    <3>1. CASE PutMessage(q)
      BY <3>1 DEF PutMessage
    <3>2. CASE DropSlow(q)
      BY <3>2 DEF DropSlow
    <3>3. ASSUME NEW d \in Clients, RefuseClosed(q, d)
          PROVE  \E m, C, s : job' = [job EXCEPT ![q] = Job(m, C, s)]
      BY <3>3 DEF RefuseClosed
    <3> QED
      BY <1>3, <3>1, <3>2, <3>3
  <2> QED
    BY <1>1, <2>1
<1>4. ASSUME \/ \E q \in Channels : TakeNotice(q)
             \/ \E n \in Notices : StartSpilled(n)
             \/ TakeTick
      PROVE  FALSE
  BY <1>1, <1>4, NoticeFacts DEF TakeNotice, StartSpilled, TakeTick, Begin
<1>5. ASSUME UNCHANGED job PROVE FALSE
  BY <1>5
<1>6. ASSUME NEW d \in Clients,
             \/ Upgrade(d) \/ PeerGone(d) \/ ReadInvalid(d) \/ Close(d)
             \/ \E w \in Windows : ReadSubscribe(d, w)
             \/ ReaderStep(d) \/ WriterStep(d)
      PROVE  FALSE
  BY <1>5, <1>6 DEF Upgrade, PeerGone, ReadInvalid, Close, ReadSubscribe, ReaderStep, Register, Subscribe,
     SendSnapshot, PutReply, ReaderExit, WriterStep, WriteMessage, WriterExit, sending
<1>7. ASSUME (\E t \in Topics : Notify(t)) \/ StopRun \/ Shutdown \/ ShutdownReturns PROVE FALSE
  BY <1>5, <1>7 DEF Notify, StopRun, Shutdown, ShutdownReturns, sending
<1> QED
  BY <1>2, <1>3, <1>4, <1>6, <1>7 DEF Next, WorkerStep

(* Who is inside the SendRaw of a client holds its c.mu: it is not closed  *)
(* meanwhile, and who comes later finds it closed.                         *)
LEMMA SilentNext ==
    ASSUME HubInv, NoSendOnClosed, [Next]_vars PROVE NoSendOnClosed'
<1>1. CASE Next
  <2>1. closed' \subseteq Clients
    BY <1>1, HubInvNext, TypeParts DEF HubInv, TypeOK
  <2>2. SUFFICES ASSUME NEW c \in closed'
                 PROVE  reader'[c] # "sending" /\ \A p \in Workers : job'[p].at # c
    BY DEF NoSendOnClosed
  <2>3. Outside(c)
    BY <1>1, ClosedFromOutside
  <2> QED
    BY <1>1, <2>1, <2>3, ReadersEnterOpen, WorkersEnterOpen DEF Outside
<1>2. CASE UNCHANGED vars
  BY <1>2 DEF vars, registry, sockets, sending, NoSendOnClosed
<1> QED
  BY <1>1, <1>2

(* A goroutine that is about to send finds the channel open, whoever       *)
(* closes clients meanwhile: SendRaw keeps c.mu from its look at the flag  *)
(* to the send, and Close waits for it.                                    *)
THEOREM ClosedStaysSilent == Spec => []NoSendOnClosed
<1>1. Init => NoSendOnClosed
  BY DEF Init, NoSendOnClosed
<1>2. HubInv /\ NoSendOnClosed /\ [Next]_vars => NoSendOnClosed'
  BY SilentNext
<1> QED
  BY <1>1, <1>2, HubInvHolds, PTL DEF Spec

-----------------------------------------------------------------------------
(* What a buffer or a channel holds, as messages come and go.              *)
LEMMA ElementsAppend ==
    ASSUME NEW S, NEW s \in Seq(S), NEW x
    PROVE  Elements(Append(s, x)) = Elements(s) \cup {x}
<1>1. DOMAIN Append(s, x) = DOMAIN s \cup {Len(s) + 1} /\ DOMAIN s = 1..Len(s) /\ Len(s) \in Nat
  OBVIOUS
<1>2. \A i \in DOMAIN s : Append(s, x)[i] = s[i]
  BY <1>1
<1>3. Append(s, x)[Len(s) + 1] = x
  BY <1>1
<1> QED
  BY <1>1, <1>2, <1>3 DEF Elements

LEMMA ElementsTail ==
    ASSUME NEW S, NEW s \in Seq(S), s # <<>>
    PROVE  Elements(s) = {Head(s)} \cup Elements(Tail(s))
<1>1. /\ DOMAIN s = 1..Len(s) /\ Len(s) \in Nat \ {0}
      /\ DOMAIN Tail(s) = 1..(Len(s) - 1) /\ Head(s) = s[1]
      /\ \A i \in 1..(Len(s) - 1) : Tail(s)[i] = s[i + 1]
  OBVIOUS
<1>2. \A i \in 1..Len(s) : i = 1 \/ (i - 1 \in 1..(Len(s) - 1) /\ s[i] = Tail(s)[i - 1])
  BY <1>1
<1>3. \A i \in 1..(Len(s) - 1) : i + 1 \in 1..Len(s)
  BY <1>1
<1>4. Elements(s) \subseteq {Head(s)} \cup Elements(Tail(s))
  <2> SUFFICES ASSUME NEW i \in 1..Len(s) PROVE s[i] \in {Head(s)} \cup Elements(Tail(s))
    BY <1>1 DEF Elements
  <2>1. CASE i = 1
    BY <1>1, <2>1
  <2>2. CASE i - 1 \in 1..(Len(s) - 1) /\ s[i] = Tail(s)[i - 1]
    BY <1>1, <2>2 DEF Elements
  <2> QED
    BY <1>2, <2>1, <2>2
<1>5. {Head(s)} \cup Elements(Tail(s)) \subseteq Elements(s)
  BY <1>1, <1>3 DEF Elements
<1> QED
  BY <1>4, <1>5

-----------------------------------------------------------------------------
(* No notice is lost                                                       *)

(* The goroutine started for a notice sends that notice and no other.      *)
OwnNotice == \A n \in Notices : job[n].msg = NoMessage \/ (job[n].msg = n /\ n \in spilled)
KeptInv == OwnNotice /\ NoticeKept

Safe(m, c) == m \in Elements(wire[c]) \cup Elements(send[c]) \/ Underway(m, c)

(* A step by which nobody new is served, and nothing safe gets lost.       *)
SafeStep ==
    \A c \in members' : socket'[c] = "open" =>
        /\ c \in members /\ socket[c] = "open" /\ joined'[c] = joined[c]
        /\ \A m \in Notices : m[1] = Global /\ Safe(m, c) => Safe(m, c)'

LEMMA KeptFrame ==
    ASSUME HubInv, NoticeKept, SafeStep, published'[Global] = published[Global]
    PROVE  NoticeKept'
<1> SUFFICES ASSUME NEW c \in members', socket'[c] = "open",
                    NEW n \in (joined'[c] + 1)..published'[Global]
             PROVE  Safe(<<Global, n>>, c)'
  BY DEF NoticeKept, Safe
<1>1. c \in members /\ socket[c] = "open" /\ n \in (joined[c] + 1)..published[Global]
  BY DEF SafeStep
<1>2. Safe(<<Global, n>>, c)
  BY <1>1 DEF NoticeKept, Safe
<1>3. <<Global, n>> \in Notices
  <2>1. /\ joined[c] \in 0..MaxNotices[Global] /\ MaxNotices[Global] \in Nat
        /\ published[Global] \in Nat /\ published[Global] <= MaxNotices[Global]
    BY <1>1, TypeParts, NoticeFacts, BoundsAssumption
       DEF HubInv, BuffersOK, NotifyingOK, RegistryOK
  <2>2. n \in 1..MaxNotices[Global]
    BY <1>1, <2>1
  <2> QED
    BY <2>2, NoticeFacts
<1> QED
  BY <1>2, <1>3 DEF SafeStep

(* The send of SendRaw takes nothing out of a buffer.                      *)
LEMMA PutKeeps ==
    ASSUME BuffersOK, NEW c \in Clients, NEW m, Put(c, m)
    PROVE  /\ \A d \in Clients : Elements(send[d]) \subseteq Elements(send'[d])
           /\ \A d \in Clients : Elements(send'[d]) \subseteq Elements(send[d]) \cup {m}
           /\ \A d \in Clients : d # c => send'[d] = send[d]
           /\ HasRoom(c) => m \in Elements(send'[c])
<1>1. send[c] \in Seq(Messages)
  BY DEF BuffersOK
<1>2. CASE HasRoom(c)
  <2>1. send' = [send EXCEPT ![c] = Append(@, m)]
    BY <1>2 DEF Put
  <2>2. Elements(send'[c]) = Elements(send[c]) \cup {m} /\ \A d \in Clients : d # c => send'[d] = send[d]
    BY <1>1, <2>1, ElementsAppend DEF BuffersOK
  <2> QED
    BY <2>2
<1>3. CASE ~HasRoom(c)
  BY <1>3 DEF Put
<1> QED
  BY <1>2, <1>3

(* What a worker that begins a broadcast, or goes on with it, is sending.  *)
LEMMA JobFacts ==
    ASSUME NEW m, NEW C, NEW c
    PROVE  /\ Job(m, C, c).msg \in {m, NoMessage} /\ Job(m, C, c).todo = C
           /\ Job(m, C, c).slow = c
           /\ C # {} \/ c # NoClient => Job(m, C, c).msg = m
  BY DEF Job, NoJob

(* The step of one worker p from its job to another; the rest is unchanged.*)
LEMMA KeptByWorker ==
    ASSUME SendingOK, NEW p \in Workers, NEW m, NEW C, NEW s,
           job' = [job EXCEPT ![p] = Job(m, C, s)]
    PROVE  /\ \A n, c : (\E q \in Workers \ {p} : job[q].msg = n /\ (c \in job[q].todo \/ c = job[q].slow))
                           => Underway(n, c)'
           /\ \A c : c \in C \/ (c = s /\ c # NoClient) => Underway(m, c)'
<1>1. job'[p] = Job(m, C, s) /\ \A q \in Workers \ {p} : job'[q] = job[q]
  BY DEF SendingOK
<1>2. ASSUME NEW c, c \in C \/ (c = s /\ c # NoClient)
      PROVE  job'[p].msg = m /\ (c \in job'[p].todo \/ c = job'[p].slow)
  BY <1>1, <1>2, JobFacts
<1> QED
  BY <1>1, <1>2 DEF Underway

(* The part of every other action than Notify and Register.                *)
LEMMA SafeNext ==
    ASSUME HubInv, OwnNotice, Next,
           ~\E t \in Topics : Notify(t), ~\E c \in Clients : Register(c)
    PROVE  SafeStep
<1>a. /\ RegistryOK /\ BuffersOK /\ SendingOK /\ SocketsOK /\ NotifyingOK
      /\ members \subseteq {c \in Clients : reader[c] # "none"} /\ members \subseteq Clients
  BY TypeParts DEF HubInv, ServedOrClosed, RegistryOK
<1>b. \A m \in Notices : m # NoMessage /\ m # TimeSync /\ m \in Workers
  BY NoticeFacts, NamesAssumption
<1>1. ASSUME UNCHANGED <<queue, starting, job, wire, send, joined>>,
             \A c \in members' : socket'[c] = "open" => c \in members /\ socket[c] = "open"
      PROVE  SafeStep
  BY <1>1 DEF SafeStep, Safe, Underway
<1>2. ASSUME NEW c \in Clients, Upgrade(c) PROVE SafeStep
  BY <1>1, <1>2, <1>a DEF Upgrade, registry, notifying, sending, SocketsOK
<1>3. ASSUME NEW c \in Clients,
             \/ PeerGone(c) \/ (\E w \in Windows : ReadSubscribe(c, w))
             \/ ReadInvalid(c) \/ Subscribe(c) \/ SendSnapshot(c) \/ Close(c)
      PROVE  SafeStep
  BY <1>1, <1>3, <1>a DEF PeerGone, ReadSubscribe, ReadInvalid, Subscribe, SendSnapshot, Close,
                          registry, notifying, sending, sockets, SocketsOK
<1>4. ASSUME NEW c \in Clients, ReaderExit(c) PROVE SafeStep
  <2>1. members' \subseteq members
    BY <1>4 DEF ReaderExit, Unregister, RemoveClients, registry
  <2> QED
    BY <1>1, <1>4, <2>1 DEF ReaderExit, notifying, sending
<1>5. CASE Shutdown \/ StopRun \/ ShutdownReturns
  <2>1. members' \subseteq members /\ UNCHANGED <<queue, starting, job, wire, send, joined, socket>>
    BY <1>5 DEF Shutdown, StopRun, ShutdownReturns, RemoveClients, registry, notifying, sending, sockets
  <2> QED
    BY <1>1, <2>1
<1>6. ASSUME NEW c \in Clients, PutReply(c) PROVE SafeStep
  <2>1. /\ Put(c, Reply)
        /\ UNCHANGED <<members, queue, starting, job, wire, joined, socket>>
    BY <1>6 DEF PutReply, registry, notifying, sending, sockets
  <2>2. \A d \in Clients : Elements(send[d]) \subseteq Elements(send'[d])
    BY <2>1, <1>a, PutKeeps
  <2> QED
    BY <2>1, <2>2, <1>a DEF SafeStep, Safe, Underway
<1>7. ASSUME NEW c \in Clients, WriteMessage(c) PROVE SafeStep
  <2>1. /\ send[c] # <<>> /\ send' = [send EXCEPT ![c] = Tail(@)]
        /\ UNCHANGED <<members, queue, starting, job, joined, socket>>
    BY <1>7 DEF WriteMessage, registry, notifying, sending, sockets
  <2>2. Elements(send[c]) = {Head(send[c])} \cup Elements(send'[c])
    BY <2>1, <1>a, ElementsTail DEF BuffersOK
  <2>3. /\ \A d \in Clients : d # c => wire'[d] = wire[d] /\ send'[d] = send[d]
        /\ wire'[c] = IF Head(send[c]) \in Notices THEN Append(wire[c], Head(send[c])) ELSE wire[c]
    BY <1>7, <2>1, <1>a DEF WriteMessage, BuffersOK
  <2>4. /\ Elements(wire[c]) \subseteq Elements(wire'[c])
        /\ Head(send[c]) \in Notices => Head(send[c]) \in Elements(wire'[c])
    BY <2>3, <1>a, ElementsAppend DEF BuffersOK
  <2>5. \A d \in Clients, m \in Notices :
           m \in Elements(wire[d]) \cup Elements(send[d]) =>
              m \in Elements(wire'[d]) \cup Elements(send'[d])
    BY <2>2, <2>3, <2>4
  <2> QED
    BY <2>1, <2>5, <1>a DEF SafeStep, Safe, Underway
<1>8. ASSUME NEW c \in Clients, WriterExit(c) PROVE SafeStep
  <2>1. /\ socket'[c] # "open" /\ \A d \in Clients : d # c => socket'[d] = socket[d]
        /\ UNCHANGED <<members, queue, starting, job, joined, wire, send>>
    BY <1>8, <1>a DEF WriterExit, registry, notifying, sending, SocketsOK, BuffersOK
  <2> QED
    BY <2>1, <1>a DEF SafeStep, Safe, Underway
<1>9. ASSUME NEW p \in Workers, NEW m, Begin(p, m), m \in Notices \cup {TimeSync},
             job[p].msg \in {NoMessage, m},
             UNCHANGED <<members, wire, send, joined, socket>>,
             Elements(queue["global"]) \cup starting \subseteq
                Elements(queue'["global"]) \cup starting' \cup {m}
      PROVE  SafeStep
  <2>1. SUFFICES ASSUME NEW c \in members, NEW n \in Notices, n[1] = Global, Underway(n, c)
                 PROVE  Underway(n, c)'
    BY <1>9 DEF SafeStep, Safe
  <2>2. n = m => c \in Targets(m)
    BY <2>1, <1>b DEF Targets
  <2>3. job[p].msg = n => n = m
    BY <1>9, <1>b
  <2>4. CASE n = m
    BY <1>9, <2>2, <2>4, <1>a, KeptByWorker DEF Begin
  <2>5. CASE n # m
    <3>1. CASE n \in Elements(queue["global"]) \cup starting
      BY <1>9, <2>5, <3>1 DEF Underway
    <3>2. CASE \E q \in Workers \ {p} : job[q].msg = n /\ (c \in job[q].todo \/ c = job[q].slow)
      BY <1>9, <3>2, <1>a, KeptByWorker DEF Begin
    <3> QED
      BY <2>1, <2>3, <2>5, <3>1, <3>2 DEF Underway
  <2> QED
    BY <2>4, <2>5
<1>10. ASSUME NEW q \in Channels, TakeNotice(q) PROVE SafeStep
  <2>1. /\ Head(queue[q]) \in Notices /\ Tail(queue[q]) \in Seq(Notices)
        /\ Elements(queue[q]) = {Head(queue[q])} \cup Elements(Tail(queue[q]))
    BY <1>10, <1>a, ElementsTail DEF TakeNotice, NotifyingOK
  <2>2. Elements(queue["global"]) \subseteq Elements(queue'["global"]) \cup {Head(queue[q])}
    BY <1>10, <2>1, <1>a, NoticeFacts DEF TakeNotice, NotifyingOK
  <2> QED
    BY <1>9, <1>10, <2>1, <2>2, NoticeFacts DEF TakeNotice, AtSelect, NoJob, registry, sockets
<1>11. CASE TakeTick
  BY <1>9, <1>11, NoticeFacts DEF TakeTick, AtSelect, NoJob, registry, sockets, notifying
<1>12. ASSUME NEW n \in Notices, StartSpilled(n) PROVE SafeStep
  <2>1. Begin(n, n) /\ UNCHANGED <<members, wire, send, joined, socket, queue>> /\ starting' = starting \ {n}
    BY <1>12 DEF StartSpilled, registry, sockets
  <2>2. CASE job[n].msg = n
    BY <1>9, <2>1, <2>2, <1>b
  <2>3. CASE job[n].msg = NoMessage
    BY <1>9, <2>1, <2>3, <1>b
  <2> QED
    BY <2>2, <2>3 DEF OwnNotice
<1>13. ASSUME NEW p \in Workers, PutMessage(p) PROVE SafeStep
  <2> DEFINE c == job[p].at
             s == IF HasRoom(c) THEN NoClient ELSE c
             m == job[p].msg
             C == job[p].todo \ {c}
  <2>0. c \in job[p].todo /\ c \in Clients /\ job[p].slow = NoClient
    BY <1>13, <1>a DEF PutMessage, HubInv, JobsHaveMessages, SendingOK, Jobs
  <2>1. /\ Put(c, m)
        /\ job' = [job EXCEPT ![p] = Job(m, C, s)]
        /\ UNCHANGED <<members, queue, starting, wire, joined, socket>>
    BY <1>13 DEF PutMessage, registry, notifying, sockets
  <2>2. /\ \A d \in Clients : Elements(send[d]) \subseteq Elements(send'[d])
        /\ HasRoom(c) => m \in Elements(send'[c])
    BY <2>0, <2>1, <1>a, PutKeeps
  <2>3. \A d \in Clients : \A n : d \in job[p].todo \/ d = job[p].slow =>
           \/ d \in C \/ (d = s /\ d # NoClient)
           \/ d = c /\ HasRoom(c)
    BY <2>0, NamesAssumption
  <2> HIDE DEF s, C, m
  <2>4. SUFFICES ASSUME NEW d \in members, NEW n \in Notices, Safe(n, d)
                 PROVE  Safe(n, d)'
    BY <2>1 DEF SafeStep
  <2>5. CASE \E q \in Workers \ {p} : job[q].msg = n /\ (d \in job[q].todo \/ d = job[q].slow)
    BY <2>1, <2>5, <1>a, KeptByWorker DEF Safe
  <2>6. CASE job[p].msg = n /\ (d \in job[p].todo \/ d = job[p].slow)
    <3>1. CASE d = c /\ HasRoom(c)
      BY <2>2, <2>6, <3>1 DEF Safe, m
    <3>2. CASE d \in C \/ (d = s /\ d # NoClient)
      BY <2>1, <2>6, <3>2, <1>a, KeptByWorker DEF Safe, m
    <3> QED
      BY <2>3, <2>6, <3>1, <3>2, <1>a
  <2>7. CASE n \in Elements(wire[d]) \cup Elements(send[d])
    BY <2>1, <2>2, <2>7, <1>a DEF Safe
  <2>8. CASE n \in Elements(queue["global"]) \cup starting
    BY <2>1, <2>8 DEF Safe, Underway
  <2> QED
    BY <2>4, <2>5, <2>6, <2>7, <2>8 DEF Safe, Underway
<1>14. ASSUME NEW p \in Workers, DropSlow(p) PROVE SafeStep
  <2>1. /\ job[p].slow # NoClient /\ job[p].slow \notin members'
        /\ members' \subseteq members
        /\ job' = [job EXCEPT ![p] = Job(job[p].msg, job[p].todo, NoClient)]
        /\ UNCHANGED <<queue, starting, wire, send, joined, socket>>
    BY <1>14 DEF DropSlow, Unregister, RemoveClients, registry, notifying, sockets
  <2>2. SUFFICES ASSUME NEW d \in members', NEW n \in Notices, Safe(n, d)
                 PROVE  Safe(n, d)'
    BY <2>1 DEF SafeStep
  <2>3. CASE \E q \in Workers \ {p} : job[q].msg = n /\ (d \in job[q].todo \/ d = job[q].slow)
    BY <2>1, <2>3, <1>a, KeptByWorker DEF Safe
  <2>4. CASE job[p].msg = n /\ (d \in job[p].todo \/ d = job[p].slow)
    BY <2>1, <2>4, <1>a, KeptByWorker DEF Safe
  <2>5. CASE n \in Elements(wire[d]) \cup Elements(send[d]) \cup Elements(queue["global"]) \cup starting
    BY <2>1, <2>5 DEF Safe, Underway
  <2> QED
    BY <2>2, <2>3, <2>4, <2>5 DEF Safe, Underway
<1>15. ASSUME NEW p \in Workers, NEW c \in Clients, RefuseClosed(p, c) PROVE SafeStep
  <2>0. SUFFICES ASSUME NEW m, NEW C, NEW s, m = job[p].msg, C = job[p].todo \ {c}, s = c
                 PROVE  SafeStep
    OBVIOUS
  <2>1. /\ s # NoClient /\ job[p].slow = NoClient
        /\ job' = [job EXCEPT ![p] = Job(m, C, s)]
        /\ UNCHANGED <<members, queue, starting, wire, send, joined, socket>>
    BY <1>15, <2>0, NamesAssumption DEF RefuseClosed, registry, notifying, sockets
  <2>2. SUFFICES ASSUME NEW d \in members, NEW n \in Notices, Safe(n, d)
                 PROVE  Safe(n, d)'
    BY <2>1 DEF SafeStep
  <2>3. /\ \A k, e : (\E q \in Workers \ {p} : job[q].msg = k /\ (e \in job[q].todo \/ e = job[q].slow))
                       => Underway(k, e)'
        /\ \A e : e \in C \/ (e = s /\ s # NoClient) => Underway(m, e)'
    BY <2>1, <1>a, KeptByWorker
  <2>4. CASE \E q \in Workers \ {p} : job[q].msg = n /\ (d \in job[q].todo \/ d = job[q].slow)
    BY <2>3, <2>4 DEF Safe
  <2>5. CASE job[p].msg = n /\ (d \in job[p].todo \/ d = job[p].slow)
    <3>1. d \in C \/ (d = s /\ s # NoClient)
      BY <2>0, <2>1, <2>5, <1>a, NamesAssumption
    <3> QED
      BY <2>0, <2>3, <2>5, <3>1 DEF Safe
  <2>6. CASE n \in Elements(wire[d]) \cup Elements(send[d]) \cup Elements(queue["global"]) \cup starting
    BY <2>1, <2>6 DEF Safe, Underway
  <2> QED
    BY <2>2, <2>4, <2>5, <2>6 DEF Safe, Underway
<1>16. ASSUME NEW p \in Workers, NEW c \in Clients, EnterSendRaw(p, c) PROVE SafeStep
  <2>1. /\ \A q \in Workers : /\ job'[q].msg = job[q].msg /\ job'[q].todo = job[q].todo
                              /\ job'[q].slow = job[q].slow
        /\ UNCHANGED <<members, queue, starting, wire, send, joined, socket>>
    BY <1>16, <1>a DEF EnterSendRaw, SendingOK, Jobs, registry, notifying, sockets
  <2> QED
    BY <2>1 DEF SafeStep, Safe, Underway
<1> QED
  BY <1>2, <1>3, <1>4, <1>5, <1>6, <1>7, <1>8, <1>10, <1>11, <1>12, <1>13, <1>14, <1>15, <1>16
  DEF Next, ReaderStep, WriterStep, WorkerStep

(* A notice is published: it is in its channel or with its goroutine.      *)
LEMMA KeptByNotify ==
    ASSUME HubInv, NoticeKept, NEW t \in Topics, Notify(t) PROVE NoticeKept'
<1> DEFINE n == <<t, published[t] + 1>>
<1>a. /\ NotifyingOK /\ BuffersOK /\ members \subseteq Clients
      /\ ChannelOf(t) \in Channels /\ (t = Global => ChannelOf(t) = "global") /\ "global" \in Channels
  BY TypeParts, NoticeFacts DEF HubInv, RegistryOK, ChannelOf
<1>1. UNCHANGED <<members, job, send, wire, socket, joined>>
  BY DEF Notify, registry, sending, sockets
<1>2. published' = [published EXCEPT ![t] = @ + 1]
  BY DEF Notify
<1>3. /\ Elements(queue["global"]) \cup starting \subseteq Elements(queue'["global"]) \cup starting'
      /\ t = Global => n \in Elements(queue'["global"]) \cup starting'
  <2>1. CASE Len(queue[ChannelOf(t)]) < ChannelSize
    <3>1. queue' = [queue EXCEPT ![ChannelOf(t)] = Append(@, n)] /\ starting' = starting
      BY <2>1 DEF Notify
    <3>2. Elements(Append(queue[ChannelOf(t)], n)) = Elements(queue[ChannelOf(t)]) \cup {n}
      BY <1>a, ElementsAppend DEF NotifyingOK
    <3> HIDE DEF n
    <3> QED
      BY <3>1, <3>2, <1>a DEF NotifyingOK
  <2>2. CASE ~(Len(queue[ChannelOf(t)]) < ChannelSize)
    BY <2>2 DEF Notify
  <2> QED
    BY <2>1, <2>2
<1>4. \A m, c : Safe(m, c) => Safe(m, c)'
  BY <1>1, <1>3 DEF Safe, Underway
<1> SUFFICES ASSUME NEW c \in members, socket[c] = "open",
                    NEW k \in (joined[c] + 1)..published'[Global]
             PROVE  Safe(<<Global, k>>, c)'
  BY <1>1 DEF NoticeKept, Safe
<1>5. CASE t = Global /\ k = published[Global] + 1
  BY <1>3, <1>5 DEF Safe, Underway
<1>6. CASE k \in (joined[c] + 1)..published[Global]
  BY <1>4, <1>6 DEF NoticeKept, Safe
<1>7. k \in (joined[c] + 1)..published[Global] \/ (t = Global /\ k = published[Global] + 1)
  BY <1>2, <1>a, NoticeFacts DEF NotifyingOK, BuffersOK
<1> QED
  BY <1>5, <1>6, <1>7

(* What a new client is owed is what is published from now on.             *)
LEMMA KeptByRegister ==
    ASSUME HubInv, NoticeKept, NEW c \in Clients, Register(c) PROVE NoticeKept'
<1>a. NotifyingOK /\ BuffersOK /\ RegistryOK
  BY TypeParts DEF HubInv
<1>1. /\ UNCHANGED <<published, queue, starting, job, send, wire, socket>>
      /\ joined' = [joined EXCEPT ![c] = published[Global]]
      /\ members' \subseteq members \cup {c}
  BY DEF Register, notifying, sending
<1>2. ASSUME NEW d \in members', d = c PROVE (joined'[d] + 1)..published'[Global] = {}
  <2>1. joined'[d] = published[Global] /\ published[Global] \in Nat
    BY <1>1, <1>2, <1>a, NoticeFacts DEF BuffersOK, NotifyingOK
  <2> QED
    BY <1>1, <2>1
<1>3. \A d \in members' : d # c => d \in members /\ joined'[d] = joined[d]
  BY <1>1, <1>a DEF RegistryOK, BuffersOK
<1>4. \A m, d : Underway(m, d)' = Underway(m, d)
  BY <1>1 DEF Underway
<1> QED
  BY <1>1, <1>2, <1>3, <1>4 DEF NoticeKept

(* Every worker goes on with the message it has, or starts its own.        *)
LEMMA OwnNoticeNext == ASSUME HubInv, OwnNotice, Next PROVE OwnNotice'
<1>a. SendingOK /\ NotifyingOK /\ RunLoop \notin Notices
  BY TypeParts, NamesAssumption DEF HubInv
<1>1. CASE UNCHANGED job /\ spilled \subseteq spilled'
  BY <1>1 DEF OwnNotice
<1>2. ASSUME NEW p \in Workers, NEW C, NEW s, UNCHANGED spilled,
             job' = [job EXCEPT ![p] = Job(job[p].msg, C, s)]
      PROVE  OwnNotice'
  <2>1. job'[p].msg \in {job[p].msg, NoMessage} /\ \A q \in Workers : q # p => job'[q] = job[q]
    BY <1>2, <1>a, JobFacts DEF SendingOK
  <2> QED
    BY <1>2, <2>1, NoticeFacts DEF OwnNotice
<1>3. ASSUME NEW m, Begin(RunLoop, m), UNCHANGED spilled PROVE OwnNotice'
  <2>1. \A n \in Notices : job'[n] = job[n]
    BY <1>3, <1>a, NoticeFacts DEF Begin, SendingOK
  <2> QED
    BY <1>3, <2>1 DEF OwnNotice
<1>4. ASSUME NEW n \in Notices, StartSpilled(n) PROVE OwnNotice'
  <2>1. n \in spilled /\ UNCHANGED spilled /\ job' = [job EXCEPT ![n] = Job(n, Targets(n), NoClient)]
    BY <1>4, <1>a DEF StartSpilled, Begin, NotifyingOK
  <2>2. job'[n].msg \in {n, NoMessage} /\ \A m \in Notices : m # n => job'[m] = job[m]
    BY <2>1, <1>a, NoticeFacts, JobFacts DEF SendingOK
  <2> QED
    BY <2>1, <2>2 DEF OwnNotice
<1>5. ASSUME NEW p \in Workers,
             PutMessage(p) \/ DropSlow(p) \/ \E c \in Clients : RefuseClosed(p, c)
      PROVE  OwnNotice'
  <2>1. UNCHANGED spilled /\ \E C, s : job' = [job EXCEPT ![p] = Job(job[p].msg, C, s)]
    <3>1. CASE PutMessage(p)
      BY <3>1 DEF PutMessage, notifying
    <3>2. CASE DropSlow(p)
      BY <3>2 DEF DropSlow, notifying
    <3>3. ASSUME NEW c \in Clients, RefuseClosed(p, c)
          PROVE  UNCHANGED spilled /\ \E C, s : job' = [job EXCEPT ![p] = Job(job[p].msg, C, s)]
      BY <3>3 DEF RefuseClosed, notifying
    <3> QED
      BY <1>5, <3>1, <3>2, <3>3
  <2> QED
    BY <1>2, <2>1
<1>10. ASSUME NEW p \in Workers, NEW c \in Clients, EnterSendRaw(p, c) PROVE OwnNotice'
  <2>1. UNCHANGED spilled /\ \A q \in Workers : job'[q].msg = job[q].msg
    BY <1>10, <1>a DEF EnterSendRaw, SendingOK, Jobs, notifying
  <2> QED
    BY <2>1, NoticeFacts DEF OwnNotice
<1>6. CASE TakeTick \/ \E q \in Channels : TakeNotice(q)
  BY <1>3, <1>6 DEF TakeTick, TakeNotice, notifying
<1>7. ASSUME NEW t \in Topics, Notify(t) PROVE OwnNotice'
  BY <1>1, <1>7 DEF Notify, sending
<1>8. CASE StopRun \/ Shutdown \/ ShutdownReturns
  BY <1>1, <1>8 DEF StopRun, Shutdown, ShutdownReturns, sending, notifying
<1>9. ASSUME NEW c \in Clients,
             \/ Upgrade(c) \/ PeerGone(c) \/ ReadInvalid(c) \/ Close(c)
             \/ \E w \in Windows : ReadSubscribe(c, w)
             \/ ReaderStep(c) \/ WriterStep(c)
      PROVE  OwnNotice'
  BY <1>1, <1>9 DEF Upgrade, PeerGone, ReadInvalid, Close, ReadSubscribe, ReaderStep, Register, Subscribe,
     SendSnapshot, PutReply, ReaderExit, WriterStep, WriteMessage, WriterExit, sending, notifying
<1> QED
  BY <1>4, <1>5, <1>6, <1>7, <1>8, <1>9, <1>10 DEF Next, WorkerStep

LEMMA KeptInvInit == Init => KeptInv
  BY DEF Init, KeptInv, OwnNotice, NoticeKept, NoJob, Workers

LEMMA KeptInvNext == HubInv /\ KeptInv /\ [Next]_vars => KeptInv'
<1> SUFFICES ASSUME HubInv, KeptInv, [Next]_vars PROVE KeptInv'
  OBVIOUS
<1>1. CASE Next
  <2>1. OwnNotice'
    BY <1>1, OwnNoticeNext DEF KeptInv
  <2>2. CASE \E t \in Topics : Notify(t)
    BY <2>1, <2>2, KeptByNotify DEF KeptInv
  <2>3. CASE \E c \in Clients : Register(c)
    BY <2>1, <2>3, KeptByRegister DEF KeptInv
  <2>4. CASE ~(\E t \in Topics : Notify(t)) /\ ~\E c \in Clients : Register(c)
    <3>1. SafeStep
      BY <1>1, <2>4, SafeNext DEF KeptInv
    <3>2. published' = published
      BY <1>1, <2>4 DEF Next, ReaderStep, WriterStep, WorkerStep, Upgrade, PeerGone, ReadInvalid,
         ReadSubscribe, Subscribe, SendSnapshot, PutReply, ReaderExit, WriteMessage, WriterExit,
         EnterSendRaw, RefuseClosed, PutMessage, Close, DropSlow, TakeNotice, StartSpilled, TakeTick, StopRun, Shutdown, ShutdownReturns, notifying
    <3> QED
      BY <2>1, <3>1, <3>2, KeptFrame DEF KeptInv
  <2> QED
    BY <2>2, <2>3, <2>4
<1>2. CASE UNCHANGED vars
  BY <1>2 DEF vars, registry, notifying, sending, sockets, KeptInv, OwnNotice, NoticeKept, Underway
<1> QED
  BY <1>1, <1>2

(* A sync notice published while a client was registered is never lost:    *)
(* the client has it, or it is in a buffer, in a channel or with a worker  *)
(* that will send it, for any number of clients and any capacities.        *)
THEOREM NoSyncNoticeLost == Spec => []NoticeKept
<1>1. KeptInv => NoticeKept
  BY DEF KeptInv
<1> QED
  BY <1>1, HubInvHolds, KeptInvInit, KeptInvNext, PTL DEF Spec

-----------------------------------------------------------------------------
(* The notices of a topic stay in order                                    *)

(* The notices that met no full channel; what a client has passed on or    *)
(* holds, what the Run loop is sending, and what waits in the channels.    *)
Direct == Notices \ spilled
Passed(c) == Elements(wire[c]) \cup Elements(send[c])
Turn == {job[RunLoop].msg}
Waiting == Elements(queue["window"]) \cup Elements(queue["global"])

(* The notices of D in A are older than those of the same topic in B.      *)
Below(A, B, D) == \A m \in A \cap D, n \in B \cap D : m[1] = n[1] => m[2] < n[2]
Ordered(s, D) == \A i, j \in DOMAIN s : i < j => Below({s[i]}, {s[j]}, D)

QueuesOrdered ==
    \A q \in Channels : /\ Ordered(queue[q], Direct)
                        /\ \A n \in Elements(queue[q]) : ChannelOf(n[1]) = q
BuffersOrdered ==
    \A c \in Clients : /\ Ordered(wire[c], Direct) /\ Ordered(send[c], Direct)
                       /\ Below(Elements(wire[c]), Elements(send[c]), Direct)
TurnFirst == Below(Turn, Waiting, Direct)
PassedFirst == \A c \in Clients : Below(Passed(c), Waiting, Direct)
TurnLast == \A c \in job[RunLoop].todo : Below(Passed(c), Turn, Direct)
Numbered ==
    /\ \A n \in (Turn \cup Waiting) \cap Direct : n[2] <= published[n[1]]
    /\ \A c \in Clients : \A n \in Passed(c) \cap Direct : n[2] <= published[n[1]]

OrderInv ==
    /\ QueuesOrdered
    /\ BuffersOrdered
    /\ TurnFirst
    /\ PassedFirst
    /\ TurnLast
    /\ Numbered

(* Order in a sequence that grows, shrinks or is part of a longer one.     *)
LEMMA OrderedAppend ==
    ASSUME NEW S, NEW s \in Seq(S), NEW x, NEW D, Ordered(s, D), Below(Elements(s), {x}, D)
    PROVE  Ordered(Append(s, x), D)
<1>1. DOMAIN Append(s, x) = 1..(Len(s) + 1) /\ DOMAIN s = 1..Len(s) /\ Len(s) \in Nat
  OBVIOUS
<1>2. (\A i \in 1..Len(s) : Append(s, x)[i] = s[i]) /\ Append(s, x)[Len(s) + 1] = x
  BY <1>1
<1> SUFFICES ASSUME NEW i \in 1..(Len(s) + 1), NEW j \in 1..(Len(s) + 1), i < j
             PROVE  Below({Append(s, x)[i]}, {Append(s, x)[j]}, D)
  BY <1>1 DEF Ordered
<1>3. i \in 1..Len(s)
  BY <1>1
<1>4. CASE j \in 1..Len(s)
  BY <1>1, <1>2, <1>3, <1>4 DEF Ordered
<1>5. CASE j = Len(s) + 1
  <2>1. s[i] \in Elements(s)
    BY <1>1, <1>3 DEF Elements
  <2> QED
    BY <1>2, <1>3, <1>5, <2>1 DEF Below
<1>6. j \in 1..Len(s) \/ j = Len(s) + 1
  BY <1>1
<1> QED
  BY <1>4, <1>5, <1>6

LEMMA OrderedTail ==
    ASSUME NEW S, NEW s \in Seq(S), s # <<>>, NEW D, Ordered(s, D)
    PROVE  Ordered(Tail(s), D) /\ Below({Head(s)}, Elements(Tail(s)), D)
<1>1. /\ DOMAIN s = 1..Len(s) /\ Len(s) \in Nat \ {0}
      /\ DOMAIN Tail(s) = 1..(Len(s) - 1) /\ Head(s) = s[1]
      /\ \A i \in 1..(Len(s) - 1) : Tail(s)[i] = s[i + 1]
  OBVIOUS
<1>2. \A i \in 1..(Len(s) - 1) : i + 1 \in 1..Len(s) /\ 1 < i + 1
  BY <1>1
<1>3. ASSUME NEW i \in 1..(Len(s) - 1), NEW j \in 1..(Len(s) - 1), i < j
      PROVE  Below({Tail(s)[i]}, {Tail(s)[j]}, D)
  <2>1. i + 1 \in 1..Len(s) /\ j + 1 \in 1..Len(s) /\ i + 1 < j + 1
    BY <1>2, <1>3
  <2>2. Below({s[i + 1]}, {s[j + 1]}, D)
    BY <1>1, <2>1 DEF Ordered
  <2> QED
    BY <1>1, <2>2
<1>4. ASSUME NEW i \in 1..(Len(s) - 1) PROVE Below({Head(s)}, {Tail(s)[i]}, D)
  <2>1. 1 \in 1..Len(s) /\ i + 1 \in 1..Len(s) /\ 1 < i + 1
    BY <1>1, <1>2
  <2>2. Below({s[1]}, {s[i + 1]}, D)
    BY <1>1, <2>1 DEF Ordered
  <2> QED
    BY <1>1, <2>2
<1>5. Below({Head(s)}, Elements(Tail(s)), D)
  BY <1>1, <1>4 DEF Below, Elements
<1> QED
  BY <1>1, <1>3, <1>5 DEF Ordered

LEMMA OrderedConcat ==
    ASSUME NEW S, NEW s \in Seq(S), NEW u \in Seq(S), NEW D,
           Ordered(s, D), Ordered(u, D), Below(Elements(s), Elements(u), D)
    PROVE  Ordered(s \o u, D)
<1>1. /\ DOMAIN s = 1..Len(s) /\ DOMAIN u = 1..Len(u) /\ Len(s) \in Nat /\ Len(u) \in Nat
      /\ DOMAIN (s \o u) = 1..(Len(s) + Len(u))
  OBVIOUS
<1>2. \A i \in 1..(Len(s) + Len(u)) : (s \o u)[i] = IF i <= Len(s) THEN s[i] ELSE u[i - Len(s)]
  OBVIOUS
<1> SUFFICES ASSUME NEW i \in 1..(Len(s) + Len(u)), NEW j \in 1..(Len(s) + Len(u)), i < j
             PROVE  Below({(s \o u)[i]}, {(s \o u)[j]}, D)
  BY <1>1 DEF Ordered
<1>3. CASE j <= Len(s)
  <2>1. i \in 1..Len(s) /\ j \in 1..Len(s) /\ i <= Len(s)
    BY <1>1, <1>3
  <2> QED
    BY <1>1, <1>2, <1>3, <2>1 DEF Ordered
<1>4. CASE i <= Len(s) /\ ~(j <= Len(s))
  <2>1. i \in 1..Len(s) /\ j - Len(s) \in 1..Len(u)
    BY <1>1, <1>4
  <2>2. s[i] \in Elements(s) /\ u[j - Len(s)] \in Elements(u)
    BY <1>1, <2>1 DEF Elements
  <2> QED
    BY <1>2, <1>4, <2>2 DEF Below
<1>5. CASE ~(i <= Len(s))
  <2>1. i - Len(s) \in 1..Len(u) /\ j - Len(s) \in 1..Len(u) /\ i - Len(s) < j - Len(s) /\ ~(j <= Len(s))
    BY <1>1, <1>5
  <2> QED
    BY <1>1, <1>2, <1>5, <2>1 DEF Ordered
<1> QED
  BY <1>3, <1>4, <1>5

(* With fewer notices to compare, order is kept.                           *)
LEMMA OrderedFewer ==
    ASSUME NEW D, NEW E \in SUBSET D
    PROVE  /\ \A A, B : Below(A, B, D) => Below(A, B, E)
           /\ \A s : Ordered(s, D) => Ordered(s, E)
  BY DEF Below, Ordered

(* The order of what a client holds is what InOrder says.                  *)
LEMMA OrderImplies == HubInv /\ OrderInv => InOrder
<1> SUFFICES ASSUME HubInv, OrderInv, NEW c \in Clients PROVE Ordered(wire[c] \o send[c], Direct)
  BY DEF InOrder, Ordered, Below, Direct
<1>1. send[c] \in Seq(Messages) /\ wire[c] \in Seq(Notices)
  BY TypeParts DEF HubInv, BuffersOK
<1>2. wire[c] \in Seq(Messages)
  BY <1>1, NoticeFacts
<1> QED
  BY <1>1, <1>2, OrderedConcat DEF OrderInv, BuffersOrdered

(* A step that sends nothing, and may end or drop the turn of a worker.    *)
LEMMA OrderFrame ==
    ASSUME HubInv, OrderInv, UNCHANGED <<queue, published, wire, spilled, send>>,
           Turn' \cap Direct \subseteq Turn,
           job'[RunLoop].todo \subseteq job[RunLoop].todo \/ Turn' \cap Direct = {}
    PROVE  OrderInv'
<1>1. UNCHANGED <<Direct, Waiting>> /\ \A c \in Clients : Passed(c)' = Passed(c)
  BY DEF Direct, Waiting, Passed
<1>2. job[RunLoop].todo \subseteq Clients
  BY TypeParts, NoticeFacts DEF HubInv, SendingOK, Jobs
<1>3. QueuesOrdered' /\ BuffersOrdered'
  BY <1>1 DEF OrderInv, QueuesOrdered, BuffersOrdered
<1>4. TurnFirst' /\ PassedFirst'
  BY <1>1 DEF OrderInv, TurnFirst, PassedFirst, Below
<1>5. TurnLast'
  BY <1>1, <1>2 DEF OrderInv, TurnLast, Below
<1>6. Numbered'
  BY <1>1 DEF OrderInv, Numbered
<1> QED
  BY <1>3, <1>4, <1>5, <1>6 DEF OrderInv

(* A message is sent: the one of the Run loop, at the turn of the client,  *)
(* or one that does not count.                                             *)
LEMMA OrderSend ==
    ASSUME HubInv, OrderInv, UNCHANGED <<queue, published, wire, spilled>>,
           NEW c \in Clients, NEW m, Put(c, m), Turn' \cap Direct \subseteq Turn,
           job'[RunLoop].todo \subseteq job[RunLoop].todo,
           m \in Direct => m \in Turn /\ c \in job[RunLoop].todo /\ c \notin job'[RunLoop].todo
    PROVE  OrderInv'
<1>0. BuffersOK /\ job[RunLoop].todo \subseteq Clients
  BY TypeParts, NoticeFacts DEF HubInv, SendingOK, Jobs
<1>1. UNCHANGED <<Direct, Waiting>>
  BY DEF Direct, Waiting
<1>2. /\ Elements(send'[c]) \subseteq Elements(send[c]) \cup {m}
      /\ \A d \in Clients : d # c => send'[d] = send[d]
  BY <1>0, PutKeeps
<1>3. Passed(c)' \subseteq Passed(c) \cup {m} /\ \A d \in Clients : d # c => Passed(d)' = Passed(d)
  BY <1>2 DEF Passed
<1>4. QueuesOrdered'
  BY <1>1 DEF OrderInv, QueuesOrdered
<1>5. Below(Passed(c), {m}, Direct) /\ Below({m}, Waiting, Direct)
  BY DEF OrderInv, TurnFirst, TurnLast, Below
<1>6. BuffersOrdered'
  <2>1. Ordered(send'[c], Direct)
    <3>1. CASE HasRoom(c)
      <4>1. send'[c] = Append(send[c], m)
        BY <1>0, <3>1 DEF Put, BuffersOK
      <4>2. Below(Elements(send[c]), {m}, Direct)
        BY <1>5 DEF Passed, Below
      <4> QED
        BY <1>0, <4>1, <4>2, OrderedAppend DEF BuffersOK, OrderInv, BuffersOrdered
    <3>2. CASE ~HasRoom(c)
      BY <3>2 DEF Put, OrderInv, BuffersOrdered
    <3> QED
      BY <3>1, <3>2
  <2>2. Below(Elements(wire[c]), Elements(send'[c]), Direct)
    BY <1>2, <1>5 DEF OrderInv, BuffersOrdered, Below, Passed
  <2> QED
    BY <1>1, <1>2, <2>1, <2>2 DEF OrderInv, BuffersOrdered
<1>7. TurnFirst'
  BY <1>1 DEF OrderInv, TurnFirst, Below
<1>8. PassedFirst'
  BY <1>1, <1>3, <1>5 DEF OrderInv, PassedFirst, Below
<1>9. TurnLast'
  <2> SUFFICES ASSUME NEW d \in job'[RunLoop].todo PROVE Below(Passed(d)', Turn', Direct)
    BY <1>1 DEF TurnLast
  <2>1. Below(Passed(d), Turn, Direct) /\ d \in Clients
    BY <1>0 DEF OrderInv, TurnLast
  <2>2. Passed(d)' \cap Direct \subseteq Passed(d)
    BY <1>3, <2>1
  <2> QED
    BY <2>1, <2>2 DEF Below
<1>10. Numbered'
  <2>1. m \in Direct => m[2] <= published[m[1]]
    BY DEF OrderInv, Numbered
  <2>2. \A d \in Clients : Passed(d)' \subseteq Passed(d) \cup {m}
    BY <1>3
  <2>3. \A d \in Clients : \A n \in Passed(d)' \cap Direct : n[2] <= published[n[1]]
    BY <2>1, <2>2 DEF OrderInv, Numbered
  <2> QED
    BY <1>1, <2>3 DEF OrderInv, Numbered
<1> QED
  BY <1>4, <1>6, <1>7, <1>8, <1>9, <1>10 DEF OrderInv

(* A client passes on the oldest message that it holds.                    *)
LEMMA OrderWrite ==
    ASSUME HubInv, OrderInv, NEW c \in Clients, WriteMessage(c) PROVE OrderInv'
<1> DEFINE h == Head(send[c])
<1>0. /\ send[c] \in Seq(Messages) /\ wire[c] \in Seq(Notices) /\ send[c] # <<>>
      /\ job[RunLoop].todo \subseteq Clients
  BY TypeParts, NoticeFacts DEF HubInv, SendingOK, Jobs, BuffersOK, WriteMessage
<1>1. UNCHANGED <<Direct, Waiting, Turn, queue, published, job>>
  BY DEF WriteMessage, notifying, sending, Direct, Waiting, Turn
<1>2. /\ send'[c] = Tail(send[c])
      /\ wire'[c] = IF h \in Notices THEN Append(wire[c], h) ELSE wire[c]
      /\ \A d \in Clients : d # c => send'[d] = send[d] /\ wire'[d] = wire[d]
  BY TypeParts DEF HubInv, BuffersOK, WriteMessage
<1>3. Elements(send[c]) = {h} \cup Elements(send'[c])
  BY <1>0, <1>2, ElementsTail
<1>4. Ordered(send'[c], Direct) /\ Below({h}, Elements(send'[c]), Direct)
  BY <1>0, <1>2, OrderedTail DEF OrderInv, BuffersOrdered
<1> HIDE DEF h
<1>5. Elements(wire'[c]) \subseteq Elements(wire[c]) \cup {h}
  BY <1>0, <1>2, ElementsAppend
<1>6. \A d \in Clients : Passed(d)' \subseteq Passed(d)
  BY <1>2, <1>3, <1>5 DEF Passed
<1>7. BuffersOrdered'
  <2>1. Below(Elements(wire[c]), {h}, Direct)
    BY <1>3 DEF OrderInv, BuffersOrdered, Below
  <2>2. Ordered(wire'[c], Direct)
    BY <1>0, <1>2, <2>1, OrderedAppend DEF OrderInv, BuffersOrdered
  <2>3. Below(Elements(wire'[c]), Elements(send'[c]), Direct)
    BY <1>3, <1>4, <1>5 DEF OrderInv, BuffersOrdered, Below
  <2> QED
    BY <1>1, <1>2, <1>4, <2>2, <2>3 DEF OrderInv, BuffersOrdered
<1>8. QueuesOrdered' /\ TurnFirst'
  BY <1>1 DEF OrderInv, QueuesOrdered, TurnFirst
<1>9. PassedFirst' /\ TurnLast'
  BY <1>0, <1>1, <1>6 DEF OrderInv, PassedFirst, TurnLast, Below
<1>10. Numbered'
  BY <1>1, <1>6 DEF OrderInv, Numbered
<1> QED
  BY <1>7, <1>8, <1>9, <1>10 DEF OrderInv

(* The Run loop takes the oldest notice of a channel.                      *)
LEMMA OrderTake ==
    ASSUME HubInv, OrderInv, NEW q \in Channels, TakeNotice(q) PROVE OrderInv'
<1> DEFINE h == Head(queue[q])
<1>0. /\ queue[q] \in Seq(Notices) /\ queue[q] # <<>> /\ queue \in [Channels -> Seq(Notices)]
      /\ job \in [Workers -> Jobs] /\ h \in Notices /\ RegistryOK
  BY TypeParts, NoticeFacts DEF HubInv, SendingOK, NotifyingOK, TakeNotice
<1>1. UNCHANGED <<Direct, published, wire, send>> /\ \A c \in Clients : Passed(c)' = Passed(c)
  BY DEF TakeNotice, Direct, Passed
<1>2. queue'[q] = Tail(queue[q]) /\ \A r \in Channels : r # q => queue'[r] = queue[r]
  BY <1>0 DEF TakeNotice
<1>3. Elements(queue[q]) = {h} \cup Elements(queue'[q])
  BY <1>0, <1>2, ElementsTail
<1>4. Ordered(queue'[q], Direct) /\ Below({h}, Elements(queue'[q]), Direct)
  BY <1>0, <1>2, OrderedTail DEF OrderInv, QueuesOrdered
<1>5. Turn' \subseteq {h, NoMessage} /\ job'[RunLoop].todo \subseteq Clients
  <2>1. job'[RunLoop] = Job(h, Targets(h), NoClient)
    BY <1>0, NoticeFacts DEF TakeNotice, Begin
  <2> QED
    BY <1>0, <2>1, TargetsAreClients, JobFacts DEF Turn
<1>6. NoMessage \notin Direct
  BY NamesAssumption DEF Direct, Messages
<1> HIDE DEF h
<1>7. Waiting' \subseteq Waiting /\ h \in Waiting
  BY <1>2, <1>3, NoticeFacts DEF Waiting
<1>8. QueuesOrdered'
  BY <1>1, <1>2, <1>3, <1>4 DEF OrderInv, QueuesOrdered
<1>9. BuffersOrdered'
  BY <1>1 DEF OrderInv, BuffersOrdered
<1>10. TurnFirst'
  <2>1. \A r \in Channels : r # q => \A n \in Elements(queue'[r]) : n[1] # h[1]
    BY <1>2, <1>3 DEF OrderInv, QueuesOrdered
  <2>2. \A r \in Channels : Below({h}, Elements(queue'[r]), Direct)
    BY <1>4, <2>1 DEF Below
  <2>3. Below({h}, Waiting', Direct)
    BY <2>2, NoticeFacts DEF Below, Waiting
  <2> QED
    BY <1>1, <1>5, <1>6, <2>3 DEF TurnFirst, Below
<1>11. PassedFirst'
  BY <1>1, <1>7 DEF OrderInv, PassedFirst, Below
<1>12. TurnLast'
  <2>1. \A c \in Clients : Below(Passed(c), {h}, Direct)
    BY <1>7 DEF OrderInv, PassedFirst, Below
  <2> QED
    BY <1>1, <1>5, <1>6, <2>1 DEF TurnLast, Below
<1>13. Numbered'
  BY <1>1, <1>5, <1>6, <1>7 DEF OrderInv, Numbered
<1> QED
  BY <1>8, <1>9, <1>10, <1>11, <1>12, <1>13 DEF OrderInv

(* A notice bears the number of its publication.                           *)
LEMMA NoticeNumber == \A n \in Notices : n[1] \in Topics /\ n[2] \in 1..MaxNotices[n[1]] /\ n[2] \in Nat
  BY BoundsAssumption DEF Notices

(* A notice is published: it is the newest of its topic.                   *)
LEMMA OrderNotify ==
    ASSUME HubInv, OrderInv, NEW t \in Topics, Notify(t) PROVE OrderInv'
<1> DEFINE n == <<t, published[t] + 1>>
           q == ChannelOf(t)
<1>0. /\ queue \in [Channels -> Seq(Notices)] /\ q \in Channels
      /\ published \in [Topics -> Nat] /\ job[RunLoop].todo \subseteq Clients
  BY TypeParts, NoticeFacts DEF HubInv, NotifyingOK, SendingOK, Jobs
<1>1. /\ UNCHANGED <<job, wire, send, Turn>> /\ published' = [published EXCEPT ![t] = @ + 1]
      /\ \A c \in Clients : Passed(c)' = Passed(c)
  BY DEF Notify, sending, Turn, Passed
<1>2. Direct' \in SUBSET Direct
  BY DEF Notify, Direct
<1>3. /\ \/ queue' = queue
         \/ queue'[q] = Append(queue[q], n) /\ \A r \in Channels : r # q => queue'[r] = queue[r]
  BY <1>0 DEF Notify
<1>4. \A m \in Direct : m[1] \in Topics /\ m[2] \in Nat
  BY NoticeNumber DEF Direct
<1>5. \A A : (\A m \in A \cap Direct : m[2] <= published[m[1]]) => Below(A, {n}, Direct)
  <2> SUFFICES ASSUME NEW m \in Direct, m[1] = t, m[2] <= published[m[1]] PROVE m[2] < published[t] + 1
    BY DEF Below
  <2> QED
    BY <1>0, <1>4
<1>6. /\ Below(Turn, {n}, Direct) /\ Below(Waiting, {n}, Direct)
      /\ \A c \in Clients : Below(Passed(c), {n}, Direct)
  BY <1>5 DEF OrderInv, Numbered
<1>7. Elements(queue'[q]) \subseteq Elements(queue[q]) \cup {n}
  BY <1>0, <1>3, ElementsAppend
<1>8. Waiting' \subseteq Waiting \cup {n} /\ \A r \in Channels : Elements(queue[r]) \subseteq Waiting
  BY <1>0, <1>3, <1>7, NoticeFacts DEF Waiting
<1>9. n[1] = t /\ n[2] = published[t] + 1
  OBVIOUS
<1> HIDE DEF n
<1>10. QueuesOrdered'
  <2>1. Ordered(queue'[q], Direct)
    <3>1. Below(Elements(queue[q]), {n}, Direct)
      BY <1>0, <1>6, <1>8 DEF Below
    <3>2. Ordered(queue[q], Direct) /\ queue[q] \in Seq(Notices)
      BY <1>0 DEF OrderInv, QueuesOrdered
    <3>3. Ordered(Append(queue[q], n), Direct)
      BY <3>1, <3>2, OrderedAppend
    <3> QED
      BY <1>3, <3>2, <3>3
  <2>2. \A r \in Channels : Ordered(queue'[r], Direct)
    BY <1>3, <2>1 DEF OrderInv, QueuesOrdered
  <2>3. \A r \in Channels : \A m \in Elements(queue'[r]) : ChannelOf(m[1]) = r
    BY <1>3, <1>7, <1>9 DEF OrderInv, QueuesOrdered
  <2> QED
    BY <1>2, <2>2, <2>3, OrderedFewer DEF QueuesOrdered
<1>11. BuffersOrdered'
  BY <1>1, <1>2, OrderedFewer DEF OrderInv, BuffersOrdered
<1>12. TurnFirst'
  <2>1. Below(Turn', Waiting', Direct)
    BY <1>1, <1>6, <1>8 DEF OrderInv, TurnFirst, Below
  <2> QED
    BY <1>2, <2>1, OrderedFewer DEF TurnFirst
<1>13. PassedFirst'
  <2>1. \A c \in Clients : Below(Passed(c)', Waiting', Direct)
    BY <1>1, <1>6, <1>8 DEF OrderInv, PassedFirst, Below
  <2> QED
    BY <1>2, <2>1, OrderedFewer DEF PassedFirst
<1>14. TurnLast'
  <2>1. \A c \in job'[RunLoop].todo : Below(Passed(c)', Turn', Direct)
    BY <1>0, <1>1 DEF OrderInv, TurnLast
  <2> QED
    BY <1>2, <2>1, OrderedFewer DEF TurnLast
<1>15. Numbered'
  <2>1. \A m \in Direct : m[2] <= published[m[1]] => m[2] <= published'[m[1]]
    BY <1>0, <1>1, <1>4
  <2>2. n[2] <= published'[n[1]]
    BY <1>0, <1>1, <1>9
  <2> QED
    BY <1>1, <1>2, <1>8, <2>1, <2>2 DEF OrderInv, Numbered
<1> QED
  BY <1>10, <1>11, <1>12, <1>13, <1>14, <1>15 DEF OrderInv

LEMMA OrderInvInit == Init => OrderInv
<1> SUFFICES ASSUME Init PROVE OrderInv
  OBVIOUS
<1>1. Elements(<<>>) = {} /\ \A D : Ordered(<<>>, D)
  BY DEF Elements, Ordered
<1>2. /\ \A q \in Channels : queue[q] = <<>>
      /\ \A c \in Clients : wire[c] = <<>> /\ send[c] = <<>>
      /\ job[RunLoop] = NoJob
  BY NoticeFacts DEF Init
<1>3. Waiting = {} /\ \A c \in Clients : Passed(c) = {}
  BY <1>1, <1>2, NoticeFacts DEF Waiting, Passed
<1>4. Turn = {NoMessage} /\ job[RunLoop].todo = {} /\ NoMessage \notin Direct
  BY <1>2, NamesAssumption DEF Turn, NoJob, Direct, Messages
<1> QED
  BY <1>1, <1>2, <1>3, <1>4 DEF OrderInv, QueuesOrdered, BuffersOrdered, TurnFirst, PassedFirst,
     TurnLast, Numbered, Below

(* Every step of the hub.                                                  *)
LEMMA OrderNext == ASSUME HubInv, OwnNotice, OrderInv, [Next]_vars PROVE OrderInv'
<1>a. /\ job \in [Workers -> Jobs] /\ send \in [Clients -> Seq(Messages)] /\ RunLoop \notin Notices
      /\ RunLoop \in Workers
  BY TypeParts, NamesAssumption, NoticeFacts DEF HubInv, SendingOK, BuffersOK
<1>b. \A m \in {Reply, TimeSync, NoMessage} : m \notin Direct
  BY NamesAssumption, MessagesAssumption DEF Direct, Messages
<1>1. CASE UNCHANGED <<queue, published, wire, spilled, send, job>>
  BY <1>1, OrderFrame DEF Turn
<1>2. ASSUME NEW c \in Clients,
             \/ Upgrade(c) \/ PeerGone(c) \/ \E w \in Windows : ReadSubscribe(c, w)
             \/ Register(c) \/ ReadInvalid(c) \/ Subscribe(c) \/ SendSnapshot(c)
             \/ ReaderExit(c) \/ WriterExit(c) \/ Close(c)
      PROVE  OrderInv'
  BY <1>1, <1>2 DEF Upgrade, PeerGone, ReadSubscribe, Register, ReadInvalid, Subscribe, SendSnapshot,
                    ReaderExit, WriterExit, Close, notifying, sending
<1>3. CASE StopRun \/ Shutdown \/ ShutdownReturns \/ UNCHANGED vars
  BY <1>1, <1>3 DEF StopRun, Shutdown, ShutdownReturns, vars, notifying, sending
<1>4. ASSUME NEW c \in Clients, PutReply(c) PROVE OrderInv'
  <2>1. Put(c, Reply) /\ UNCHANGED <<queue, published, wire, spilled, job>>
    BY <1>4 DEF PutReply, notifying, sending
  <2> QED
    BY <2>1, <1>b, OrderSend DEF Turn
<1>5. ASSUME NEW c \in Clients, WriteMessage(c) PROVE OrderInv'
  BY <1>5, OrderWrite
<1>7. ASSUME NEW t \in Topics, Notify(t) PROVE OrderInv'
  BY <1>7, OrderNotify
<1>8. ASSUME NEW p \in Workers, PutMessage(p) PROVE OrderInv'
  <2> DEFINE m == job[p].msg
             c == job[p].at
             s == IF HasRoom(c) THEN NoClient ELSE c
             C == job[p].todo \ {c}
  <2>1. /\ c \in job[p].todo /\ c \in Clients
        /\ Put(c, m) /\ job' = [job EXCEPT ![p] = Job(m, C, s)]
        /\ UNCHANGED <<queue, published, wire, spilled>>
    BY <1>8, <1>a DEF PutMessage, HubInv, JobsHaveMessages, Jobs, notifying
  <2> HIDE DEF s, c
  <2>2. job'[p].msg \in {m, NoMessage} /\ job'[p].todo = C /\ \A o \in Workers : o # p => job'[o] = job[o]
    BY <2>1, <1>a, JobFacts
  <2>3. CASE p = RunLoop
    <3>1. Turn' \cap Direct \subseteq Turn /\ m \in Turn
      BY <2>2, <2>3, <1>b DEF Turn
    <3> QED
      BY <2>1, <2>2, <2>3, <3>1, OrderSend
  <2>4. CASE p # RunLoop
    <3>1. m \notin Direct
      BY <2>4, <1>b DEF OwnNotice, Workers, Direct
    <3> QED
      BY <2>1, <2>2, <2>4, <3>1, <1>a, OrderSend DEF Turn
  <2> QED
    BY <2>3, <2>4
<1>6. ASSUME NEW p \in Workers, NEW c \in Clients, EnterSendRaw(p, c) PROVE OrderInv'
  <2>1. /\ job'[RunLoop].msg = job[RunLoop].msg /\ job'[RunLoop].todo = job[RunLoop].todo
        /\ UNCHANGED <<queue, published, wire, spilled, send>>
    BY <1>6, <1>a DEF EnterSendRaw, Jobs, notifying
  <2> QED
    BY <2>1, OrderFrame DEF Turn
<1>9. ASSUME NEW p \in Workers, DropSlow(p) \/ \E c \in Clients : RefuseClosed(p, c)
      PROVE  OrderInv'
  <2>1. /\ \E C \in SUBSET job[p].todo : \E d : job' = [job EXCEPT ![p] = Job(job[p].msg, C, d)]
        /\ UNCHANGED <<queue, published, wire, spilled, send>>
    BY <1>9 DEF DropSlow, RefuseClosed, notifying
  <2>2. /\ job'[RunLoop].msg \in {job[RunLoop].msg, NoMessage}
        /\ job'[RunLoop].todo \subseteq job[RunLoop].todo
    BY <2>1, <1>a, JobFacts
  <2> QED
    BY <2>1, <2>2, <1>b, OrderFrame DEF Turn
<1>10. ASSUME NEW n \in Notices, StartSpilled(n) PROVE OrderInv'
  <2>1. job'[RunLoop] = job[RunLoop] /\ UNCHANGED <<queue, published, wire, spilled, send>>
    BY <1>10, <1>a DEF StartSpilled, Begin
  <2> QED
    BY <2>1, OrderFrame DEF Turn
<1>11. ASSUME NEW q \in Channels, TakeNotice(q) PROVE OrderInv'
  BY <1>11, OrderTake
<1>12. CASE TakeTick
  <2>1. /\ job'[RunLoop] = Job(TimeSync, Targets(TimeSync), NoClient)
        /\ UNCHANGED <<queue, published, wire, spilled, send>>
    BY <1>12, <1>a DEF TakeTick, Begin, notifying
  <2>2. Turn' \cap Direct = {}
    BY <2>1, <1>b, JobFacts DEF Turn
  <2> QED
    BY <2>1, <2>2, OrderFrame
<1> QED
  BY <1>2, <1>3, <1>4, <1>5, <1>6, <1>7, <1>8, <1>9, <1>10, <1>11, <1>12
  DEF Next, ReaderStep, WriterStep, WorkerStep

(* A client gets the notices of a topic once each and in the order they    *)
(* were published, apart from those that met a full channel, whatever the  *)
(* workers, the pumps and the callers interleave.                          *)
THEOREM NoticesInOrder == Spec => []InOrder
<1>1. HubInv /\ OwnNotice /\ OrderInv /\ [Next]_vars => OrderInv'
  BY OrderNext
<1>2. Spec => [](HubInv /\ KeptInv)
  BY HubInvHolds, KeptInvInit, KeptInvNext, PTL DEF Spec
<1>3. KeptInv => OwnNotice
  BY DEF KeptInv
<1> QED
  BY <1>1, <1>2, <1>3, OrderInvInit, OrderImplies, PTL DEF Spec
=============================================================================
