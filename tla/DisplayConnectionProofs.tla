----------------------- MODULE DisplayConnectionProofs -----------------------
(***************************************************************************)
(* Proofs about DisplayConnection, for any sockets and windows, any cap on *)
(* the delay, and any number of times that the constructor throws.         *)
(***************************************************************************)
EXTENDS DisplayConnection, FiniteSetTheorems, TLAPS

(* The fields of the client and the state of its sockets.                  *)
Phases == Live \cup {"unused", "closing"}
TypeOK ==
    /\ socket \in Sockets \cup {NoSocket} /\ bound \subseteq Sockets
    /\ phase \in [Sockets -> Phases]
    /\ timer \in BOOLEAN /\ explicit \in BOOLEAN /\ begun \in BOOLEAN
    /\ status \in {"disconnected", "connecting", "reconnecting", "connected", "error"}
    /\ attempts \in 0..MaxAttempts /\ throws \in 0..MaxThrows
    /\ wanted \in Windows \cup {NoWindow} /\ watched \in Windows \cup {NoWindow}
    /\ heard \in [Sockets -> Windows \cup {NoWindow}]

(* Only the socket in use has the client's handlers, so the onclose that   *)
(* does not ask which socket it is about is right; it alone may be live.   *)
OwnHandlers == bound = {socket} \ {NoSocket}
OnlyOwnLives == \A s \in Sockets : phase[s] \in Live => s = socket

(* The socket in use has not closed.  Until its onclose comes the badge    *)
(* says "connected", which is what hides the connect button of a control   *)
(* page from a socket that is closing.                                     *)
InUse ==
    socket # NoSocket =>
        phase[socket] # "unused" /\ (phase[socket] # "connecting" => status = "connected")

(* A timer runs only without a socket, and there is none before connect(). *)
TimerAlone == (timer \/ ~begun) => socket = NoSocket

(* A socket that is not open yet has been sent nothing.                    *)
NothingHeard == \A s \in Sockets : phase[s] \in {"unused", "connecting"} => heard[s] = NoWindow

ClientInv ==
    /\ TypeOK /\ OneWayBack /\ SubscribedToWanted
    /\ OwnHandlers /\ OnlyOwnLives /\ InUse /\ TimerAlone /\ NothingHeard
-----------------------------------------------------------------------------
LEMMA ClientInit == Init => ClientInv
<1> SUFFICES ASSUME Init PROVE ClientInv
  OBVIOUS
<1>1. TypeOK
  <2>1. 0 \in 0..MaxAttempts /\ 0 \in 0..MaxThrows /\ phase \in [Sockets -> Phases]
    BY BoundsAssumption DEF Init, Phases
  <2> QED
    BY <2>1 DEF Init, TypeOK
<1> QED
  BY <1>1 DEF Init, ClientInv, OneWayBack, SubscribedToWanted, Holds, OwnHandlers, OnlyOwnLives,
              Live, InUse, TimerAlone, NothingHeard

(* Where connect() goes past its early return, the client has no socket.   *)
LEMMA DialStep == ASSUME ClientInv, socket = NoSocket, Dial PROVE ClientInv'
<1>0. /\ TypeOK /\ OwnHandlers /\ OnlyOwnLives /\ NothingHeard /\ bound = {}
      /\ explicit' = FALSE /\ begun' = TRUE /\ UNCHANGED <<heard, wanted, watched>>
  BY DEF ClientInv, OwnHandlers, Dial, page
<1>1. ASSUME NEW s \in Sockets, NewSocket(s) PROVE ClientInv'
  <2>1. /\ phase[s] = "unused" /\ phase' = [phase EXCEPT ![s] = "connecting"]
        /\ bound' = bound \cup {s} /\ socket' = s /\ timer' = FALSE
        /\ status' \in {"reconnecting", "connecting"} /\ UNCHANGED <<attempts, throws>>
        /\ s # NoSocket
    BY <1>1, NamesAssumption DEF NewSocket
  <2>2. TypeOK'
    BY <1>0, <2>1 DEF TypeOK, Phases, Live
  <2>3. phase'[s] = "connecting"
    BY <1>0, <2>1 DEF TypeOK
  <2>4. OneWayBack' /\ TimerAlone'
    BY <1>0, <2>1 DEF OneWayBack, TimerAlone
  <2>5. SubscribedToWanted' /\ OwnHandlers' /\ InUse'
    BY <1>0, <2>1, <2>3 DEF SubscribedToWanted, Holds, OwnHandlers, InUse
  <2>6. OnlyOwnLives' /\ NothingHeard'
    BY <1>0, <2>1, NamesAssumption DEF OnlyOwnLives, NothingHeard, TypeOK, Live
  <2> QED
    BY <2>2, <2>4, <2>5, <2>6 DEF ClientInv
<1>2. CASE NoNewSocket
  <2>1. /\ throws' \in 0..MaxThrows /\ timer' = TRUE /\ attempts' \in 0..MaxAttempts
        /\ status' = "reconnecting" /\ UNCHANGED <<socket, phase, bound>>
    BY <1>0, <1>2, BoundsAssumption DEF NoNewSocket, Schedule, NextAttempt, TypeOK
  <2>2. TypeOK'
    BY <1>0, <2>1 DEF TypeOK
  <2> QED
    BY <1>0, <2>1, <2>2 DEF ClientInv, OneWayBack, SubscribedToWanted, Holds, Busy, OwnHandlers,
                            OnlyOwnLives, InUse, TimerAlone, NothingHeard
<1> QED
  BY <1>1, <1>2 DEF Dial

LEMMA ConnectStep == ASSUME ClientInv, Connect PROVE ClientInv'
<1>1. socket = NoSocket
  <2>1. ~Busy /\ (begun => status # "connected") /\ TypeOK
    BY DEF Connect, ClientInv
  <2>2. socket # NoSocket => phase[socket] \in {"connecting", "open"}
    BY <2>1 DEF ClientInv, InUse, TimerAlone, TypeOK, Phases, Live
  <2> QED
    BY <2>1, <2>2 DEF Busy, Holds, Live
<1> QED
  BY <1>1, DialStep DEF Connect

LEMMA TimerStep == ASSUME ClientInv, TimerFires PROVE ClientInv'
<1>1. timer /\ socket = NoSocket /\ ~Busy
  BY DEF TimerFires, ClientInv, TimerAlone, Busy, Holds
<1> QED
  BY <1>1, DialStep DEF TimerFires

LEMMA SubscribeStep == ASSUME ClientInv, NEW w \in Windows, Subscribe(w) PROVE ClientInv'
<1>1. /\ wanted' = w
      /\ heard' = IF Holds({"open"}) THEN [heard EXCEPT ![socket] = w] ELSE heard
      /\ UNCHANGED <<socket, phase, bound, timer, explicit, status, attempts, watched, begun, throws>>
  BY DEF Subscribe, history
<1>2. TypeOK /\ (Holds({"open"}) => socket \in Sockets /\ phase[socket] = "open")
  BY DEF ClientInv, TypeOK, Holds
<1>3. TypeOK' /\ SubscribedToWanted' /\ NothingHeard'
  BY <1>1, <1>2 DEF TypeOK, ClientInv, SubscribedToWanted, NothingHeard, Holds
<1> QED
  BY <1>1, <1>3 DEF ClientInv, OneWayBack, Busy, Holds, OwnHandlers, OnlyOwnLives, InUse, TimerAlone

(* The client forgets its socket: it was told to stop, or the socket ends. *)
LEMMA DisconnectStep == ASSUME ClientInv, Disconnect PROVE ClientInv'
<1>1. /\ explicit' = TRUE /\ timer' = FALSE /\ bound' = bound \ {socket} /\ socket' = NoSocket
      /\ phase' = [s \in Sockets |-> IF s = socket THEN "closing" ELSE phase[s]]
      /\ status' = "disconnected" /\ UNCHANGED <<heard, attempts, wanted, watched, begun, throws>>
  BY DEF Disconnect, page, history
<1>2. TypeOK /\ OwnHandlers /\ OnlyOwnLives /\ NothingHeard
  BY DEF ClientInv
<1>3. TypeOK'
  BY <1>1, <1>2 DEF TypeOK, Phases
<1>4. OwnHandlers' /\ OneWayBack' /\ SubscribedToWanted' /\ InUse' /\ TimerAlone'
  BY <1>1, <1>2 DEF OwnHandlers, OneWayBack, SubscribedToWanted, Holds, InUse, TimerAlone
<1>5. OnlyOwnLives' /\ NothingHeard'
  BY <1>1, <1>2 DEF OnlyOwnLives, NothingHeard, Live
<1> QED
  BY <1>3, <1>4, <1>5 DEF ClientInv

LEMMA OpenStep == ASSUME ClientInv, NEW s \in Sockets, Open(s) PROVE ClientInv'
<1> DEFINE w == IF watched # NoWindow /\ status # "connected" THEN watched ELSE wanted
<1>1. /\ phase[s] = "connecting" /\ phase' = [phase EXCEPT ![s] = "open"]
      /\ attempts' = 0 /\ status' = "connected" /\ wanted' = w
      /\ heard' = IF w # NoWindow /\ socket # NoSocket /\ phase'[socket] = "open"
                  THEN [heard EXCEPT ![socket] = w] ELSE heard
      /\ UNCHANGED <<socket, bound, timer, explicit, watched, begun, throws>>
  BY DEF Open, history
<1>2. TypeOK /\ socket = s /\ s # NoSocket /\ ~timer /\ heard[s] = NoWindow /\ w \in Windows \cup {NoWindow}
  BY <1>1, NamesAssumption DEF ClientInv, OnlyOwnLives, TimerAlone, NothingHeard, TypeOK, Live
<1> HIDE DEF w
<1>3. phase'[s] = "open" /\ heard'[s] = w
  BY <1>1, <1>2 DEF TypeOK
<1>4. TypeOK'
  BY <1>1, <1>2, BoundsAssumption DEF TypeOK, Phases, Live
<1>5. SubscribedToWanted' /\ InUse' /\ TimerAlone' /\ OwnHandlers'
  BY <1>1, <1>2, <1>3 DEF SubscribedToWanted, Holds, InUse, ClientInv, TimerAlone, OwnHandlers
<1>6. OneWayBack'
  BY <1>1, <1>2 DEF ClientInv, OneWayBack
<1>7. OnlyOwnLives' /\ NothingHeard'
  BY <1>1, <1>2 DEF ClientInv, OnlyOwnLives, NothingHeard, TypeOK
<1> QED
  BY <1>4, <1>5, <1>6, <1>7 DEF ClientInv

LEMMA PeerStep == ASSUME ClientInv, NEW s \in Sockets, PeerCloses(s) PROVE ClientInv'
<1>1. /\ phase[s] = "open" /\ phase' = [phase EXCEPT ![s] = "closing"]
      /\ UNCHANGED <<socket, bound, timer, explicit, status, attempts, heard, wanted, watched, begun, throws>>
  BY DEF PeerCloses, page, history
<1>2. TypeOK /\ socket = s
  BY <1>1 DEF ClientInv, OnlyOwnLives, Live
<1>3. TypeOK'
  BY <1>1, <1>2 DEF TypeOK, Phases
<1>4. OneWayBack' /\ SubscribedToWanted' /\ OwnHandlers' /\ InUse' /\ TimerAlone'
  BY <1>1, <1>2 DEF ClientInv, TypeOK, OneWayBack, Busy, Holds, SubscribedToWanted, OwnHandlers,
                    InUse, TimerAlone, Live
<1>5. OnlyOwnLives' /\ NothingHeard'
  BY <1>1, <1>2 DEF ClientInv, TypeOK, OnlyOwnLives, NothingHeard, Live
<1> QED
  BY <1>3, <1>4, <1>5 DEF ClientInv

LEMMA CloseStep ==
    ASSUME ClientInv, NEW s \in Sockets, NEW failed \in BOOLEAN, Close(s, failed) PROVE ClientInv'
<1>0. /\ TypeOK /\ OwnHandlers /\ phase' = [phase EXCEPT ![s] = "unused"]
      /\ heard' = [heard EXCEPT ![s] = NoWindow] /\ bound' = bound \ {s}
      /\ UNCHANGED <<explicit, wanted, watched, begun, throws>>
  BY DEF Close, ClientInv, page, history
<1>1. CASE s = socket
  <2>1. s \in bound /\ ~explicit /\ ~timer /\ begun
    BY <1>0, <1>1, NamesAssumption DEF OwnHandlers, ClientInv, OneWayBack, TimerAlone
  <2>2. socket' = NoSocket /\ Schedule
    BY <2>1 DEF Close, OnClose
  <2>3. timer' = TRUE /\ status' = "reconnecting" /\ attempts' \in 0..MaxAttempts
    BY <1>0, <2>2, BoundsAssumption DEF Schedule, NextAttempt, TypeOK
  <2>4. TypeOK'
    BY <1>0, <2>2, <2>3 DEF TypeOK, Phases
  <2>5. OneWayBack' /\ SubscribedToWanted' /\ OwnHandlers' /\ InUse' /\ TimerAlone'
    BY <1>0, <1>1, <2>1, <2>2, <2>3 DEF OneWayBack, Busy, Holds, SubscribedToWanted, OwnHandlers,
                                        InUse, TimerAlone
  <2>6. OnlyOwnLives' /\ NothingHeard'
    BY <1>0, <1>1 DEF ClientInv, TypeOK, OnlyOwnLives, NothingHeard, Live
  <2> QED
    BY <2>4, <2>5, <2>6 DEF ClientInv
<1>2. CASE s # socket
  <2>1. UNCHANGED <<socket, timer, status, attempts>> /\ bound' = bound
    BY <1>0, <1>2 DEF OwnHandlers, Close
  <2>2. TypeOK'
    BY <1>0, <2>1 DEF TypeOK, Phases
  <2>3. OneWayBack' /\ SubscribedToWanted' /\ OwnHandlers' /\ InUse' /\ TimerAlone'
    BY <1>0, <1>2, <2>1 DEF ClientInv, TypeOK, OneWayBack, Busy, Holds, SubscribedToWanted,
                            OwnHandlers, InUse, TimerAlone
  <2>4. OnlyOwnLives' /\ NothingHeard'
    BY <1>0, <1>2, <2>1 DEF ClientInv, TypeOK, OnlyOwnLives, NothingHeard, Live
  <2> QED
    BY <2>2, <2>3, <2>4 DEF ClientInv
<1> QED
  BY <1>1, <1>2

LEMMA ClientNext == ClientInv /\ [Next]_vars => ClientInv'
<1> SUFFICES ASSUME ClientInv, [Next]_vars PROVE ClientInv'
  OBVIOUS
<1>1. CASE UNCHANGED vars
  BY <1>1 DEF vars, network, page, history, ClientInv, TypeOK, OneWayBack, Busy, Holds,
              SubscribedToWanted, OwnHandlers, OnlyOwnLives, InUse, TimerAlone, NothingHeard
<1> QED
  BY <1>1, ConnectStep, DisconnectStep, SubscribeStep, TimerStep, OpenStep, PeerStep, CloseStep DEF Next

(* Every reachable state satisfies it.                                     *)
THEOREM ClientCorrect == Spec => []ClientInv
  BY ClientInit, ClientNext, PTL DEF Spec

(* A client that was not told to stop has exactly one way back; one that   *)
(* was told has none.                                                      *)
THEOREM AlwaysOneWayBack == Spec => []OneWayBack
<1>1. ClientInv => OneWayBack
  BY DEF ClientInv
<1> QED
  BY <1>1, ClientCorrect, PTL

(* An open socket was last asked for the window that the page wants.       *)
THEOREM AlwaysSubscribed == Spec => []SubscribedToWanted
<1>1. ClientInv => SubscribedToWanted
  BY DEF ClientInv
<1> QED
  BY <1>1, ClientCorrect, PTL

(* At most one socket is live, with any number of sockets.                 *)
THEOREM AtMostOneConnection == Spec => []OneConnection
<1>1. ClientInv => OneConnection
  <2> SUFFICES ASSUME ClientInv PROVE OneConnection
    OBVIOUS
  <2> DEFINE L == {s \in Sockets : phase[s] \in Live}
  <2>1. L \subseteq {socket}
    BY DEF ClientInv, OnlyOwnLives
  <2>2. IsFiniteSet({socket}) /\ Cardinality({socket}) = 1
    BY FS_Singleton
  <2> HIDE DEF L
  <2>3. Cardinality(L) <= 1
    BY <2>1, <2>2, FS_Subset
  <2> QED
    BY <2>3 DEF OneConnection, L
<1> QED
  BY <1>1, ClientCorrect, PTL
=============================================================================
