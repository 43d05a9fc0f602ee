-------------------------- MODULE DisplayConnection --------------------------
(***************************************************************************)
(* The browser's connection to the hub: SequencerWebSocketClient, its      *)
(* reconnection timer, and the pages that call it.                         *)
(*                                                                         *)
(* Actors: the page (connect, disconnect and subscribe), the timer, and    *)
(* the network, whose events reach the handlers of whatever socket they    *)
(* are about, the one the client holds or an older one.  Each action is    *)
(* one task of the browser's event loop.                                   *)
(***************************************************************************)
EXTENDS Integers, FiniteSets

CONSTANTS Sockets,    \* bound: WebSocket objects alive at once; names are reused
          NoSocket,
          Windows,
          NoWindow,   \* subscribedWindowId = null
          MaxAttempts,\* attempts from which the delay no longer grows
          MaxThrows   \* bound: times the WebSocket constructor throws

ASSUME NamesAssumption == NoSocket \notin Sockets /\ NoWindow \notin Windows
ASSUME BoundsAssumption == MaxAttempts \in Nat \ {0} /\ MaxThrows \in Nat

VARIABLES socket,    \* this.socket
          phase,     \* of each socket: its readyState, or "unused"
          bound,     \* sockets whose onclose and onerror are the client's
          timer,     \* this.reconnectTimer is set
          explicit,  \* this.isExplicitlyClosed
          status,    \* this.status, what the badge of the page shows
          attempts,  \* of reconnectStrategy
          wanted,    \* this.subscribedWindowId
          heard,     \* the window of the last SUBSCRIBE sent on each socket
          watched,   \* the window of a display; NoWindow on the control pages
          begun,     \* connect() has been called
          throws

network == <<phase, bound, heard>>
page == <<wanted, watched>>
history == <<begun, throws>>
vars == <<socket, network, timer, explicit, status, attempts, page, history>>

Live == {"connecting", "open"}

-----------------------------------------------------------------------------
Init ==
    /\ socket = NoSocket
    /\ phase = [s \in Sockets |-> "unused"] /\ bound = {}
    /\ timer = FALSE /\ explicit = FALSE
    /\ status = "disconnected" /\ attempts = 0
    /\ wanted = NoWindow /\ heard = [s \in Sockets |-> NoWindow]
    /\ watched \in Windows \cup {NoWindow}
    /\ begun = FALSE /\ throws = 0

Holds(p) == socket # NoSocket /\ phase[socket] \in p

(* connect() returns at once: the client is connecting or connected.       *)
Busy == Holds(Live)

(* getNextDelay: the delay doubles with each attempt, up to its maximum.   *)
NextAttempt == IF attempts < MaxAttempts THEN attempts + 1 ELSE attempts

(* Slip: the client gives up when the delay has reached its maximum.       *)
GiveUp ==
    IF attempts = MaxAttempts
    THEN status' = "disconnected" /\ UNCHANGED <<timer, attempts>>
    ELSE timer' = TRUE /\ attempts' = attempts + 1 /\ status' = "reconnecting"

(* scheduleReconnect, with no timer running and no explicit close.         *)
Schedule ==
    /\ timer' = TRUE
    /\ attempts' = NextAttempt
    /\ status' = "reconnecting"

-----------------------------------------------------------------------------
(* connect(), past its early return                                        *)

NewSocket(s) ==
    /\ phase[s] = "unused"
    /\ phase' = [phase EXCEPT ![s] = "connecting"]
    /\ bound' = bound \cup {s}
    /\ socket' = s
    /\ timer' = FALSE
    /\ status' = IF attempts > 0 THEN "reconnecting" ELSE "connecting"
    /\ UNCHANGED <<attempts, throws>>

(* The constructor throws: this.socket keeps what it held.                 *)
NoNewSocket ==
    /\ throws < MaxThrows
    /\ throws' = throws + 1
    /\ Schedule
    /\ UNCHANGED <<socket, phase, bound>>

Dial ==
    /\ (\E s \in Sockets : NewSocket(s)) \/ NoNewSocket
    /\ explicit' = FALSE
    /\ begun' = TRUE
    /\ UNCHANGED <<heard, page>>

-----------------------------------------------------------------------------
(* The page                                                                *)

(* Slip: the control page always shows its connect button.                 *)
ConnectAnyTime ==
    /\ ~Busy
    /\ begun => watched = NoWindow
    /\ Dial

(* The constructor's autoConnect, an effect, or the connect button, which  *)
(* a display lacks and a control page shows when it is not connected.      *)
Connect ==
    /\ ~Busy
    /\ begun => watched = NoWindow /\ status # "connected"
    /\ Dial

Subscribe(w) ==
    /\ watched = NoWindow
    /\ wanted' = w
    /\ heard' = IF Holds({"open"}) THEN [heard EXCEPT ![socket] = w] ELSE heard
    /\ UNCHANGED <<socket, phase, bound, timer, explicit, status, attempts, watched, history>>

(* The disconnect button, shown while connected, or the end of a display.  *)
MayDisconnect == IF watched = NoWindow THEN status = "connected" ELSE begun /\ ~explicit

(* Slip: the timer of a connection that was lost is left running.          *)
DisconnectKeepsTimer ==
    /\ MayDisconnect
    /\ explicit' = TRUE
    /\ bound' = bound \ {socket}
    /\ phase' = [s \in Sockets |-> IF s = socket THEN "closing" ELSE phase[s]]
    /\ socket' = NoSocket
    /\ status' = "disconnected"
    /\ UNCHANGED <<timer, heard, attempts, page, history>>

(* disconnect(): the handlers are taken off before the socket is closed.   *)
Disconnect ==
    /\ MayDisconnect
    /\ explicit' = TRUE
    /\ timer' = FALSE
    /\ bound' = bound \ {socket}
    /\ phase' = [s \in Sockets |-> IF s = socket THEN "closing" ELSE phase[s]]
    /\ socket' = NoSocket
    /\ status' = "disconnected"
    /\ UNCHANGED <<heard, attempts, page, history>>

-----------------------------------------------------------------------------
(* The timer and the network                                               *)

TimerFires ==
    /\ timer
    /\ IF Busy
       THEN /\ timer' = FALSE
            /\ UNCHANGED <<socket, network, explicit, status, attempts, page, history>>
       ELSE Dial

(* Slip: a socket that opens does not ask for the window again.            *)
OpenOnly(s) ==
    /\ phase[s] = "connecting"
    /\ phase' = [phase EXCEPT ![s] = "open"]
    /\ attempts' = 0 /\ status' = "connected"
    /\ UNCHANGED <<socket, bound, timer, explicit, heard, page, history>>

(* onopen: the status listener of a display subscribes, then the client    *)
(* does, both through this.socket, whichever socket that is.               *)
Open(s) ==
    LET w == IF watched # NoWindow /\ status # "connected" THEN watched ELSE wanted
    IN /\ phase[s] = "connecting"
       /\ phase' = [phase EXCEPT ![s] = "open"]
       /\ attempts' = 0 /\ status' = "connected"
       /\ wanted' = w
       /\ heard' = IF w # NoWindow /\ socket # NoSocket /\ phase'[socket] = "open"
                   THEN [heard EXCEPT ![socket] = w] ELSE heard
       /\ UNCHANGED <<socket, bound, timer, explicit, watched, history>>

(* The peer begins the closing handshake.                                  *)
PeerCloses(s) ==
    /\ phase[s] = "open"
    /\ phase' = [phase EXCEPT ![s] = "closing"]
    /\ UNCHANGED <<socket, bound, timer, explicit, status, attempts, heard, page, history>>

(* onclose, after onerror if the connection failed.  It clears             *)
(* this.socket without asking whether that is the socket that closed.      *)
OnClose(failed) ==
    /\ socket' = NoSocket
    /\ IF explicit
       THEN /\ status' = IF failed THEN "error" ELSE status
            /\ UNCHANGED <<timer, attempts>>
       ELSE IF timer
       THEN status' = "disconnected" /\ UNCHANGED <<timer, attempts>>
       ELSE Schedule

(* The connection of a socket fails or ends, in any phase.                 *)
Close(s, failed) ==
    /\ phase[s] # "unused"
    /\ phase' = [phase EXCEPT ![s] = "unused"]
    /\ heard' = [heard EXCEPT ![s] = NoWindow]
    /\ bound' = bound \ {s}
    /\ IF s \in bound THEN OnClose(failed)
       ELSE UNCHANGED <<socket, timer, status, attempts>>
    /\ UNCHANGED <<explicit, page, history>>

-----------------------------------------------------------------------------
Next ==
    \/ Connect
    \/ Disconnect
    \/ \E w \in Windows : Subscribe(w)
    \/ TimerFires
    \/ \E s \in Sockets : Open(s) \/ PeerCloses(s)
    \/ \E s \in Sockets, failed \in BOOLEAN : Close(s, failed)

Spec == Init /\ [][Next]_vars

(* A timer that is set fires, and a closing handshake ends: the browser    *)
(* sees to both.  Of the attempts, made again and again, some succeeds:    *)
(* the server is not down for ever.                                        *)
Settles(s) == phase[s] \in {"connecting", "closing"} /\ \E f \in BOOLEAN : Close(s, f)

Fairness ==
    /\ WF_vars(TimerFires)
    /\ \A s \in Sockets : WF_vars(Open(s) \/ Settles(s))
    /\ SF_vars(socket # NoSocket /\ \E s \in Sockets : s = socket /\ Open(s))

FairSpec == Spec /\ Fairness

-----------------------------------------------------------------------------
(* Properties                                                              *)

(* A client that was not told to stop always has a way back: its timer, or *)
(* a socket whose end it will hear of, and never a timer beside a socket   *)
(* that works.  One that was told to stop has neither, whatever late       *)
(* events of its sockets still come.                                       *)
OneWayBack ==
    IF explicit
    THEN ~timer /\ socket = NoSocket
    ELSE begun => (timer \/ socket \in bound) /\ ~(timer /\ Busy)

(* The socket in use, once open, was last asked for the window that the    *)
(* page wants: across reconnections, and when the page chose the window    *)
(* before the socket was open.                                             *)
SubscribedToWanted == Holds({"open"}) => heard[socket] = wanted

(* At most one socket is live: no reconnection of the timer meets one that *)
(* the page asked for, and no late close of one socket makes the client    *)
(* forget another, though onclose does not look which socket it is about.  *)
OneConnection == Cardinality({s \in Sockets : phase[s] \in Live}) <= 1

(* Unless the page stops it, the client gets an open socket again.         *)
Reconnects == begun /\ ~explicit ~> explicit \/ Holds({"open"})
=============================================================================
