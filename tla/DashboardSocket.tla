--------------------------- MODULE DashboardSocket ---------------------------
(***************************************************************************)
(* The dashboard's connection to the WebSocket server: WebSocketService    *)
(* (src/apps/tx-dashboard/src/services/websocket.ts).                      *)
(*                                                                         *)
(* Every socket the service ever made keeps its handlers, and the close    *)
(* event of one arrives long after close() was called or after the server  *)
(* began to close it: in the meantime a page that is opened may call       *)
(* connect() and get a second socket.                                      *)
(***************************************************************************)
EXTENDS Naturals

CONSTANTS
  Sockets,                \* WebSocket objects whose close event has not arrived, and the current one
  NoSocket,               \* no socket
  MaxClientAttempts,      \* config.maxReconnectAttempts
  MaxCalls,               \* bound: calls of connect() and disconnect() by the pages
  MaxFailures             \* bound: failed handshakes and connections closed by the server

ASSUME SocketAssumption == NoSocket \notin Sockets
ASSUME ClientBoundAssumption ==
  MaxClientAttempts \in Nat /\ MaxCalls \in Nat /\ MaxFailures \in Nat

VARIABLES
  urlValid,          \* new WebSocket(config.url) does not throw
  readyState,        \* of each socket; CLOSED: its close event has been delivered
  normal,            \* sockets that disconnect() closed when they were open
  ws,                \* this.ws
  connectionState,
  reconnectAttempts,
  reconnectTimer,    \* the timer this.reconnectTimer refers to is to fire
  lostTimers,        \* timers to fire that no field refers to any more
  heartbeatTimer,    \* this.heartbeatTimer
  lostHeartbeats,    \* heartbeat intervals that no field refers to any more
  wanted,            \* the last call of a page was connect()
  replaced,          \* history: connect() made a socket before another one's close event
  cancelled,         \* history: the close event of a former socket cancelled a reconnection
  pageCalls, failures \* counters of the bounds

socketVars == <<readyState, normal, ws>>
timerVars  == <<reconnectTimer, lostTimers, heartbeatTimer, lostHeartbeats>>
boundVars  == <<pageCalls, failures>>
clientVars == <<urlValid, socketVars, connectionState, reconnectAttempts, timerVars, wanted, replaced,
              cancelled, boundVars>>

ConnectionStates == {"connecting", "connected", "disconnected", "reconnecting", "error"}
ReadyStates == {"CONNECTING", "OPEN", "CLOSING", "CLOSED"}

Is(states) == ws # NoSocket /\ readyState[ws] \in states

\* Mutant: any socket will do, closed ones included.
HasSocket == ws # NoSocket

\* connect() keeps the socket it has.
Live == Is({"CONNECTING", "OPEN"})

\* Mutant: only an open socket is closed.
OpenOnly == {"OPEN"}

\* The sockets that disconnect() closes: close() fails one that is connecting,
\* starts the closing handshake of an open one, and does nothing to the others.
Closable == {"CONNECTING", "OPEN"}

ClientInit ==
  /\ urlValid \in BOOLEAN
  /\ readyState = [s \in Sockets |-> "CLOSED"] /\ normal = {} /\ ws = NoSocket
  /\ connectionState = "disconnected" /\ reconnectAttempts = 0
  /\ reconnectTimer = FALSE /\ lostTimers = 0
  /\ heartbeatTimer = FALSE /\ lostHeartbeats = 0
  /\ wanted = FALSE /\ replaced = FALSE /\ cancelled = FALSE
  /\ pageCalls = 0 /\ failures = 0
-----------------------------------------------------------------------------
(* connect and disconnect.                                                 *)

Exhausted == reconnectAttempts >= MaxClientAttempts

\* scheduleReconnect.  (armed): the timer of the field is still to fire; (stray):
\* how many others are.  setTimeout overwrites the field.
ScheduleClientReconnect(armed, stray) ==
  \/ /\ Exhausted
     /\ connectionState' = "error"
     /\ reconnectTimer' = armed /\ lostTimers' = stray
     /\ UNCHANGED reconnectAttempts
  \/ /\ ~Exhausted
     /\ connectionState' = "reconnecting"
     /\ reconnectAttempts' = reconnectAttempts + 1
     /\ reconnectTimer' = TRUE
     /\ lostTimers' = IF armed THEN stray + 1 ELSE stray

\* A new socket, whatever becomes of the one that ws referred to.
OpenSocket ==
  \E s \in Sockets :
    /\ readyState[s] = "CLOSED"
    /\ readyState' = [readyState EXCEPT ![s] = "CONNECTING"]
    /\ ws' = s /\ connectionState' = "connecting"
    /\ replaced' = (replaced \/ \E o \in Sockets : readyState[o] # "CLOSED")
    /\ UNCHANGED <<normal, reconnectAttempts>>

\* connect().  A timer that is armed stays armed.
Connect(armed, stray) ==
  \/ /\ Live
     /\ reconnectTimer' = armed /\ lostTimers' = stray
     /\ UNCHANGED <<socketVars, connectionState, reconnectAttempts, replaced>>
  \/ /\ ~Live /\ urlValid
     /\ OpenSocket
     /\ reconnectTimer' = armed /\ lostTimers' = stray
  \/ /\ ~Live /\ ~urlValid
     /\ ScheduleClientReconnect(armed, stray)
     /\ UNCHANGED <<socketVars, replaced>>

\* A page is opened, or the user asks for a reconnection.
ConnectCalled ==
  /\ pageCalls < MaxCalls /\ pageCalls' = pageCalls + 1
  /\ wanted' = TRUE /\ cancelled' = FALSE
  /\ Connect(reconnectTimer, lostTimers)
  /\ UNCHANGED <<urlValid, heartbeatTimer, lostHeartbeats, failures>>

\* disconnect().  Only the handshake of an open socket can end with code 1000.
DisconnectCalled ==
  /\ pageCalls < MaxCalls /\ pageCalls' = pageCalls + 1
  /\ wanted' = FALSE
  /\ reconnectTimer' = FALSE /\ heartbeatTimer' = FALSE
  /\ reconnectAttempts' = 0 /\ connectionState' = "disconnected"
  /\ ws' = NoSocket
  /\ readyState' = [s \in Sockets |-> IF s = ws /\ Is(Closable) THEN "CLOSING" ELSE readyState[s]]
  /\ normal' = IF Is({"OPEN"}) THEN normal \cup {ws} ELSE normal
  /\ UNCHANGED <<urlValid, lostTimers, lostHeartbeats, replaced, cancelled, failures>>

\* The timer of the field, or one that was lost, fires and calls connect().
ReconnectTimerFires ==
  /\ \/ reconnectTimer /\ Connect(FALSE, lostTimers)
     \/ lostTimers > 0 /\ Connect(reconnectTimer, lostTimers - 1)
  /\ UNCHANGED <<urlValid, heartbeatTimer, lostHeartbeats, wanted, cancelled, boundVars>>
-----------------------------------------------------------------------------
(* The events of a socket.                                                 *)

\* onopen.  startHeartbeat overwrites the field.
Opened(s) ==
  /\ readyState[s] = "CONNECTING"
  /\ readyState' = [readyState EXCEPT ![s] = "OPEN"]
  /\ reconnectAttempts' = 0 /\ connectionState' = "connected"
  /\ heartbeatTimer' = TRUE
  /\ lostHeartbeats' = IF heartbeatTimer THEN lostHeartbeats + 1 ELSE lostHeartbeats
  /\ UNCHANGED <<urlValid, normal, ws, reconnectTimer, lostTimers, wanted, replaced,
                 cancelled, boundVars>>

\* The server, or a proxy, begins to close an open socket.
ServerCloses(s) ==
  /\ failures < MaxFailures /\ failures' = failures + 1
  /\ readyState[s] = "OPEN"
  /\ readyState' = [readyState EXCEPT ![s] = "CLOSING"]
  /\ UNCHANGED <<urlValid, normal, ws, connectionState, reconnectAttempts, timerVars, wanted,
                 replaced, cancelled, pageCalls>>

\* onclose, after onerror if the connection failed: clearTimers, then a
\* reconnection unless the code is 1000.
OnClose(s, code) ==
  /\ readyState' = [readyState EXCEPT ![s] = "CLOSED"]
  /\ normal' = normal \ {s}
  /\ heartbeatTimer' = FALSE
  /\ \/ /\ code = 1000
        /\ connectionState' = "disconnected"
        /\ reconnectTimer' = FALSE
        /\ cancelled' = (cancelled \/ reconnectTimer)
        /\ UNCHANGED <<reconnectAttempts, lostTimers>>
     \/ /\ code # 1000
        /\ ScheduleClientReconnect(FALSE, lostTimers)
        /\ UNCHANGED cancelled
  /\ UNCHANGED <<urlValid, ws, lostHeartbeats, wanted, replaced, pageCalls>>

\* A handshake that fails, or an open connection that breaks.
ConnectionFails(s) ==
  /\ failures < MaxFailures /\ failures' = failures + 1
  /\ readyState[s] \in {"CONNECTING", "OPEN"}
  /\ OnClose(s, 1006)

\* The end of a closing handshake.  Only a handshake that disconnect() began can
\* end with 1000: the server never closes with that code.
Closed(s) ==
  /\ readyState[s] = "CLOSING"
  /\ \/ s \in normal /\ OnClose(s, 1000)
     \/ OnClose(s, 1006)
  /\ UNCHANGED failures

SocketEvent(s) == Opened(s) \/ ServerCloses(s) \/ ConnectionFails(s) \/ Closed(s)

ClientNext ==
  \/ ConnectCalled \/ DisconnectCalled \/ ReconnectTimerFires
  \/ \E s \in Sockets : SocketEvent(s)

ClientSpec == ClientInit /\ [][ClientNext]_clientVars

\* A timer fires, and the browser ends a handshake, a closing one by its timeout
\* at the latest.
ClientFairness ==
  /\ WF_clientVars(ReconnectTimerFires)
  /\ \A s \in Sockets : WF_clientVars(Opened(s)) /\ WF_clientVars(Closed(s))

ClientFairSpec == ClientSpec /\ ClientFairness
-----------------------------------------------------------------------------
(* Properties.                                                             *)

ClientTypeOK ==
  /\ urlValid \in BOOLEAN
  /\ readyState \in [Sockets -> ReadyStates]
  /\ normal \subseteq Sockets /\ ws \in Sockets \cup {NoSocket}
  /\ connectionState \in ConnectionStates
  /\ reconnectAttempts \in 0..MaxClientAttempts
  /\ reconnectTimer \in BOOLEAN /\ heartbeatTimer \in BOOLEAN
  /\ wanted \in BOOLEAN /\ replaced \in BOOLEAN /\ cancelled \in BOOLEAN
  /\ lostTimers \in Nat /\ lostHeartbeats \in Nat /\ pageCalls \in Nat /\ failures \in Nat

\* Pages share one connection: whoever calls connect(), and whatever timers
\* fire, every socket but the one in ws is closing or closed, so that no
\* transaction arrives twice.
OneLiveSocket == \A s \in Sockets : readyState[s] \in {"CONNECTING", "OPEN"} => s = ws

\* A dashboard that shows "connected" has a socket whose close event will tell
\* it otherwise, and sends heartbeats.
ConnectedIsLive == connectionState = "connected" => Is({"OPEN", "CLOSING"}) /\ heartbeatTimer

\* A service that was asked for a connection has one in progress, or a timer to
\* try again, or is at its last attempt: no order of events leaves it with
\* nothing to do, but for the close event of a former socket that clears the
\* timer of the current one.
NeverForgotten ==
  wanted /\ ~cancelled => \/ Is({"CONNECTING", "OPEN", "CLOSING"})
                          \/ reconnectTimer \/ lostTimers > 0
                          \/ reconnectAttempts = MaxClientAttempts

\* A dashboard that shows "reconnecting" is: a timer is armed, or the current
\* socket will end in an event.
ReconnectingIsTrue ==
  connectionState = "reconnecting" => reconnectTimer \/ Is({"CONNECTING", "OPEN", "CLOSING"})

\* As long as no socket is made before the close event of the one before, an open
\* connection shows as connected, there is one heartbeat, and it stops with the
\* connection.
Undisturbed ==
  ~replaced => /\ Is({"OPEN"}) => connectionState = "connected"
               /\ heartbeatTimer => Is({"OPEN", "CLOSING"})
               /\ lostHeartbeats = 0

\* What the dashboard shows of its connection is true, in every order of calls,
\* timers and events of sockets.
ShownState == ConnectedIsLive /\ ReconnectingIsTrue /\ Undisturbed

\* A dashboard that wants a connection gets one, once the server accepts it, or
\* has used up its attempts, or lost its timer to a former socket.
Reconnects ==
  wanted ~> \/ Is({"OPEN"}) \/ ~wanted \/ cancelled
            \/ reconnectAttempts = MaxClientAttempts
=============================================================================
