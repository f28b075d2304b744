--------------------------- MODULE WebSocketServer ---------------------------
(***************************************************************************)
(* The chain scanner's WebSocket server                                    *)
(* (src/apps/chain-scanner/src/services/websocketServer.ts) and the start  *)
(* and shutdown of the process around it (src/apps/chain-scanner/src/      *)
(* main.ts).                                                               *)
(*                                                                         *)
(* A signal has two handlers: the server's own closes the clients and      *)
(* stops the server, that of main.ts shuts down every service and stops    *)
(* the server again.  An uncaught exception or an unhandled rejection has  *)
(* the second one only.                                                    *)
(***************************************************************************)
EXTENDS Naturals, FiniteSets

CONSTANTS
  Clients,          \* sockets that browsers may have open at a time
  MaxConnections,   \* config.websocket.maxConnections
  Shutdowns         \* calls of gracefulShutdown in main.ts (bounds their number)

ASSUME MaxConnectionsAssumption == MaxConnections \in Nat
ASSUME ClientsAssumption == IsFiniteSet(Clients)

VARIABLES
  portFree,          \* listen() can succeed
  phase,             \* the await at which start() of main.ts is, "running" after it
  isRunning,         \* isRunning of WebSocketServer
  server,            \* the ws server: it waits for its sockets when it closes
  heartbeatInterval,
  sockets,           \* the server's end of each connection
  clients,           \* this.clients, and those of them with isAlive
  alive,
  pinged,            \* a ping has not been answered
  hung,              \* browsers that have vanished without closing
  ownStops,          \* where calls of stop() by the server's own handler are
  shutdowns,         \* where each call of shutdown() in main.ts is
  disconnected,      \* the database was disconnected by a shutdown
  firstStop,         \* history: what stopped the server first
  exited

connections == <<sockets, clients, alive, pinged, hung>>
stopping    == <<ownStops, shutdowns, disconnected, firstStop>>
vars == <<portFree, phase, isRunning, server, heartbeatInterval, connections, stopping, exited>>

Phases  == {"services", "listen", "connect", "running"}
Servers == {"none", "open", "closing", "closed"}
Ready   == {"none", "open", "closing"}
Waits   == {"idle", "monitor", "stop", "server", "http", "database"}

Open == {c \in Clients : sockets[c] = "open"}

\* Mutant: off by one.
OverByMore(c) == Cardinality(clients \cup {c}) > MaxConnections + 1

\* One more client exceeds the limit.
Over(c) == Cardinality(clients \cup {c}) > MaxConnections

\* Mutant: nobody is found dead.
NoneDead == {}

\* The clients that did not answer the last ping.
Dead == clients \ alive

\* stop() returns at once.
Stopped == ~isRunning

Init ==
  /\ portFree \in BOOLEAN
  /\ phase = "services" /\ isRunning = FALSE /\ server = "none" /\ heartbeatInterval = FALSE
  /\ sockets = [c \in Clients |-> "none"]
  /\ clients = {} /\ alive = {} /\ pinged = {} /\ hung = {}
  /\ ownStops = {} /\ shutdowns = [m \in Shutdowns |-> "idle"]
  /\ disconnected = FALSE /\ firstStop = "none" /\ exited = FALSE
-----------------------------------------------------------------------------
(* start() of main.ts.                                                     *)

\* Database, tokens and statistics are initialized: the server is created.
ServicesReady ==
  /\ phase = "services" /\ phase' = "listen"
  /\ server' = "open" /\ heartbeatInterval' = TRUE
  /\ UNCHANGED <<portFree, isRunning, connections, stopping, exited>>

\* The callback of listen().  An error of listen() does not reach it: when the
\* port is taken, start() waits for ever.
Listening ==
  /\ phase = "listen" /\ portFree
  /\ phase' = "connect" /\ isRunning' = TRUE
  /\ UNCHANGED <<portFree, server, heartbeatInterval, connections, stopping, exited>>

\* The blockchain is connected and the health check has passed.
Started ==
  /\ phase = "connect" /\ phase' = "running"
  /\ UNCHANGED <<portFree, isRunning, server, heartbeatInterval, connections, stopping, exited>>

\* A service or the health check fails: shutdown() does nothing before the end
\* of start(), and the process exits.
StartFails ==
  /\ phase \in {"services", "connect"}
  /\ exited' = TRUE
  /\ UNCHANGED <<portFree, phase, isRunning, server, heartbeatInterval, connections, stopping>>

StartStep == ServicesReady \/ Listening \/ Started
-----------------------------------------------------------------------------
(* Clients.                                                                *)

\* Mutant: a client starts with isAlive false.
StartsDead(c) ==
  /\ server = "open" /\ isRunning /\ sockets[c] = "none"
  /\ sockets' = [sockets EXCEPT ![c] = IF Over(c) THEN "closing" ELSE "open"]
  /\ clients' = IF Over(c) THEN clients ELSE clients \cup {c}
  /\ alive' = alive \ {c}
  /\ hung' = hung \ {c} /\ pinged' = pinged \ {c}
  /\ UNCHANGED <<portFree, phase, isRunning, server, heartbeatInterval, stopping, exited>>

\* The 'connection' event.  A client over the limit is added, closed with 1008
\* and removed, and has no handlers.
ClientConnects(c) ==
  /\ server = "open" /\ isRunning /\ sockets[c] = "none"
  /\ sockets' = [sockets EXCEPT ![c] = IF Over(c) THEN "closing" ELSE "open"]
  /\ clients' = IF Over(c) THEN clients ELSE clients \cup {c}
  /\ alive' = IF Over(c) THEN alive ELSE alive \cup {c}
  /\ hung' = hung \ {c} /\ pinged' = pinged \ {c}
  /\ UNCHANGED <<portFree, phase, isRunning, server, heartbeatInterval, stopping, exited>>

\* The browser closes its socket.
ClientCloses(c) ==
  /\ sockets[c] = "open" /\ c \notin hung
  /\ sockets' = [sockets EXCEPT ![c] = "closing"]
  /\ UNCHANGED <<portFree, phase, isRunning, server, heartbeatInterval, clients, alive,
                 pinged, hung, stopping, exited>>

\* An invalid frame: the 'error' event removes the client and ws closes the socket.
SocketError(c) ==
  /\ sockets[c] = "open" /\ c \notin hung
  /\ sockets' = [sockets EXCEPT ![c] = "closing"]
  /\ clients' = clients \ {c} /\ alive' = alive \ {c}
  /\ UNCHANGED <<portFree, phase, isRunning, server, heartbeatInterval, pinged, hung,
                 stopping, exited>>

\* The 'close' event.  ws destroys a socket that does not finish its closing
\* handshake.
SocketClosed(c) ==
  /\ sockets[c] = "closing"
  /\ sockets' = [sockets EXCEPT ![c] = "none"]
  /\ clients' = clients \ {c} /\ alive' = alive \ {c}
  /\ UNCHANGED <<portFree, phase, isRunning, server, heartbeatInterval, pinged, hung,
                 stopping, exited>>

ClientHangs(c) ==
  /\ sockets[c] = "open" /\ c \notin hung
  /\ hung' = hung \cup {c}
  /\ UNCHANGED <<portFree, phase, isRunning, server, heartbeatInterval, sockets, clients,
                 alive, pinged, stopping, exited>>

\* The 'pong' event.
Pong(c) ==
  /\ c \in pinged \ hung /\ sockets[c] = "open"
  /\ alive' = IF c \in clients THEN alive \cup {c} ELSE alive
  /\ pinged' = pinged \ {c}
  /\ UNCHANGED <<portFree, phase, isRunning, server, heartbeatInterval, sockets, clients,
                 hung, stopping, exited>>

\* performHeartbeat: clients that did not answer the last ping are terminated and
\* removed, the others are pinged.
PerformHeartbeat ==
  /\ heartbeatInterval
  /\ sockets' = [c \in Clients |-> IF c \in Dead THEN "closing" ELSE sockets[c]]
  /\ clients' = clients \ Dead /\ alive' = {}
  /\ pinged' = pinged \cup (alive \cap Open)
  /\ UNCHANGED <<portFree, phase, isRunning, server, heartbeatInterval, hung, stopping, exited>>
-----------------------------------------------------------------------------
(* Stopping the server, by (who).                                          *)

\* cleanup() and server.close().
StopServer(who) ==
  /\ heartbeatInterval' = FALSE
  /\ clients' = {} /\ alive' = {}
  /\ server' = IF server = "open" THEN "closing" ELSE server
  /\ firstStop' = IF firstStop = "none" THEN who ELSE firstStop

\* gracefulShutdown of main.ts up to its first await.
GracefulShutdown(m) ==
  /\ shutdowns[m] = "idle"
  /\ \/ phase = "running" /\ shutdowns' = [shutdowns EXCEPT ![m] = "monitor"] /\ UNCHANGED exited
     \/ phase # "running" /\ exited' = TRUE /\ UNCHANGED shutdowns

\* Mutant: the clients are not closed.
ForgetsClients(m) ==
  /\ GracefulShutdown(m)
  /\ sockets' = sockets
  /\ \/ ~Stopped /\ StopServer("signal") /\ ownStops' = ownStops \cup {"server"}
     \/ Stopped /\ UNCHANGED <<heartbeatInterval, clients, alive, server, firstStop, ownStops>>
  /\ UNCHANGED <<portFree, phase, isRunning, pinged, hung, disconnected>>

\* SIGTERM or SIGINT: the clients are closed with 1001 and the server stopped,
\* then main.ts shuts down.
Signal(m) ==
  /\ GracefulShutdown(m)
  /\ sockets' = [c \in Clients |-> IF c \in clients /\ sockets[c] = "open" THEN "closing"
                                                                           ELSE sockets[c]]
  /\ \/ ~Stopped /\ StopServer("signal") /\ ownStops' = ownStops \cup {"server"}
     \/ Stopped /\ UNCHANGED <<heartbeatInterval, clients, alive, server, firstStop, ownStops>>
  /\ UNCHANGED <<portFree, phase, isRunning, pinged, hung, disconnected>>

\* An uncaught exception or an unhandled rejection.
Exception(m) ==
  /\ GracefulShutdown(m)
  /\ UNCHANGED <<portFree, phase, isRunning, server, heartbeatInterval, connections, ownStops,
                 disconnected, firstStop>>

\* The ws server has no socket left: its 'close' event calls cleanup().
ServerClosed ==
  /\ server = "closing" /\ \A c \in Clients : sockets[c] = "none"
  /\ server' = "closed"
  /\ heartbeatInterval' = FALSE /\ clients' = {} /\ alive' = {}
  /\ UNCHANGED <<portFree, phase, isRunning, sockets, pinged, hung, stopping, exited>>

\* stop(), called by the server's own handler, goes on.
OwnStop ==
  /\ \/ /\ "server" \in ownStops /\ server = "closed"
        /\ ownStops' = (ownStops \ {"server"}) \cup {"http"}
        /\ UNCHANGED isRunning
     \/ /\ "http" \in ownStops
        /\ ownStops' = ownStops \ {"http"} /\ isRunning' = FALSE
  /\ UNCHANGED <<portFree, phase, server, heartbeatInterval, connections, shutdowns,
                 disconnected, firstStop, exited>>

\* shutdown(): the monitor and the Web3 service are stopped, or fail to stop and
\* the process exits.
MonitorStopped(m) ==
  /\ shutdowns[m] = "monitor"
  /\ \/ shutdowns' = [shutdowns EXCEPT ![m] = "stop"] /\ UNCHANGED exited
     \/ exited' = TRUE /\ UNCHANGED shutdowns
  /\ UNCHANGED <<portFree, phase, isRunning, server, heartbeatInterval, connections, ownStops,
                 disconnected, firstStop>>

\* shutdown() calls stop(), which does nothing to a server that was stopped.
Stop(m) ==
  /\ shutdowns[m] = "stop"
  /\ \/ /\ ~Stopped /\ StopServer("shutdown")
        /\ shutdowns' = [shutdowns EXCEPT ![m] = "server"]
     \/ /\ Stopped
        /\ shutdowns' = [shutdowns EXCEPT ![m] = "database"]
        /\ UNCHANGED <<heartbeatInterval, clients, alive, server, firstStop>>
  /\ UNCHANGED <<portFree, phase, isRunning, sockets, pinged, hung, ownStops, disconnected, exited>>

\* The await of the ws server, then that of the HTTP server.
StopWaits(m) ==
  /\ \/ /\ shutdowns[m] = "server" /\ server = "closed"
        /\ shutdowns' = [shutdowns EXCEPT ![m] = "http"] /\ UNCHANGED isRunning
     \/ /\ shutdowns[m] = "http"
        /\ shutdowns' = [shutdowns EXCEPT ![m] = "database"] /\ isRunning' = FALSE
  /\ UNCHANGED <<portFree, phase, server, heartbeatInterval, connections, ownStops,
                 disconnected, firstStop, exited>>

\* The database is disconnected, and the process exits.
DatabaseDisconnected(m) ==
  /\ shutdowns[m] = "database"
  /\ disconnected' = TRUE /\ exited' = TRUE
  /\ UNCHANGED <<portFree, phase, isRunning, server, heartbeatInterval, connections, ownStops,
                 shutdowns, firstStop>>

ShutdownStep(m) == MonitorStopped(m) \/ Stop(m) \/ StopWaits(m) \/ DatabaseDisconnected(m)

ClientStep(c) ==
  ClientConnects(c) \/ ClientCloses(c) \/ SocketError(c) \/ ClientHangs(c) \/ Pong(c)

Next ==
  /\ ~exited
  /\ \/ StartStep \/ StartFails \/ PerformHeartbeat \/ ServerClosed \/ OwnStop
     \/ \E c \in Clients : ClientStep(c) \/ SocketClosed(c)
     \/ \E m \in Shutdowns : Signal(m) \/ Exception(m) \/ ShutdownStep(m)

Spec == Init /\ [][Next]_vars

\* Promises settle, the heartbeat interval fires, and ws ends a closing
\* handshake by its timeout at the latest.  The close of the HTTP server waits for
\* requests nobody answers any more: their browsers give them up.
Fairness ==
  /\ WF_vars(~exited /\ StartStep) /\ WF_vars(~exited /\ PerformHeartbeat)
  /\ WF_vars(~exited /\ ServerClosed) /\ WF_vars(~exited /\ OwnStop)
  /\ \A c \in Clients : WF_vars(~exited /\ SocketClosed(c))
  /\ \A m \in Shutdowns : WF_vars(~exited /\ ShutdownStep(m))

FairSpec == Spec /\ Fairness
-----------------------------------------------------------------------------
(* Properties.                                                             *)

TypeOK ==
  /\ portFree \in BOOLEAN /\ isRunning \in BOOLEAN /\ heartbeatInterval \in BOOLEAN
  /\ disconnected \in BOOLEAN /\ exited \in BOOLEAN
  /\ phase \in Phases /\ server \in Servers
  /\ sockets \in [Clients -> Ready]
  /\ alive \subseteq clients /\ clients \subseteq Clients
  /\ pinged \subseteq Clients /\ hung \subseteq Clients
  /\ ownStops \subseteq {"server", "http"}
  /\ shutdowns \in [Shutdowns -> Waits]
  /\ firstStop \in {"none", "signal", "shutdown"}

\* The limit holds for the sockets that are open, not only for the entries of
\* the map: a client that is refused, evicted, in error or forgotten by a stop
\* makes no room before its socket closes.
ConnectionLimit == Cardinality(Open) =< MaxConnections

\* Every open socket of a server that was not stopped is in the map, so that
\* broadcasts and heartbeats reach it.
OpenIsKnown == server = "open" => Open \subseteq clients

\* A client marked dead owes a pong: the next heartbeat evicts no client that
\* has answered, or that came after the last one.
SilentOwesPong == \A c \in clients \ alive : c \in pinged \/ sockets[c] # "open"

\* The database is disconnected last: the server is closed by then and no client
\* is connected, although several shutdowns run side by side and stop() returns
\* at once to the later ones.
DatabaseLast == disconnected => server = "closed" /\ Open = {} /\ ~isRunning

\* A client that hangs is evicted, unless the server stops.
HungClientsLeave ==
  \A c \in Clients : c \in hung /\ sockets[c] = "open" ~> sockets[c] # "open" \/ server # "open" \/ exited

\* A server that a signal stopped first ends with the process.  One that another
\* shutdown stopped has forgotten its clients without closing them and waits for
\* them: a later signal does not close them either.
StopEnds ==
  /\ firstStop = "signal" ~> exited
  /\ firstStop = "shutdown" ~> exited \/ Open # {}
=============================================================================
