------------------------- MODULE Connections_proofs -------------------------
(***************************************************************************)
(* Proofs about the three connections of the system: the server the        *)
(* dashboards connect to (WebSocketServer, for any finite set of clients,  *)
(* any limit and any number of shutdowns), the scanner's connection to a   *)
(* node (Web3Service, for any number of calls in progress, of health       *)
(* changes and of attempts) and the dashboard's client (DashboardSocket,   *)
(* for any number of sockets, calls, failures and attempts).               *)
(***************************************************************************)
EXTENDS WebSocketServer, Web3Service, DashboardSocket, FiniteSetTheorems, TLAPS

-----------------------------------------------------------------------------
(* The server.                                                             *)

USE MaxConnectionsAssumption, ClientsAssumption

\* When there is no connection, that a client of the map has one, and what the
\* server is at each phase of start().
Connected ==
  /\ server = "closed" \/ phase = "services" => \A c \in Clients : sockets[c] = "none"
  /\ isRunning => phase \in {"connect", "running"}
  /\ phase \in {"services", "listen"} => server \in {"none", "open"}
  /\ \A c \in clients : sockets[c] # "none"

\* How far each stop has come.
StopOrder ==
  /\ phase \in {"connect", "running"} /\ ~isRunning => server = "closed"
  /\ "http" \in ownStops => server = "closed"
  /\ \A m \in Shutdowns :
       /\ shutdowns[m] # "idle" => phase = "running"
       /\ shutdowns[m] = "http" => server = "closed"
       /\ shutdowns[m] = "database" => server = "closed" /\ ~isRunning

\* The limit, for the map and for the sockets.
Limits == Cardinality(clients) =< MaxConnections /\ ConnectionLimit

\* The inductive invariant.
IInv == /\ TypeOK /\ Limits /\ OpenIsKnown /\ SilentOwesPong /\ DatabaseLast
        /\ Connected /\ StopOrder

\* Subsets of the clients are finite, and smaller sets have fewer elements.
LEMMA Fewer ==
  ASSUME NEW S \in SUBSET Clients, NEW T \in SUBSET S
  PROVE  /\ Cardinality(S) \in Nat /\ Cardinality(T) \in Nat
         /\ Cardinality(T) =< Cardinality(S)
<1>1. IsFiniteSet(S) /\ IsFiniteSet(T)
  BY FS_Subset
<1> QED BY <1>1, FS_Subset, FS_CardinalityType

\* The bound carries over to a smaller set.
LEMMA StillWithin ==
  ASSUME NEW S \in SUBSET Clients, NEW T \in SUBSET S, Cardinality(S) =< MaxConnections
  PROVE  Cardinality(T) =< MaxConnections
<1>1. /\ Cardinality(S) \in Nat /\ Cardinality(T) \in Nat
      /\ Cardinality(T) =< Cardinality(S)
  BY Fewer
<1> QED BY <1>1

\* The invariant holds in the initial states.
LEMMA InvInit == Init => IInv
<1> SUFFICES ASSUME Init PROVE IInv
  OBVIOUS
<1>1. TypeOK
  <2>1. /\ portFree \in BOOLEAN /\ isRunning \in BOOLEAN /\ heartbeatInterval \in BOOLEAN
        /\ disconnected \in BOOLEAN /\ exited \in BOOLEAN
    BY Zenon DEF Init
  <2>2. /\ phase \in Phases /\ server \in Servers /\ sockets \in [Clients -> Ready]
        /\ alive \subseteq clients /\ clients \subseteq Clients
        /\ pinged \subseteq Clients /\ hung \subseteq Clients
        /\ ownStops \subseteq {"server", "http"} /\ shutdowns \in [Shutdowns -> Waits]
        /\ firstStop \in {"none", "signal", "shutdown"}
    BY DEF Init, Phases, Servers, Ready, Waits
  <2> QED BY <2>1, <2>2 DEF TypeOK
<1>2. Open = {} /\ clients = {} /\ alive = {}
  BY DEF Init, Open
<1>3. Limits
  BY <1>2, FS_EmptySet DEF Limits, ConnectionLimit
<1>4. OpenIsKnown /\ SilentOwesPong
  BY <1>2 DEF OpenIsKnown, SilentOwesPong
<1>5. DatabaseLast /\ Connected /\ StopOrder
  BY DEF Init, DatabaseLast, Connected, StopOrder
<1> QED BY <1>1, <1>3, <1>4, <1>5 DEF IInv
-----------------------------------------------------------------------------
(* start().                                                                *)

\* What a step of start() leaves alone.
LEMMA StartKeeps ==
  ASSUME IInv, StartStep \/ StartFails
  PROVE  IInv'
<1> USE DEF IInv
<1>1. /\ UNCHANGED <<portFree, sockets, clients, alive, pinged, hung, ownStops, shutdowns,
                     disconnected, firstStop>>
  BY DEF StartStep, ServicesReady, Listening, Started, StartFails, connections, stopping
<1>2. \/ /\ phase = "services" /\ phase' = "listen" /\ server' = "open"
         /\ heartbeatInterval' = TRUE /\ UNCHANGED <<isRunning, exited>>
      \/ /\ phase = "listen" /\ phase' = "connect" /\ isRunning' = TRUE
         /\ UNCHANGED <<server, heartbeatInterval, exited>>
      \/ /\ phase = "connect" /\ phase' = "running"
         /\ UNCHANGED <<server, heartbeatInterval, isRunning, exited>>
      \/ exited' = TRUE /\ UNCHANGED <<phase, server, heartbeatInterval, isRunning>>
  BY DEF StartStep, ServicesReady, Listening, Started, StartFails
<1>3. Open' = Open
  BY <1>1 DEF Open
<1>4. TypeOK'
  <2>1. isRunning' \in BOOLEAN /\ heartbeatInterval' \in BOOLEAN /\ exited' \in BOOLEAN
    BY <1>2, Zenon DEF TypeOK
  <2>2. phase' \in Phases /\ server' \in Servers
    BY <1>2 DEF TypeOK, Phases, Servers
  <2> QED BY <1>1, <2>1, <2>2 DEF TypeOK
<1>5. Limits' /\ SilentOwesPong'
  BY <1>1, <1>3 DEF Limits, ConnectionLimit, SilentOwesPong
<1>6. OpenIsKnown'
  BY <1>1, <1>2, <1>3 DEF OpenIsKnown, Connected, Open
<1>7. DatabaseLast' /\ Connected'
  BY <1>1, <1>2, <1>3 DEF DatabaseLast, Connected, TypeOK
<1>8. StopOrder'
  BY <1>1, <1>2 DEF StopOrder, Connected, TypeOK
<1> QED BY <1>4, <1>5, <1>6, <1>7, <1>8
-----------------------------------------------------------------------------
(* Clients.                                                                *)

\* A client that connects is within the limit, or is closed at once.
LEMMA ConnectsKeeps ==
  ASSUME IInv, NEW c \in Clients, ClientConnects(c)
  PROVE  IInv'
<1> USE DEF IInv
<1> DEFINE over == Cardinality(clients \cup {c}) > MaxConnections
<1>1. /\ server = "open" /\ isRunning /\ sockets[c] = "none"
      /\ sockets' = [sockets EXCEPT ![c] = IF over THEN "closing" ELSE "open"]
      /\ clients' = IF over THEN clients ELSE clients \cup {c}
      /\ alive' = IF over THEN alive ELSE alive \cup {c}
      /\ hung' = hung \ {c} /\ pinged' = pinged \ {c}
      /\ UNCHANGED <<portFree, phase, isRunning, server, heartbeatInterval, ownStops, shutdowns,
                     disconnected, firstStop, exited>>
  BY DEF ClientConnects, Over, stopping
<1>2. /\ sockets'[c] = IF over THEN "closing" ELSE "open"
      /\ \A d \in Clients \ {c} : sockets'[d] = sockets[d]
  BY <1>1 DEF TypeOK
<1>3. TypeOK'
  BY <1>1 DEF TypeOK, Ready
<1>4. Open' = IF over THEN Open ELSE Open \cup {c}
  BY <1>1, <1>2 DEF Open
<1>5. Open' \subseteq clients'
  BY <1>1, <1>4 DEF OpenIsKnown
<1>6. Limits'
  <2>1. Cardinality(clients') =< MaxConnections
    <3>1. CASE over
      BY <1>1, <3>1 DEF Limits
    <3>2. CASE ~over
      <4>1. Cardinality(clients \cup {c}) \in Nat
        BY Fewer DEF TypeOK
      <4> QED BY <1>1, <3>2, <4>1
    <3> QED BY <3>1, <3>2
  <2>2. clients' \in SUBSET Clients /\ Open' \in SUBSET clients'
    BY <1>3, <1>5 DEF TypeOK
  <2> QED BY <2>1, <2>2, StillWithin DEF Limits, ConnectionLimit
<1>7. OpenIsKnown'
  BY <1>5 DEF OpenIsKnown
<1>8. SilentOwesPong'
  <2> SUFFICES ASSUME NEW d \in clients' \ alive' PROVE d \in pinged' \/ sockets'[d] # "open"
    BY DEF SilentOwesPong
  <2>1. d \in clients \ alive /\ d \in Clients
    BY <1>1, <1>3 DEF TypeOK
  <2>2. CASE d = c
    BY <1>1, <1>2, <2>1, <2>2
  <2>3. CASE d # c
    BY <1>1, <1>2, <2>1, <2>3 DEF SilentOwesPong
  <2> QED BY <2>2, <2>3
<1>9. DatabaseLast' /\ StopOrder'
  BY <1>1 DEF DatabaseLast, StopOrder
<1>10. Connected'
  BY <1>1, <1>2, <1>3 DEF Connected, TypeOK
<1> QED BY <1>3, <1>6, <1>7, <1>8, <1>9, <1>10

\* A step that opens no socket and adds no client keeps the invariant, as long as
\* it terminates what it removes and pings what it marks.
LEMMA FewerKeeps ==
  ASSUME IInv, sockets' \in [Clients -> Ready],
         \A c \in Clients : /\ sockets'[c] = "open" => sockets[c] = "open"
                            /\ sockets[c] = "none" => sockets'[c] = "none",
         \A c \in clients' : sockets'[c] # "none",
         clients' \subseteq clients, alive' \subseteq clients', pinged' \subseteq Clients,
         hung' \subseteq Clients, OpenIsKnown', SilentOwesPong',
         UNCHANGED <<portFree, phase, isRunning, server, heartbeatInterval, ownStops, shutdowns,
                     disconnected, firstStop, exited>>
  PROVE  IInv'
<1> USE DEF IInv
<1>1. TypeOK'
  BY DEF TypeOK
<1>2. Open' \subseteq Open /\ Open \subseteq Clients /\ clients \subseteq Clients
  BY DEF Open, TypeOK
<1>3. Limits'
  BY <1>2, StillWithin DEF Limits, ConnectionLimit
<1>4. DatabaseLast'
  BY <1>2 DEF DatabaseLast
<1>5. Connected' /\ StopOrder'
  BY DEF Connected, StopOrder
<1> QED BY <1>1, <1>3, <1>4, <1>5

\* What a client does, and the end of its socket, keep the invariant.
LEMMA ClientKeeps ==
  ASSUME IInv, NEW c \in Clients,
         ClientCloses(c) \/ SocketError(c) \/ SocketClosed(c) \/ ClientHangs(c) \/ Pong(c)
  PROVE  IInv'
<1> USE DEF IInv
<1>1. UNCHANGED <<portFree, phase, isRunning, server, heartbeatInterval, ownStops, shutdowns,
                  disconnected, firstStop, exited>>
  BY DEF ClientCloses, SocketError, SocketClosed, ClientHangs, Pong, stopping
<1>2. CASE ClientCloses(c) \/ SocketError(c) \/ SocketClosed(c)
  <2>1. PICK r \in {"closing", "none"} :
          /\ sockets' = [sockets EXCEPT ![c] = r] /\ sockets[c] # "none"
          /\ \/ r = "closing" /\ UNCHANGED <<clients, alive>>
             \/ clients' = clients \ {c} /\ alive' = alive \ {c}
          /\ UNCHANGED <<pinged, hung>>
    BY <1>2 DEF ClientCloses, SocketError, SocketClosed
  <2>2. sockets'[c] = r /\ \A d \in Clients \ {c} : sockets'[d] = sockets[d]
    BY <2>1 DEF TypeOK
  <2>3. OpenIsKnown'
    BY <1>1, <2>1, <2>2 DEF OpenIsKnown, Open
  <2>4. SilentOwesPong'
    BY <2>1, <2>2 DEF SilentOwesPong, TypeOK
  <2>5. /\ sockets' \in [Clients -> Ready]
        /\ clients' \subseteq clients /\ alive' \subseteq clients'
        /\ pinged' \subseteq Clients /\ hung' \subseteq Clients
    BY <2>1 DEF TypeOK, Ready
  <2>6. \A d \in clients' : sockets'[d] # "none"
    BY <2>1, <2>2 DEF Connected, TypeOK
  <2> QED BY <1>1, <2>1, <2>2, <2>3, <2>4, <2>5, <2>6, FewerKeeps
<1>3. CASE ClientHangs(c) \/ Pong(c)
  <2>1. UNCHANGED <<sockets, clients>>
    BY <1>3 DEF ClientHangs, Pong
  <2>2. \/ UNCHANGED <<alive, pinged>> /\ hung' = hung \cup {c}
        \/ /\ alive' = IF c \in clients THEN alive \cup {c} ELSE alive
           /\ pinged' = pinged \ {c} /\ UNCHANGED hung
    BY <1>3 DEF ClientHangs, Pong
  <2>3. OpenIsKnown'
    BY <1>1, <2>1 DEF OpenIsKnown, Open
  <2>4. SilentOwesPong'
    BY <2>1, <2>2 DEF SilentOwesPong, TypeOK
  <2>5. /\ alive' \subseteq clients' /\ pinged' \subseteq Clients /\ hung' \subseteq Clients
    BY <2>1, <2>2 DEF TypeOK
  <2> QED BY <1>1, <2>1, <2>3, <2>4, <2>5, FewerKeeps DEF TypeOK, Connected
<1> QED BY <1>2, <1>3

\* The heartbeat terminates the sockets of the clients it removes, and pings the
\* open ones it marks.
LEMMA HeartbeatKeeps ==
  ASSUME IInv, PerformHeartbeat
  PROVE  IInv'
<1> USE DEF IInv
<1> DEFINE dead == clients \ alive
<1>1. /\ sockets' = [c \in Clients |-> IF c \in dead THEN "closing" ELSE sockets[c]]
      /\ clients' = clients \ dead /\ alive' = {}
      /\ pinged' = pinged \cup (alive \cap Open) /\ hung' = hung
      /\ UNCHANGED <<portFree, phase, isRunning, server, heartbeatInterval, ownStops, shutdowns,
                     disconnected, firstStop, exited>>
  BY DEF PerformHeartbeat, Dead, stopping
<1>2. sockets' \in [Clients -> Ready] /\ pinged' \subseteq Clients
  BY <1>1 DEF TypeOK, Ready, Open
<1>3. \A c \in Clients : /\ sockets'[c] = "open" => sockets[c] = "open" /\ c \notin dead
                         /\ sockets[c] = "none" => sockets'[c] = "none"
                         /\ c \in clients' => sockets'[c] # "none"
  BY <1>1 DEF Connected, TypeOK
<1>4. clients' = alive
  BY <1>1 DEF TypeOK
<1>5. OpenIsKnown'
  BY <1>1, <1>3, <1>4 DEF OpenIsKnown, Open
<1>6. SilentOwesPong'
  BY <1>1, <1>3, <1>4 DEF SilentOwesPong, Open, TypeOK
<1>7. clients' \subseteq clients /\ alive' \subseteq clients' /\ hung' \subseteq Clients
  BY <1>1 DEF TypeOK
<1>8. \A c \in clients' : sockets'[c] # "none"
  BY <1>3, <1>7 DEF TypeOK
<1> QED BY <1>1, <1>2, <1>3, <1>5, <1>6, <1>7, <1>8, FewerKeeps
-----------------------------------------------------------------------------
(* Stopping.                                                               *)

\* cleanup() and the close of the server keep the invariant: the sockets that the
\* map forgets are still counted, and no client is accepted any more.
LEMMA ServerStops ==
  ASSUME IInv, isRunning, NEW who \in {"signal", "shutdown"}, StopServer(who),
         sockets' \in [Clients -> Ready],
         \A c \in Clients : /\ sockets'[c] = "open" => sockets[c] = "open"
                            /\ sockets[c] = "none" => sockets'[c] = "none",
         ownStops' \subseteq ownStops \cup {"server"},
         shutdowns' \in [Shutdowns -> Waits],
         \A m \in Shutdowns : \/ shutdowns'[m] = shutdowns[m]
                              \/ phase = "running" /\ shutdowns'[m] \in {"monitor", "server"},
         exited' \in BOOLEAN,
         UNCHANGED <<portFree, phase, isRunning, pinged, hung, disconnected>>
  PROVE  IInv'
<1> USE DEF IInv
<1>1. /\ heartbeatInterval' = FALSE /\ clients' = {} /\ alive' = {}
      /\ server' = IF server = "open" THEN "closing" ELSE server
      /\ firstStop' = IF firstStop = "none" THEN who ELSE firstStop
  BY DEF StopServer
<1>2. TypeOK'
  BY <1>1 DEF TypeOK, Servers
<1>3. Open' \subseteq Open /\ Open \subseteq Clients /\ clients \subseteq Clients
  BY DEF Open, TypeOK
<1>4. Limits'
  BY <1>1, <1>3, StillWithin DEF Limits, ConnectionLimit
<1>5. OpenIsKnown' /\ SilentOwesPong'
  BY <1>1 DEF OpenIsKnown, SilentOwesPong
<1>6. DatabaseLast'
  BY DEF DatabaseLast
<1>7. Connected'
  BY <1>1 DEF Connected
<1>8. StopOrder'
  BY <1>1 DEF StopOrder
<1> QED BY <1>2, <1>4, <1>5, <1>6, <1>7, <1>8

\* A step of a shutdown that leaves the server as it is keeps the invariant, as
\* long as it passes an await of the server only once the server is closed.
LEMMA ShutdownKeeps ==
  ASSUME IInv, sockets' \in [Clients -> Ready],
         \A c \in Clients : /\ sockets'[c] = "open" => sockets[c] = "open"
                            /\ sockets[c] = "none" <=> sockets'[c] = "none",
         \/ isRunning' = isRunning
         \/ isRunning' = FALSE /\ server = "closed",
         ownStops' \subseteq {"server", "http"},
         "http" \in ownStops' => server = "closed",
         shutdowns' \in [Shutdowns -> Waits],
         \A m \in Shutdowns :
           \/ shutdowns'[m] = shutdowns[m]
           \/ /\ phase = "running"
              /\ shutdowns'[m] = "http" => server = "closed"
              /\ shutdowns'[m] = "database" => server = "closed" /\ ~isRunning',
         \/ disconnected' = disconnected
         \/ disconnected' = TRUE /\ server = "closed" /\ ~isRunning,
         exited' \in BOOLEAN,
         UNCHANGED <<portFree, phase, server, heartbeatInterval, clients, alive, pinged, hung,
                     firstStop>>
  PROVE  IInv'
<1> USE DEF IInv
<1>1. isRunning' \in BOOLEAN /\ disconnected' \in BOOLEAN
  BY Zenon DEF TypeOK
<1>2. TypeOK'
  BY <1>1 DEF TypeOK
<1>3. Open' \subseteq Open /\ Open \subseteq Clients
  BY DEF Open, TypeOK
<1>4. Limits'
  BY <1>3, StillWithin DEF Limits, ConnectionLimit
<1>5. OpenIsKnown' /\ SilentOwesPong'
  BY <1>3 DEF OpenIsKnown, SilentOwesPong, TypeOK
<1>6. DatabaseLast'
  <2>1. server = "closed" => Open = {}
    BY DEF Connected, Open
  <2> QED BY <1>1, <1>3, <2>1 DEF DatabaseLast, TypeOK
<1>7. Connected'
  BY DEF Connected, TypeOK
<1>8. StopOrder'
  BY DEF StopOrder
<1> QED BY <1>2, <1>4, <1>5, <1>6, <1>7, <1>8

\* A signal, an exception and the steps of a shutdown keep the invariant.
LEMMA SignalKeeps ==
  ASSUME IInv, NEW m \in Shutdowns, Signal(m) \/ Exception(m)
  PROVE  IInv'
<1> USE DEF IInv
<1>1. /\ \/ phase = "running" /\ shutdowns' = [shutdowns EXCEPT ![m] = "monitor"]
            /\ exited' = exited
         \/ exited' = TRUE /\ shutdowns' = shutdowns
      /\ UNCHANGED <<portFree, phase, isRunning, pinged, hung, disconnected>>
  BY DEF Signal, Exception, GracefulShutdown, connections
<1>2. exited' \in BOOLEAN
  BY <1>1, Zenon DEF TypeOK
<1>3. /\ shutdowns' \in [Shutdowns -> Waits]
      /\ \A n \in Shutdowns : \/ shutdowns'[n] = shutdowns[n]
                              \/ phase = "running" /\ shutdowns'[n] = "monitor"
  BY <1>1 DEF TypeOK, Waits
<1>4. /\ sockets' \in [Clients -> Ready]
      /\ \A c \in Clients : /\ sockets'[c] = "open" => sockets[c] = "open"
                            /\ sockets[c] = "none" <=> sockets'[c] = "none"
  BY DEF Signal, Exception, connections, TypeOK, Ready
<1>5. CASE Signal(m) /\ isRunning
  <2>1. StopServer("signal") /\ ownStops' = ownStops \cup {"server"}
    BY <1>5 DEF Signal, Stopped
  <2> QED BY <1>1, <1>2, <1>3, <1>4, <1>5, <2>1, ServerStops
<1>6. CASE Exception(m) \/ ~isRunning
  <2>1. UNCHANGED <<server, heartbeatInterval, clients, alive, firstStop, ownStops>>
    BY <1>6 DEF Signal, Exception, Stopped, connections
  <2>2. ownStops' \subseteq {"server", "http"} /\ ("http" \in ownStops' => server = "closed")
    BY <2>1 DEF TypeOK, StopOrder
  <2> QED BY <1>1, <1>2, <1>3, <1>4, <2>1, <2>2, ShutdownKeeps
<1> QED BY <1>5, <1>6

\* The end of the server's sockets keeps the invariant.
LEMMA ServerClosedKeeps ==
  ASSUME IInv, ServerClosed
  PROVE  IInv'
<1> USE DEF IInv
<1>1. /\ server = "closing" /\ server' = "closed"
      /\ \A c \in Clients : sockets[c] = "none"
      /\ heartbeatInterval' = FALSE /\ clients' = {} /\ alive' = {}
      /\ UNCHANGED <<portFree, phase, isRunning, sockets, pinged, hung, ownStops, shutdowns,
                     disconnected, firstStop, exited>>
  BY DEF ServerClosed, stopping
<1>2. TypeOK'
  BY <1>1 DEF TypeOK, Servers
<1>3. Open' = Open /\ clients \subseteq Clients
  BY <1>1 DEF Open, TypeOK
<1>4. Limits'
  BY <1>1, <1>3, StillWithin DEF Limits, ConnectionLimit
<1>5. OpenIsKnown' /\ SilentOwesPong' /\ DatabaseLast'
  BY <1>1, <1>3 DEF OpenIsKnown, SilentOwesPong, DatabaseLast
<1>6. Connected' /\ StopOrder'
  BY <1>1 DEF Connected, StopOrder
<1> QED BY <1>2, <1>4, <1>5, <1>6

\* stop(), as the server's own handler goes through it, keeps the invariant.
LEMMA OwnStopKeeps ==
  ASSUME IInv, OwnStop
  PROVE  IInv'
<1> USE DEF IInv
<1>1. /\ UNCHANGED <<portFree, phase, server, heartbeatInterval, sockets, clients, alive, pinged,
                     hung, shutdowns, disconnected, firstStop, exited>>
      /\ server = "closed"
      /\ isRunning' = isRunning \/ isRunning' = FALSE
      /\ ownStops' \subseteq {"server", "http"}
  BY DEF OwnStop, connections, StopOrder, TypeOK
<1>2. exited' \in BOOLEAN
  BY <1>1, Zenon DEF TypeOK
<1> QED BY <1>1, <1>2, ShutdownKeeps DEF TypeOK

\* The steps of shutdown() in main.ts keep the invariant.
LEMMA MainShutdownKeeps ==
  ASSUME IInv, NEW m \in Shutdowns, ShutdownStep(m)
  PROVE  IInv'
<1> USE DEF IInv
<1>1. CASE Stop(m) /\ isRunning
  <2>1. /\ shutdowns[m] = "stop" /\ StopServer("shutdown")
        /\ shutdowns' = [shutdowns EXCEPT ![m] = "server"]
        /\ UNCHANGED <<portFree, phase, isRunning, sockets, pinged, hung, ownStops, disconnected,
                       exited>>
    BY <1>1 DEF Stop, Stopped
  <2>2. phase = "running"
    BY <2>1 DEF StopOrder
  <2>3. shutdowns' \in [Shutdowns -> Waits] /\ exited' \in BOOLEAN
    BY <2>1 DEF TypeOK, Waits
  <2>4. \A n \in Shutdowns : shutdowns'[n] = shutdowns[n] \/ shutdowns'[n] = "server"
    BY <2>1 DEF TypeOK
  <2> QED BY <1>1, <2>1, <2>2, <2>3, <2>4, ServerStops DEF TypeOK
<1>2. CASE MonitorStopped(m) \/ (Stop(m) /\ ~isRunning) \/ StopWaits(m) \/ DatabaseDisconnected(m)
  <2>1. /\ shutdowns[m] # "idle"
        /\ UNCHANGED <<portFree, phase, server, heartbeatInterval, sockets, clients, alive, pinged,
                       hung, ownStops, firstStop>>
    BY <1>2 DEF MonitorStopped, Stop, Stopped, StopWaits, DatabaseDisconnected, connections
  <2>2. phase = "running"
    BY <2>1 DEF StopOrder
  <2>3. \/ /\ shutdowns' = [shutdowns EXCEPT ![m] = "stop"]
           /\ UNCHANGED <<isRunning, disconnected, exited>>
        \/ exited' = TRUE /\ UNCHANGED <<shutdowns, isRunning, disconnected>>
        \/ /\ ~isRunning /\ shutdowns' = [shutdowns EXCEPT ![m] = "database"]
           /\ UNCHANGED <<isRunning, disconnected, exited>>
        \/ /\ server = "closed" /\ shutdowns' = [shutdowns EXCEPT ![m] = "http"]
           /\ UNCHANGED <<isRunning, disconnected, exited>>
        \/ /\ server = "closed" /\ isRunning' = FALSE
           /\ shutdowns' = [shutdowns EXCEPT ![m] = "database"]
           /\ UNCHANGED <<disconnected, exited>>
        \/ /\ server = "closed" /\ ~isRunning
           /\ disconnected' = TRUE /\ exited' = TRUE /\ UNCHANGED <<shutdowns, isRunning>>
    BY <1>2 DEF MonitorStopped, Stop, Stopped, StopWaits, DatabaseDisconnected, StopOrder
  <2>4. ~isRunning => server = "closed"
    BY <2>2 DEF StopOrder
  <2>5. exited' \in BOOLEAN
    BY <2>3, Zenon DEF TypeOK
  <2>6. /\ \/ isRunning' = isRunning
           \/ isRunning' = FALSE /\ server = "closed"
        /\ \/ disconnected' = disconnected
           \/ disconnected' = TRUE /\ server = "closed" /\ ~isRunning
    BY <2>3
  <2>7. shutdowns' \in [Shutdowns -> Waits]
    BY <2>3 DEF TypeOK, Waits
  <2>8. \A n \in Shutdowns :
          \/ shutdowns'[n] = shutdowns[n]
          \/ /\ shutdowns'[n] = "http" => server = "closed"
             /\ shutdowns'[n] = "database" => server = "closed" /\ ~isRunning'
    BY <2>3, <2>4 DEF TypeOK
  <2> QED BY <2>1, <2>2, <2>5, <2>6, <2>7, <2>8, ShutdownKeeps DEF TypeOK, StopOrder
<1> QED BY <1>1, <1>2 DEF ShutdownStep
-----------------------------------------------------------------------------
\* Every step keeps the invariant.
LEMMA InvStep == IInv /\ [Next]_vars => IInv'
<1> SUFFICES ASSUME IInv, [Next]_vars PROVE IInv'
  OBVIOUS
<1>1. CASE StartStep \/ StartFails
  BY <1>1, StartKeeps
<1>2. CASE PerformHeartbeat
  BY <1>2, HeartbeatKeeps
<1>3. CASE ServerClosed
  BY <1>3, ServerClosedKeeps
<1>4. CASE OwnStop
  BY <1>4, OwnStopKeeps
<1>5. CASE \E c \in Clients : ClientStep(c) \/ SocketClosed(c)
  BY <1>5, ConnectsKeeps, ClientKeeps DEF ClientStep
<1>6. CASE \E m \in Shutdowns : Signal(m) \/ Exception(m) \/ ShutdownStep(m)
  BY <1>6, SignalKeeps, MainShutdownKeeps
<1>7. CASE UNCHANGED vars
  BY <1>7 DEF vars, connections, stopping, IInv, TypeOK, Limits, ConnectionLimit, OpenIsKnown,
     SilentOwesPong, DatabaseLast, Connected, StopOrder, Open
<1> QED BY <1>1, <1>2, <1>3, <1>4, <1>5, <1>6, <1>7 DEF Next

\* The inductive invariant holds of every behaviour.
LEMMA InvHolds == Spec => []IInv
<1> QED BY InvInit, InvStep, PTL DEF Spec

\* Type correctness.
THEOREM TypeCorrect == Spec => []TypeOK
<1>1. IInv => TypeOK
  BY DEF IInv
<1> QED BY <1>1, InvHolds, PTL

\* No more sockets than maxConnections are ever open, whatever is refused,
\* evicted, in error or stopped.
THEOREM LimitHolds == Spec => []ConnectionLimit
<1>1. IInv => ConnectionLimit
  BY DEF IInv, Limits
<1> QED BY <1>1, InvHolds, PTL

\* A broadcast of a server that was not stopped reaches every open socket.
THEOREM BroadcastsReachAll == Spec => []OpenIsKnown
<1>1. IInv => OpenIsKnown
  BY DEF IInv
<1> QED BY <1>1, InvHolds, PTL

\* The heartbeat evicts no open client that does not owe a pong.
THEOREM NoHastyEviction == Spec => []SilentOwesPong
<1>1. IInv => SilentOwesPong
  BY DEF IInv
<1> QED BY <1>1, InvHolds, PTL

\* However many shutdowns run side by side, the database is disconnected after
\* the server is closed and its clients are gone.
THEOREM DatabaseIsLast == Spec => []DatabaseLast
<1>1. IInv => DatabaseLast
  BY DEF IInv
<1> QED BY <1>1, InvHolds, PTL

-----------------------------------------------------------------------------
(* The connection to a node.                                               *)

USE EndpointAssumption, Web3BoundAssumption DEF Endpoints

\* The types hold in the initial states.
LEMMA Web3TypeInit == Web3Init => Web3TypeOK
<1> SUFFICES ASSUME Web3Init PROVE Web3TypeOK
    OBVIOUS
<1>1. /\ status \in Statuses
      /\ {endpoint, currentEndpoint, web3} \subseteq Endpoints \cup {NoEndpoint}
      /\ connecting \in {"no", "primary", "backup"}
      BY DEF Web3Init, Statuses
<1>2. attempts \in 0..MaxReconnectAttempts /\ started \in 0..2 /\ changes \in Nat
      BY DEF Web3Init
<1>3. calls \in [Slots -> Endpoints \cup {NoEndpoint}] /\ health \in [Endpoints -> Healths]
      BY DEF Web3Init
<1>4. armed \in BOOLEAN /\ stopped \in BOOLEAN
      BY DEF Web3Init
<1> QED BY <1>1, <1>2, <1>3, <1>4 DEF Web3TypeOK

\* scheduleReconnect, shared by connect and handleDisconnection, never counts
\* past the limit and leaves a status of its own.
LEMMA Web3ScheduleReconnectTyped ==
  ASSUME Web3TypeOK, ScheduleReconnect
  PROVE  /\ status' \in {"error", "reconnecting"}
         /\ attempts' \in 0..MaxReconnectAttempts
         /\ armed' \in BOOLEAN
         /\ status' = "reconnecting" => armed' = TRUE
<1>1. CASE attempts >= MaxReconnectAttempts /\ status' = "error" /\ armed' = FALSE
           /\ UNCHANGED attempts
      BY <1>1 DEF Web3TypeOK
<1>2. CASE attempts < MaxReconnectAttempts /\ status' = "reconnecting" /\ armed' = TRUE
           /\ attempts' = attempts + 1
  <2>1. attempts' \in 0..MaxReconnectAttempts
        BY <1>2 DEF Web3TypeOK
  <2> QED BY <1>2, <2>1
<1> QED BY <1>1, <1>2 DEF ScheduleReconnect

\* A connection that succeeds keeps the types.
LEMMA Web3EstablishedTyped ==
  ASSUME Web3TypeOK, NEW e \in Endpoints, Established(e)
  PROVE  Web3TypeOK'
BY DEF Web3TypeOK, Established, environment, Statuses

\* Every step keeps the types.
LEMMA Web3TypeStep == Web3TypeOK /\ [Web3Next]_web3Vars => Web3TypeOK'
<1> SUFFICES ASSUME Web3TypeOK, [Web3Next]_web3Vars PROVE Web3TypeOK'
    OBVIOUS
<1> USE DEF environment
<1>1. CASE ConnectStep
  <2>1. CASE PrimaryAnswers \/ BackupAnswers
        BY <2>1, Web3EstablishedTyped DEF PrimaryAnswers, BackupAnswers
  <2>2. CASE PrimaryFails
        BY <2>2 DEF PrimaryFails, Web3TypeOK
  <2>3. CASE BackupFails
        BY <2>3, Web3ScheduleReconnectTyped DEF BackupFails, Web3TypeOK, Statuses
  <2> QED BY <1>1, <2>1, <2>2, <2>3 DEF ConnectStep
<1>2. CASE ReconnectTimer
      BY <1>2 DEF ReconnectTimer, Web3TypeOK
<1>3. CASE Disconnect
  <2>1. /\ status' \in Statuses
        /\ {endpoint', currentEndpoint', web3'} \subseteq Endpoints \cup {NoEndpoint}
        BY <1>3 DEF Disconnect, Web3TypeOK, Statuses
  <2>2. armed' \in BOOLEAN /\ stopped' \in BOOLEAN
        BY <1>3, Zenon DEF Disconnect
  <2>3. started' \in 0..2
        BY <1>3 DEF Disconnect
  <2> QED BY <1>3, <2>1, <2>2, <2>3 DEF Disconnect, Web3TypeOK
<1>4. CASE HealthChange
  <2>1. PICK e \in Endpoints, h \in Healths : health' = [health EXCEPT ![e] = h]
        BY <1>4 DEF HealthChange
  <2>2. changes' \in Nat
        BY <1>4 DEF HealthChange, Web3TypeOK
  <2> QED BY <1>4, <2>1, <2>2 DEF HealthChange, Web3TypeOK
<1>5. ASSUME NEW s \in Slots, Send(s) \/ CallEnds(s)
      PROVE  Web3TypeOK'
  <2>1. CASE Send(s)
        BY <2>1 DEF Send, Web3TypeOK
  <2>2. CASE Answer(s)
        BY <2>2 DEF Answer, Web3TypeOK
  <2>3. CASE NonJsonAnswer(s)
    <3>1. ScheduleReconnect /\ UNCHANGED <<endpoint, connecting, stopped, health, changes>>
          BY <2>3 DEF NonJsonAnswer, HandleDisconnection
    <3>2. {web3', currentEndpoint'} \subseteq {NoEndpoint} /\ started' = 0
          BY <2>3 DEF NonJsonAnswer, HandleDisconnection
    <3>3. calls' \in [Slots -> Endpoints \cup {NoEndpoint}]
          BY <2>3 DEF NonJsonAnswer, Web3TypeOK
    <3>4. /\ status' \in Statuses /\ attempts' \in 0..MaxReconnectAttempts
          /\ armed' \in BOOLEAN
          BY <3>1, Web3ScheduleReconnectTyped DEF Statuses
    <3>5. stopped' \in BOOLEAN
          BY <3>1, Zenon DEF Web3TypeOK
    <3> QED BY <3>1, <3>2, <3>3, <3>4, <3>5 DEF Web3TypeOK
  <2> QED BY <1>5, <2>1, <2>2, <2>3 DEF CallEnds
<1>6. CASE UNCHANGED web3Vars
      BY <1>6 DEF web3Vars, Web3TypeOK
<1> QED BY <1>1, <1>2, <1>3, <1>4, <1>5, <1>6 DEF Web3Next

\* Every variable keeps its type; the attempts stay within the limit.
THEOREM Web3TypeCorrect == Web3Spec => []Web3TypeOK
<1>1. Web3Init => Web3TypeOK
      BY Web3TypeInit
<1>2. Web3TypeOK /\ [Web3Next]_web3Vars => Web3TypeOK'
      BY Web3TypeStep
<1> QED BY <1>1, <1>2, PTL DEF Web3Spec

\* A service that says it is reconnecting has its timer armed or a connection
\* test in progress, whatever the number of calls that disconnect it.
THEOREM ReconnectIsPending == Web3Spec => []ReconnectPending
<1>1. Web3Init => ReconnectPending
      BY DEF Web3Init, ReconnectPending
<1>2. Web3TypeOK /\ ReconnectPending /\ [Web3Next]_web3Vars => ReconnectPending'
  <2> SUFFICES ASSUME Web3TypeOK, ReconnectPending, [Web3Next]_web3Vars PROVE ReconnectPending'
      OBVIOUS
  <2>1. CASE ConnectStep
    <3>1. CASE BackupFails
          BY <3>1, Web3ScheduleReconnectTyped DEF BackupFails, ReconnectPending
    <3>2. CASE PrimaryAnswers \/ BackupAnswers \/ PrimaryFails
          BY <3>2 DEF PrimaryAnswers, BackupAnswers, PrimaryFails, Established, ReconnectPending
    <3> QED BY <2>1, <3>1, <3>2 DEF ConnectStep
  <2>2. CASE ReconnectTimer \/ Disconnect \/ HealthChange
        BY <2>2 DEF ReconnectTimer, Disconnect, HealthChange, ReconnectPending
  <2>3. ASSUME NEW s \in Slots, Send(s) \/ CallEnds(s)
        PROVE  ReconnectPending'
        BY <2>3, Web3ScheduleReconnectTyped
           DEF Send, CallEnds, Answer, NonJsonAnswer, HandleDisconnection, ReconnectPending
  <2>4. CASE UNCHANGED web3Vars
        BY <2>4 DEF web3Vars, ReconnectPending
  <2> QED BY <2>1, <2>2, <2>3, <2>4 DEF Web3Next
<1> QED BY <1>1, <1>2, Web3TypeCorrect, PTL DEF Web3Spec

\* A service that says it is connected holds the Web3 instance of the endpoint
\* its calls go to, and has started the monitor.
THEOREM ConnectedImpliesUsable == Web3Spec => []ConnectedIsUsable
<1>1. Web3Init => ConnectedIsUsable
      BY DEF Web3Init, ConnectedIsUsable
<1>2. Web3TypeOK /\ ConnectedIsUsable /\ [Web3Next]_web3Vars => ConnectedIsUsable'
  <2> SUFFICES ASSUME Web3TypeOK, ConnectedIsUsable, [Web3Next]_web3Vars PROVE ConnectedIsUsable'
      OBVIOUS
  <2>1. ASSUME NEW e \in Endpoints, Established(e)
        PROVE  ConnectedIsUsable'
        BY <2>1 DEF Established, ConnectedIsUsable, Web3TypeOK
  <2>2. CASE ConnectStep
    <3>1. CASE BackupFails
          BY <3>1, Web3ScheduleReconnectTyped DEF BackupFails, ConnectedIsUsable
    <3>2. CASE PrimaryAnswers \/ BackupAnswers
          BY <3>2, <2>1 DEF PrimaryAnswers, BackupAnswers
    <3>3. CASE PrimaryFails
          BY <3>3 DEF PrimaryFails, ConnectedIsUsable
    <3> QED BY <2>2, <3>1, <3>2, <3>3 DEF ConnectStep
  <2>3. CASE ReconnectTimer \/ Disconnect \/ HealthChange
        BY <2>3 DEF ReconnectTimer, Disconnect, HealthChange, ConnectedIsUsable
  <2>4. ASSUME NEW s \in Slots, Send(s) \/ CallEnds(s)
        PROVE  ConnectedIsUsable'
        BY <2>4, Web3ScheduleReconnectTyped
           DEF Send, CallEnds, Answer, NonJsonAnswer, HandleDisconnection, ConnectedIsUsable
  <2>5. CASE UNCHANGED web3Vars
        BY <2>5 DEF web3Vars, ConnectedIsUsable
  <2> QED BY <2>2, <2>3, <2>4, <2>5 DEF Web3Next
<1> QED BY <1>1, <1>2, Web3TypeCorrect, PTL DEF Web3Spec

\* Both together: the status Web3Service reports is true.
THEOREM ReportedStatusIsTrue == Web3Spec => []StatusIsTrue
BY ReconnectIsPending, ConnectedImpliesUsable, PTL DEF StatusIsTrue

-----------------------------------------------------------------------------
(* The dashboard's client.                                                 *)

USE SocketAssumption, ClientBoundAssumption DEF ReadyStates, ConnectionStates

\* A socket whose closing handshake disconnect() began is closing, and no longer
\* the current one.
NormalIsFormer == \A s \in normal : readyState[s] = "CLOSING" /\ s # ws

\* As long as no socket was made too early, one at most is not closed.
OneAtATime ==
  ~replaced => \A s, o \in Sockets : readyState[s] # "CLOSED" /\ readyState[o] # "CLOSED" => s = o

\* The inductive invariant.
ClientIInv == /\ ClientTypeOK /\ OneLiveSocket /\ ConnectedIsLive /\ NeverForgotten
        /\ ReconnectingIsTrue /\ Undisturbed /\ NormalIsFormer /\ OneAtATime
-----------------------------------------------------------------------------
(* Types.                                                                  *)

\* scheduleReconnect stays within the limit and ends in an armed timer or in
\* the last attempt.
LEMMA ClientScheduleReconnectDoes ==
  ASSUME ClientTypeOK, NEW fires \in BOOLEAN, NEW stray \in Nat,
         ScheduleClientReconnect(fires, stray)
  PROVE  /\ connectionState' \in {"error", "reconnecting"}
         /\ reconnectAttempts' \in 0..MaxClientAttempts
         /\ reconnectTimer' \in BOOLEAN /\ lostTimers' \in Nat
         /\ connectionState' = "reconnecting" => reconnectTimer'
         /\ reconnectTimer' \/ reconnectAttempts' = MaxClientAttempts
<1>1. CASE reconnectAttempts >= MaxClientAttempts
  <2>1. /\ connectionState' = "error" /\ reconnectTimer' = fires /\ lostTimers' = stray
        /\ reconnectAttempts' = reconnectAttempts
    BY <1>1 DEF ScheduleClientReconnect, Exhausted, ClientTypeOK
  <2>2. reconnectAttempts = MaxClientAttempts
    BY <1>1 DEF ClientTypeOK
  <2> QED BY <2>1, <2>2 DEF ClientTypeOK
<1>2. CASE reconnectAttempts < MaxClientAttempts
  <2>1. /\ connectionState' = "reconnecting" /\ reconnectTimer' = TRUE
        /\ reconnectAttempts' = reconnectAttempts + 1
        /\ lostTimers' = IF fires THEN stray + 1 ELSE stray
    BY <1>2 DEF ScheduleClientReconnect, Exhausted, ClientTypeOK
  <2>2. lostTimers' \in Nat /\ reconnectAttempts' \in 0..MaxClientAttempts
    BY <1>2, <2>1 DEF ClientTypeOK
  <2> QED BY <2>1, <2>2
<1> QED BY <1>1, <1>2 DEF ClientTypeOK

\* The invariant holds in the initial states.
LEMMA ClientInvInit == ClientInit => ClientIInv
<1> SUFFICES ASSUME ClientInit PROVE ClientIInv
  OBVIOUS
<1>1. ws = NoSocket /\ connectionState = "disconnected" /\ heartbeatTimer = FALSE /\ wanted = FALSE
      /\ normal = {} /\ lostHeartbeats = 0 /\ \A s \in Sockets : readyState[s] = "CLOSED"
  BY DEF ClientInit
<1>2. ClientTypeOK
  <2>1. /\ readyState \in [Sockets -> ReadyStates]
        /\ normal \subseteq Sockets /\ ws \in Sockets \cup {NoSocket}
        /\ connectionState \in ConnectionStates
        /\ reconnectAttempts \in 0..MaxClientAttempts
        /\ lostTimers \in Nat /\ lostHeartbeats \in Nat /\ pageCalls \in Nat /\ failures \in Nat
    BY DEF ClientInit
  <2>2. /\ urlValid \in BOOLEAN /\ reconnectTimer \in BOOLEAN /\ heartbeatTimer \in BOOLEAN
        /\ wanted \in BOOLEAN /\ replaced \in BOOLEAN /\ cancelled \in BOOLEAN
    BY Zenon DEF ClientInit
  <2> QED BY <2>1, <2>2, Zenon DEF ClientTypeOK
<1> QED
  BY <1>1, <1>2 DEF ClientIInv, OneLiveSocket, ConnectedIsLive, NeverForgotten, ReconnectingIsTrue,
                    Undisturbed, NormalIsFormer, OneAtATime, Is
-----------------------------------------------------------------------------
(* connect and disconnect.                                                 *)

\* connect() keeps the invariant, whoever calls it and whatever becomes of the
\* timers.
LEMMA ClientConnectKeeps ==
  ASSUME ClientIInv, NEW fires \in BOOLEAN, NEW stray \in Nat, Connect(fires, stray),
         wanted' \in BOOLEAN, cancelled' \in BOOLEAN, pageCalls' \in Nat,
         UNCHANGED <<urlValid, heartbeatTimer, lostHeartbeats, failures>>
  PROVE  ClientIInv'
<1> USE DEF ClientIInv
<1>1. CASE /\ Live /\ reconnectTimer' = fires /\ lostTimers' = stray
           /\ UNCHANGED <<socketVars, connectionState, reconnectAttempts, replaced>>
  <2>1. UNCHANGED <<readyState, normal, ws>> /\ Is({"CONNECTING", "OPEN"})
    BY <1>1 DEF socketVars, Live
  <2>2. ClientTypeOK'
    BY <1>1, <2>1 DEF ClientTypeOK
  <2>3. OneLiveSocket' /\ ConnectedIsLive' /\ Undisturbed' /\ NormalIsFormer' /\ OneAtATime'
    BY <1>1, <2>1
       DEF OneLiveSocket, ConnectedIsLive, Undisturbed, NormalIsFormer, OneAtATime, Is
  <2>4. NeverForgotten' /\ ReconnectingIsTrue'
    BY <1>1, <2>1 DEF NeverForgotten, ReconnectingIsTrue, Is
  <2> QED BY <2>2, <2>3, <2>4
<1>2. CASE ~Live /\ OpenSocket /\ reconnectTimer' = fires /\ lostTimers' = stray
  <2>1. PICK s \in Sockets :
          /\ readyState[s] = "CLOSED" /\ readyState' = [readyState EXCEPT ![s] = "CONNECTING"]
          /\ ws' = s /\ connectionState' = "connecting"
          /\ replaced' = (replaced \/ \E o \in Sockets : readyState[o] # "CLOSED")
          /\ UNCHANGED <<normal, reconnectAttempts>>
    BY <1>2 DEF OpenSocket
  <2>2. readyState'[s] = "CONNECTING" /\ \A o \in Sockets \ {s} : readyState'[o] = readyState[o]
    BY <2>1 DEF ClientTypeOK
  <2>3. replaced' \in BOOLEAN
    BY <2>1, Zenon
  <2>4. ClientTypeOK'
    BY <1>2, <2>1, <2>3 DEF ClientTypeOK
  <2>5. OneLiveSocket'
    BY <1>2, <2>1, <2>2 DEF OneLiveSocket, Live, Is, ClientTypeOK
  <2>6. ~replaced' => ~replaced /\ \A o \in Sockets : readyState[o] = "CLOSED"
    BY <2>1, Zenon
  <2>7. Undisturbed'
    BY <2>1, <2>2, <2>6 DEF Undisturbed, Is, ClientTypeOK
  <2>8. NormalIsFormer'
    BY <2>1, <2>2 DEF NormalIsFormer, ClientTypeOK
  <2>9. OneAtATime'
    BY <2>1, <2>2, <2>6 DEF OneAtATime
  <2>10. ConnectedIsLive' /\ NeverForgotten' /\ ReconnectingIsTrue'
    BY <2>1, <2>2 DEF ConnectedIsLive, NeverForgotten, ReconnectingIsTrue, Is, ClientTypeOK
  <2> QED BY <2>4, <2>5, <2>7, <2>8, <2>9, <2>10
<1>3. CASE ~Live /\ ScheduleClientReconnect(fires, stray) /\ UNCHANGED <<socketVars, replaced>>
  <2>1. UNCHANGED <<readyState, normal, ws, replaced>>
    BY <1>3 DEF socketVars
  <2>2. /\ connectionState' \in {"error", "reconnecting"}
        /\ reconnectAttempts' \in 0..MaxClientAttempts
        /\ reconnectTimer' \in BOOLEAN /\ lostTimers' \in Nat
        /\ connectionState' = "reconnecting" => reconnectTimer'
        /\ reconnectTimer' \/ reconnectAttempts' = MaxClientAttempts
    BY <1>3, ClientScheduleReconnectDoes
  <2>3. ClientTypeOK'
    BY <2>1, <2>2 DEF ClientTypeOK
  <2>4. OneLiveSocket' /\ NormalIsFormer' /\ OneAtATime'
    BY <2>1 DEF OneLiveSocket, NormalIsFormer, OneAtATime
  <2>5. Undisturbed'
    BY <1>3, <2>1 DEF Undisturbed, Is, Live
  <2>6. ConnectedIsLive' /\ NeverForgotten' /\ ReconnectingIsTrue'
    BY <2>2 DEF ConnectedIsLive, NeverForgotten, ReconnectingIsTrue
  <2> QED BY <2>3, <2>4, <2>5, <2>6
<1> QED BY <1>1, <1>2, <1>3 DEF Connect

\* disconnect() keeps the invariant.
LEMMA ClientDisconnectKeeps ==
  ASSUME ClientIInv, DisconnectCalled
  PROVE  ClientIInv'
<1> USE DEF ClientIInv
<1>1. /\ wanted' = FALSE /\ reconnectTimer' = FALSE /\ heartbeatTimer' = FALSE
      /\ reconnectAttempts' = 0 /\ connectionState' = "disconnected" /\ ws' = NoSocket
      /\ readyState' = [s \in Sockets |-> IF s = ws /\ Live THEN "CLOSING" ELSE readyState[s]]
      /\ normal' = IF Is({"OPEN"}) THEN normal \cup {ws} ELSE normal
      /\ UNCHANGED <<urlValid, lostTimers, lostHeartbeats, replaced, cancelled, failures>>
      /\ pageCalls' = pageCalls + 1
  BY DEF DisconnectCalled, Closable, Live
<1>2. \A s \in Sockets : \/ readyState'[s] = readyState[s] /\ (s = ws => ~Live)
                         \/ s = ws /\ Live /\ readyState'[s] = "CLOSING"
  BY <1>1
<1>3. ClientTypeOK'
  <2>1. readyState' \in [Sockets -> ReadyStates]
    BY <1>1 DEF ClientTypeOK
  <2>2. normal' \subseteq Sockets
    BY <1>1 DEF ClientTypeOK, Is
  <2>3. /\ urlValid' \in BOOLEAN /\ reconnectTimer' \in BOOLEAN /\ heartbeatTimer' \in BOOLEAN
        /\ wanted' \in BOOLEAN /\ replaced' \in BOOLEAN /\ cancelled' \in BOOLEAN
    BY <1>1, Zenon DEF ClientTypeOK
  <2>4. /\ ws' \in Sockets \cup {NoSocket} /\ connectionState' \in ConnectionStates
        /\ reconnectAttempts' \in 0..MaxClientAttempts
        /\ lostTimers' \in Nat /\ lostHeartbeats' \in Nat /\ pageCalls' \in Nat /\ failures' \in Nat
    BY <1>1 DEF ClientTypeOK
  <2> QED BY <2>1, <2>2, <2>3, <2>4, Zenon DEF ClientTypeOK
<1>4. OneLiveSocket'
  BY <1>2 DEF OneLiveSocket, Live, Is, ClientTypeOK
<1>5. NormalIsFormer'
  <2> SUFFICES ASSUME NEW s \in normal' PROVE readyState'[s] = "CLOSING" /\ s # ws'
    BY DEF NormalIsFormer
  <2>1. s \in Sockets
    BY <1>3 DEF ClientTypeOK
  <2>2. CASE s \in normal
    BY <1>1, <1>2, <2>1, <2>2 DEF NormalIsFormer
  <2>3. CASE s = ws /\ Is({"OPEN"})
    BY <1>1, <1>2, <2>1, <2>3 DEF Live, Is
  <2> QED BY <1>1, <2>2, <2>3
<1>6. OneAtATime'
  <2>1. \A s \in Sockets : readyState'[s] # "CLOSED" => readyState[s] # "CLOSED"
    BY <1>2 DEF Live, Is
  <2> QED BY <1>1, <2>1 DEF OneAtATime
<1>7. Undisturbed'
  BY <1>1 DEF Undisturbed, Is
<1>8. ConnectedIsLive' /\ NeverForgotten' /\ ReconnectingIsTrue'
  BY <1>1 DEF ConnectedIsLive, NeverForgotten, ReconnectingIsTrue
<1> QED BY <1>3, <1>4, <1>5, <1>6, <1>7, <1>8

\* A reconnection timer that fires keeps the invariant.
LEMMA ClientTimerKeeps ==
  ASSUME ClientIInv, ReconnectTimerFires
  PROVE  ClientIInv'
<1>1. /\ UNCHANGED <<urlValid, heartbeatTimer, lostHeartbeats, wanted, cancelled, pageCalls, failures>>
      /\ \/ Connect(FALSE, lostTimers)
         \/ lostTimers > 0 /\ Connect(reconnectTimer, lostTimers - 1)
  BY DEF ReconnectTimerFires, boundVars
<1>2. wanted' \in BOOLEAN /\ cancelled' \in BOOLEAN /\ pageCalls' \in Nat
  BY <1>1 DEF ClientIInv, ClientTypeOK
<1>3. CASE Connect(FALSE, lostTimers)
  <2>1. FALSE \in BOOLEAN /\ lostTimers \in Nat
    BY DEF ClientIInv, ClientTypeOK
  <2> QED BY <1>1, <1>2, <1>3, <2>1, ClientConnectKeeps
<1>4. CASE lostTimers > 0 /\ Connect(reconnectTimer, lostTimers - 1)
  <2>1. reconnectTimer \in BOOLEAN /\ lostTimers - 1 \in Nat
    BY <1>4 DEF ClientIInv, ClientTypeOK
  <2> QED BY <1>1, <1>2, <1>4, <2>1, ClientConnectKeeps
<1> QED BY <1>1, <1>3, <1>4

\* A page that calls connect() keeps the invariant.
LEMMA ClientConnectCalledKeeps ==
  ASSUME ClientIInv, ConnectCalled
  PROVE  ClientIInv'
<1>1. /\ UNCHANGED <<urlValid, heartbeatTimer, lostHeartbeats, failures>>
      /\ Connect(reconnectTimer, lostTimers)
      /\ wanted' \in BOOLEAN /\ cancelled' \in BOOLEAN
  BY DEF ConnectCalled
<1>2. pageCalls' \in Nat /\ reconnectTimer \in BOOLEAN /\ lostTimers \in Nat
  BY DEF ConnectCalled, ClientIInv, ClientTypeOK
<1> QED BY <1>1, <1>2, ClientConnectKeeps
-----------------------------------------------------------------------------
(* The events of a socket.                                                 *)

\* A socket that opens is the current one, so the state that onopen sets is true.
LEMMA ClientOpenedKeeps ==
  ASSUME ClientIInv, NEW s \in Sockets, Opened(s)
  PROVE  ClientIInv'
<1> USE DEF ClientIInv
<1>1. /\ readyState[s] = "CONNECTING" /\ readyState' = [readyState EXCEPT ![s] = "OPEN"]
      /\ reconnectAttempts' = 0 /\ connectionState' = "connected" /\ heartbeatTimer' = TRUE
      /\ lostHeartbeats' = IF heartbeatTimer THEN lostHeartbeats + 1 ELSE lostHeartbeats
      /\ UNCHANGED <<urlValid, normal, ws, reconnectTimer, lostTimers, wanted, replaced,
                     cancelled, pageCalls, failures>>
  BY DEF Opened, boundVars
<1>2. readyState'[s] = "OPEN" /\ \A o \in Sockets \ {s} : readyState'[o] = readyState[o]
  BY <1>1 DEF ClientTypeOK
<1>3. s = ws /\ ws # NoSocket /\ ~Is({"OPEN", "CLOSING"})
  BY <1>1 DEF OneLiveSocket, Is
<1>4. ClientTypeOK'
  <2>1. /\ readyState' \in [Sockets -> ReadyStates] /\ lostHeartbeats' \in Nat
        /\ reconnectAttempts' \in 0..MaxClientAttempts /\ connectionState' \in ConnectionStates
    BY <1>1 DEF ClientTypeOK
  <2> QED BY <1>1, <2>1 DEF ClientTypeOK
<1>5. OneLiveSocket' /\ NormalIsFormer' /\ OneAtATime'
  BY <1>1, <1>2 DEF OneLiveSocket, NormalIsFormer, OneAtATime
<1>6. Undisturbed'
  BY <1>1, <1>2, <1>3 DEF Undisturbed, Is
<1>7. ConnectedIsLive' /\ NeverForgotten' /\ ReconnectingIsTrue'
  BY <1>1, <1>2, <1>3 DEF ConnectedIsLive, NeverForgotten, ReconnectingIsTrue, Is
<1> QED BY <1>4, <1>5, <1>6, <1>7

\* A socket that begins to close keeps the invariant: its close event is to come.
LEMMA ClientServerClosesKeeps ==
  ASSUME ClientIInv, NEW s \in Sockets, ServerCloses(s)
  PROVE  ClientIInv'
<1> USE DEF ClientIInv
<1>1. /\ readyState[s] = "OPEN" /\ readyState' = [readyState EXCEPT ![s] = "CLOSING"]
      /\ failures' = failures + 1
      /\ UNCHANGED <<urlValid, normal, ws, connectionState, reconnectAttempts, reconnectTimer,
                     lostTimers, heartbeatTimer, lostHeartbeats, wanted, replaced, cancelled,
                     pageCalls>>
  BY DEF ServerCloses, timerVars
<1>2. readyState'[s] = "CLOSING" /\ \A o \in Sockets \ {s} : readyState'[o] = readyState[o]
  BY <1>1 DEF ClientTypeOK
<1>3. ClientTypeOK'
  BY <1>1 DEF ClientTypeOK
<1>4. OneLiveSocket' /\ NormalIsFormer' /\ OneAtATime'
  BY <1>1, <1>2 DEF OneLiveSocket, NormalIsFormer, OneAtATime
<1>5. Undisturbed'
  BY <1>1, <1>2 DEF Undisturbed, Is, ClientTypeOK
<1>6. ConnectedIsLive' /\ NeverForgotten' /\ ReconnectingIsTrue'
  BY <1>1, <1>2 DEF ConnectedIsLive, NeverForgotten, ReconnectingIsTrue, Is, ClientTypeOK
<1> QED BY <1>3, <1>4, <1>5, <1>6

\* A close event keeps the invariant.  With code 1000 it is of a former socket,
\* and the timer it clears is recorded in cancelled.
LEMMA ClientOnCloseKeeps ==
  ASSUME ClientIInv, NEW s \in Sockets, NEW code \in Nat, OnClose(s, code),
         readyState[s] # "CLOSED", code = 1000 => s \in normal, failures' \in Nat
  PROVE  ClientIInv'
<1> USE DEF ClientIInv
<1>1. /\ readyState' = [readyState EXCEPT ![s] = "CLOSED"] /\ normal' = normal \ {s}
      /\ heartbeatTimer' = FALSE
      /\ UNCHANGED <<urlValid, ws, lostHeartbeats, wanted, replaced, pageCalls>>
  BY DEF OnClose
<1>2. readyState'[s] = "CLOSED" /\ \A o \in Sockets \ {s} : readyState'[o] = readyState[o]
  BY <1>1 DEF ClientTypeOK
<1>3. /\ connectionState' \in {"disconnected", "error", "reconnecting"}
      /\ connectionState' = "reconnecting" => reconnectTimer'
      /\ reconnectAttempts' \in 0..MaxClientAttempts
      /\ reconnectTimer' \in BOOLEAN /\ cancelled' \in BOOLEAN /\ lostTimers' \in Nat
      /\ \/ reconnectTimer' \/ reconnectAttempts' = MaxClientAttempts
         \/ /\ s \in normal /\ cancelled' = (cancelled \/ reconnectTimer)
            /\ UNCHANGED <<reconnectAttempts, lostTimers>>
  <2>1. CASE code = 1000
    <3>1. /\ connectionState' = "disconnected" /\ reconnectTimer' = FALSE /\ s \in normal
          /\ cancelled' = (cancelled \/ reconnectTimer)
          /\ UNCHANGED <<reconnectAttempts, lostTimers>>
      BY <2>1 DEF OnClose
    <3>2. cancelled' \in BOOLEAN
      BY <3>1, Zenon
    <3> QED BY <3>1, <3>2 DEF ClientTypeOK
  <2>2. CASE code # 1000
    <3>1. ScheduleClientReconnect(FALSE, lostTimers) /\ cancelled' = cancelled
      BY <2>2 DEF OnClose
    <3> QED BY <3>1, ClientScheduleReconnectDoes DEF ClientTypeOK
  <2> QED BY <2>1, <2>2
<1>4. ClientTypeOK'
  BY <1>1, <1>3 DEF ClientTypeOK
<1>5. OneLiveSocket' /\ NormalIsFormer' /\ OneAtATime'
  BY <1>1, <1>2 DEF OneLiveSocket, NormalIsFormer, OneAtATime, ClientTypeOK
<1>6. Undisturbed'
  <2> SUFFICES ASSUME ~replaced' PROVE ~Is({"OPEN"})' /\ lostHeartbeats' = 0
    BY <1>1 DEF Undisturbed
  <2>1. ~Is({"OPEN"})'
    BY <1>1, <1>2 DEF OneAtATime, Is, ClientTypeOK
  <2> QED BY <1>1, <2>1 DEF Undisturbed
<1>7. NeverForgotten'
  <2>1. CASE reconnectTimer' \/ reconnectAttempts' = MaxClientAttempts
    BY <2>1 DEF NeverForgotten
  <2>2. CASE /\ s \in normal /\ cancelled' = (cancelled \/ reconnectTimer)
             /\ UNCHANGED <<reconnectAttempts, lostTimers>>
    <3>1. s # ws
      BY <2>2 DEF NormalIsFormer
    <3>2. Is({"CONNECTING", "OPEN", "CLOSING"})' <=> Is({"CONNECTING", "OPEN", "CLOSING"})
      BY <1>1, <1>2, <3>1 DEF Is, ClientTypeOK
    <3>3. ~cancelled' => ~cancelled /\ ~reconnectTimer
      BY <2>2, Zenon
    <3> QED BY <1>1, <2>2, <3>2, <3>3 DEF NeverForgotten
  <2> QED BY <1>3, <2>1, <2>2
<1>8. ConnectedIsLive' /\ ReconnectingIsTrue'
  BY <1>3 DEF ConnectedIsLive, ReconnectingIsTrue
<1> QED BY <1>4, <1>5, <1>6, <1>7, <1>8
-----------------------------------------------------------------------------
(* The theorems.                                                           *)

\* Every step keeps the invariant.
LEMMA ClientInvStep == ClientIInv /\ [ClientNext]_clientVars => ClientIInv'
<1> SUFFICES ASSUME ClientIInv, [ClientNext]_clientVars PROVE ClientIInv'
  OBVIOUS
<1>1. CASE ConnectCalled \/ DisconnectCalled \/ ReconnectTimerFires
  BY <1>1, ClientConnectCalledKeeps, ClientDisconnectKeeps, ClientTimerKeeps
<1>2. ASSUME NEW s \in Sockets, SocketEvent(s)
      PROVE  ClientIInv'
  <2>1. CASE Opened(s) \/ ServerCloses(s)
    BY <2>1, ClientOpenedKeeps, ClientServerClosesKeeps
  <2>2. CASE ConnectionFails(s)
    <3>1. OnClose(s, 1006) /\ readyState[s] # "CLOSED" /\ failures' \in Nat
      BY <2>2 DEF ConnectionFails, ClientIInv, ClientTypeOK
    <3> QED BY <3>1, ClientOnCloseKeeps
  <2>3. CASE Closed(s)
    <3>1. readyState[s] # "CLOSED" /\ failures' \in Nat
      BY <2>3 DEF Closed, ClientIInv, ClientTypeOK
    <3>2. (s \in normal /\ OnClose(s, 1000)) \/ OnClose(s, 1006)
      BY <2>3 DEF Closed
    <3> QED BY <3>1, <3>2, ClientOnCloseKeeps
  <2> QED BY <1>2, <2>1, <2>2, <2>3 DEF SocketEvent
<1>3. CASE UNCHANGED clientVars
  BY <1>3 DEF clientVars, socketVars, timerVars, boundVars, ClientIInv, ClientTypeOK,
              OneLiveSocket, ConnectedIsLive, NeverForgotten, ReconnectingIsTrue, Undisturbed, NormalIsFormer, OneAtATime, Is
<1> QED BY <1>1, <1>2, <1>3 DEF ClientNext

\* The invariant holds in every reachable state.
LEMMA ClientInvHolds == ClientSpec => []ClientIInv
BY ClientInvInit, ClientInvStep, PTL DEF ClientSpec

\* Every variable of the client keeps its type, and the reconnection attempts
\* never pass the limit.
THEOREM ClientTypeCorrect == ClientSpec => []ClientTypeOK
<1>1. ClientIInv => ClientTypeOK
  BY DEF ClientIInv
<1> QED BY <1>1, ClientInvHolds, PTL

\* The pages share one connection: every socket but the current one is closing
\* or closed.
THEOREM OneConnection == ClientSpec => []OneLiveSocket
<1>1. ClientIInv => OneLiveSocket
  BY DEF ClientIInv
<1> QED BY <1>1, ClientInvHolds, PTL

\* What the dashboard shows is so: a connected socket is open or its close event
\* is to come, a reconnecting one has a timer or an attempt under way, and as
\* long as no socket is made too early, an open one shows as connected and has
\* the only heartbeat.
THEOREM ShownStateIsTrue == ClientSpec => []ShownState
<1>1. ClientIInv => ShownState
  BY DEF ClientIInv, ShownState
<1> QED BY <1>1, ClientInvHolds, PTL

\* A connection that is wanted is never forgotten.
THEOREM WantedIsPursued == ClientSpec => []NeverForgotten
<1>1. ClientIInv => NeverForgotten
  BY DEF ClientIInv
<1> QED BY <1>1, ClientInvHolds, PTL
=============================================================================
