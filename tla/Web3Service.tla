----------------------------- MODULE Web3Service -----------------------------
(***************************************************************************)
(* The connection of the chain scanner to its RPC endpoints: Web3Service   *)
(* (src/apps/chain-scanner/src/services/web3Service.ts).                   *)
(*                                                                         *)
(* The connection test of connect() and every RPC call are fetches in      *)
(* progress; their answers, the reconnect timer and the shutdown arrive in *)
(* any order.                                                              *)
(***************************************************************************)
EXTENDS Naturals

CONSTANTS
  Primary, Backup,        \* the two endpoints
  NoEndpoint,             \* no endpoint
  MaxReconnectAttempts,   \* serviceConfig.maxReconnectAttempts
  Slots,                  \* slots for RPC calls in progress (bounds their number)
  MaxChanges              \* bound: changes of an endpoint's health

Endpoints == {Primary, Backup}
ASSUME EndpointAssumption == Primary # Backup /\ NoEndpoint \notin Endpoints
ASSUME Web3BoundAssumption == MaxReconnectAttempts \in Nat /\ MaxChanges \in Nat

VARIABLES
  status,           \* connectionStatus.status
  endpoint,         \* connectionStatus.endpoint
  attempts,         \* connectionStatus.reconnectAttempts
  currentEndpoint,
  web3,             \* the endpoint of the Web3 instance, or None
  connecting,       \* isConnecting, and the test connect() waits for
  armed,            \* reconnectTimer is to fire
  calls,            \* RPC calls in progress: the endpoint each one was sent to
  started,          \* 'connection' events since the last 'disconnection' (at most 2)
  stopped,          \* disconnect() was called
  health,           \* what each endpoint does
  changes           \* health changes so far

web3Vars == <<status, endpoint, attempts, currentEndpoint, web3, connecting, armed, calls,
          started, stopped, health, changes>>
environment == <<health, changes>>

Statuses == {"disconnected", "connected", "reconnecting", "error"}
\* What an endpoint does: answer JSON, answer "200 OK" with another content type,
\* or anything else: an HTTP error, an RPC error, no answer before the timeout.
Healths  == {"json", "html", "down"}

\* main() has called connect().
Web3Init ==
  /\ status = "disconnected" /\ endpoint = NoEndpoint /\ attempts = 0
  /\ currentEndpoint = NoEndpoint /\ web3 = NoEndpoint
  /\ connecting = "primary"
  /\ armed = FALSE
  /\ calls = [s \in Slots |-> NoEndpoint]
  /\ started = 0 /\ stopped = FALSE
  /\ health \in [Endpoints -> Healths]
  /\ changes = 0
-----------------------------------------------------------------------------
(* connect.                                                                *)

\* Mutant: calls keep going to the endpoint of the first connection.
KeepsFirstEndpoint(e) ==
  /\ health[e] = "json"
  /\ endpoint' = IF endpoint = NoEndpoint THEN e ELSE endpoint
  /\ currentEndpoint' = endpoint' /\ web3' = e
  /\ status' = "connected" /\ attempts' = 0
  /\ connecting' = "no"
  /\ started' = IF started < 2 THEN started + 1 ELSE started
  /\ UNCHANGED <<armed, calls, stopped, environment>>

\* establishHttpConnection(e) succeeded.  A reconnect timer stays armed.
Established(e) ==
  /\ health[e] = "json"
  /\ currentEndpoint' = e /\ web3' = e
  /\ status' = "connected" /\ endpoint' = e /\ attempts' = 0
  /\ connecting' = "no"
  /\ started' = IF started < 2 THEN started + 1 ELSE started
  /\ UNCHANGED <<armed, calls, stopped, environment>>

PrimaryAnswers == connecting = "primary" /\ Established(Primary)
BackupAnswers  == connecting = "backup" /\ Established(Backup)

PrimaryFails ==
  /\ connecting = "primary" /\ health[Primary] # "json"
  /\ connecting' = "backup"
  /\ UNCHANGED <<status, endpoint, attempts, currentEndpoint, web3, armed, calls,
                 started, stopped, environment>>

ScheduleReconnect ==
  \/ /\ attempts >= MaxReconnectAttempts
     /\ status' = "error" /\ armed' = FALSE
     /\ UNCHANGED attempts
  \/ /\ attempts < MaxReconnectAttempts
     /\ status' = "reconnecting" /\ armed' = TRUE
     /\ attempts' = attempts + 1

\* Mutant: isConnecting is not reset.
StaysConnecting ==
  /\ connecting = "backup" /\ health[Backup] # "json"
  /\ connecting' = "blocked"
  /\ ScheduleReconnect
  /\ UNCHANGED <<endpoint, currentEndpoint, web3, calls, started, stopped, environment>>

BackupFails ==
  /\ connecting = "backup" /\ health[Backup] # "json"
  /\ connecting' = "no"
  /\ ScheduleReconnect
  /\ UNCHANGED <<endpoint, currentEndpoint, web3, calls, started, stopped, environment>>

\* The timer fires.  connect() returns at once when one is in progress.
ReconnectTimer ==
  /\ armed
  /\ armed' = FALSE
  /\ connecting' = IF connecting = "no" THEN "primary" ELSE connecting
  /\ UNCHANGED <<status, endpoint, attempts, currentEndpoint, web3, calls, started,
                 stopped, environment>>
-----------------------------------------------------------------------------
(* getLogs and getLatestBlockNumber.                                       *)

\* Sent to the current endpoint, or to the last one after a disconnection.
Send(s) ==
  LET target == IF currentEndpoint # NoEndpoint THEN currentEndpoint ELSE endpoint IN
    /\ calls[s] = NoEndpoint /\ target # NoEndpoint
    /\ calls' = [calls EXCEPT ![s] = target]
    /\ UNCHANGED <<status, endpoint, attempts, currentEndpoint, web3, connecting, armed,
                   started, stopped, environment>>

\* A JSON answer, or an error the caller gets: neither touches the connection.
Answer(s) ==
  /\ calls[s] # NoEndpoint /\ health[calls[s]] # "html"
  /\ calls' = [calls EXCEPT ![s] = NoEndpoint]
  /\ UNCHANGED <<status, endpoint, attempts, currentEndpoint, web3, connecting, armed,
                 started, stopped, environment>>

\* Mutant: cleanup() runs last and clears the timer just armed.
CleansUpLast ==
  /\ web3' = NoEndpoint /\ currentEndpoint' = NoEndpoint
  /\ started' = 0 /\ armed' = FALSE
  /\ \/ attempts >= MaxReconnectAttempts /\ status' = "error" /\ UNCHANGED attempts
     \/ /\ attempts < MaxReconnectAttempts
        /\ status' = "reconnecting" /\ attempts' = attempts + 1

HandleDisconnection ==
  /\ web3' = NoEndpoint /\ currentEndpoint' = NoEndpoint
  /\ started' = 0
  /\ ScheduleReconnect

\* A page that is not JSON disconnects, whichever endpoint it comes from.
NonJsonAnswer(s) ==
  /\ calls[s] # NoEndpoint /\ health[calls[s]] = "html"
  /\ calls' = [calls EXCEPT ![s] = NoEndpoint]
  /\ HandleDisconnection
  /\ UNCHANGED <<endpoint, connecting, stopped, environment>>

\* A test of connect() and the calls that are in progress go on.
Disconnect ==
  /\ ~stopped
  /\ stopped' = TRUE
  /\ web3' = NoEndpoint /\ currentEndpoint' = NoEndpoint /\ armed' = FALSE
  /\ status' = "disconnected"
  /\ started' = 0
  /\ UNCHANGED <<endpoint, attempts, connecting, calls, environment>>

HealthChange ==
  /\ changes < MaxChanges
  /\ changes' = changes + 1
  /\ \E e \in Endpoints, h \in Healths :
       h # health[e] /\ health' = [health EXCEPT ![e] = h]
  /\ UNCHANGED <<status, endpoint, attempts, currentEndpoint, web3, connecting, armed,
                 calls, started, stopped>>

ConnectStep == PrimaryAnswers \/ PrimaryFails \/ BackupAnswers \/ BackupFails
CallEnds(s) == Answer(s) \/ NonJsonAnswer(s)

Web3Next ==
  \/ ConnectStep \/ ReconnectTimer \/ Disconnect \/ HealthChange
  \/ \E s \in Slots : Send(s) \/ CallEnds(s)

Web3Spec == Web3Init /\ [][Web3Next]_web3Vars

\* A fetch ends (by a timeout at the latest), a timer fires, and a monitor that
\* was started polls.
Web3Fairness ==
  /\ WF_web3Vars(ConnectStep) /\ WF_web3Vars(ReconnectTimer)
  /\ \A s \in Slots : WF_web3Vars(CallEnds(s)) /\ WF_web3Vars(started > 0 /\ Send(s))

Web3FairSpec == Web3Spec /\ Web3Fairness
-----------------------------------------------------------------------------
(* Properties.                                                             *)

Web3TypeOK ==
  /\ status \in Statuses
  /\ {endpoint, currentEndpoint, web3} \subseteq Endpoints \cup {NoEndpoint}
  /\ attempts \in 0..MaxReconnectAttempts
  /\ connecting \in {"no", "primary", "backup"}
  /\ armed \in BOOLEAN /\ stopped \in BOOLEAN
  /\ calls \in [Slots -> Endpoints \cup {NoEndpoint}]
  /\ started \in 0..2
  /\ health \in [Endpoints -> Healths]
  /\ changes \in Nat

\* A service that says it is reconnecting is: its timer is armed or a test is
\* in progress, although a timer that fires during connect() does nothing, a
\* disconnection clears the timer and two calls may disconnect one after the
\* other.
ReconnectPending == status = "reconnecting" => armed \/ connecting # "no"

\* A service that says it is connected can be used: it holds a Web3 instance
\* of the endpoint that calls go to, and the monitor was told to start after
\* the last time it was told to stop.
ConnectedIsUsable ==
  status = "connected" => /\ web3 \in Endpoints
                          /\ currentEndpoint = web3 /\ endpoint = web3
                          /\ started > 0

\* What the service says of itself is true, whatever tests, timers and late
\* answers overlap.
StatusIsTrue == ReconnectPending /\ ConnectedIsUsable

\* Reconnection ends: a service does not stay in "reconnecting" for ever, but
\* connects, gives up after the last attempt or is stopped.
ReconnectEnds ==
  status = "reconnecting" ~> status \in {"connected", "error", "disconnected"}

\* Once the backup answers for good, the service settles, although answers to
\* earlier calls still arrive from the primary and may disconnect the backup:
\* it stays connected in the end, or stays in error, or was stopped.
Settles ==
  <>[](health[Backup] = "json")
    => <>[](status = "connected") \/ <>[](status = "error") \/ <>stopped
=============================================================================
