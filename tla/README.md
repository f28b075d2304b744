# Formal models of the MSQ transaction monitor

TLA+ specifications of the repository's own control logic, the TLC
configurations that check them on small instances, and TLAPS proofs that hold
for every value of the constants. Source paths are relative to the repository;
`chain-scanner/` stands for `apps/chain-scanner/src/`.

    tlc -workers 2 -config Ingest.cfg MCEventMonitor.tla
    tlapm EventMonitor_proofs.tla

## 1. The system

    RPC endpoints --Web3Service--> EventMonitor --DatabaseService--> MySQL --> tx-api, tx-analyzer
      (primary,     connection/       |  queue        rows, statistics            |
       backup)      disconnection     |               --> Redis caches            v
                                      +--WebSocketServer-----------------> tx-dashboard
    sync-token: bulk import of history into the same tables

| Component | State | Operations | What makes it hard | What makes it correct |
|---|---|---|---|---|
| `EventMonitor` (`services/eventMonitor.ts`) | `lastProcessedBlock`, two timers, `processingQueue`, `isProcessing`, Redis client | start (load, catch up, poll), poll, fallback token by token, process a batch, stop | every await is a point where another start, poll, stop or batch runs; requests and saves fail; crashes | no transfer goes missing unnoticed; nothing is announced before it is stored; rows and statistics agree; it keeps up with the chain |
| `DatabaseService` | tables `Transaction`, `AddressStatistics` | save a batch in one transaction, highest block | duplicates, one row for a hash, answers that do not arrive | rows and statistics change together |
| `Web3Service` | status, endpoint, attempts, `isConnecting`, reconnect timer | connect (primary, then backup), reconnect, RPC calls, disconnect | late answers, timers and tests in progress | reconnecting means a reconnection is under way; connected means usable |
| `AddressStatsCalculator`, cache and ranking services | statistics rows, Redis entries | upsert sender and receiver, refresh cache and rankings | a read beside the open transaction | totals agree, the cache follows the table |
| `WebSocketServer` | clients, heartbeat timer, `isRunning` | connection, message, pong, heartbeat, broadcast, stop | clients that leave, hang or come during a stop | at most `maxConnections` clients, dead ones leave, a stop ends |
| `main.ts` | `isRunning` | start, health check, shutdown | several signals at once | services stop in order |
| dashboard WebSocket client | socket, two timers, attempts | connect, reconnect, heartbeat | events of a replaced socket | one socket, no reconnection after a disconnect |
| dashboard `TransactionContext` | transactions, recent ones, filters, last id, loading flags | first load, next page, reload, filter, live message, new mount | answers out of order; a row comes as a message and in a page | no row missing between pages, none twice, the list fits the tokens |
| dashboard pages and window of details | boxes and lists, `modalData`, `modalLoading`, the window's list | select, refresh, open, close, filter, page | effects, refs and answers of former selections | what is shown is what is selected; spinners end |
| `tx-api` transactions | none (queries), Redis entries | cursor and numbered pages, summary | the table grows between pages and between the statements of one answer | pages join up; totals and parts fit |
| `tx-api` addresses and analytics | none (queries), Redis entries | rankings, statistics, profiles, trends, series | several statements, keys made by hand, two clocks | an answer agrees with itself and with its question |
| `tx-api` `RedisConnection`, purges | client, entries | lazy connect, read, write, delete by pattern | failures, entries older than the table | a failing cache is a miss |
| `StatisticsService` (scanner) | a Redis entry | six statements at once, percentages of change | as above | as above |
| `tx-analyzer` | none (queries), Redis entries | statistics, rankings, series | as above | as above |
| `sync-token` | rows, status row | chunks, split ranges, one page each, save, resume | exits in the middle of a block, page limits, the scanner beside it | what it has passed is stored |
| libraries, mock server, deployment | - | formatting, types, test data, containers | - | - |

Interaction. `Web3Service` emits `connection` and `disconnection`; the
handlers of `EventMonitor` start and stop the monitor and are not awaited.
`EventMonitor` calls `getLatestBlockNumber` and `getLogs`, and a call that
meets a non-JSON page disconnects the service from within. A batch goes to
`saveTransactionBatch`; after the commit each transfer is broadcast. A restart
resumes after the highest stored block; the copy in Redis is written and never
read back. `main.ts` shuts everything down on a signal, an uncaught exception
or an unhandled rejection, and docker starts the process again.

PROJECT.json lists the hazards of this code line by line, with the properties
aimed at each.

## 2. The modules

| Module | What it is |
|---|---|
| `EventMonitor` | the ingestion pipeline: monitor, queue, tables, Redis copy, process crashes and restarts |
| `TransferLedger` | what the pipeline promises, without blocks, queues and retries; `EventMonitor` implements it |
| `EventMonitor_proofs` | its types, its safety, the refinement and the counting of transfers, for every value of the constants |
| `AddressStats` | the rows of address statistics, the cache beside them, rankings |
| `Web3Service` | the connection to the two endpoints |
| `WebSocketServer` | the server that tells dashboards of transfers, with start and shutdown of the process |
| `DashboardSocket` | the dashboard's end of that connection |
| `Connections_proofs` | the proofs about these three connections |
| `SyncToken`, `SyncToken_proofs` | the bulk import and its hand-over to the scanner |
| `TransactionList`, `TransactionList_proofs` | the dashboard's list, tx-api's cursor pages and their cache, over a growing table |
| `Reports`, `Reports_proofs` | 29 read endpoints whose answers are made of several statements, with their cache |
| `TimeSeries` | the charts' series by minute, hour, day and week |
| `Statistics_proofs` | the proofs about `AddressStats` and `TimeSeries` |
| `SumTheorems` | what the proofs need of sums over finite sets |
| `DashboardPages`, `DashboardPages_proofs` | the pages and the window of details, against the answers they wait for |
| `MC*` | the small instances TLC checks; the others are checked as they stand |

One proof module covers several components, so the names that three of them share
differ: `Web3Init`, `ClientInit` and `SeriesInit`, and so on, beside `Init`.

`EventMonitor`, `Web3Service`, `WebSocketServer` and `DashboardSocket` meet in
events (`connection`, `disconnection`, a signal, a closed socket) that each
takes in any order its neighbour may produce, and more. The others meet in the
tables. `EventMonitor` writes them; `SyncToken` and `TransactionList` compose
their program with a writer that does what `EventMonitor` promises (whole
blocks, ascending; a row, then its message), and `Reports` and `TimeSeries` with
one that inserts at any moment. `TransactionList` composes the client, the
server, the cache and the message feed in one state.

### EventMonitor

JavaScript runs to the next `await`, so one action is what one function does
between two awaits. An asynchronous call in progress is a *task*: a record of
the await it is suspended at (`pc`) and of the range it has left. Nothing in
the code keeps a second start, poll or stop from beginning while one is in
progress, so `Tasks` holds several slots, and their number is the only bound on
the overlap.

| Code | Actions |
|---|---|
| `handleConnection`, `startMonitoring` | `Connection`, `LoadSavedBlock`, `LoadSavedBlockFails`, `StartFrom`, `CatchUpFromLast`, `StartFails`, `StartBlockPolling` |
| `fastCatchUp` | `CatchUpBatch`, `CatchUpBatchFails` |
| `startBlockPolling`, `pollForNewBlocks` | `PollTimer`, `PollFrom`, `PollFails` |
| `processBlock`, `fetchAllTokenEventsWithRetry` | `ProcessBlock`, `ProcessBlockFails` |
| the per-token fallback, `fetchTokenEvents` | `FetchToken`, `FetchTokenFails`, `FallbackEnds` |
| `processQueuedEvents`, `saveTransactionBatch` | `ProcessingTimer`, `Commit`, `SaveFails`, `SaveAnswerLost`, `EmitProcessed` |
| `handleDisconnection`, `stopMonitoring` | `Disconnection`, `StopTail` |
| `gracefulShutdown`, `shutdown` in `main.ts` | `SigTerm`, `ShutdownTail`, `SecondStopRejects`, `Exit` |
| the process and the chain | `Boot`, `Crash`, `NewBlock` |

The retries and delays of one request are abstracted to its outcome. A
transfer is a log with its block, token, transaction hash and whether
`processEvent` accepts it (a zero value is skipped); its other data plays no
part in the properties. `GetLogs` is a constant function with the assumptions
that eth_getLogs returns exactly the logs of a range, by ascending block, and that
the logs of one transaction are of one block. A start that is too far behind jumps:
it sets `lastProcessedBlock`, awaits Redis and then catches up after whatever
`lastProcessedBlock` is by then (`CatchUpFromLast`), which a poll may have moved.
`abandoned`, `lost`, `viaFallback` and `reread` are history variables: the first
three record which transfers the code gave up, so that a property can say that it
drops nothing else, the last what may be counted twice: what was counted before a
start that could not read the highest stored block and began at `MinBlock`, and
everything once a poll began during another call, or a start found the monitor
running or logs in memory (`MayReread`).

### Web3Service

`connecting` is the connection test in progress (of the primary, then the
backup), `calls` the RPC calls in progress with the endpoint each was sent to.
An endpoint answers JSON, a page of another content type (the only answer that
disconnects), or fails in any other way. `started` counts the `connection`
events since the last `disconnection`, up to two.

### WebSocketServer

A client has a socket (`sockets`, the server's end) and an entry in the map
(`clients`, with `isAlive` in `alive`). The two part ways: a client that is
refused, evicted, in error or forgotten by a stop is no longer in the map while
its socket still closes. A second call of `stop()` or `shutdown()` does not see
the first, so `shutdowns` says where each is, and `ownStops` where the server's
own are.

| Code | Actions |
|---|---|
| `start` of `main.ts`, `start` | `ServicesReady`, `Listening`, `Started`, `StartFails` |
| `setupWebSocketHandlers`, `setupClientHandlers` | `ClientConnects`, `Pong`, `SocketError`, `SocketClosed`, `ServerClosed` |
| browsers | `ClientCloses`, `ClientHangs` |
| `performHeartbeat` | `PerformHeartbeat` |
| SIGTERM and SIGINT: both handlers | `Signal`, `OwnStop` |
| uncaught exceptions, unhandled rejections | `Exception` |
| `shutdown` of `main.ts`, `stop` | `MonitorStopped`, `Stop`, `StopWaits`, `DatabaseDisconnected` |

`portFree` is chosen once: when the port is taken, the error goes to the
server's 'error' event and not to the callback of `listen()`, so `start()` waits
for ever. `firstStop` is a history variable. Messages of clients and broadcasts
change no state and are left out.

### DashboardSocket

Every socket ever made keeps its handlers. `readyState` says how far each is,
"CLOSED" once its close event was delivered; `ws` is the one the service holds.
A timer that a field no longer refers to still fires: `lostTimers` and
`lostHeartbeats` count them.

| Code | Actions |
|---|---|
| `connect` | `ConnectCalled`, `ReconnectTimerFires` |
| `disconnect` | `DisconnectCalled` |
| `onopen` | `Opened` |
| `onclose`, `onerror` | `ConnectionFails`, `Closed` |
| the server or a proxy | `ServerCloses` |

`wanted`, `replaced` and `cancelled` are history variables: what the last caller
asked for, that a socket was made before another one's close event, that such an
event cancelled a reconnection. `urlValid` is chosen once: with an invalid URL
the constructor throws and every attempt fails at once.

### TransferLedger

Four sets: the transfers in the memory of the process (`held`), with a row of
their own (`recorded`), included in the statistics (`counted`), announced to
clients (`announced`). The last three never shrink. `Record` is the commit of a
batch: one row for each new hash, all of the batch counted, in one step.
`Announce` takes only what is held and counted. `EventMonitor` maps `held` to
the valid events of the queue and of the batch, `recorded` to `rows`,
`announced` to `emitted`; a poll, a start or a push is a `Fetch` or a stutter, a
failed batch or the end of the process a `Forget`.

### AddressStats

`table` is `AddressStatistics` as committed, `mine` as the open transaction sees
it; `updates` are the upserts the transaction still has to do. An average is a
fraction where the code divides doubles. The scores behind a rank are kept exact,
in units of 1/100n for n addresses; `diversity` is the code's score in percent, 10 for
an address's first transaction. Equal rows come from the database in any order
and the sort is stable, so `Rankings` is the set of rankings an answer may give:
each address has a rank of its own, and lists are cut at their length.

| Code | Actions and operators |
|---|---|
| `saveTransactionBatch` | `Begin`, `Commit`, `Rollback` |
| `updateSingleAddressStats`, `calculateIncrementalStats`, `updateCacheAfterStatsUpdate` | `Update`; `Created`, `Updated`, `Flags`, `Risk` |
| `setAddressStats`, the client's events, time to live | `SetEntry`, `ConnectionChanges`, `Expire` |
| `getAddressStatistics` of `DatabaseService` | `Read`, `Fill` |
| `AddressRankingService` | `Composite`, `Outranks`, `Rankings`, `Whales`, `Risky`, `Label`, `CachedRankings` |

`updateCacheAfterStatsUpdate` reads on the connection of the pool, outside the
open transaction, so it caches the row before the batch.
`getAddressStatistics` is offered by the service but has no caller in the
scanner. `times`, `committed`, `before` and `skipped` are history variables.

### SyncToken

| Code | Actions |
|---|---|
| `main`, `syncToken` | `Start`, `Resume` |
| `streamTokenTransfers` | `NextChunk` |
| `getTokenTransfersWithRetry` | `Answer`, `Split`, `Exits` |
| `saveTransactionsBatch` | `Save` |
| `updateBlockProcessingStatus` | `Finish` |
| the scanner beside it | `ScannerStarts`, `ScannerStores` |
| the chain | `NewBlock` |

`Program` is what one run does on its own; `Exits` is a failed request, a failed
save or a kill at any await. Waiting for the rate limit changes nothing.

### TransactionList

A request in flight is a record with its number, its kind (first load, reload,
next page), what it asks for and, once the server has served it, its answer.
Serving and receiving are separate steps, so answers overtake one another.

| Code | Actions |
|---|---|
| the effects of a mount, `SET_INITIAL_DATA` | `Init`, `OpenAgain`, `Receive` |
| the effect on `filters.tokens`, `toggleTokenFilter`, other filters | `Reload`, `Toggle`, `ToggleAll`, `Refine` |
| `loadMore`, `LOAD_MORE_DATA` | `LoadMore`, `Receive` |
| `getTransactionsCursor` of tx-api, its cache | `Serve` (`Lookup`, `Query`, `Store`) |
| 'new_transaction', 'error' messages, a reconnect | `Deliver`, `ErrorMessage`, `Disconnect` |
| timeouts and errors of fetch | `Fail` |
| the scanner | `Save` |

A request says which tokens it names. The first load takes the filters of the URL,
where no token means all of them by name (`InUrl`); the state then drops the default
tokens (`OutUrl`), and every later request names none for all. The server's
answer is the same for the two, so `base` keeps them as one (`AsOne`). That every
row is of one of the tokens is assumed (`TokenAssumption`): the scanner watches no
other. Filtering what is shown in the browser changes no state and is left out.

`base`, `whole`, `heard` and `overtaken` are history variables: which page the
list rests on, whether every later page continued it, the messages since, and
whether the last reload was out of turn.

### Reports

One behaviour looks at one endpoint. `Ask` looks in the cache; `Read(s)` is one
statement that returns, `Fail(s)` one that throws; `Plan` says which statements
the method issues in turn and which at once (`Promise.all`), and `Results` what
each returns over the table of that moment. `Finish` makes the answer and the
cache entry, `Serve` is a hit. The purges delete by pattern. `Save` inserts a
transfer between any two of these. A statement about one token of the
scanner's dashboard, or a change over 24 hours, is one read; an hour and the
life of an entry are one tick. Windows have no upper end, since no row is later
than now. Statements that add figures no property is about (averages, changes,
percentiles, ranks, counts of addresses and blocks) are issued in their turn and
may fail, but return nothing (`Figures`).

`hours` is absent, 0 or 1: the controllers accept "0". What 0 means differs: the
statistics of an address take it for no hours, and so does their key; other
methods select from now on. The keys of whales, traders and suspicious addresses
end in `hours || 'all'` (`HoursOrAll`), that of the ranking by volume keeps the 0.

The table is a set of rows, numbered as they are stored. A statement is an
expression over it: a selection (`Where`, `Involving`, `OfToken`), a sum or a
count. A ranking is a set of rows (`RankingQuery`) of which ORDER BY and LIMIT
give any list that is in order (`Rankings`), since rows with equal keys come in
any order. `read` keeps the selection a ranking was computed from, for
`RankingIsRight`.

### TimeSeries

`Query` is the statement (window, groups, order, LIMIT), `Answer` the slots laid
out from a second `new Date()`; the clock and the table may move between the
two. A unit of time is `Width` ticks. Hours are scaled for days and weeks as the
code scales them: an anomaly series by day asked for in hours that make no whole days
has a window that begins within a day (`InTicks`) and slots that stop a day earlier.
The server's clock is taken to be in UTC, which no Dockerfile changes: `formatHourKey`
of a day mixes local midnight with the UTC date. The groups of a statement are a set,
and LIMIT keeps those with
fewer than `MaxResults` before them. tx-analyzer does not order the groups of one
bucket: `rank`, the order of a statement, is then any order of the tokens.

### DashboardPages

`fetches`, `opens` and `rowFetches` are the requests in flight of the boxes, of
the window and of its list. `inOrder` is chosen once: whether the answers to
requests of one kind come in order. The pages do not look at the status of an answer:
one that refuses with a JSON body shows zeros or no rows (`refused`), one that cannot
be read, or none, is a failure. `Refresh` waits for every box, as its button does.

| Code | Actions |
|---|---|
| `Analytics`, `Addresses`: effects, `fetchAnalyticsData`, `fetchAllCategories` | `Select`, `Refresh`, `FetchEnds` |
| `app.tsx`: details of a transaction, of an address | `OpenTransaction`, `CloseTransaction`, `ClickAddress`, `DetailsEnd` |
| `DetailedAnalysisModal` | `CloseModal`, `Escape`, `ChangeFilter`, `ChangePage`, `RowsEnd` |

## 3. What the runs check

| Run | Configuration | Shows |
|---|---|---|
| `ingest` | two tasks, three blocks; any two failed requests or saves, ends of the process, disconnections and further connections | `TypeOK`, `NoSilentGap`, `NoLossBelowResume`, `CountedOnce`, and that the pipeline implements `TransferLedger` |
| `ingest_liveness` | two tasks, three blocks, a failed request, a failed save, a disconnection or second connection, fairness | `PollingReachesHead`, `QueueDrains` |
| `web3_connection` | three calls, three attempts, three health changes, fairness | `StatusIsTrue`, `ReconnectEnds`, `Settles` |
| `websocket_server` | three clients, a limit of two, two shutdowns, fairness | `ConnectionLimit`, `SilentOwesPong`, `HungClientsLeave`, `StopEnds` |
| `dashboard_socket` | four sockets, three attempts, five calls of pages, three failures, fairness | `OneLiveSocket`, `NeverForgotten`, `ShownState`, `Reconnects` |
| `address_statistics` | two addresses, four transfers in batches of up to two, a reader, an outage | `RowsMatchTransfers`, `CacheWasCommitted`, `CacheLagsOneBatch`, `RankingIsSound` |
| `sync_import` | two tokens, four blocks, three runs, two split ranges, the scanner, fairness | `ImportIsWhole`, `ResumeLosesOneBlock`, `HandOverWithoutGap`, `RunEnds` |
| `transaction_list` | three rows of two tokens, pages of one, three requests, a search | `ListIsComplete`, `ListedOnce`, `ListFitsTokens`, `LoadingEnds` |
| `time_series` | four units, two tokens, three transactions, limits one and two | `TokenSeriesExact`, `PointsAreTrue` |
| `reports` | 29 endpoints, two histories of two and three transfers, two requests, a clock of two ticks | `PageIsFull`, `PartsAgree`, `RankingIsRight`, `ServedIsAsked` |
| `hours_zero` | two requests for whales, with and without `hours` | violated: `HoursAreApplied` |
| `dashboard_pages` | two addresses, ranges and filters, two boxes or lists, four clicks, six on the feed, answers refused one by one | `SectionsFit`, `ListFits`, `DetailsAreAwaited`, `WindowSettles` |

`NoSilentGap` says that every transfer up to `lastProcessedBlock` is stored, in
the queue, in a batch, about to be fetched by a fallback in progress, or
belongs to a fetch or a batch the code knows it lost. `NoLossBelowResume` is
about restarts: a restart resumes after the highest stored block, so nothing of
an earlier block may still be only in memory when a row is stored. It rests on
the order of the queue and on `isProcessing`; transfers that went through the
token fallback, which queues them late, are exempt.

`CountedOnce` is about the statistics, which a row that is stored twice does not
change and a transfer that is counted twice does. A start resumes after the highest
row, and what an earlier process counted is in the rows, so restarts count
nothing again, unless the start cannot read them (`reread`). When two polls overlap
they fetch the same range and it is counted twice: that the code does, and
the property says nothing from there on.

`ConnectionLimit` counts open sockets, not map entries, so it fails as soon as
the map forgets a socket that stays open. `StopEnds` says what a stop needs to
end. A signal closes the clients. After an exception, `stop()` clears the map
without closing them, so it waits for them to leave, and a later signal finds
nobody to close.

The dashboard's connection has one exception, which `NeverForgotten`,
`Reconnects` and `ShownState` name. When `connect()` makes a socket while the
former one still closes, the late close event clears the timers of the new
socket: a reconnection can be lost (`cancelled`), a heartbeat stops or a second
one starts, and a connection in use shows as "reconnecting" (`replaced`). A
`disconnect()` during the handshake is another case: the browser reports 1006
and the service reconnects although nobody asked for it.

`CacheLagsOneBatch` gives what the cache of address statistics is worth: since
the refresh reads outside the transaction, an entry is the committed row or the
one before the last batch, and older only where a refresh met an outage or a
reader overtaken by a commit wrote last. `RankingIsSound` orders: at most one
percent are whales, and an address that is ahead of another in volume or count and
behind it in nothing is ranked before it. It names one exception, which is what the
code does: the score for diversity falls from 10 to 1 percent with an address's
second transaction, so that among more than 33 addresses one with a single
transaction may outrank one that moved more (`Favoured`).

`ImportIsWhole` names the two ways in which the import leaves something out: a
page limit inside a range (`truncated`) and a resume (`passedOver`).
`ResumeLosesOneBlock` bounds the second by the rest of one block.
`HandOverWithoutGap` needs that all tokens were imported and that no row lies
above the imported range.

`ListIsComplete` is about pages that continued one another (`whole`): what the
server selects down to the last row loaded is in the list, and `hasMore` says
exactly whether there is more. `ListFitsTokens` exempts a list whose reload was
overtaken.

`PartsAgree` bounds by how much an answer may disagree with itself: by the
transfers stored while it was put together. `PageIsFull` and the totals of a
summary hold in one direction only, which rests on the order of the statements.
`ServedIsAsked` compares the question a cache entry was computed for with the one
it answers, and leaves out the one pair that the keys are known to mix: a list of
whales, traders or suspicious addresses with `hours=0` and the same list without
hours. For that pair `hours_zero` shows the violation. The comment in
`getWhaleAddresses` (address.service.ts:1027) says that the list is filtered "if hours
is provided", and the statement does so for 0 (1028), but the key does not know 0 from
nothing (1010): the answer computed without hours is given to who asked with them.
`TokenSeriesExact` holds for one token, and `PointsAreTrue` says what
is left without one: a point is some group of its own bucket, never another's,
and a zero only where newer groups used up the LIMIT.

`SectionsFit` and `ListFits` hold when answers come in order; nothing in the code
compares an answer with the selection. `SectionsFit` says nothing of a box of Analytics
whose last request was refused or failed. `DetailsAreAwaited` says that no answer
opens a window nobody waits for, on the pages where `closeModal` checks.

### Where the code differs from what one might expect

Found while translating the code; the modules describe the code as it is.

- A catch-up batch or a block whose fetch failed counts as processed and is never
  fetched again (eventMonitor.ts:205, 399-434), though docs/PROJECT_STRUCTURE.md:174
  lists "Missed block recovery". `NoSilentGap` counts these as given up.
- The first stop quits the Redis client and nothing creates another, so the
  start after a reconnection does not synchronise Redis (eventMonitor.ts:1023; the
  comment at 108 says it is).
- A second `connection` event can start polling during the catch-up of the first
  (eventMonitor.ts:95; the comment at 291 says "only after catch-up is complete").
- A stop processes at most one batch and leaves the rest of the queue
  (eventMonitor.ts:1012; the comment at 1007 says "Process remaining events").
- HTTP errors, RPC errors and timeouts never leave the primary endpoint
  (web3Service.ts:198; README.md:15 says "automatic failover").
- tx-api's series over all tokens show one token's transactions per bucket, and
  lose their older half to the LIMIT. An hourly series of more than 168 hours has
  at most 90 points; daily anomalies with a limit of 7 or less come by the hour; a
  weekly series of one point shows the week to come. tx-analyzer's ascending
  order with LIMIT cuts off the newest bucket, and its anomalies the oldest
  partial hour.
- Rankings of whales, traders and risky addresses without a token list an address
  once per token and compare amounts of different decimals; `calculateAddressRank`
  compares base units with scores. In a ranking the second transaction costs an
address nine of its ten points for diversity (addressRankingService.ts:152 and
addressStatsCalculator.ts:247). The network utilisation is random, the anomaly
  figures of tx-api are constants.
- Address statistics without `hours` ignore the token; a summary of an unknown
  address is an error 500; `hours=0` shares its key with no hours (run `hours_zero`); a partial
  failure of the scanner's dashboard is cached as zeros; a request in flight may
  fill the cache again after a purge; `purge/all` removes the scanner's entries too.
- On the pages a late answer shows data of another selection; a failed request
  leaves a box of Analytics waiting, and the Refresh button disabled with it until another
selection (Analytics.tsx:972); on the feed a window that was closed opens
  again when its details arrive. `hours` of an address's transactions is ignored by
  the server, and charts of "1y" cover 364 days.

### Bounds

Two tasks give every pair of calls: two polls, two starts, a poll and a stop, a
catch-up and a poll. Batches of two events and catch-up batches of one block
make a batch end inside a block and a catch-up take several requests. Three
blocks suffice for a hole (a lower block missing, a higher one stored). Block 2 has
a transfer of each token, so that a fallback has something to fetch late; block 3
has two transfers with one hash and, in `ingest`, a log that is skipped. In
`ingest_liveness` `HeadLag = 1` lets an answer be behind the chain, so that two polls
see different heads in either order, and starts may catch up without a jump. The
counters in `spent` bound failures, restarts and connection events; `FewFaults` keeps
those of `ingest` to two at a time, of the same kind or of two, after the first
connection: a crash and the start after it are two. `CountedOnce` beyond that, over
longer chains and any number of restarts, is what `EachCountedOnce` proves for calls
one at a time. The tasks and the chain are finite.
`Web3Service` has three calls for late answers beside a current one, and
enough health changes to lose the primary, the backup and the primary again.
Three clients are one more than the limit of two, and a refused one can come
back while an evicted one closes; two shutdowns are a first and one beside it.
The dashboard's sockets and calls allow a current socket beside former ones, all
with timers.

`AddressStats` has a transfer each way, one of them large, and one to oneself,
four in all, any of them repeated; thresholds are small enough to be reached.
`SyncToken` has chunks of three blocks, ranges that split to one, pages of two
and a block of three transfers, so that a limit and an exit fall inside a block;
the third run resumes after a resume. `TransactionList` has pages of one row,
lists that drop their oldest row at two, and three requests in flight.
`Reports` has transfers to oneself and between strangers, with equal and unequal
values; two requests are one that fills the cache and one that may hit it, with
`hours` absent, zero and one.
`TimeSeries` has two ticks a unit, so that the clock may or may not cross a
boundary between the two dates, and transactions enough to exceed the smaller
limits; hours of 180 are seven days and a half. With these ticks the window of
the days never ends within a slot that is shown; the proof covers that it may. Four
clicks on the dashboard are a selection, a window, its filter and its closing; the
feed has six, as a transaction is opened and closed there too. Two boxes are one to
answer and one beside it, alone on Analytics and together on Addresses; one token
leaves the range to select, and the proof covers both. The assignments of `reports` and
`time_series` to endpoints
and units are initial states, so that one run covers all.

Deadlock is checked in `reports` and `time_series`. In the others a chain at its
last block with every bound spent, a service in error, a process that has exited
or a user who stops clicking has nothing left to do.

### Fairness

`EventMonitor`: promises settle (each request has a timeout), intervals fire
while they are set, and docker restarts the process (`restart:
unless-stopped`). Failures, stops, crashes, connection events and new blocks
are not fair. `Web3Service`: a fetch ends, by its timeout at the latest, a
timer fires, and a monitor that was started polls; health changes and
`Disconnect` are not fair. `WebSocketServer`: promises settle, the heartbeat
fires, a socket that closes ends by the timeout of ws; the HTTP server closes
once browsers give up requests that nobody answers any more. `DashboardSocket`:
timers fire and the browser ends every handshake; it is not fair that pages call
anything or that connections fail, so the failures of a run come to an end.
`SyncToken`: the program goes on; exits, the chain and the scanner are not fair.
`TransactionList` and `DashboardPages`: a request is answered or fails (api.ts
sets a timeout until the headers are there, a page's fetch has the browser's); after
the headers nothing but the connection ends a body that hangs, and that it ends is
assumed. Users, messages and the table are not fair. All use weak fairness only, of
steps that stay enabled until they are taken or the
process exits.

## 4. What is proved

TLAPS checks these for every chain, configuration, number of tasks and bound,
from the assumptions on the constants named in the modules.

| Theorem | Statement |
|---|---|
| `EventMonitor_proofs!TypeCorrect` | `Spec => []TypeOK` |
| `EventMonitor_proofs!NothingSkippedSilently` | `Spec => []NoSilentGap` |
| `EventMonitor_proofs!RestartLosesNothingBelow` | `Spec => []NoLossBelowResume` |
| `EventMonitor_proofs!EmissionFollowsCommit` | `Spec => []EmittedIsStored` |
| `EventMonitor_proofs!StatisticsFollowRows` | `Spec => []StatsMatchRows` |
| `EventMonitor_proofs!LedgerImplemented` | `Spec => ImplementsLedger`, the refinement of `TransferLedger` |
| `EventMonitor_proofs!EachCountedOnce` | `OneCaller /\ JumpsForward /\ Spec => []CountedOnce`: one call at a time, starts that do not jump back |
| `Statistics_proofs!RowsAddUp` | `Spec => []RowsMatchTransfers` |
| `Statistics_proofs!CacheHoldsCommittedRows` | `Spec => []CacheWasCommitted` |
| `Statistics_proofs!CacheIsOneBatchBehind` | `Spec => []CacheLagsOneBatch` |
| `Statistics_proofs!RankingAlwaysSound` | `Spec => []RankingIsSound` |
| `Statistics_proofs!SeriesExact` | `SeriesSpec => []TokenSeriesExact` |
| `Statistics_proofs!TruePoints` | `SeriesSpec => []PointsAreTrue` |
| `Reports_proofs!CacheAnswersWhatIsAsked` | `Spec => []ServedIsAsked`, for every question but the pair of `hours_zero` |
| `Reports_proofs!PagesAreFull` | `Spec => []PageIsFull` |
| `Reports_proofs!RankingsAreRight` | `Spec => []RankingIsRight` |
| `Reports_proofs!PartsMakeTheWhole` | `Spec => []PartsAgree` |
| `SyncToken_proofs!ImportInvariant` | what the import has passed is stored or named, and its chunk is accounted for, however much of it is saved |
| `SyncToken_proofs!PassedIsStored` | `Spec => []ImportIsWhole` |
| `SyncToken_proofs!ResumeSkipsOneBlock` | `Spec => []ResumeLosesOneBlock` |
| `SyncToken_proofs!HandOverIsWhole` | `Spec => []HandOverWithoutGap` |
| `TransactionList_proofs!PagesJoinUp` | `Spec => []ListIsComplete` |
| `TransactionList_proofs!NoRowTwice` | `Spec => []ListedOnce` |
| `TransactionList_proofs!ListFollowsTokens` | `Spec => []ListFitsTokens` |
| `DashboardPages_proofs!DetailsRaceNothing` | `Spec => []DetailsAreAwaited` |
| `DashboardPages_proofs!BoxesShowSelection` | `Spec => []SectionsFit` |
| `DashboardPages_proofs!WindowShowsAsked` | `Spec => []ListFits` |
| `Connections_proofs!Web3TypeCorrect` | `Web3Spec => []Web3TypeOK`, with attempts within the limit |
| `Connections_proofs!ReportedStatusIsTrue` | `Web3Spec => []StatusIsTrue`, from `ReconnectIsPending` and `ConnectedImpliesUsable` |
| `Connections_proofs!TypeCorrect` | `Spec => []TypeOK`, of `WebSocketServer` |
| `Connections_proofs!LimitHolds` | `Spec => []ConnectionLimit` |
| `Connections_proofs!BroadcastsReachAll` | `Spec => []OpenIsKnown`: until a stop every open socket is in the map |
| `Connections_proofs!NoHastyEviction` | `Spec => []SilentOwesPong` |
| `Connections_proofs!DatabaseIsLast` | `Spec => []DatabaseLast`: the database goes last, however shutdowns overlap |
| `Connections_proofs!ClientTypeCorrect` | `ClientSpec => []ClientTypeOK`, with attempts within the limit |
| `Connections_proofs!OneConnection` | `ClientSpec => []OneLiveSocket` |
| `Connections_proofs!ShownStateIsTrue` | `ClientSpec => []ShownState` |
| `Connections_proofs!WantedIsPursued` | `ClientSpec => []NeverForgotten` |

`TypeOK` of `EventMonitor` is not inductive: a poll computes its range from
`lastProcessedBlock`, which is a block only because polling starts after a
start has set it, and a batch can be removed from `inflight` only because there
is at most one. `Typed` adds `PollStart` and `OneBatch`.

The four safety properties follow from one inductive invariant, `IInv`. Its
parts say why the pipeline loses nothing:

- `KnownAccounted`: blocks reach memory whole and one after the other, so if
  anything of a block is stored or in memory, all of that block and of every
  earlier one is accounted for. This is what makes the highest stored block a
  safe place to resume.
- `TasksCovered`: what a call in progress relies on. A start has everything up
  to the block it read, a catch-up or a poll everything before the block it
  fetches next, a fallback everything up to its block, its pending tokens
  included. Each call keeps its own account, which is why overlapping calls and
  a `lastProcessedBlock` that moves back do no harm.
- `QueueOrder` and `InFlightOrder`: whatever belongs to an earlier block than a
  queued event is ahead of it. A push keeps this because the answer is sorted
  and everything before its range is accounted for; a splice because it takes
  the front; `OneBatch` because two batches could commit in either order.
- `SavedIsStored`: the transfers of a batch that is saved are stored and counted.

`NoLossBelowResume` then holds at a commit because the batch was the front of
that order, and `NoSilentGap` when the process ends because of
`NoLossBelowResume` and of what `lost` records. `AccountStep` reduces every
step to what it changes: a call, `lastProcessedBlock`, or memory. TLC confirmed
`IInv` on small instances before it was proved.

The refinement takes the same invariant. `SavedIsStored` makes every emission an
`Announce`; that a batch is valid and held, a `Record`. `EmittedIsStored` and
`StatsMatchRows`, proved on the way, are what the ledger says of one state; no
run needs to check them beside `ImplementsLedger`.

`CountedOnce` is proved under `OneCaller`, one call at a time, and `JumpsForward`, no
jump back behind the saved block (50000 and 100000 in the configuration). Everything
else stays: failed requests and saves, crashes, stops, and the starts after them. A
second start of a process that runs falls back to the last stored block while later
events are still queued: from there on `reread` is all of `Events`, and nothing is
left to prove (`RereadGrows`). Up to there
the invariant is `CountInv`. `CallsAhead` says that whatever was fetched and not
`reread` lies behind the call in progress (before its range, before its token within
a block, or up to `lastProcessedBlock`), `MemoryOnce` that memory holds an event
once and nothing of it is counted already, `OneStart` that nothing polls and memory
is empty before the start. A start after a restart is behind everything counted
because what is counted is stored (`IInv`) and it resumes after the highest row.

For the cache of `AddressStats` the invariant is `CInv`. `Refreshed` says that
while a batch is open every address it has changed was refreshed since from the
committed row, unless it is in `skipped`; at the commit that row becomes
`before`. `ReadersCommitted` says that what a reader brings was committed, and is
still the row unless a commit overtook it. `Unseen` covers an address without a
row, which is not cached at all.

The rows of `AddressStats` are compared with sums over sets of transfers.
Induction over a finite set without an operator parameter goes by the smallest
counterexample: `SmallestSubset` finds one among the subsets of a finite set, and
`SubsetInduction`, `FoldExists` and `SumUnfolds` make of it what the fold of the
community modules says of one element more. `SideGrows`, `SenderGrows`,
`ReceiverGrows` and `RowKept` are about one upsert: totals, maxima and averages of
a row that fits fit again with one transfer more, and the rows of others are left
alone. `TotalsInv` carries this through a batch. It counts half an upsert at a
time: when d updates are done, (d + 1) div 2 transfers of the batch count as sent
and d div 2 as received, so that a transfer to oneself is right in between, too.
A rollback forgets the rows of the transaction with the batch. Of the
rankings `ScoresInv` is needed, what a row says of its score for diversity; the rest
is about cardinalities. A place among the volumes is one among sets that include
one another (`IndexMonotone`), and one place more weighs more than the score for
diversity can take back among at most 33 addresses, or where it is not lost
(`DiversityKeepsOrder`, `AheadScoresMore`). Any of the `Rankings` follows the scores
(`LeadingByRank`), and the whales are few because the one of them with the smallest
volume has enough addresses below it (`WhalesAreFew`).

For `SyncToken`, `PassedIsSettled` says what an import has behind it: the blocks up to
`status`, the tokens before this one, the chunks before this one. Within the
chunk each transfer is settled, fetched or still in a range to be requested
(`ChunkIsWhole`), and `WithinChunk` keeps other tokens and later chunks out of
what a save writes. Settled is stored, or named by `truncated` or `passedOver`.
`RowsInOrder` bounds what a resume passes over: until the hand-over, whatever
comes before a stored row of its token is settled, so only the rest of
that row's own block is lost. `ScannedIsStored` is about the blocks after the hand-over.

For `TransactionList` an answer below a cursor does not depend on the time it was
given: `AnswersAreTrue` says that each one, from the table or the cache, is
what is wanted of the rows up to some moment (`upTo`). `Complete` adds that the
last row loaded was in the table when the base page was read, which makes a
later page its continuation, and `Once` that what is shown is a
sequence without repetition whose beginning is `recent`. `FitsTokens` says that
the last load asked for is for the tokens selected: it is still to come or it was
the last to be applied. Pages and places are cardinalities, so the lemmas
(`PlacesDescend`, `PlacesAreTaken`) need no induction over sequences.

For `DashboardPages`, when answers come in order the last request of a queue decides what
is shown. `BoxesFollow` says of each box, `ListFollows` of the window's list, that its
last request is for the selection, or that there is none and what it shows
is. An answer that refuses leaves a list empty and no longer loading, so the two cases
of `BoxFits` are the last request's outcomes (`RefusedAfter`, `FailedAfter`).
`WaitsForOne` is about the details
window: while it is loading it shows nothing of an earlier selection, and on
every page but the feed exactly one request for details is under way while it
is loading and none otherwise, so no two answers can race for it.

The invariants of `Web3Service` are inductive relative to its `Web3TypeOK`.

For `WebSocketServer`, `Limits` bounds the map and the open sockets. A client
that connects keeps the first by the check of the code and the second because
open sockets are in the map (`OpenIsKnown`), which fails after a stop, when
nobody connects any more. `Connected` says that a closed server has no socket
and a client of the map has one. `StopOrder` says that whoever passed an await
of the server found it closed, and that a running process whose server is not
`isRunning` has a closed one: this is what lets `stop()` return at once.

For `DashboardSocket`, `OneAtATime` says that only one socket is not closed as
long as none was replaced early, and `NormalIsFormer` that a close event with
code 1000 comes from a former socket; `ScheduleReconnectDoes` that a
reconnection ends in an armed timer or in the last attempt.

For `Reports`, the cache and the answers are two arguments. `EntriesAreAsked` says
that an entry lies under the key of the question it was computed for, and
`KeyTells` that within an endpoint equal keys mean the same question, or the pair of
`hours_zero`. This is not
true of the keys by themselves: the key of a summary, for one, has no limit and
no hours. It holds because a handler leaves the parameters it does not read
at their default (`Fixed`), proved for all 29 in `RequestFacts`.

The answers rest on `RequestIsRead`. It says of a request in progress that there is
a moment `at[s]` for each statement that has returned, between the begin of the request and
now, at which the table (the rows numbered up to it) gave what `done[s]` holds, and
that a statement which waits for another came no earlier than it. No
variable holds these moments; the invariant only claims that there are some, and
each `Read` adds its own. Since the table only grows (`LogGrows`), the answers
to two statements differ by what was stored between two moments, and everything else
is about tables:

- `PagesAreFull`: a page is read from a table that contains the one counted.
- `PartsMakeTheWhole`: selections are monotone (`SelectionGrows`), and grow by no
  more than the table does; the sizes of the parts by token or by hour add up to the
  size of the whole (`SizesByParts`, an induction over the parts). For the scanner's
  dashboard each token has a moment of its own; for a transfer to oneself both sides count.
  The rounded shares stay within a hundredth of a percent for each token, by bounds on
  one rounded quotient (`QuotientFacts`) and the sum of those (`SharesAddUp`).
- `RankingsAreRight`: an address is in the UNION ALL at most once for each side,
  so its row is the sum of one or two halves (`SumOfPair`), which is what it moved
  (`MovedInRows`). Whoever is not in the list is cut off by the LIMIT behind
  its last row, or is no row of the query and moved nothing that puts it above any row
  (`NothingIsAbove`).

For `TimeSeries` the invariant is that every answer is the statement's table, cut by
its LIMIT and laid on the slots of a clock that is not earlier (`RequestIsTrue`).
`PointFacts` reduces a point to its lookup, and `LookupFacts` the lookup to a
group of the bucket that came back: for a set of groups which one overwrites which
is decided by the place of their tokens, so there is always one that stands.
`CutOff` says that a group that did not come back has `MaxResults` groups
before it, and for one token these are of newer buckets (`TokenPointIsExact`). The slots of a
volume series go back at most `limit` buckets from the present one (`VolumeSlots`)
and no row is of the future, so at most `limit` groups of newer buckets fit before
one that is shown, and the LIMIT of `2 * limit` does not reach it, even when the clock
has passed a boundary between the statement and the slots.

Assumed of the constants: in `Reports` finite sets of addresses and tokens, limits of at
least one (the handlers refuse others), and that no token has the name of a statement; in
`TimeSeries` a finite list of tokens, a unit of at least one tick, and limits and hours that are any
integers, which the requests filter as the handlers do.

Only model-checked: liveness (`PollingReachesHead`, `QueueDrains`, `ReconnectEnds`,
`Settles`, `Reconnects`, `HungClientsLeave`, `StopEnds`, `RunEnds`, `LoadingEnds`,
`WindowSettles`). Each follows from fairness, and the prover used has no rule that
yields an eventuality from `WF_` and ENABLED. Every other property of the runs has a
theorem.

## 5. Not modelled

- Formatting, rendering, charts, configuration, generated code, test data, the
  libraries and containers: no control of their own. Saved filter presets are not
  mounted by the program.
- Inside `eth_getLogs`, a chain reorganisation: the code does not handle one. Gas
  data and timestamps of a transfer are abstracted; `status || 1`
  (eventMonitor.ts:931) stores a failed transaction as a success.
- Of the series: volumes by month, anomalies by week and tx-analyzer's weeks, whose
  keys depend on the calendar (months of unequal length, '%Y-%u').
- tx-api's `beforeId`, which takes the newest page instead of the adjacent one and
  which no client sends; `RedisConnection`'s lazy connect, which two first callers
  may run twice; `analyze.service` of tx-api and tx-analyzer, which passes its WHERE
  as a parameter; `getAddressStatisticsDetail`, which has no caller.
- Figures of an answer that no property is about (`Figures` of `Reports`), and the filters
  the browser applies to what it shows.
- Token summaries, batch updates and warming of the statistics cache, which the
  program does not call.

## 6. State of the plan

Every component of the plan is modelled as section 2 says, and every invariant and
every refinement the runs check is proved. What remains are the liveness properties, which wait
for a prover with rules for fairness, and the series whose keys depend on the
calendar (section 5).
