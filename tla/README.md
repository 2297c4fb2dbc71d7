# Verification of vk-turn-proxy, its daemon, its app and its panel

TLA+ models of the concurrent core of this repository, the TLC runs that check
them on small instances, and TLAPS proofs of the safety of all seven for
every instance. Line numbers are those of the sources under `src/`; `PROJECT.json`
maps every definition to the lines it stands for.

## The system

| component | where | state | operations | hard because |
|---|---|---|---|---|
| server mu sessions | `vk-turn-proxy/server/main.go` | `Sessions` map, one `Conns` table per session, `cleanupOnce` | GetOrCreate, AddConn, RemoveConn, Cleanup, runMuStream | two locks, taken one after the other; a handler per connection |
| credential groups | `vk-turn-proxy/client/group_creds.go`, `link_health.go` | per group: credentials, refreshing/prefetching flags, back-off, assigned link; per link: error counters, dead-until | acquire, runPrefetch, fetchForGroup, ReportWorkerError, decay | condition variable, background prefetch, counters changed without the group lock |
| stream workers | `vk-turn-proxy/client/main.go`, `session_runtime.go` | stream table, leader, the pipe between a DTLS and a TURN loop, handshake slots | oneDtlsConnection(Loop), oneTurnConnection(Loop), EnsureStream, RemoveStream, NoteDtlsReady, election | goroutines nobody awaits outlive their connection and touch the shared table |
| vkturnd | `daemon/tunnel/manager.go`, `daemon/control/server.go`, `daemon/main.go` | `routes`, children, subscriber channels, the manager's mutex | Up, Down, Subscribe, StopAll, watch, pump, Serve | two `Wait`s on one process, channels closed from two sides, shutdown order |
| route supervisor | `frontend/.../proxy/RouteSupervisor.kt` and the runners | map of runners, StateFlow statuses, OS processes, vkturnd's children | start, stop, stopAll, dispose, watch, unregister, collectors | conflating flows, coroutines acting on ids, lost requests |
| panel live updates | `3x-ui/web/assets/js/websocket.js`, `html/index.html`, `controller/websocket.go`, `websocket/hub.go`, `controller/server.go` | socket, attempts, timers and polling of the page; two pumps per connection; the hub's queues, clients and buffers | connect, onopen, onclose, startPolling, readPump, writePump, Run, broadcastParallel, Register, Unregister, Stop, refreshStatus | reconnection against late events, two channels read in any order, a hub that waits for goroutines that may wait for it |
| inbound form and share links | `3x-ui/web/assets/js/model/inbound.js`, `outbound.js`, `dbinbound.js`, `html/modals/inbound_modal.html`, `html/inbounds.html` | the modal's inbound, stored JSON, the page's rows and their cache, lists under way | open, change, confirm, close, edit a client, load the list, generate a link, import it | choices restrict each other in any order; copies that share an array; rows out of date; a round trip through four formats |
| mode negotiation | `client/main.go`, `client/mux_protocol.go`, `server/mux_protocol.go` | runtime, chosen mode | probe, fallback, restart | time-outs racing late answers |
| inbound dispatch | `client/session_runtime.go` | slots, round-robin index, pooled packets | Bind, Unbind, dispatch | packets of a pool shared by goroutines that end |
| credential pool, captcha lockout | `client/pool_creds.go` | pool, lockout time | get, refill, lock out | retries of many workers |
| wb-stream rooms | `server/wb_stream_mode.go`, `wbstream/` | rooms, peers | join, leave | check and join in separate critical sections |
| panel integration | `3x-ui/vkturnproxy/process.go`, `web/service/vk_turn_proxy_*.go` | server process, traffic deltas, heartbeats | start, stop, collect | restart against exit, counters that reset |
| TCP mode, VPN runners, Android service | `tcp_mode.go`, `DesktopVkTurnVpnRunner.kt`, `VkturnVpnService.kt` | session pools, chained processes | | |

They interact as follows. The app (`RouteSupervisor`) starts the client binary or
sing-box as a process, or asks vkturnd over a socket to start it with
privileges. The client's workers take TURN credentials from their group
(`GetCredsForWorker`), report connection errors back to it
(`ReportWorkerError`), and open DTLS connections through a relay to the server;
the connections of one client share a session there. The panel runs the server,
shows its status live and edits the inbounds of xray beside it.
The first seven rows are modelled; the others are listed in `PROJECT.json` with
what they would take.

## Modules

`X.tla` is the component, `MCX.tla` its instance for TLC, `XProofs.tla` its
theorems. In each module the mutants (definitions whose comment begins with
"Mutant") are plausible mistakes used to see that a property can fail; no
specification uses them.

* **ServerSessions.** One process per connection, at control point `pc[c]` of
  `runMuStream`. `sessions` is `SessionManager.Sessions`, `entries[o]` the
  `Conns` of session object `o`, `once[o]` its `cleanupOnce`, `uiSessions` the
  list of the TUI. Each critical section is one action; what lies between two is
  another handler's opportunity: `RemoveConn` decides, `CleanupBegin`,
  `CleanupDelete`, `CleanupUnregister` and `CleanupClose` carry it out.
  `dialFailed` is a history variable: the dial error's early return skips
  `RemoveConn`, and `NoSessionLeak` says that nothing else leaks.
* **SessionRegistry** is what that table promises, without handlers,
  locks and stages: the current session of an id, the id a session was made for, the
  connection of a stream. ServerSessions implements it under the mapping
  `cur <- sessions`, `owner <- ident`, `slot <- slots` (`ImplementsRegistry`).
  The stages of a cleanup are stutters but for the delete (`Retire`) and the
  closing of what is left (`Sweep`, allowed only for a retired session).
* **CredGroups.** One process per worker and one per group for `runPrefetch`.
  A fetch goes through the loop of `fetchForGroup` step by step (`FetchPick`,
  `PrimaryOk`, `PrimaryFail`, ..., `SecondaryPick`), because links die and
  revive in between. Time is abstract: `Age` moves a credential from fresh over
  ageing to expired, `CooldownOver` ends a back-off, `Revive` a dead period,
  `Decay` halves the error counters. Waiting on the condition variable is a
  control point that only `Broadcast` ends.
* **StreamWorkers.** Per stream a DTLS loop (`dtls[s]`) and a TURN loop
  (`turn[s]`), per connection the goroutine that offers the pipe (`offering`) and
  the writer (`writer`), both of which may outlive the connection. `streams`, `ready`
  and `leader` are the table of `sessionRuntime`; `open` are the pipes not yet
  closed. A pipe is drawn from a pool and is reused once nobody refers to it.
  `NegotiationEnds` is the goroutine of mainline mode that learns late, and with
  nobody waiting for it, that heartbeats are supported.
* **DaemonRoutes.** Per control connection a handler, per route object a child,
  a `watch` goroutine and a pump; `mu` is the manager's mutex, `main` the
  shutdown sequence. `ChildExits` and `ClientHangsUp` are the environment.
* **RouteSupervisor.** `mon` is the operation holding the supervisor's monitor,
  `todo` the runners it has still to stop. Runners are of two kinds, a process
  (`VkTurnRunner`, `SingBoxRunner`) or a child of vkturnd (`DaemonRouteRunner`).
  A watcher sees only a status that differs from the last it saw (StateFlow); the
  message and the byte counts may differ where the state does not (`Note`).
  Cancelling collectors, poller and log thread waits for none of them: callbacks
  running at that moment are in `late` and may write afterwards (`LateWrite`).
  `hidden` is a history: a terminal status was overwritten before the watcher
  collected it. The active states of `RouteState` are one value. vkturnd appears as `child`,
  the state its `status` operation would report, with requests that may be lost.
* **PanelSocket.** The page (`page`, `ws`, `ready`, `attempts`, `timers`,
  `polls`), where a JavaScript handler is one step; per connection a `reader` and
  a `writer`; the hub with its three queues, whose `Run` is back at its select
  (`Selecting`) only when the goroutines of the last broadcast (`sending`,
  `evicting`) have ended. A status is a number that grows. `connect` may throw;
  the page hears of it only once its listeners are in place.
* **InboundForm.** `modal` is the form, `db` what is stored, `row` the page's
  row with the inbound that `toInbound` caches, `loads` the lists under way, which
  may arrive in any order. Values are typed or not, a section of the stream is the
  four fields a client must know. A link is a function from parameter names to
  values, so that what a generator does not write is absent for the parser; the UDP
  masks are one of them, `fm`, which no parser reads. Opening a row may clear the
  flow, when the watcher of the security sees the change of form.
  `db.form`, the form something was stored from, is a history; `shared` says that
  the modal's external proxies are the array of the row. The module has its own
  `:>` and `@@` (those of TLC, which the provers do not know) and names the empty
  string `Blank`, so that the proofs need not expand it.

## Runs

| run | checks | instance | result |
|---|---|---|---|
| `server_sessions` | types, mapping, exact tables, no leak, no ghost in the TUI, HandlerReturns, ImplementsRegistry | 3 connections, 1 id (ids share nothing but the map), 2 stream ids, 3 session objects | holds |
| `cred_groups` | one fetch, no lost wakeup, fallback last, InvalidationIsComplete, AcquireReturns | a group of 2 workers and a group of 1, 2 primary links and a secondary, 2 failed fetches or 1 reported error kill a link | holds |
| `stream_workers` | leader, heartbeat, relay | 2 streams, 2 pipes each, 1 handshake slot | holds |
| `stream_workers_live` | ShutdownCompletes, AttemptsEnd | 1 stream, 2 pipes | holds |
| `daemon_routes` | mapping of children, open channels, honest status, RequestReturns | 1 id, 2 route objects, 2 control connections, a channel of 1 line | holds |
| `daemon_shutdown` | SignalStopsChildren | the same | violated |
| `route_supervisor` | no orphans, delivery of terminal statuses and of exits | 1 route, 2 runners, 1 late callback at a time | holds |
| `route_retry` | RetryIsNotUndone | 1 route, 2 runners | violated |
| `route_slots` | SlotIsReleased | 1 route, 1 runner | violated |
| `panel_socket` | NeverStranded, OneSocket, HubSendsToOpen, PushesInOrder, PumpsEnd | 2 sockets, 1 attempt, 2 statuses, buffers and queues of 1 | holds |
| `hub_removal` | FullClientIsDropped | 1 socket, 3 statuses, buffers and queues of 1 | violated |
| `inbound_form` | ImportDials, StoredIsCoherent, ReopenKeepsStored | 5 protocols, 6 networks, 3 securities, 3 changes, 2 lists under way | holds |

**Why the bounds suffice.** Three connections are the fewest for the interesting
case of `ServerSessions`: one leaves, one replaces its stream, a third cleans
up. Two objects per id (sessions, routes, pipes, runners) are a predecessor whose
goroutines are still running and its successor, which is what the races in this
code are between; a third adds a second predecessor that shares nothing with the
first. The bounds on session objects and runners also bound how often a behaviour
creates one. `MaxCalls` bounds the calls of a worker, `MaxLines` the capacity of a
log channel (256 in the code: only full and not full matter), and the threshold
of 2 failed fetches leaves a count that is neither zero nor the limit. Three workers in
two groups are one that waits, one that fetches for it, and one whose group is bound
to the same link. `MaxConns` = 2 is a socket
and its successor, while the first one's client lingers in the hub; `MaxAttempts` = 1
has a reconnection and one too many; a buffer of 1 is full after one
message. `QueueCap` = 1 lets the queue of removals fill, which the 100 places of the
code only make rarer; see `hub_removal` below. `MaxLate` = 1 is one callback at a time that
outlives its cancellation. `MaxEdits` = 3 changes
besides protocol and flow are enough for network, security and a typed value, or
for a form and two later changes of it; two lists under way are enough for one to
overtake the other. The proof modules remove these bounds for the invariants
they cover.

**Fairness.** Goroutines and coroutines that can run do run (weak fairness);
whoever competes for a lock, a slot or a select case that keeps becoming ready
gets it eventually (strong fairness, for a queued handshake, the loops that wait
on a channel and on `ctx.Done`, `watch` and the supervisor's `unregister`: Go
serves the waiters of a channel in order and hands a mutex to a starving one, its
select takes every ready case in the long run). A handshake ends within its 20 s, a fetch
within its HTTP time-outs. A grace period ends and is followed by the kill only while
the app is open: the escalation runs on daemon threads that die with the JVM after
`dispose` (`Main.kt:43`). A handler of vkturnd that writes log lines to a connected
client is not fair, since the client need not read. Peers, users, links and children are
never assumed to do anything, except that a child that was sent SIGKILL exits.
In PanelSocket the pumps, the hub and its goroutines are weakly fair; which ready
case the hub's select takes is left open. A connection whose page has left fails
within the ping period or the read deadline.

**What the violations show.**

* `daemon_shutdown`: `manager.go:231` says StopAll is called from the signal
  handler. It is deferred in `main` behind `Serve`, whose `wg.Wait` waits for
  every handler, and a handler waiting for the next request of a connected
  client does not look at the context.
* `route_retry`: after ERROR "the user can try starting again"
  (`RouteSupervisor.kt:172`); disposing of the failed runner produces a second
  terminal status, and the second `unregister(routeId)` takes the new runner.
* `route_slots`: "Once a runner returns to IDLE we can drop it", but the status
  may be overwritten (CONNECTING noted after a fast exit, a late line, STOPPING)
  before the watcher sees it. `NoMissedTerminal` and `ExitIsReported`, which
  hold, say that overwriting (`hidden`) is the only way.
* `hub_removal`: "Client's send buffer is full, disconnect" (`hub.go:189`), but the
  goroutine that asks for it waits for room in the queue of removals, and `Run`, the
  only reader of that queue, waits for the goroutine. The 100 places are used up by
  more than 100 stuck clients in one broadcast, or by a few that are queued again in
  each broadcast that `Run`'s select takes before their removal. From then on the
  hub sends nothing. `PumpsEnd`, which holds, names this (`HubStuck`) as the one
  thing that can keep a pump whose page has left.

`CHECK_DEADLOCK FALSE` is used for the supervisor, whose window may close for
good, and for PanelSocket, whose page may. ServerSessions, CredGroups,
StreamWorkers and DaemonRoutes end in an explicit `Terminated`; a form can
always be opened.

**What modelling showed besides**, where the code promises nothing that a run could
hold against it:

* A log stream of vkturnd on a quiet route outlives its caller: `streamLogs`
  learns of the hang-up only by failing to write (`control/server.go:149`), and a
  route subscribed after its `watch` ended has a channel nobody closes.
* Errors of a connection made with a secondary-link credential are charged to no
  link: `assignedIdx` is -1 then and `ReportWorkerError` returns
  (`group_creds.go:113`); its branch for the secondary link (line 117) is reached only
  when a refresh comes between. A late error of an earlier connection is charged to
  the group's present link, because errors carry none. With duplicates in the
  configured list `indexHint` names another link than the one fetched from
  (`link_health.go:83`).
* A process that ignores the signal survives the app: after `dispose` nobody is left
  to kill it.
* A removal taken before the registration of the same client is forgotten, and
  the client stays in the hub until its buffer is full. `HubSendsToOpen` holds all
  the same: the `recover` around the sends is never needed.
* The status page connects before it adds its listeners (`index.html:1654`). If
  `new WebSocket` throws then, nobody hears of it, and the page neither reconnects
  nor polls: `NeverStranded` is about a page that ever had a socket.
* `streamNetworkChange` takes REALITY back by writing `inbound.reality`, which
  nothing reads (`inbound_modal.html:210`): REALITY stays on a network that does not
  offer it. `StoredIsCoherent` is therefore about TLS and flow.
* Cancelled changes of external proxies stay in the row and its links, because
  `toJson` hands out the array (`inbound.js:1451`) and the modal's copy shares it.
* A client saved from a row that is out of date can carry a flow the stored transport
  cannot; `StoredIsCoherent` exempts exactly these saves (`staleWrite`).
* Import loses three things, which `ImportDials` names and does not ask for. Every
  generator writes the masks of the stream as `fm` (`inbound.js:1614`) and no importer
  reads it, so that the import of a masked mKCP inbound cannot reach it: the
  property is about unmasked inbounds. The mode of XHTTP is lost for VMess, although
  the comment at `outbound.js:1190` has it kept: the panel's own links write it as `type`
  (`inbound.js:1851`) and the importer reads `mode`. A hysteria2 link loses its TLS
  parameters and obfuscation.
* "`stopAll()` always returns with every runner transitioned to IDLE"
  (`RouteSupervisor.kt:29`) does not hold of process runners, which are STOPPING until
  their exit is collected; one whose spawn threw has no exit to collect.

## Proofs

Each proof shows `Spec => []IInv` for an inductive `IInv`, with a lemma or a
step per action or family of actions, and derives the theorems from it.

* **ServerSessionsProofs**: `TypeCorrect`, `LiveSessionsAreMapped`,
  `TablesAreExact`, `SessionsDoNotLeak`, `UiHasNoGhosts`,
  `HandlersImplementRegistry`. None of the invariants
  is inductive alone. `IInv` adds: a handler between lookup and return holds the
  session it looked up, which has its id (`HandlerHoldsItsSession`); an
  object not yet created is referred to by nobody (`FreshObject`); at most one
  handler is inside `cleanupOnce` (`OneCleaner`); a mapped session has not
  been deleted (`MappedSessionIsLive`). The argument turns on `OneCleaner`: only
  the handler that runs the cleanup can delete the entry, and between its decision
  and the deletion the object is still mapped, so no second object is
  created for that id. Assumption: `None` is no id, object or stream id.
  `HandlersImplementRegistry` proves the refinement: under `IInv`, each action is an
  action of SessionRegistry or a stutter. AddConn is an `Attach` because a
  connection that has not joined is in no table (`TableHoldsJoined`), CleanupDelete
  a `Retire` because a cleaned session is still the mapped one
  (`LiveSessionIsMapped`), CleanupClose a `Sweep` because it no longer is.
* **StreamWorkersProofs**: `TypeCorrect`, `LeaderStaysCurrent`,
  `HeartbeatIsSent`, `RelayIsAttached`. `IInv` adds: a worker in a connection has
  a pipe (`WorkerHasPipe`), a ready entry belongs to a stream with a connection
  (`ReadyHasConnection`), a stream that is up is ready (`UpIsReady`), a leader is
  ready whenever any stream is (`LeaderIsReady`). Entries that late notes bring
  back are never ready, which is why they cannot win an election against a live
  connection. That the election has a least element to choose rests on
  `LeastExists`, from well-foundedness of the naturals. Assumptions: stream ids
  are naturals, connections are pairs of a stream and a pipe.

* **CredGroupsProofs**: `TypeCorrect`, `FlightIsSingle`, `WakeupsAreNotLost`,
  `BackoffsHaveCauses`, `InvalidationsAreComplete`,
  `SecondaryComesLast`. `IInv` adds:
  a waiter's group has its refreshing flag up (`WaiterHasRefresh`), a fetch that
  is at or past a link knows it (`FetchHasLink`), a report about to mark has a
  target (`ReporterHasTarget`). `NoLostWakeup` follows: the flag is up exactly while
  one worker is in flight, and the critical section that lowers it wakes the
  waiters. `BackoffHasCause` is proved and not in a run. `SecondaryComesLast` has
  an invariant of its own on top (`CoverInv`): after `attempt` rounds, the first
  `attempt` links from the preferred one on are tried or were skipped as dead.
  A round starts its scan at the next of them, so that link is picked or
  dead at that moment; NumPrimary consecutive links modulo NumPrimary are all of
  them (`ProbesAreAll`). Assumptions: the counts and thresholds are positive and `indexHint` is a
  function into the naturals, with or without duplicates.
* **DaemonRoutesProofs**: `TypeCorrect`, `RunningChildrenAreMapped`,
  `SubscribedChannelsAreOpen`, `StatusStaysHonest`. `IInv` adds: Up and Down run with
  the lock (`LockHolder`), no handler is left when StopAll runs (`QuietAtTheEnd`),
  between stopLocked and cmd.Start the old route has no running child
  (`StartIsClear`), a channel is subscribed only to the route its handler streams
  (`SubscriberStreams`, `FollowerHasRoute`), a running child is being waited
  for by its watch (`RunningIsWatched`), and a finished watch has written the state
  (`WatchTells`). Assumption: `None` is no id, object or handler; `MaxLines` is
  a natural number.
* **RouteSupervisorProofs**: `TypeCorrect`, `ProcessesAreInReach`,
  `ChildrenAreInReach`, `TerminalsAreNotMissed`, `ExitsAreReported`. `NoOrphanProcess` and `NoOrphanChild`
  rest on the monitor: a runner leaves the map only into the list of the operation
  that holds the monitor, and leaves that list only when its process was told to
  end or its down request was sent (`StartIsUnderWay`, `StopIsUnderWay`,
  `UnregisterIsUnderWay`); `dispose` clears the map when nothing depends on it any
  more (`DisposeReaches`). `NoMissedTerminal` rests on the watcher of a registered
  runner being alive, or already on its way to `unregister` (`WatcherIsAlive`), and
  on collectors that are missing only where there never was a process
  (`HostIsAttached`, `DetachedIsAccounted`), or whose terminal status a late callback
  overwrote. `ExitIsReported` has an invariant on top (`EndIsAccounted`), which also
  covers a runner between its spawn and its registration, where CONNECTING is
  noted over whatever the collectors wrote. Assumption: `None` is no runner or route.
* **PanelSocketProofs**: `TypeCorrect`, `PagesAreNeverStranded`,
  `SocketsAreSingle`, `HubSendsOnlyToOpen`, `PushesStayInOrder`. `IInv` adds what the
  page's fields say of its sockets (`PageInv`: only the current one is alive,
  `isConnected` means it is open, a time-out is pending only when none is alive);
  that a client is registered once, so that one in the queue is neither listed nor
  closed, and that the hub's list does not change while its goroutines send
  (`HubInv`); and one chain for the order (`OrderInv`): shown, buffered, being
  sent, queued, latest. Assumptions: capacities and attempts are positive, `None`
  is no natural. The hub's deadlock is no obstacle: a hub that is stuck breaks no
  safety property.
* **InboundFormProofs**: `TypeCorrect`, `StoredStaysCoherent`, `ReopenedIsKept`,
  `ImportedDials`. What is stored comes from a form, and a form may be opened from
  a row, so `IInv` says of every form that it is coherent at every moment, and of
  every stored inbound, every list under way and the row that it is the JSON of
  such a form, up to the external proxies that an open modal has changed in place
  (`Stored`, `Loaded`). `ReopenKeepsStored` is then that reading back the JSON of a form
  gives JSON that is the same again. `ImportDials` has a
  lemma per stage: the row shows its form (`Shows`), a link is a union of parts
  with disjoint parameters (`Link`, `VmessLink`), so that each part is read back
  by itself (`Carries`; the part of the masks is empty for an unmasked inbound, and
  read by nobody otherwise), and the import says of the form what the parts say (`Speaks`,
  `Reaches`, `Secured`). Assumptions: the bounds are naturals, `None` is no TLS or
  REALITY setting.

Every invariant, action property and refinement of the passing runs is thereby
a theorem. Only model-checked are the liveness properties (HandlerReturns,
AcquireReturns, ShutdownCompletes, AttemptsEnd, RequestReturns,
PumpsEnd), because fairness and ENABLED are out of the prover's reach, and the
violations, which are counterexamples.

## Not modelled

* Payloads, framing, encryption, metrics, log text, TUI layout.
* Forwarding inside a mu stream: a stream ends at any time for any reason.
  Deadlines that goroutines overwrite for each other are below that grain.
* In StreamWorkers: `lastAliveAt`, the inbound dispatcher, probe-only connections, and
  two goroutines that end with their connection and change none of this state: the
  control heartbeat loop (`main.go:1215`) and the sender of `okchan` (`main.go:1233`).
  Liveness is checked for one stream; two that compete for a slot are in the safety
  run only.
* In RouteSupervisor: the VPN runners, more than one route in TLC's instance
  (routes share only the monitor), and the published status of a disposed runner, which
  stays STOPPING because its collectors are cancelled.
* Process-id reuse, port conflicts between an old and a new process.
* In PanelSocket: message types other than the status, topics, messages beyond 10
  MB (replaced by a notice), the worker pool used for many clients (its workers do
  what the goroutines do), runs of the status job that overlap because collecting
  takes longer than its two seconds.
* In InboundForm: secrets other than the generated ones (whose encoding is the
  identity), ports, remarks, sniffing, XHTTP padding, ECH, VLESS encryption, TCP
  masks and QUIC parameters, the pqv and spx of REALITY, WireGuard and VK_TURN_PROXY inbounds, more
  than one client, requests that the server refuses.
* The rest of the 3x-ui fork (xray control, database, subscriptions, bot), captcha
  solvers, generated code and assets. Most of the repository's JavaScript is the
  vendored linter `codemirror/jshint.js`; it and the editor around it are third-party
  code and are not modelled, which is why the map covers a small share of all
  JavaScript lines and a large one of the panel's own models.

## Plan

Extending the model, in this order:

1. `InboundDispatch`: `BindDispatchChannel`, `UnbindDispatchChannel`,
   `dispatchPacket` and the packet pool. An unbind never removes the
   successor's channel, and every packet is put back into the pool once or lost
   with its channel. Composed with
   StreamWorkers through the stream's lifetime.
2. `ModeNegotiation`: client and server hello exchange, probe, fallback and
   runtime restart. Both sides agree on the mode or neither forwards.
3. `CredPool` with the captcha lockout; `WbRooms` (one peer per room and side);
   `PanelProcess` (restart against exit, traffic deltas never negative).
4. VPN runners in RouteSupervisor.

Proving: the safety of these modules as they come, each invariant with the run
that checks it. The modules of today are done as far as the prover reaches.
