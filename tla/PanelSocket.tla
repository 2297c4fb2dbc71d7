----------------------------- MODULE PanelSocket -----------------------------
(***************************************************************************)
(* Live updates of the 3x-ui panel: the browser's WebSocketClient          *)
(* (web/assets/js/websocket.js) as the status page uses it                 *)
(* (web/html/index.html), the two pumps of a connection                    *)
(* (web/controller/websocket.go), the hub (web/websocket/hub.go) and the   *)
(* job that broadcasts the server's status.                                *)
(*                                                                         *)
(* A JavaScript handler runs to completion and is one step.  On the server *)
(* every channel operation is a step of its own goroutine: the hub's Run,  *)
(* the goroutines broadcastParallel starts, a reader and a writer for each *)
(* connection.  A connection is also the address of its websocket.Client.  *)
(* What a written message does to the page is part of the write: the       *)
(* network keeps the order of one connection.                              *)
(***************************************************************************)
EXTENDS Naturals, Sequences, FiniteSets

CONSTANTS
    MaxConns,     \* sockets the page may open; bounds the reconnections
    MaxAttempts,  \* maxReconnectAttempts
    MaxVersion,   \* bounds how often the status job runs
    SendCap,      \* capacity of Client.Send
    QueueCap,     \* capacity of Hub.register and of Hub.unregister
    BroadcastCap, \* capacity of Hub.broadcast
    None          \* null

ASSUME PanelSocketAssumption ==
    /\ MaxAttempts \in Nat \ {0} /\ MaxVersion \in Nat /\ SendCap \in Nat \ {0}
    /\ QueueCap \in Nat \ {0} /\ BroadcastCap \in Nat \ {0}
    /\ MaxConns \in Nat /\ None \notin Nat

\* Sockets, in the order the page opens them.
Conns == 1..MaxConns

VARIABLES
    page,         \* the tab: "loading", "mounted" or "gone"
    ws,           \* WebSocketClient.ws
    ready,        \* readyState of every socket
    attempts,     \* reconnectAttempts
    isConnected,
    timers,       \* pending setTimeout(() => connect())
    polls,        \* live setInterval of startPolling
    pushed,       \* status the last "status" event carried
    srv,          \* the server's end of every connection
    reader,       \* readPump of every connection
    writer,       \* writePump of every connection
    register,     \* Hub.register
    unregister,   \* Hub.unregister
    broadcast,    \* Hub.broadcast
    clients,      \* Hub.clients
    send,         \* Client.Send of every connection
    sendClosed,   \* connections whose Send has been closed
    sending,      \* goroutines of broadcastParallel that have not sent yet
    evicting,     \* those that found a full buffer and are in Unregister
    run,          \* Hub.Run: "loop" or "stopped"
    ctxDone,      \* Hub.Stop was called
    version       \* lastStatus, as a number that grows

pageVars   == <<page, ws, ready, attempts, isConnected, timers, polls>>
connVars   == <<srv, reader, writer>>
queueVars  == <<register, unregister, broadcast>>
clientVars == <<clients, send, sendClosed>>
hubVars    == <<sending, evicting, run, ctxDone, version>>
vars == <<pageVars, pushed, connVars, queueVars, clientVars, hubVars>>

-----------------------------------------------------------------------------
Versions == 0..MaxVersion

\* The types; no channel holds more than its capacity.
TypeOK ==
    /\ page \in {"loading", "mounted", "gone"}
    /\ ws \in Conns \cup {None}
    /\ ready \in [Conns -> {"none", "connecting", "open", "closed"}]
    /\ attempts \in 0..MaxAttempts
    /\ isConnected \in BOOLEAN
    /\ timers \in Nat
    /\ polls \in Nat
    /\ pushed \in Versions
    /\ srv \in [Conns -> {"none", "accepted", "open", "closed"}]
    /\ reader \in [Conns -> {"none", "reading", "leaving", "done"}]
    /\ writer \in [Conns -> {"none", "running", "done"}]
    /\ register \in Seq(Conns) /\ Len(register) <= QueueCap
    /\ unregister \in Seq(Conns) /\ Len(unregister) <= QueueCap
    /\ broadcast \in Seq(Versions) /\ Len(broadcast) <= BroadcastCap
    /\ clients \in SUBSET Conns
    /\ send \in [Conns -> Seq(Versions)]
    /\ \A c \in Conns : Len(send[c]) <= SendCap
    /\ sendClosed \in SUBSET Conns
    /\ sending \in SUBSET (Conns \X Versions)
    /\ evicting \in SUBSET Conns
    /\ run \in {"loop", "stopped"}
    /\ ctxDone \in BOOLEAN
    /\ version \in Versions

Init ==
    /\ page = "loading" /\ ws = None
    /\ ready = [c \in Conns |-> "none"]
    /\ attempts = 0 /\ isConnected = FALSE /\ timers = 0 /\ polls = 0
    /\ pushed = 0
    /\ srv = [c \in Conns |-> "none"]
    /\ reader = [c \in Conns |-> "none"]
    /\ writer = [c \in Conns |-> "none"]
    /\ register = <<>> /\ unregister = <<>> /\ broadcast = <<>>
    /\ clients = {} /\ send = [c \in Conns |-> <<>>] /\ sendClosed = {}
    /\ sending = {} /\ evicting = {} /\ run = "loop" /\ ctxDone = FALSE
    /\ version = 0

\* A socket that has not failed or been closed.
Live(c) == ready[c] \in {"connecting", "open"}

-----------------------------------------------------------------------------
(* The page.                                                               *)

\* new WebSocket: the next socket starts to connect.
NewSocket ==
    \E c \in Conns :
        /\ ready[c] = "none" /\ \A d \in 1..(c - 1) : ready[d] # "none"
        /\ ws' = c
        /\ ready' = [ready EXCEPT ![c] = "connecting"]

\* Mutant: the exception of new WebSocket is swallowed.
connectQuietly(n, heard) ==
    /\ timers' = n /\ UNCHANGED polls
    /\ \/ UNCHANGED <<ws, ready>>
       \/ ~(ws # None /\ Live(ws)) /\ NewSocket

\* WebSocketClient.connect with n timers left: nothing while the socket is
\* opening or open; otherwise a new socket, or an exception, which is reported
\* as an error and makes a page that has its listeners poll.
connect(n, heard) ==
    /\ timers' = n
    /\ \/ /\ ws # None /\ Live(ws)
          /\ UNCHANGED <<ws, ready, polls>>
       \/ /\ ~(ws # None /\ Live(ws))
          /\ NewSocket
          /\ UNCHANGED polls
       \/ /\ ~(ws # None /\ Live(ws))
          /\ polls' = polls + (IF heard THEN 1 ELSE 0)
          /\ UNCHANGED <<ws, ready>>

\* mounted() of the status page, after its first getStatus.  It connects before
\* it adds its listeners: an exception goes unheard.
Mount ==
    /\ page = "loading"
    /\ page' = "mounted"
    /\ connect(timers, FALSE)
    /\ UNCHANGED <<attempts, isConnected, pushed, connVars, queueVars,
                   clientVars, hubVars>>

\* The time-out set by onclose.
TimerFires ==
    /\ timers > 0
    /\ connect(timers - 1, TRUE)
    /\ UNCHANGED <<page, attempts, isConnected, pushed, connVars, queueVars,
                   clientVars, hubVars>>

\* ws.onopen.
OnOpen(c) ==
    /\ ready[c] = "connecting" /\ srv[c] # "none"
    /\ ready' = [ready EXCEPT ![c] = "open"]
    /\ isConnected' = TRUE
    /\ attempts' = 0
    /\ UNCHANGED <<page, ws, timers, polls, pushed, connVars, queueVars,
                   clientVars, hubVars>>

\* The page's "disconnected" listener: how many intervals it starts.
giveUp(n) == IF n >= MaxAttempts THEN 1 ELSE 0

\* Mutant: an error schedules a reconnection of its own.
OnCloseTwice(c, e) ==
    /\ ready' = [ready EXCEPT ![c] = "closed"]
    /\ isConnected' = FALSE
    /\ polls' = polls + e + giveUp(attempts)
    /\ IF attempts < MaxAttempts
       THEN attempts' = attempts + 1 /\ timers' = timers + 1 + e
       ELSE UNCHANGED <<attempts, timers>>

\* ws.onclose, after e error events: the listeners run before the attempts
\* are counted.  shouldReconnect is always true, no page calls disconnect().
OnClose(c, e) ==
    /\ ready' = [ready EXCEPT ![c] = "closed"]
    /\ isConnected' = FALSE
    /\ polls' = polls + e + giveUp(attempts)
    /\ IF attempts < MaxAttempts
       THEN attempts' = attempts + 1 /\ timers' = timers + 1
       ELSE UNCHANGED <<attempts, timers>>

\* The connection is refused (no login, no server), or the network fails; the
\* browser fires "error" and "close" in one task.
SocketFails(c) ==
    /\ Live(c)
    /\ OnClose(c, 1)
    /\ UNCHANGED <<page, ws, pushed, connVars, queueVars, clientVars, hubVars>>

\* The server has closed the connection.
SocketCloses(c) ==
    /\ ready[c] = "open" /\ srv[c] = "closed"
    /\ OnClose(c, 0)
    /\ UNCHANGED <<page, ws, pushed, connVars, queueVars, clientVars, hubVars>>

\* A tick of an interval that finds the socket connected clears it; any other
\* fetches the status.
PollStops ==
    /\ polls > 0 /\ isConnected
    /\ polls' = polls - 1
    /\ UNCHANGED <<page, ws, ready, attempts, isConnected, timers, pushed,
                   connVars, queueVars, clientVars, hubVars>>

\* The user leaves the page: its socket is closed, its timers die.
Unload ==
    /\ page = "mounted"
    /\ page' = "gone"
    /\ ws' = None /\ isConnected' = FALSE /\ timers' = 0 /\ polls' = 0
    /\ ready' = [c \in Conns |-> IF Live(c) THEN "closed" ELSE ready[c]]
    /\ attempts' = 0
    /\ UNCHANGED <<pushed, connVars, queueVars, clientVars, hubVars>>

-----------------------------------------------------------------------------
(* A connection on the server.                                             *)

\* HandleWebSocket up to and including Upgrade.
Accept(c) ==
    /\ ready[c] = "connecting" /\ srv[c] = "none"
    /\ srv' = [srv EXCEPT ![c] = "accepted"]
    /\ UNCHANGED <<pageVars, pushed, reader, writer, queueVars, clientVars,
                   hubVars>>

\* Hub.Register and the start of the pumps.
Register(c) ==
    /\ srv[c] = "accepted"
    /\ \/ /\ Len(register) < QueueCap
          /\ register' = Append(register, c)
       \/ /\ ctxDone
          /\ UNCHANGED register
    /\ srv' = [srv EXCEPT ![c] = "open"]
    /\ reader' = [reader EXCEPT ![c] = "reading"]
    /\ writer' = [writer EXCEPT ![c] = "running"]
    /\ UNCHANGED <<pageVars, pushed, unregister, broadcast, clientVars, hubVars>>

\* ReadMessage fails: the peer is gone, the connection closed, no pong came.
ReadFails(c) ==
    /\ reader[c] = "reading"
    /\ reader' = [reader EXCEPT ![c] = "leaving"]
    /\ UNCHANGED <<pageVars, pushed, srv, writer, queueVars, clientVars, hubVars>>

\* Hub.Unregister, from whichever goroutine.
Unregister(c) ==
    \/ /\ Len(unregister) < QueueCap
       /\ unregister' = Append(unregister, c)
    \/ /\ ctxDone
       /\ UNCHANGED unregister

\* The deferred function of readPump: Unregister, then conn.Close.
ReaderLeaves(c) ==
    /\ reader[c] = "leaving"
    /\ Unregister(c)
    /\ reader' = [reader EXCEPT ![c] = "done"]
    /\ srv' = [srv EXCEPT ![c] = "closed"]
    /\ UNCHANGED <<pageVars, pushed, writer, register, broadcast, clientVars,
                   hubVars>>

\* writePump writes a message.  An open page shows it (onmessage,
\* handleMessage and its "status" listener); one that is gone does not.
WriteMessage(c) ==
    /\ writer[c] = "running" /\ srv[c] = "open" /\ send[c] # <<>>
    /\ ready[c] # "connecting"
    /\ pushed' = IF ready[c] = "open" THEN Head(send[c]) ELSE pushed
    /\ send' = [send EXCEPT ![c] = Tail(@)]
    /\ UNCHANGED <<pageVars, connVars, queueVars, clients, sendClosed, hubVars>>

\* writePump returns and closes the connection.
WriterReturns(c) ==
    /\ writer' = [writer EXCEPT ![c] = "done"]
    /\ srv' = [srv EXCEPT ![c] = "closed"]
    /\ UNCHANGED <<pageVars, pushed, reader, queueVars, clients, sendClosed,
                   hubVars>>

\* Mutant: without the ticker only a message can reveal a dead peer.
WriteFailsNoPing(c) ==
    /\ writer[c] = "running" /\ send[c] # <<>>
    /\ send' = [send EXCEPT ![c] = Tail(@)]
    /\ WriterReturns(c)

\* A message or a ping cannot be written.
WriteFails(c) ==
    /\ writer[c] = "running"
    /\ send' = IF send[c] = <<>> THEN send ELSE [send EXCEPT ![c] = Tail(@)]
    /\ WriterReturns(c)

\* The hub closed Send and its buffer is empty: a close frame, then return.
SendIsClosed(c) ==
    /\ writer[c] = "running" /\ c \in sendClosed /\ send[c] = <<>>
    /\ WriterReturns(c)
    /\ UNCHANGED send

-----------------------------------------------------------------------------
(* The hub.                                                                *)

\* Run is back at its select: broadcastParallel waits for its goroutines.
Selecting == run = "loop" /\ sending = {} /\ evicting = {}

RunRegister ==
    /\ Selecting /\ register # <<>>
    /\ clients' = clients \cup {Head(register)}
    /\ register' = Tail(register)
    /\ UNCHANGED <<pageVars, pushed, connVars, unregister, broadcast, send,
                   sendClosed, hubVars>>

\* Mutant: Send is closed and the entry stays.
RunUnregisterKeep ==
    /\ Selecting /\ unregister # <<>>
    /\ LET c == Head(unregister)
       IN  sendClosed' = IF c \in clients THEN sendClosed \cup {c} ELSE sendClosed
    /\ unregister' = Tail(unregister)
    /\ UNCHANGED <<pageVars, pushed, connVars, register, broadcast, clients,
                   send, hubVars>>

\* An unregister that comes before the register of the same client finds no
\* entry and is forgotten.
RunUnregister ==
    /\ Selecting /\ unregister # <<>>
    /\ LET c == Head(unregister)
       IN  /\ clients' = clients \ {c}
           /\ sendClosed' = IF c \in clients THEN sendClosed \cup {c}
                            ELSE sendClosed
    /\ unregister' = Tail(unregister)
    /\ UNCHANGED <<pageVars, pushed, connVars, register, broadcast, send,
                   hubVars>>

\* Mutant: broadcastParallel returns without wg.Wait.
RunBroadcastAsync ==
    /\ run = "loop" /\ broadcast # <<>>
    /\ sending' = sending \cup (clients \X {Head(broadcast)})
    /\ broadcast' = Tail(broadcast)
    /\ UNCHANGED <<pageVars, pushed, connVars, register, unregister, clientVars,
                   evicting, run, ctxDone, version>>

\* The client list is copied and a goroutine started for each.  (From
\* workerPoolSize clients on, that many goroutines share the list.)
RunBroadcast ==
    /\ Selecting /\ broadcast # <<>>
    /\ sending' = clients \X {Head(broadcast)}
    /\ broadcast' = Tail(broadcast)
    /\ UNCHANGED <<pageVars, pushed, connVars, register, unregister, clientVars,
                   evicting, run, ctxDone, version>>

\* Mutant: the goroutine appends whatever the buffer holds.
SendToAnyway(c, v) ==
    /\ <<c, v>> \in sending
    /\ sending' = sending \ {<<c, v>>}
    /\ send' = [send EXCEPT ![c] = IF c \in sendClosed THEN @ ELSE Append(@, v)]
    /\ UNCHANGED <<pageVars, pushed, connVars, queueVars, clients, sendClosed,
                   evicting, run, ctxDone, version>>

\* The select of such a goroutine: into the buffer, or, if it is full, on to
\* Unregister.  (A send on a closed channel would panic and be recovered.)
SendTo(c, v) ==
    /\ <<c, v>> \in sending
    /\ sending' = sending \ {<<c, v>>}
    /\ \/ /\ c \in sendClosed
          /\ UNCHANGED <<send, evicting>>
       \/ /\ c \notin sendClosed /\ Len(send[c]) < SendCap
          /\ send' = [send EXCEPT ![c] = Append(@, v)]
          /\ UNCHANGED evicting
       \/ /\ c \notin sendClosed /\ Len(send[c]) = SendCap
          /\ evicting' = evicting \cup {c}
          /\ UNCHANGED send
    /\ UNCHANGED <<pageVars, pushed, connVars, queueVars, clients, sendClosed,
                   run, ctxDone, version>>

Evict(c) ==
    /\ c \in evicting
    /\ Unregister(c)
    /\ evicting' = evicting \ {c}
    /\ UNCHANGED <<pageVars, pushed, connVars, register, broadcast, clientVars,
                   sending, run, ctxDone, version>>

\* Run sees ctx.Done: every client is closed.
RunStops ==
    /\ Selecting /\ ctxDone
    /\ sendClosed' = sendClosed \cup clients
    /\ clients' = {}
    /\ run' = "stopped"
    /\ UNCHANGED <<pageVars, pushed, connVars, queueVars, send, sending,
                   evicting, ctxDone, version>>

\* Hub.Stop.
Stop ==
    /\ ~ctxDone
    /\ ctxDone' = TRUE
    /\ UNCHANGED <<pageVars, pushed, connVars, queueVars, clientVars, sending,
                   evicting, run, version>>

\* refreshStatus and Hub.Broadcast: nothing without clients; a full queue or
\* the end of the hub drops the message.  Runs of the job are two seconds apart
\* and the send waits a tenth of one: between storing the status and queueing
\* it, no other run stores one.
refreshStatus ==
    /\ version < MaxVersion
    /\ version' = version + 1
    /\ \/ /\ clients # {} /\ Len(broadcast) < BroadcastCap
          /\ broadcast' = Append(broadcast, version')
       \/ /\ clients = {} \/ Len(broadcast) = BroadcastCap \/ ctxDone
          /\ UNCHANGED broadcast
    /\ UNCHANGED <<pageVars, pushed, connVars, register, unregister, clientVars,
                   sending, evicting, run, ctxDone>>

-----------------------------------------------------------------------------
Page == Mount \/ TimerFires \/ PollStops \/ Unload

Browser(c) == OnOpen(c) \/ SocketFails(c) \/ SocketCloses(c)

Pumps(c) ==
    \/ Accept(c) \/ Register(c) \/ ReadFails(c) \/ ReaderLeaves(c)
    \/ WriteMessage(c) \/ WriteFails(c) \/ SendIsClosed(c)

Sender(c) == (\E v \in Versions : SendTo(c, v)) \/ Evict(c)

Run == RunRegister \/ RunUnregister \/ RunBroadcast \/ RunStops

Next ==
    \/ Page \/ Run \/ Stop \/ refreshStatus
    \/ \E c \in Conns : Browser(c) \/ Pumps(c) \/ Sender(c)

Spec == Init /\ [][Next]_vars

\* Goroutines that can step do.  The hub's select takes some ready case; which
\* one is left open.  A connection whose page has left, or that the other pump
\* has closed, fails within a ping period or the read deadline.  Nothing is
\* assumed of users and of live connections.
Fairness ==
    /\ WF_vars(Run)
    /\ \A c \in Conns :
          /\ WF_vars(Register(c))
          /\ WF_vars(Sender(c))
          /\ WF_vars(ReaderLeaves(c))
          /\ WF_vars(ReadFails(c) /\ (ready[c] = "closed" \/ srv[c] = "closed"))
          /\ WF_vars(WriteFails(c) /\ (ready[c] = "closed" \/ srv[c] = "closed"))

FairSpec == Spec /\ Fairness

-----------------------------------------------------------------------------
(* Properties.                                                             *)

\* A mounted status page that ever had a socket is always being served or
\* about to be: its socket is opening or open, a reconnection is scheduled, or
\* it polls.  In particular the reconnection that is one too many, and one that
\* throws, start the polling (websocket.js connect and onclose with the
\* listeners of index.html).  Without the condition it fails: an exception in
\* the first connect is reported before anyone listens.
NeverStranded ==
    page = "mounted" /\ ws # None =>
        Live(ws) \/ timers > 0 \/ polls > 0

\* A page has at most one live socket, counting the reconnection that is
\* scheduled: error and close of one socket never start two successors, whose
\* messages would reach the page twice.
OneSocket ==
    /\ \A c, d \in Conns : Live(c) /\ Live(d) => c = d
    /\ timers > 0 => timers = 1 /\ \A c \in Conns : ~Live(c)

\* The hub never sends to a channel it has closed: what it lists and what
\* its goroutines are still to serve is open, although registrations and
\* removals of one client may be taken in either order (Hub.Run and
\* broadcastParallel; the recover there is never needed).
HubSendsToOpen ==
    /\ clients \cap sendClosed = {}
    /\ \A p \in sending : p[1] \notin sendClosed

\* Status pushed to the page never goes back in time, through whichever
\* sockets it came (Hub.Run with broadcastParallel, writePump, onmessage).
PushesInOrder == [][pushed' >= pushed]_pushed

\* The hub waits for itself: Run is in broadcastParallel until its goroutines
\* are through, and those wait for room in the queue that only Run empties.
HubStuck ==
    /\ run = "loop" /\ ~ctxDone
    /\ evicting # {} /\ sending = {}
    /\ Len(unregister) = QueueCap

\* When the page has left, both pumps of its connection end, whatever the
\* hub does with the client, so that no goroutine leaks (readPump, writePump);
\* the one thing that can keep them is a hub that waits for itself.
PumpsEnd ==
    \A c \in Conns :
        (srv[c] # "none" /\ ready[c] = "closed")
            ~> ((reader[c] = "done" /\ writer[c] = "done") \/ HubStuck)

\* broadcastParallel: "Client's send buffer is full, disconnect": a client found
\* with a full buffer is taken off the hub's list.
FullClientIsDropped ==
    \A c \in Conns : (c \in evicting) ~> (c \notin clients)
=============================================================================
