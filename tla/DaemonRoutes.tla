----------------------------- MODULE DaemonRoutes -----------------------------
(***************************************************************************)
(* The privileged helper vkturnd: daemon/tunnel/manager.go (Manager),      *)
(* daemon/control/server.go (Server) and the life of daemon/main.go.       *)
(*                                                                         *)
(* Control connections are served by one goroutine each.  Manager.mu is    *)
(* held through all of Up, Down and StopAll, also while a child is being   *)
(* waited for; meanwhile children die, their watch goroutines wait for the *)
(* lock, log lines are pumped to subscribers and log streams come and go.  *)
(***************************************************************************)
EXTENDS Naturals

CONSTANTS
    Ids,       \* route ids chosen by the GUI
    Objs,      \* route objects, reused when nothing refers to one
    Handlers,  \* control connections
    MaxLines,  \* capacity of a subscriber's channel (256 in the code)
    None       \* nil

ASSUME NoneIsFresh == None \notin Ids \cup Objs \cup Handlers
ASSUME MaxLinesIsNat == MaxLines \in Nat

VARIABLES
    mu,        \* who holds Manager.mu: a handler, "main" or None
    routes,    \* Manager.routes
    ident,     \* spec.ID of every route object
    state,     \* route.state
    child,     \* the process: not started, running, exited, reaped by a Wait
    watch,     \* the watch goroutine, with the outcome of its cmd.Wait
    subs,      \* route.subs, a channel named by the handler that reads it
    chan,      \* a handler's channel
    lines,     \* lines buffered in it
    client,    \* control connections whose client has not hung up
    handler,   \* where Server.handle of a connection is
    target,    \* the route object it works on
    signalled, \* the context cancelled by SIGTERM or SIGINT
    main       \* where main is

routeVars == <<routes, ident, state, child, watch>>
logVars   == <<subs, chan, lines>>
vars == <<mu, routes, ident, state, child, watch, subs, chan, lines, client,
          handler, target, signalled, main>>

-----------------------------------------------------------------------------
Points == {"none", "scan", "up", "start", "down", "subscribe", "stream",
           "cancel", "gone"}

TypeOK ==
    /\ mu \in Handlers \cup {"main", None}
    /\ routes \in [Ids -> Objs \cup {None}]
    /\ ident \in [Objs -> Ids \cup {None}]
    /\ state \in [Objs -> {"none", "running", "stopped", "error"}]
    /\ child \in [Objs -> {"none", "running", "exited", "reaped"}]
    /\ watch \in [Objs -> {"none", "wait", "ok", "failed", "done"}]
    /\ subs \in [Objs -> SUBSET Handlers]
    /\ chan \in [Handlers -> {"none", "open", "closed"}]
    /\ lines \in [Handlers -> 0 .. MaxLines]
    /\ client \in SUBSET Handlers
    /\ handler \in [Handlers -> Points]
    /\ target \in [Handlers -> Objs \cup Ids \cup {None}]
    /\ signalled \in BOOLEAN
    /\ main \in {"serve", "wait", "stopall", "exit"}

Init ==
    /\ mu = None
    /\ routes = [i \in Ids |-> None]
    /\ ident = [r \in Objs |-> None]
    /\ state = [r \in Objs |-> "none"]
    /\ child = [r \in Objs |-> "none"]
    /\ watch = [r \in Objs |-> "none"]
    /\ subs = [r \in Objs |-> {}]
    /\ chan = [h \in Handlers |-> "none"]
    /\ lines = [h \in Handlers |-> 0]
    /\ client = {}
    /\ handler = [h \in Handlers |-> "none"]
    /\ target = [h \in Handlers |-> None]
    /\ signalled = FALSE
    /\ main = "serve"

Goto(h, p) == handler' = [handler EXCEPT ![h] = p]

-----------------------------------------------------------------------------
(* Server.Serve and Server.handle.                                         *)

Accept(h) ==
    /\ main = "serve" /\ ~signalled
    /\ handler[h] = "none"
    /\ client' = client \cup {h}
    /\ Goto(h, "scan")
    /\ UNCHANGED <<mu, routeVars, logVars, target, signalled, main>>

ClientHangsUp(h) ==
    /\ h \in client
    /\ client' = client \ {h}
    /\ UNCHANGED <<mu, routeVars, logVars, handler, target, signalled, main>>

\* scanner.Scan returns false at the end of the stream; the next connection
\* takes the model's slot.
HandleEOF(h) ==
    /\ handler[h] = "scan" /\ h \notin client
    /\ Goto(h, IF main = "serve" THEN "none" ELSE "gone")
    /\ UNCHANGED <<mu, routeVars, logVars, client, target, signalled, main>>

\* A line has been read: a cancelled context ends the handler only here.
HandleCancelled(h) ==
    /\ handler[h] = "scan" /\ h \in client /\ signalled
    /\ client' = client \ {h}
    /\ Goto(h, "gone")
    /\ UNCHANGED <<mu, routeVars, logVars, target, signalled, main>>

\* A request is read and dispatched.
Request(h) == handler[h] = "scan" /\ h \in client /\ ~signalled

-----------------------------------------------------------------------------
(* Up and Down.                                                            *)

\* Both take Manager.mu and send SIGTERM to the group of the route's child.
Lock(h, i, op) ==
    /\ Request(h)
    /\ mu = None
    /\ mu' = h
    /\ Goto(h, op)
    /\ target' = [target EXCEPT ![h] = i]
    /\ UNCHANGED <<routeVars, logVars, client, signalled, main>>

Up(h, i)   == Lock(h, i, "up")
Down(h, i) == Lock(h, i, "down")

\* Mutant: stopLocked waits for the watch goroutine, which needs the lock.
StoppedAfterWatch(r) == watch[r] = "done"

\* stopLocked returns once a cmd.Wait of its own has: the process is gone,
\* after SIGTERM or, 5 s later, SIGKILL.
Stopped(r) == child[r] \in {"exited", "reaped"}

\* What stopLocked leaves behind.
Stop(r) ==
    /\ Stopped(r)
    /\ state' = [state EXCEPT ![r] = "stopped"]
    /\ child' = [child EXCEPT ![r] = "reaped"]

\* Mutant: the old runner is sent its signal and not waited for.
UpStopNoWait(h) ==
    /\ handler[h] = "up"
    /\ UNCHANGED <<state, child>>
    /\ Goto(h, "start")
    /\ UNCHANGED <<mu, routes, ident, watch, logVars, client, target, signalled, main>>

\* Up: a previous runner of the id is stopped; it stays in the map.
UpStop(h) ==
    /\ handler[h] = "up"
    /\ \/ routes[target[h]] = None /\ UNCHANGED <<state, child>>
       \/ routes[target[h]] # None /\ Stop(routes[target[h]])
    /\ Goto(h, "start")
    /\ UNCHANGED <<mu, routes, ident, watch, logVars, client, target, signalled, main>>

\* A missing binary, a config that cannot be staged, or cmd.Start fails: the
\* new object is dropped.
UpFail(h) ==
    /\ handler[h] = "start"
    /\ mu' = None
    /\ Goto(h, "scan")
    /\ target' = [target EXCEPT ![h] = None]
    /\ UNCHANGED <<routeVars, logVars, client, signalled, main>>

Unreferenced(r) ==
    /\ \A i \in Ids : routes[i] # r
    /\ \A h \in Handlers : target[h] # r
    /\ watch[r] \in {"none", "done"}
    /\ subs[r] = {}

\* cmd.Start succeeds: the child runs, watch and the log pumps are started.
UpStart(h) ==
    /\ handler[h] = "start"
    /\ \E r \in Objs :
          /\ Unreferenced(r)
          /\ routes' = [routes EXCEPT ![target[h]] = r]
          /\ ident' = [ident EXCEPT ![r] = target[h]]
          /\ state' = [state EXCEPT ![r] = "running"]
          /\ child' = [child EXCEPT ![r] = "running"]
          /\ watch' = [watch EXCEPT ![r] = "wait"]
    /\ mu' = None
    /\ Goto(h, "scan")
    /\ target' = [target EXCEPT ![h] = None]
    /\ UNCHANGED <<logVars, client, signalled, main>>

DownStop(h) ==
    /\ handler[h] = "down"
    /\ \/ routes[target[h]] = None /\ UNCHANGED <<state, child>>
       \/ routes[target[h]] # None /\ Stop(routes[target[h]])
    /\ routes' = [routes EXCEPT ![target[h]] = None]
    /\ mu' = None
    /\ Goto(h, "scan")
    /\ target' = [target EXCEPT ![h] = None]
    /\ UNCHANGED <<ident, watch, logVars, client, signalled, main>>

-----------------------------------------------------------------------------
(* The child and its goroutines.                                           *)

ChildExits(r) ==
    /\ child[r] = "running"
    /\ child' = [child EXCEPT ![r] = "exited"]
    /\ UNCHANGED <<mu, routes, ident, state, watch, logVars, client, handler,
                   target, signalled, main>>

\* watch: its cmd.Wait reaps the child and has its exit status, or loses the
\* race with the Wait of stopLocked and has an error.
WatchWait(r) ==
    /\ watch[r] = "wait"
    /\ \/ /\ child[r] = "exited"
          /\ child' = [child EXCEPT ![r] = "reaped"]
          /\ \E outcome \in {"ok", "failed"} : watch' = [watch EXCEPT ![r] = outcome]
       \/ /\ child[r] = "reaped"
          /\ child' = child
          /\ watch' = [watch EXCEPT ![r] = "failed"]
    /\ UNCHANGED <<mu, routes, ident, state, logVars, client, handler, target,
                   signalled, main>>

\* Mutant: watch records the end of whatever runs under its id now.
WatchEndById(r) ==
    /\ watch[r] \in {"ok", "failed"}
    /\ mu = None
    /\ state' = [o \in Objs |-> IF ident[o] = ident[r] THEN "stopped" ELSE state[o]]
    /\ chan' = [h \in Handlers |-> IF h \in subs[r] THEN "closed" ELSE chan[h]]
    /\ subs' = [subs EXCEPT ![r] = {}]
    /\ watch' = [watch EXCEPT ![r] = "done"]
    /\ UNCHANGED <<mu, routes, ident, child, lines, client, handler, target,
                   signalled, main>>

\* Then, under Manager.mu, it overwrites the state, whatever it has become
\* meanwhile, and closes the channels of all subscribers.
WatchEnd(r) ==
    /\ watch[r] \in {"ok", "failed"}
    /\ mu = None
    /\ state' = [state EXCEPT ![r] = IF watch[r] = "ok" THEN "stopped" ELSE "error"]
    /\ chan' = [h \in Handlers |-> IF h \in subs[r] THEN "closed" ELSE chan[h]]
    /\ subs' = [subs EXCEPT ![r] = {}]
    /\ watch' = [watch EXCEPT ![r] = "done"]
    /\ UNCHANGED <<mu, routes, ident, child, lines, client, handler, target,
                   signalled, main>>

\* Mutant: a full channel is not skipped.
PumpNoRoom(r) ==
    /\ child[r] # "none"
    /\ subs[r] # {}
    /\ lines' = [h \in Handlers |-> IF h \in subs[r] THEN lines[h] + 1 ELSE lines[h]]
    /\ UNCHANGED <<mu, routeVars, subs, chan, client, handler, target, signalled, main>>

\* pump: a line goes to every subscriber that has room; lines that the
\* scanner has buffered come even after the child was reaped.
Pump(r) ==
    /\ child[r] # "none"
    /\ subs[r] # {}
    /\ lines' = [h \in Handlers |-> IF h \in subs[r] /\ lines[h] < MaxLines
                                    THEN lines[h] + 1 ELSE lines[h]]
    /\ UNCHANGED <<mu, routeVars, subs, chan, client, handler, target, signalled, main>>

-----------------------------------------------------------------------------
(* Log streams.                                                            *)

\* The first half of Subscribe: the route is looked up under Manager.mu.
Logs(h, i) ==
    /\ Request(h)
    /\ mu = None
    /\ routes[i] # None
    /\ target' = [target EXCEPT ![h] = routes[i]]
    /\ Goto(h, "subscribe")
    /\ UNCHANGED <<mu, routeVars, logVars, client, signalled, main>>

\* The second half: the channel is added under subsMu, whatever has become of
\* the route.
Subscribe(h) ==
    /\ handler[h] = "subscribe"
    /\ subs' = [subs EXCEPT ![target[h]] = @ \cup {h}]
    /\ chan' = [chan EXCEPT ![h] = "open"]
    /\ lines' = [lines EXCEPT ![h] = 0]
    /\ Goto(h, "stream")
    /\ UNCHANGED <<mu, routeVars, client, target, signalled, main>>

\* A line is written out; writing to a client that hung up fails.
StreamLine(h) ==
    /\ handler[h] = "stream"
    /\ lines[h] > 0
    /\ lines' = [lines EXCEPT ![h] = @ - 1]
    /\ Goto(h, IF h \in client THEN "stream" ELSE "cancel")
    /\ UNCHANGED <<mu, routeVars, subs, chan, client, target, signalled, main>>

\* The channel is closed and drained, or the context is cancelled.
StreamEnds(h) ==
    /\ handler[h] = "stream"
    /\ (chan[h] = "closed" /\ lines[h] = 0) \/ signalled
    /\ Goto(h, "cancel")
    /\ UNCHANGED <<mu, routeVars, logVars, client, target, signalled, main>>

\* Mutant: the channel is closed but stays subscribed.
CancelKeepSub(h) ==
    /\ handler[h] = "cancel"
    /\ chan' = [chan EXCEPT ![h] = "closed"]
    /\ lines' = [lines EXCEPT ![h] = 0]
    /\ target' = [target EXCEPT ![h] = None]
    /\ Goto(h, "scan")
    /\ UNCHANGED <<mu, routeVars, subs, client, signalled, main>>

\* The deferred cancel: the channel is unsubscribed, then closed unless it
\* already is (a buffered line is mistaken for that) and forgotten.
Cancel(h) ==
    /\ handler[h] = "cancel"
    /\ subs' = [subs EXCEPT ![target[h]] = @ \ {h}]
    /\ chan' = [chan EXCEPT ![h] = "none"]
    /\ lines' = [lines EXCEPT ![h] = 0]
    /\ target' = [target EXCEPT ![h] = None]
    /\ Goto(h, "scan")
    /\ UNCHANGED <<mu, routeVars, client, signalled, main>>

-----------------------------------------------------------------------------
(* main.                                                                   *)

Signal ==
    /\ ~signalled
    /\ signalled' = TRUE
    /\ UNCHANGED <<mu, routeVars, logVars, client, handler, target, main>>

\* The listener is closed; Serve waits for every handler.
ServeWaits ==
    /\ main = "serve" /\ signalled
    /\ main' = "wait"
    /\ UNCHANGED <<mu, routeVars, logVars, client, handler, target, signalled>>

\* Serve returns, and the deferred StopAll takes the lock.
ServeReturns ==
    /\ main = "wait"
    /\ \A h \in Handlers : handler[h] \in {"none", "gone"}
    /\ mu = None
    /\ mu' = "main"
    /\ main' = "stopall"
    /\ UNCHANGED <<routeVars, logVars, client, handler, target, signalled>>

StopAllOne ==
    /\ main = "stopall"
    /\ \E i \in Ids : /\ routes[i] # None
                      /\ Stop(routes[i])
                      /\ routes' = [routes EXCEPT ![i] = None]
    /\ UNCHANGED <<mu, ident, watch, logVars, client, handler, target, signalled, main>>

Exit ==
    /\ main = "stopall"
    /\ \A i \in Ids : routes[i] = None
    /\ mu' = None
    /\ main' = "exit"
    /\ UNCHANGED <<routeVars, logVars, client, handler, target, signalled>>

-----------------------------------------------------------------------------
\* What Server.handle and the Manager do on their own.
HandlerStep(h) ==
    \/ HandleEOF(h) \/ UpStop(h) \/ UpFail(h) \/ UpStart(h) \/ DownStop(h)
    \/ Subscribe(h) \/ StreamLine(h) \/ StreamEnds(h) \/ Cancel(h)
WatchStep(r) == WatchWait(r) \/ WatchEnd(r)
MainStep     == ServeWaits \/ ServeReturns \/ StopAllOne \/ Exit

Ask(h) == \/ \E i \in Ids : Up(h, i) \/ Down(h, i) \/ Logs(h, i)
          \/ HandleCancelled(h)

Terminated == main = "exit" /\ UNCHANGED vars

Next ==
    \/ main # "exit" /\ \/ \E h \in Handlers : \/ Accept(h) \/ ClientHangsUp(h)
                                               \/ Ask(h) \/ HandlerStep(h)
                        \/ \E r \in Objs : ChildExits(r) \/ WatchStep(r) \/ Pump(r)
                        \/ Signal \/ MainStep
    \/ Terminated

Spec == Init /\ [][Next]_vars

\* A child that stopLocked is waiting for.
BeingStopped(r) ==
    \/ \E h \in Handlers : handler[h] \in {"up", "down"} /\ routes[target[h]] = r
    \/ main = "stopall" /\ \E i \in Ids : routes[i] = r

\* A handler writes log lines to a client that may have stopped reading them.
WritesToClient(h) == handler[h] = "stream" /\ h \in client

\* Goroutines run; a child that is sent SIGKILL dies.  Nothing is assumed of
\* the clients, which need not even read, nor of children that are left alone.
Fairness ==
    /\ \A h \in Handlers : WF_vars(HandlerStep(h) /\ ~WritesToClient(h))
    /\ \A r \in Objs : /\ SF_vars(WatchStep(r))
                       /\ WF_vars(ChildExits(r) /\ BeingStopped(r))
    /\ WF_vars(MainStep)

FairSpec == Spec /\ Fairness

-----------------------------------------------------------------------------
(* Properties.                                                             *)

\* A running child is the one its route id maps to, so that Down, the next Up
\* of the id and StopAll reach it: there are never two children of one id, and
\* none is left when the daemon exits.
RunningChildIsMapped ==
    \A r \in Objs : child[r] = "running" =>
        /\ ident[r] # None
        /\ routes[ident[r]] = r
        /\ main # "exit"

\* A subscribed channel is open: pump, which sends outside any recover, never
\* panics, although cancel and watch close channels from two sides.
SubscribedChannelIsOpen ==
    \A r \in Objs : \A h \in subs[r] : chan[h] = "open"

\* StatusAll never calls a live child stopped or failed, and calls a dead one
\* running only until its watch goroutine has the lock.
StatusIsHonest ==
    \A i \in Ids : routes[i] # None =>
        LET r == routes[i]
        IN  /\ state[r] = "running" \/ child[r] # "running"
            /\ state[r] = "running" /\ child[r] # "running" => watch[r] # "done"

\* Up and Down, once they have the lock, return and give it back, although
\* stopLocked and watch wait for the same process and watch wants the lock.
RequestReturns ==
    \A h \in Handlers : (handler[h] \in {"up", "start", "down"}) ~> (mu # h)

\* "StopAll gracefully tears down every live runner.  Called from the main
\* signal handler" (tunnel/manager.go): a signal ends every child.
SignalStopsChildren ==
    signalled ~> (\A r \in Objs : child[r] # "running")
=============================================================================
