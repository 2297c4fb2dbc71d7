--------------------------- MODULE RouteSupervisor ---------------------------
(***************************************************************************)
(* The app's RouteSupervisor: the map from route ids to runners, the       *)
(* runners themselves (VkTurnRunner and SingBoxRunner drive an OS process, *)
(* DaemonRouteRunner drives a child of vkturnd), and one watcher coroutine *)
(* per runner that frees the slot when the runner's status is terminal.    *)
(*                                                                         *)
(* start, stop, stopAll, dispose and unregister are @Synchronized, so `mon' *)
(* holds the operation in progress; process exits, output lines, polls and *)
(* the watchers' emissions run on other threads and interleave with it.  A *)
(* status is a StateFlow: a watcher sees the latest value only, and never  *)
(* one equal to the last it saw.  Cancelling a collector, a poller or a log *)
(* thread does not wait for it: a callback that is running then finishes   *)
(* and may write the status later (`late').                                *)
(*                                                                         *)
(* RouteState is abstracted to `active' (STARTING, CONNECTING, CONNECTED,  *)
(* CAPTCHA, LOCKOUT), `stopping', `idle' and `error'.  Runners is the pool *)
(* of runner objects: start takes a fresh one, so its size bounds the      *)
(* number of starts in a behaviour.  MaxLate bounds how many cancelled     *)
(* callbacks are about to write at any one time.                           *)
(***************************************************************************)
EXTENDS Naturals, Sequences, FiniteSets

CONSTANTS Routes, Runners, None, MaxLate

ASSUME NoneAssumption == None \notin Runners \cup Routes

VARIABLES
  entries,   \* entries[i]: the runner registered for route i, or None
  kind,      \* kind[r]: "new", "host" (an OS process) or "daemon"
  route,     \* route[r]: the route the runner was started for, or None
  status,    \* status[r]: the state in the runner's StateFlow
  hidden,    \* hidden[r]: history, the last terminal status was overwritten
             \*   before the watcher collected it
  proc,      \* proc[r]: the OS process of a host runner
  exits,     \* exits[r]: Exit events not yet collected, each as the state
             \*   that collecting it puts the runner in
  attached,  \* attached[r]: the collectors (or the daemon poller) are live
  late,      \* late[r]: the writes of callbacks that were running when the
             \*   runner cancelled them
  watcher,   \* watcher[r]: the coroutine launched by watch(entry)
  seen,      \* seen[r]: the last state that coroutine collected, "none" before
             \*   the first and when the status has changed in other fields
  child,     \* child[i]: vkturnd's child for route i, as its status op says
  lost,      \* lost[i]: history, some `down' for i never reached vkturnd
  mon,       \* the operation that holds the supervisor's monitor
  disposed   \* dispose() has run: the window is closed

statusVars == <<status, seen, hidden>>

vars == <<entries, kind, route, statusVars, proc, exits, attached, late,
          watcher, child, lost, mon, disposed>>

States == {"idle", "error", "active", "stopping"}

\* The states on which the watcher releases the slot.
Terminal == {"idle", "error"}

\* What a process can be: never spawned because no binary was resolved
\* ("none") or because the spawn threw ("failed"); alive ("running", or "term"
\* once destroy() was called); dead with output still in the pipes ("exited")
\* or with all of it collected ("drained").
Procs == {"none", "failed", "running", "term", "exited", "drained"}

\* `todo' are the runners the operation has still to stop, `cur' the one whose
\* stop() is in progress, `by' the watcher that called unregister.
Free == [op |-> "free", todo |-> {}, cur |-> None, by |-> None]

Op(op, todo, by) == [op |-> op, todo |-> todo, cur |-> None, by |-> by]

Cancels == {"unregister", "dispose"}

TypeOK ==
  /\ entries \in [Routes -> Runners \cup {None}]
  /\ kind \in [Runners -> {"new", "host", "daemon"}]
  /\ route \in [Runners -> Routes \cup {None}]
  /\ status \in [Runners -> States]
  /\ hidden \in [Runners -> BOOLEAN]
  /\ proc \in [Runners -> Procs]
  /\ exits \in [Runners -> Seq(Terminal)]
  /\ attached \in [Runners -> BOOLEAN]
  /\ late \in [Runners -> SUBSET (States \cup {"same"})]
  /\ watcher \in [Runners -> {"none", "collect", "unregister", "wait"}]
  /\ seen \in [Runners -> States \cup {"none"}]
  /\ child \in [Routes -> {"none", "up", "stopped", "error"}]
  /\ lost \in [Routes -> BOOLEAN]
  /\ mon \in [op : {"free", "start", "stop", "stopAll"} \cup Cancels,
              todo : SUBSET Runners,
              cur : Runners \cup {None},
              by : Runners \cup {None}]
  /\ disposed \in BOOLEAN

Init ==
  /\ entries = [i \in Routes |-> None]
  /\ kind = [r \in Runners |-> "new"]
  /\ route = [r \in Runners |-> None]
  /\ status = [r \in Runners |-> "idle"]
  /\ hidden = [r \in Runners |-> FALSE]
  /\ proc = [r \in Runners |-> "none"]
  /\ exits = [r \in Runners |-> <<>>]
  /\ attached = [r \in Runners |-> FALSE]
  /\ late = [r \in Runners |-> {}]
  /\ watcher = [r \in Runners |-> "none"]
  /\ seen = [r \in Runners |-> "none"]
  /\ child = [i \in Routes |-> "none"]
  /\ lost = [i \in Routes |-> FALSE]
  /\ mon = Free
  /\ disposed = FALSE

Registered == {entries[i] : i \in Routes} \ {None}

\* The next runner object start() creates.
IsNext(r) == kind[r] = "new" /\ r = CHOOSE q \in Runners : kind[q] = "new"

\* A terminal status the watcher has yet to collect, of a runner that is in the
\* map or on its way into it.
Uncollected(r) ==
  /\ status[r] \in Terminal
  /\ watcher[r] \in {"none", "collect"}
  /\ entries[route[r]] = r \/ (mon.op = "start" /\ mon.cur = r)

\* The runner writes its status.  Even if the state is the one the watcher saw
\* last, the message or the byte counts may not be.
Note(r, s) ==
  /\ status' = [status EXCEPT ![r] = s]
  /\ \/ UNCHANGED seen
     \/ s = seen[r] /\ seen' = [seen EXCEPT ![r] = "none"]
  /\ hidden' = [hidden EXCEPT ![r] =
                  s \notin Terminal /\ (@ \/ Uncollected(r))]

\* What a line of the process or a sample of its traffic, its exit, and a log
\* line or an answer of vkturnd make the runner write.  A sample, and an answer
\* `running', only update the byte counts.
LineSays(r, s) ==
  /\ proc[r] \in {"running", "term", "exited"}
  /\ s \in {"active", "error", "same"}

ExitSays(r, s) == exits[r] # <<>> /\ s = Head(exits[r])

DaemonSays(r, s) ==
  /\ kind[r] = "daemon"
  /\ \/ child[route[r]] # "none" /\ s = "active"
     \/ child[route[r]] = "up" /\ s = "same"
     \/ child[route[r]] = "error" /\ s = "error"
     \/ child[route[r]] = "stopped" /\ s = "idle"

\* How many callbacks that were cancelled may still write.
Pending == Cardinality(UNION {{r} \X late[r] : r \in Runners})

\* The collectors, the poller and the log thread are cancelled, not joined:
\* some of the callbacks that are running then will still write (LateWrite).
Detach(r) ==
  /\ attached' = [attached EXCEPT ![r] = FALSE]
  /\ \E L \in SUBSET {s \in States \cup {"same"} :
                      LineSays(r, s) \/ ExitSays(r, s) \/ DaemonSays(r, s)} :
       /\ L # {} => attached[r] /\ Cardinality(L) + Pending <= MaxLate
       /\ late' = [late EXCEPT ![r] = @ \cup L]

-----------------------------------------------------------------------------
(* start                                                                   *)

\* The call is allowed in: the monitor is free, the window is open and the
\* route has no entry (otherwise start returns at once and changes nothing).
MayStart(i, r) ==
  /\ mon = Free
  /\ ~disposed
  /\ entries[i] = None
  /\ IsNext(r)

\* start ends: the entry is put in the map and its watcher is launched.
Register(i, r) ==
  /\ entries' = [entries EXCEPT ![i] = r]
  /\ watcher' = [watcher EXCEPT ![r] = "collect"]

\* A host runner that has no process to show for it: the binary was not found
\* ("none", before the host exists) or spawning it threw ("failed").
StartHostFails(i, r, p) ==
  /\ MayStart(i, r)
  /\ kind' = [kind EXCEPT ![r] = "host"]
  /\ route' = [route EXCEPT ![r] = i]
  /\ status' = [status EXCEPT ![r] = "error"]
  /\ proc' = [proc EXCEPT ![r] = p]
  /\ attached' = [attached EXCEPT ![r] = p = "failed"]
  /\ Register(i, r)
  /\ UNCHANGED <<hidden, exits, late, seen, child, lost, mon,
                 disposed>>

\* The collectors are attached and the process spawned; the monitor stays
\* taken until the runner has noted CONNECTING.
Spawn(i, r) ==
  /\ MayStart(i, r)
  /\ kind' = [kind EXCEPT ![r] = "host"]
  /\ route' = [route EXCEPT ![r] = i]
  /\ status' = [status EXCEPT ![r] = "active"]
  /\ proc' = [proc EXCEPT ![r] = "running"]
  /\ attached' = [attached EXCEPT ![r] = TRUE]
  /\ mon' = [Op("start", {}, None) EXCEPT !.cur = r]
  /\ UNCHANGED <<entries, hidden, exits, late, watcher, seen,
                 child, lost, disposed>>

\* Noting CONNECTING overwrites whatever the collectors wrote meanwhile.
Spawned(r) ==
  /\ mon.op = "start"
  /\ mon.cur = r
  /\ Note(r, "active")
  /\ Register(route[r], r)
  /\ mon' = Free
  /\ UNCHANGED <<kind, route, proc, exits, attached, late, child, lost,
                 disposed>>

\* A TUN route is started by vkturnd: the daemon cannot be reached, it
\* refuses `up' (after stopping the child it had), it obeys but its answer is
\* lost, or all is well.
StartDaemon(i, r) ==
  /\ MayStart(i, r)
  /\ kind' = [kind EXCEPT ![r] = "daemon"]
  /\ route' = [route EXCEPT ![r] = i]
  /\ \E c \in {"none", "up", child[i]}, ok \in BOOLEAN :
       /\ ok => c = "up"
       /\ child' = [child EXCEPT ![i] = c]
       /\ status' = [status EXCEPT ![r] = IF ok THEN "active" ELSE "error"]
       /\ attached' = [attached EXCEPT ![r] = ok]
  /\ Register(i, r)
  /\ UNCHANGED <<hidden, proc, exits, late, seen, lost, mon,
                 disposed>>

-----------------------------------------------------------------------------
(* stop, stopAll, dispose and unregister: each stops some runners in turn  *)

Stop(i) ==
  /\ mon = Free
  /\ ~disposed
  /\ entries[i] # None
  /\ mon' = Op("stop", {entries[i]}, None)
  /\ UNCHANGED <<entries, kind, route, statusVars, proc, exits, attached, late,
                 watcher, child, lost, disposed>>

StopAll ==
  /\ mon = Free
  /\ ~disposed
  /\ Registered # {}
  /\ mon' = Op("stopAll", Registered, None)
  /\ UNCHANGED <<entries, kind, route, statusVars, proc, exits, attached, late,
                 watcher, child, lost, disposed>>

Dispose ==
  /\ mon = Free
  /\ ~disposed
  /\ mon' = Op("dispose", Registered, None)
  /\ UNCHANGED <<entries, kind, route, statusVars, proc, exits, attached, late,
                 watcher, child, lost, disposed>>

\* Mutant: the entry leaves the map and nobody disposes of its runner.
UnregisterNoDispose(w) ==
  /\ watcher[w] = "unregister"
  /\ mon = Free
  /\ entries' = [entries EXCEPT ![route[w]] = None]
  /\ watcher' = [watcher EXCEPT ![w] = "collect"]
  /\ UNCHANGED <<kind, route, statusVars, proc, exits, attached, late, child,
                 lost, mon, disposed>>

\* The watcher of w calls unregister(routeId): whichever runner is registered
\* for that route by then leaves the map and is disposed of.
Unregister(w) ==
  /\ watcher[w] = "unregister"
  /\ mon = Free
  /\ LET e == entries[route[w]]
     IN  IF e = None
         THEN /\ watcher' = [watcher EXCEPT ![w] = "collect"]
              /\ UNCHANGED <<entries, mon>>
         ELSE /\ entries' = [entries EXCEPT ![route[w]] = None]
              /\ watcher' = [watcher EXCEPT ![w] = "wait"]
              /\ mon' = Op("unregister", {e}, w)
  /\ UNCHANGED <<kind, route, statusVars, proc, exits, attached, late, child,
                 lost, disposed>>

\* A runner's stop() begins.  Without a host it returns at once; otherwise the
\* status becomes STOPPING, and a live process is sent destroy().
StopBegin(r) ==
  /\ r \in mon.todo
  /\ mon.cur = None
  /\ mon' = [mon EXCEPT !.cur = r]
  /\ IF kind[r] = "host" /\ proc[r] = "none"
     THEN UNCHANGED statusVars
     ELSE Note(r, "stopping")
  /\ proc' = IF proc[r] = "running" THEN [proc EXCEPT ![r] = "term"] ELSE proc
  /\ UNCHANGED <<entries, kind, route, exits, attached, late, watcher, child,
                 lost, disposed>>

\* Mutant: a daemon runner cancels its poller and never sends `down'.
StopEndNoDown(r) ==
  /\ mon.cur = r
  /\ r \in mon.todo
  /\ mon' = [mon EXCEPT !.cur = None, !.todo = @ \ {r}]
  /\ IF kind[r] = "daemon" THEN Note(r, "idle") ELSE UNCHANGED statusVars
  /\ attached' = [attached EXCEPT ![r] = /\ kind[r] = "host"
                                         /\ mon.op \notin Cancels]
  /\ UNCHANGED <<entries, kind, route, proc, exits, late, watcher, child, lost,
                 disposed>>

\* It ends.  A daemon runner has sent `down', which may have got lost, and is
\* IDLE either way with its poller cancelled; dispose() also cancels the
\* collectors of a host runner, while a plain stop() leaves them to report.
StopEnd(r) ==
  /\ mon.cur = r
  /\ r \in mon.todo
  /\ mon' = [mon EXCEPT !.cur = None, !.todo = @ \ {r}]
  /\ \/ /\ kind[r] = "daemon"
        /\ Note(r, "idle")
        /\ Detach(r)
        /\ \/ /\ child' = [child EXCEPT ![route[r]] = "none"]
              /\ UNCHANGED lost
           \/ /\ lost' = [lost EXCEPT ![route[r]] = TRUE]
              /\ UNCHANGED child
     \/ /\ kind[r] = "host"
        /\ IF mon.op \in Cancels THEN Detach(r) ELSE UNCHANGED <<attached, late>>
        /\ UNCHANGED <<statusVars, child, lost>>
  /\ UNCHANGED <<entries, kind, route, proc, exits, watcher, disposed>>

\* The operation returns and the monitor is free.  dispose() has cleared the
\* map and cancelled the scope of the watchers.
Release ==
  /\ mon.op \notin {"free", "start"}
  /\ mon.todo = {}
  /\ mon' = Free
  /\ IF mon.op = "dispose"
     THEN /\ entries' = [i \in Routes |-> None]
          /\ watcher' = [r \in Runners |-> "none"]
          /\ disposed' = TRUE
     ELSE /\ watcher' = [r \in Runners |-> IF r = mon.by THEN "collect"
                                           ELSE watcher[r]]
          /\ UNCHANGED <<entries, disposed>>
  /\ UNCHANGED <<kind, route, statusVars, proc, exits, attached, late, child,
                 lost>>

-----------------------------------------------------------------------------
(* What runs beside them                                                   *)

\* Mutant: ERROR does not release the slot.
EmitIdleOnly(w) ==
  /\ watcher[w] = "collect"
  /\ seen[w] # status[w]
  /\ seen' = [seen EXCEPT ![w] = status[w]]
  /\ watcher' = [watcher EXCEPT ![w] = IF status[w] = "idle"
                                       THEN "unregister" ELSE "collect"]
  /\ UNCHANGED <<entries, kind, route, status, hidden, proc, exits, attached,
                 late, child, lost, mon, disposed>>

\* The watcher collects a status that differs from the last one it saw (in its
\* state, its message or its byte counts), publishes it for the UI and, if it
\* is terminal, goes on to unregister its route.
Emit(w) ==
  /\ watcher[w] = "collect"
  /\ seen[w] # status[w]
  /\ seen' = [seen EXCEPT ![w] = status[w]]
  /\ watcher' = [watcher EXCEPT ![w] = IF status[w] \in Terminal
                                       THEN "unregister" ELSE "collect"]
  /\ UNCHANGED <<entries, kind, route, status, hidden, proc, exits, attached,
                 late, child, lost, mon, disposed>>

\* The process exits.  After destroy() the Exit counts as killed and leads to
\* IDLE; before, the exit code decides.
Exit(r) ==
  /\ proc[r] \in {"running", "term"}
  /\ proc' = [proc EXCEPT ![r] = "exited"]
  /\ \E s \in Terminal :
       /\ proc[r] = "term" => s = "idle"
       /\ exits' = [exits EXCEPT ![r] = <<s>>]
  /\ UNCHANGED <<entries, kind, route, statusVars, attached, late, watcher,
                 child, lost, mon, disposed>>

\* The grace period is over: destroyForcibly().  Both the waiter and the
\* killer emit an Exit.
Kill(r) ==
  /\ proc[r] = "term"
  /\ proc' = [proc EXCEPT ![r] = "exited"]
  /\ exits' = [exits EXCEPT ![r] = <<"idle", "idle">>]
  /\ UNCHANGED <<entries, kind, route, statusVars, attached, late, watcher,
                 child, lost, mon, disposed>>

\* Mutant: only an exit with an error is reported.
CollectExitErrorsOnly(r) ==
  /\ attached[r]
  /\ exits[r] # <<>>
  /\ IF Head(exits[r]) = "idle" THEN UNCHANGED statusVars
     ELSE Note(r, Head(exits[r]))
  /\ exits' = [exits EXCEPT ![r] = Tail(@)]
  /\ UNCHANGED <<entries, kind, route, proc, attached, late, watcher, child,
                 lost, mon, disposed>>

\* The exits collector.
CollectExit(r) ==
  /\ attached[r]
  /\ exits[r] # <<>>
  /\ Note(r, Head(exits[r]))
  /\ exits' = [exits EXCEPT ![r] = Tail(@)]
  /\ UNCHANGED <<entries, kind, route, proc, attached, late, watcher, child,
                 lost, mon, disposed>>

\* The collectors of stdout, stderr and traffic, which may lag behind the exit.
\* A line reports progress, or is an error (a cancelled captcha, a `fatal').
CollectLine(r) ==
  /\ attached[r]
  /\ \E s \in States \cup {"same"} :
       LineSays(r, s) /\ Note(r, IF s = "same" THEN status[r] ELSE s)
  /\ UNCHANGED <<entries, kind, route, proc, exits, attached, late, watcher,
                 child, lost, mon, disposed>>

\* The output of a dead process is used up.
Drain(r) ==
  /\ proc[r] = "exited"
  /\ proc' = [proc EXCEPT ![r] = "drained"]
  /\ UNCHANGED <<entries, kind, route, statusVars, exits, attached, late,
                 watcher, child, lost, mon, disposed>>

\* vkturnd's child ends by itself; vkturnd keeps its record until `down'.
ChildEnds(i) ==
  /\ child[i] = "up"
  /\ \E c \in {"stopped", "error"} : child' = [child EXCEPT ![i] = c]
  /\ UNCHANGED <<entries, kind, route, statusVars, proc, exits, attached, late,
                 watcher, lost, mon, disposed>>

\* Mutant: the poller copies vkturnd's word for the state.
PollVerbatim(r) ==
  /\ attached[r]
  /\ kind[r] = "daemon"
  /\ child[route[r]] # "none"
  /\ Note(r, child[route[r]])
  /\ UNCHANGED <<entries, kind, route, proc, exits, attached, late, watcher,
                 child, lost, mon, disposed>>

\* A daemon runner's poller or log callback reports what vkturnd says.
Poll(r) ==
  /\ attached[r]
  /\ \E s \in States \cup {"same"} :
       DaemonSays(r, s) /\ Note(r, IF s = "same" THEN status[r] ELSE s)
  /\ UNCHANGED <<entries, kind, route, proc, exits, attached, late, watcher,
                 child, lost, mon, disposed>>

\* A callback that was cancelled while it ran writes its status after all.
LateWrite(r) ==
  /\ ~disposed
  /\ \E s \in late[r] :
       /\ late' = [late EXCEPT ![r] = @ \ {s}]
       /\ Note(r, IF s = "same" THEN status[r] ELSE s)
  /\ UNCHANGED <<entries, kind, route, proc, exits, attached, watcher, child,
                 lost, mon, disposed>>

-----------------------------------------------------------------------------
Start(i, r) ==
  \/ \E p \in {"none", "failed"} : StartHostFails(i, r, p)
  \/ Spawn(i, r)
  \/ StartDaemon(i, r)

\* The code that runs once called or once woken: the monitor's holder, the
\* watchers and the collectors.
Machinery(r) ==
  \/ Spawned(r)
  \/ StopBegin(r)
  \/ StopEnd(r)
  \/ Unregister(r)
  \/ Emit(r)
  \/ CollectExit(r)

Next ==
  \/ \E i \in Routes, r \in Runners : Start(i, r)
  \/ \E i \in Routes : Stop(i) \/ ChildEnds(i)
  \/ StopAll
  \/ Dispose
  \/ Release
  \/ \E r \in Runners : Machinery(r) \/ Exit(r) \/ Kill(r) \/ CollectLine(r)
                        \/ Drain(r) \/ Poll(r) \/ LateWrite(r)

Spec == Init /\ [][Next]_vars

\* Threads that can run do run, coroutines that were resumed are scheduled
\* (Unregister competes for the monitor, hence strong fairness), a grace
\* period ends and the pipes of a dead process are read to their end, as long
\* as the application is there: the coroutines that escalate and read run on
\* daemon threads, which die with the JVM that exits after dispose().
\* Processes, users and vkturnd are free to do nothing, and a cancelled
\* callback may have been cut off before its write.
Fairness ==
  /\ WF_vars(Release)
  /\ \A r \in Runners :
       /\ WF_vars(Spawned(r))
       /\ WF_vars(StopBegin(r))
       /\ WF_vars(StopEnd(r))
       /\ SF_vars(Unregister(r))
       /\ WF_vars(Emit(r))
       /\ WF_vars(CollectExit(r))
       /\ WF_vars(~disposed /\ Kill(r))
       /\ WF_vars(~disposed /\ Drain(r))

FairSpec == Spec /\ Fairness

-----------------------------------------------------------------------------
(* Properties                                                              *)

\* A process nobody asked to end is always within reach of a stop: its runner
\* is registered, is being registered, or is about to be told to stop.
NoOrphanProcess ==
  \A r \in Runners : proc[r] = "running" =>
    \/ entries[route[r]] = r
    \/ r \in mon.todo
    \/ mon.op = "start" /\ mon.cur = r

\* The same for the children of vkturnd, which outlive the app: one can be
\* left behind only if a `down' request got lost (DaemonRouteRunner.stop goes
\* to IDLE whatever the answer).
NoOrphanChild ==
  \A i \in Routes : child[i] = "up" =>
    \/ lost[i]
    \/ entries[i] # None /\ kind[entries[i]] = "daemon"
    \/ \E r \in mon.todo : kind[r] = "daemon" /\ route[r] = i

\* The watcher has yet to collect a terminal status, or is on its way to
\* unregister.
Delivered(r) ==
  \/ watcher[r] = "unregister"
  \/ watcher[r] = "collect" /\ status[r] \in Terminal /\ seen[r] # status[r]

\* A terminal status of a registered runner is delivered.  The same holds of a
\* registered runner whose collectors or poller are gone (until dispose()
\* closes everything), since nothing else would ever free its slot, with one
\* exception: a terminal status was overwritten before the watcher saw it, here
\* by a callback that outlived its cancellation (DaemonRouteRunner.stop joins
\* neither the log thread nor the poller).
NoMissedTerminal ==
  \A r \in Registered :
    /\ status[r] \in Terminal => Delivered(r)
    /\ ~attached[r] /\ r \notin mon.todo /\ mon.op # "dispose" =>
         Delivered(r) \/ hidden[r]

\* The end of a process is not forgotten: a registered runner whose process has
\* died or could not be spawned has an Exit to collect or a terminal status that
\* is delivered, whatever was stopped, read or sampled meanwhile.  Again the one
\* exception is a terminal status that was overwritten before the watcher saw
\* it: by CONNECTING noted after the spawn, by STOPPING, or by a line read after
\* the exit.
ExitIsReported ==
  \A r \in Registered : proc[r] \in {"failed", "exited", "drained"} =>
    exits[r] # <<>> \/ Delivered(r) \/ hidden[r]

\* watch(): "ERROR also releases the slot so the user can try starting again",
\* so a new attempt that is under way is not disposed of: unregister takes
\* out a runner only if that runner is at its end, or its watcher saw it there.
RetryIsNotUndone ==
  mon.op = "unregister" /\ mon.cur = None =>
    \A e \in mon.todo :
      status[e] \in Terminal \/ watcher[e] \in {"unregister", "wait"}

\* watch(): "Once a runner returns to IDLE we can drop it": a runner whose
\* process is gone eventually leaves the map (or start(route) stays a no-op).
SlotIsReleased ==
  \A r \in Runners :
    (proc[r] = "drained" /\ r \in Registered) ~> (r \notin Registered)

=============================================================================
