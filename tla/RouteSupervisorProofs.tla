------------------------ MODULE RouteSupervisorProofs ------------------------
(***************************************************************************)
(* Safety of RouteSupervisor for any number of routes and runners.         *)
(*                                                                         *)
(* NoOrphanProcess and NoOrphanChild rest on the monitor: a runner leaves  *)
(* the map only into the list of the operation that holds the monitor, and *)
(* leaves that list only when its process was told to end (StopIsUnderWay) *)
(* or its down request was sent.  dispose() clears the map at its end, by  *)
(* when nothing may depend on the map any more (DisposeReaches).           *)
(* NoMissedTerminal rests on the watchers: that of a registered runner is  *)
(* alive, and once it has seen a terminal status it is on its way to       *)
(* unregister (WatcherIsAlive); on the collectors, which a registered host *)
(* runner lacks only if it never had a process (HostIsAttached); and on    *)
(* every write, a late one too, leaving a runner Accounted for.            *)
(* ExitIsReported has an invariant on top of these (EndIsAccounted).       *)
(***************************************************************************)
EXTENDS RouteSupervisor, TLAPS

\* A runner has a route and a watcher only once it was started, and a process
\* only if it is of the kind that has one.
RunnerInv ==
  \A r \in Runners :
    /\ kind[r] = "new" => watcher[r] = "none" /\ seen[r] = "none"
    /\ kind[r] # "new" => route[r] \in Routes
    /\ proc[r] # "none" => kind[r] = "host"

EntryIsOwn ==
  \A i \in Routes : entries[i] # None =>
    kind[entries[i]] # "new" /\ route[entries[i]] = i

\* start() holds the monitor between the spawn and the registration.
StartIsUnderWay ==
  mon.op = "start" =>
    /\ mon.cur \in Runners
    /\ kind[mon.cur] = "host" /\ attached[mon.cur]
    /\ watcher[mon.cur] = "none" /\ seen[mon.cur] = "none"
    /\ entries[route[mon.cur]] = None

\* The operation that stops has the runner it is at on its list, and has told
\* its process to end.
StopIsUnderWay ==
  /\ mon.op \in {"free", "start"} => mon.todo = {}
  /\ mon.op # "start" /\ mon.cur # None =>
       mon.cur \in mon.todo /\ proc[mon.cur] # "running"

\* The watcher that called unregister waits while the operation holds the
\* monitor; its route has no runner then, and what is disposed of is in no map.
UnregisterIsUnderWay ==
  /\ mon.op = "unregister" =>
       /\ mon.by \in Runners /\ watcher[mon.by] = "wait"
       /\ entries[route[mon.by]] = None
       /\ \A i \in Routes : entries[i] \notin mon.todo
  /\ mon.op # "unregister" => mon.by = None

DisposeReaches ==
  mon.op = "dispose" =>
    /\ \A r \in Runners : proc[r] = "running" => r \in mon.todo
    /\ \A i \in Routes : child[i] = "up" =>
         lost[i] \/ \E r \in mon.todo : kind[r] = "daemon" /\ route[r] = i

WatcherIsAlive ==
  \A i \in Routes : entries[i] # None =>
    /\ watcher[entries[i]] \in {"collect", "unregister"}
    /\ seen[entries[i]] \in Terminal => watcher[entries[i]] = "unregister"

\* A runner that is done, whose end was seen, or whose end was overwritten.
\* Every write of its status keeps it so, a late one too.
Accounted(r) == status[r] \in Terminal \/ watcher[r] = "unregister" \/ hidden[r]

HostIsAttached ==
  mon.op # "dispose" =>
    \A i \in Routes :
      entries[i] # None /\ kind[entries[i]] = "host" /\ ~attached[entries[i]] =>
        proc[entries[i]] = "none" /\ Accounted(entries[i])

\* The second half of NoMissedTerminal, for the routes.
DetachedIsAccounted ==
  mon.op # "dispose" =>
    \A i \in Routes :
      entries[i] # None /\ entries[i] \notin mon.todo /\ ~attached[entries[i]] =>
        Accounted(entries[i])

MonitorInv == StartIsUnderWay /\ StopIsUnderWay /\ UnregisterIsUnderWay

ReachInv == NoOrphanProcess /\ NoOrphanChild /\ DisposeReaches

StatusInv == WatcherIsAlive /\ HostIsAttached /\ DetachedIsAccounted

IInv == TypeOK /\ RunnerInv /\ EntryIsOwn /\ MonitorInv /\ ReachInv /\ StatusInv

-----------------------------------------------------------------------------
\* Replacing one value of a function by one of its range.
LEMMA UpdateType ==
  ASSUME NEW S, NEW T, NEW f \in [S -> T], NEW x, NEW y \in T
  PROVE  [f EXCEPT ![x] = y] \in [S -> T]
OBVIOUS

\* What a write of a status changes.
LEMMA NoteFacts ==
  ASSUME TypeOK, NEW r \in Runners, NEW s \in States, Note(r, s)
  PROVE  /\ status' \in [Runners -> States]
         /\ seen' \in [Runners -> States \cup {"none"}]
         /\ hidden' \in [Runners -> BOOLEAN]
         /\ status'[r] = s
         /\ hidden'[r] = (s \notin Terminal /\ (hidden[r] \/ Uncollected(r)))
         /\ \A q \in Runners : q # r => status'[q] = status[q] /\ hidden'[q] = hidden[q]
         /\ \A q \in Runners : seen'[q] \in {seen[q], "none"}
<1>1. status' = [status EXCEPT ![r] = s]
  BY DEF Note
<1>2. seen' = seen \/ seen' = [seen EXCEPT ![r] = "none"]
  BY DEF Note
<1>3. hidden' = [hidden EXCEPT ![r] = s \notin Terminal /\ (hidden[r] \/ Uncollected(r))]
  BY DEF Note
<1>4. status \in [Runners -> States] /\ seen \in [Runners -> States \cup {"none"}]
      /\ hidden \in [Runners -> BOOLEAN]
  BY DEF TypeOK
<1> HIDE DEF Uncollected
<1>5. status' \in [Runners -> States] /\ status'[r] = s
      /\ \A q \in Runners : q # r => status'[q] = status[q]
  BY <1>1, <1>4
<1>6. seen' \in [Runners -> States \cup {"none"}]
      /\ \A q \in Runners : seen'[q] \in {seen[q], "none"}
  BY <1>2, <1>4
<1>7. (s \notin Terminal /\ (hidden[r] \/ Uncollected(r))) \in BOOLEAN
  OBVIOUS
<1>8. hidden' \in [Runners -> BOOLEAN]
      /\ hidden'[r] = (s \notin Terminal /\ (hidden[r] \/ Uncollected(r)))
      /\ \A q \in Runners : q # r => hidden'[q] = hidden[q]
  BY <1>3, <1>4, <1>7, Zenon
<1> QED
  BY <1>5, <1>6, <1>8

\* A write leaves the registered runners accounted for and their watchers alive.
LEMMA NoteKeepsStatusInv ==
  ASSUME IInv, NEW r \in Runners, NEW s \in States, Note(r, s),
         UNCHANGED <<entries, kind, route, watcher>>
  PROVE  /\ WatcherIsAlive'
         /\ \A i \in Routes : entries[i] # None /\ Accounted(entries[i]) =>
              Accounted(entries[i])'
<1>1. TypeOK
  BY DEF IInv
<1>2. \A i \in Routes : entries[i] # None =>
        entries[i] \in Runners /\ route[entries[i]] = i
        /\ watcher[entries[i]] \in {"collect", "unregister"}
  BY NoneAssumption DEF IInv, TypeOK, EntryIsOwn, StatusInv, WatcherIsAlive
<1>3. WatcherIsAlive'
  BY <1>1, <1>2, NoteFacts DEF IInv, StatusInv, WatcherIsAlive, Terminal
<1>4. ASSUME NEW i \in Routes, entries[i] # None, Accounted(entries[i])
      PROVE  Accounted(entries[i])'
  <2>1. CASE entries[i] # r
    BY <1>1, <1>2, <1>4, <2>1, NoteFacts DEF Accounted
  <2>2. CASE entries[i] = r /\ s \in Terminal
    BY <1>1, <1>4, <2>2, NoteFacts DEF Accounted
  <2>3. CASE entries[i] = r /\ s \notin Terminal
    BY <1>1, <1>2, <1>4, <2>3, NoteFacts DEF Accounted, Uncollected
  <2> QED
    BY <2>1, <2>2, <2>3
<1> QED
  BY <1>3, <1>4

\* A start without a process registers a runner that has failed.
LEMMA StartHostFailsStep ==
  ASSUME IInv, NEW i \in Routes, NEW r \in Runners, NEW p \in {"none", "failed"},
         StartHostFails(i, r, p)
  PROVE  IInv'
<1> USE NoneAssumption DEF statusVars, StartHostFails, MayStart, IsNext, Register, Free
<1>1. TypeOK'
  BY DEF IInv, TypeOK, States, Terminal, Procs, Cancels
<1>2. RunnerInv'
  BY DEF IInv, TypeOK, RunnerInv, MonitorInv, StartIsUnderWay
<1>3. EntryIsOwn'
  BY DEF IInv, TypeOK, RunnerInv, EntryIsOwn, MonitorInv, StartIsUnderWay
<1>4. MonitorInv'
  BY DEF IInv, TypeOK, RunnerInv, EntryIsOwn, MonitorInv, StartIsUnderWay,
         StopIsUnderWay, UnregisterIsUnderWay
<1>5. ReachInv'
  BY DEF IInv, TypeOK, RunnerInv, EntryIsOwn, MonitorInv, StartIsUnderWay,
         StopIsUnderWay, ReachInv, NoOrphanProcess, NoOrphanChild, DisposeReaches
<1>6. StatusInv'
  <2>1. WatcherIsAlive'
    BY DEF IInv, TypeOK, RunnerInv, EntryIsOwn, MonitorInv, StartIsUnderWay,
           UnregisterIsUnderWay, StatusInv, WatcherIsAlive, Terminal
  <2>2. HostIsAttached'
    <3>1. p = "none" \/ attached'[r]
      BY DEF IInv, TypeOK
    <3> QED
      BY <3>1 DEF IInv, TypeOK, RunnerInv, EntryIsOwn, StatusInv, HostIsAttached,
                  Accounted, Terminal
  <2>3. DetachedIsAccounted'
    BY DEF IInv, TypeOK, RunnerInv, EntryIsOwn, MonitorInv, StopIsUnderWay,
           UnregisterIsUnderWay, StatusInv, HostIsAttached, DetachedIsAccounted,
           Accounted, Terminal, Cancels
  <2> QED
    BY <2>1, <2>2, <2>3 DEF StatusInv
<1> QED
  BY <1>1, <1>2, <1>3, <1>4, <1>5, <1>6 DEF IInv

\* A start spawns a process and keeps the monitor.
LEMMA SpawnStep ==
  ASSUME IInv, NEW i \in Routes, NEW r \in Runners, Spawn(i, r)
  PROVE  IInv'
<1> USE NoneAssumption DEF statusVars, Spawn, MayStart, IsNext, Free, Op
<1>1. TypeOK'
  BY DEF IInv, TypeOK, States, Terminal, Procs, Cancels
<1>2. RunnerInv'
  BY DEF IInv, TypeOK, RunnerInv, MonitorInv, StartIsUnderWay
<1>3. EntryIsOwn'
  BY DEF IInv, TypeOK, RunnerInv, EntryIsOwn, MonitorInv, StartIsUnderWay
<1>4. MonitorInv'
  BY DEF IInv, TypeOK, RunnerInv, EntryIsOwn, MonitorInv, StartIsUnderWay,
         StopIsUnderWay, UnregisterIsUnderWay
<1>5. ReachInv'
  BY DEF IInv, TypeOK, RunnerInv, EntryIsOwn, MonitorInv, StartIsUnderWay,
         StopIsUnderWay, ReachInv, NoOrphanProcess, NoOrphanChild, DisposeReaches
<1>6. StatusInv'
  BY DEF IInv, TypeOK, RunnerInv, EntryIsOwn, MonitorInv, StartIsUnderWay,
         StopIsUnderWay, UnregisterIsUnderWay, StatusInv, WatcherIsAlive,
         HostIsAttached, DetachedIsAccounted, Accounted, Terminal, Cancels
<1> QED
  BY <1>1, <1>2, <1>3, <1>4, <1>5, <1>6 DEF IInv

\* The start ends.
LEMMA SpawnedStep ==
  ASSUME IInv, NEW r \in Runners, Spawned(r)
  PROVE  IInv'
<1> USE NoneAssumption DEF Spawned, Register, Free
<1>0. /\ status' \in [Runners -> States] /\ status'[r] = "active"
      /\ seen' \in [Runners -> States \cup {"none"}]
      /\ hidden' \in [Runners -> BOOLEAN]
      /\ \A q \in Runners : q # r => status'[q] = status[q] /\ hidden'[q] = hidden[q]
      /\ \A q \in Runners : seen'[q] \in {seen[q], "none"}
  BY NoteFacts DEF IInv, States
<1>1. TypeOK'
  BY <1>0 DEF IInv, TypeOK, Cancels
<1>2. RunnerInv'
  BY <1>0 DEF IInv, TypeOK, RunnerInv, MonitorInv, StartIsUnderWay
<1>3. EntryIsOwn'
  BY DEF IInv, TypeOK, RunnerInv, EntryIsOwn, MonitorInv, StartIsUnderWay
<1>4. MonitorInv'
  BY DEF IInv, TypeOK, RunnerInv, EntryIsOwn, MonitorInv, StartIsUnderWay,
         StopIsUnderWay, UnregisterIsUnderWay
<1>5. ReachInv'
  BY DEF IInv, TypeOK, RunnerInv, EntryIsOwn, MonitorInv, StartIsUnderWay,
         StopIsUnderWay, ReachInv, NoOrphanProcess, NoOrphanChild, DisposeReaches
<1>6. StatusInv'
  <2>1. \A i \in Routes : entries[i] # r
    BY DEF IInv, EntryIsOwn, MonitorInv, StartIsUnderWay
  <2>2. /\ entries' = [entries EXCEPT ![route[r]] = r] /\ route[r] \in Routes
        /\ watcher' = [watcher EXCEPT ![r] = "collect"]
        /\ seen[r] = "none" /\ attached[r] /\ mon.todo = {} /\ mon.op = "start"
        /\ mon'.op = "free" /\ mon'.todo = {}
        /\ UNCHANGED <<kind, proc, attached>>
    BY DEF IInv, RunnerInv, MonitorInv, StartIsUnderWay, StopIsUnderWay
  <2>3. WatcherIsAlive'
    BY <1>0, <2>1, <2>2 DEF IInv, TypeOK, StatusInv, WatcherIsAlive, Terminal
  <2>4. HostIsAttached' /\ DetachedIsAccounted'
    BY <1>0, <2>1, <2>2 DEF IInv, TypeOK, StatusInv, HostIsAttached,
                            DetachedIsAccounted, Accounted
  <2> QED
    BY <2>3, <2>4 DEF StatusInv
<1> QED
  BY <1>1, <1>2, <1>3, <1>4, <1>5, <1>6 DEF IInv

\* A start through vkturnd.
LEMMA StartDaemonStep ==
  ASSUME IInv, NEW i \in Routes, NEW r \in Runners, StartDaemon(i, r)
  PROVE  IInv'
<1> USE NoneAssumption DEF statusVars, StartDaemon, MayStart, IsNext, Register, Free
<1>1. TypeOK'
  <2>1. child' \in [Routes -> {"none", "up", "stopped", "error"}]
    BY DEF IInv, TypeOK
  <2>2. status' \in [Runners -> States] /\ attached' \in [Runners -> BOOLEAN]
    BY DEF IInv, TypeOK, States
  <2> QED
    BY <2>1, <2>2 DEF IInv, TypeOK
<1>2. RunnerInv'
  BY DEF IInv, TypeOK, RunnerInv, MonitorInv, StartIsUnderWay
<1>3. EntryIsOwn'
  BY DEF IInv, TypeOK, RunnerInv, EntryIsOwn, MonitorInv, StartIsUnderWay
<1>4. MonitorInv'
  BY DEF IInv, TypeOK, RunnerInv, EntryIsOwn, MonitorInv, StartIsUnderWay,
         StopIsUnderWay, UnregisterIsUnderWay
<1>5. ReachInv'
  BY DEF IInv, TypeOK, RunnerInv, EntryIsOwn, MonitorInv, StartIsUnderWay,
         StopIsUnderWay, ReachInv, NoOrphanProcess, NoOrphanChild, DisposeReaches
<1>6. StatusInv'
  BY DEF IInv, TypeOK, RunnerInv, EntryIsOwn, MonitorInv, StartIsUnderWay,
         StopIsUnderWay, UnregisterIsUnderWay, StatusInv, WatcherIsAlive,
         HostIsAttached, DetachedIsAccounted, Accounted, Terminal, Cancels
<1> QED
  BY <1>1, <1>2, <1>3, <1>4, <1>5, <1>6 DEF IInv

\* An operation that stops runners takes the monitor.
LEMMA StopStep ==
  ASSUME IInv, (\E i \in Routes : Stop(i)) \/ StopAll \/ Dispose
  PROVE  IInv'
<1> USE NoneAssumption DEF statusVars, Stop, StopAll, Dispose, Registered, Op, Free
<1>1. TypeOK'
  BY DEF IInv, TypeOK, States, Terminal, Procs, Cancels
<1>2. RunnerInv'
  BY DEF IInv, TypeOK, RunnerInv, MonitorInv, StartIsUnderWay
<1>3. EntryIsOwn'
  BY DEF IInv, TypeOK, RunnerInv, EntryIsOwn, MonitorInv, StartIsUnderWay
<1>4. MonitorInv'
  BY DEF IInv, TypeOK, RunnerInv, EntryIsOwn, MonitorInv, StartIsUnderWay,
         StopIsUnderWay, UnregisterIsUnderWay
<1>5. ReachInv'
  <2>1. NoOrphanProcess'
    BY DEF IInv, TypeOK, RunnerInv, EntryIsOwn, MonitorInv, StopIsUnderWay,
           ReachInv, NoOrphanProcess, DisposeReaches
  <2>2. NoOrphanChild'
    BY DEF IInv, TypeOK, RunnerInv, EntryIsOwn, MonitorInv, StopIsUnderWay,
           ReachInv, NoOrphanChild, DisposeReaches
  <2>3. DisposeReaches'
    <3> SUFFICES ASSUME Dispose PROVE DisposeReaches'
      BY DEF DisposeReaches
    <3>1. /\ mon' = [op |-> "dispose", todo |-> Registered, cur |-> None, by |-> None]
          /\ mon.todo = {} /\ mon.op = "free"
          /\ UNCHANGED <<entries, kind, route, proc, child, lost>>
      OBVIOUS
    <3>2. ASSUME NEW r \in Runners, proc[r] = "running"
          PROVE  r \in Registered
      <4>1. route[r] \in Routes /\ entries[route[r]] = r
        BY <3>1, <3>2 DEF IInv, RunnerInv, ReachInv, NoOrphanProcess
      <4> QED
        BY <4>1
    <3>3. ASSUME NEW i \in Routes, child[i] = "up", ~lost[i]
          PROVE  \E r \in Registered : kind[r] = "daemon" /\ route[r] = i
      <4>1. entries[i] # None /\ kind[entries[i]] = "daemon" /\ route[entries[i]] = i
        BY <3>1, <3>3 DEF IInv, EntryIsOwn, ReachInv, NoOrphanChild
      <4> QED
        BY <4>1
    <3> QED
      BY <3>1, <3>2, <3>3 DEF DisposeReaches
  <2> QED
    BY <2>1, <2>2, <2>3 DEF ReachInv
<1>6. StatusInv'
  BY DEF IInv, TypeOK, RunnerInv, EntryIsOwn, MonitorInv, StartIsUnderWay,
         StopIsUnderWay, UnregisterIsUnderWay, StatusInv, WatcherIsAlive,
         HostIsAttached, DetachedIsAccounted, Accounted, Terminal, Cancels
<1> QED
  BY <1>1, <1>2, <1>3, <1>4, <1>5, <1>6 DEF IInv

\* A watcher unregisters its route.
LEMMA UnregisterStep ==
  ASSUME IInv, NEW w \in Runners, Unregister(w)
  PROVE  IInv'
<1> DEFINE e == entries[route[w]]
<1>0. route[w] \in Routes /\ mon = Free
  BY DEF IInv, RunnerInv, Unregister
<1>1. CASE e = None
  <2>1. UNCHANGED <<entries, mon, kind, route, status, seen, hidden, proc, exits,
                    attached, late, child, lost, disposed>>
        /\ watcher' = [watcher EXCEPT ![w] = "collect"]
    BY <1>1 DEF Unregister, statusVars
  <2>2. \A i \in Routes : entries[i] # w
    BY <1>1, NoneAssumption DEF IInv, EntryIsOwn
  <2>3. TypeOK' /\ RunnerInv' /\ EntryIsOwn'
    BY <1>0, <2>1 DEF IInv, TypeOK, RunnerInv, EntryIsOwn, Unregister
  <2>4. MonitorInv'
    BY <1>0, <2>1 DEF IInv, TypeOK, MonitorInv, StartIsUnderWay, StopIsUnderWay,
                      UnregisterIsUnderWay, Free
  <2>5. ReachInv'
    BY <2>1 DEF IInv, ReachInv, NoOrphanProcess, NoOrphanChild, DisposeReaches
  <2>6. StatusInv'
    BY <2>1, <2>2 DEF IInv, TypeOK, StatusInv, WatcherIsAlive, HostIsAttached,
                      DetachedIsAccounted, Accounted
  <2> QED
    BY <2>3, <2>4, <2>5, <2>6 DEF IInv
<1>2. CASE e # None
  <2>1. /\ entries' = [entries EXCEPT ![route[w]] = None]
        /\ watcher' = [watcher EXCEPT ![w] = "wait"]
        /\ mon' = [op |-> "unregister", todo |-> {e}, cur |-> None, by |-> w]
        /\ UNCHANGED <<kind, route, status, seen, hidden, proc, exits, attached,
                       late, child, lost, disposed>>
    BY <1>2 DEF Unregister, Op, statusVars
  <2>2. e \in Runners /\ route[e] = route[w] /\ kind[e] # "new"
    BY <1>0, <1>2 DEF IInv, TypeOK, EntryIsOwn
  <2>3. mon.op = "free" /\ mon.todo = {} /\ mon.cur = None
    BY <1>0 DEF Free
  <2>4. \A i \in Routes : entries'[i] # e /\ entries'[i] # w
    BY <1>0, <2>1, <2>2, NoneAssumption DEF IInv, TypeOK, EntryIsOwn
  <2> HIDE DEF e
  <2>5. TypeOK'
    BY <2>1, <2>2 DEF IInv, TypeOK, Cancels
  <2>6. RunnerInv' /\ EntryIsOwn'
    BY <1>0, <2>1, NoneAssumption DEF IInv, TypeOK, RunnerInv, EntryIsOwn, Unregister
  <2>7. MonitorInv'
    BY <1>0, <2>1, <2>4 DEF IInv, TypeOK, MonitorInv, StartIsUnderWay, StopIsUnderWay,
                      UnregisterIsUnderWay
  <2>8. ReachInv'
    <3>1. NoOrphanProcess'
      BY <1>0, <2>1, <2>2, <2>3 DEF IInv, TypeOK, RunnerInv, ReachInv, NoOrphanProcess, e
    <3>2. NoOrphanChild'
      BY <1>0, <2>1, <2>2, <2>3 DEF IInv, TypeOK, ReachInv, NoOrphanChild, e
    <3> QED
      BY <2>1, <3>1, <3>2 DEF ReachInv, DisposeReaches
  <2>9. StatusInv'
    BY <1>0, <2>1, <2>3, <2>4, NoneAssumption DEF IInv, TypeOK, StatusInv,
       WatcherIsAlive, HostIsAttached, DetachedIsAccounted, Accounted
  <2> QED
    BY <2>5, <2>6, <2>7, <2>8, <2>9 DEF IInv
<1> QED
  BY <1>1, <1>2

\* A runner's stop() begins.
LEMMA StopBeginStep ==
  ASSUME IInv, NEW r \in Runners, StopBegin(r)
  PROVE  IInv'
<1> USE NoneAssumption DEF StopBegin
<1>0. /\ status' \in [Runners -> States] /\ hidden' \in [Runners -> BOOLEAN]
      /\ seen' \in [Runners -> States \cup {"none"}]
      /\ \A q \in Runners : seen'[q] \in {seen[q], "none"}
  <2>1. CASE kind[r] = "host" /\ proc[r] = "none"
    BY <2>1 DEF IInv, TypeOK, statusVars
  <2>2. CASE ~(kind[r] = "host" /\ proc[r] = "none")
    BY <2>2, NoteFacts DEF IInv, States
  <2> QED
    BY <2>1, <2>2
<1>1. TypeOK'
  BY <1>0 DEF IInv, TypeOK, Procs, Cancels
<1>2. RunnerInv'
  BY <1>0 DEF IInv, TypeOK, RunnerInv, MonitorInv, StartIsUnderWay
<1>3. EntryIsOwn'
  BY DEF IInv, TypeOK, RunnerInv, EntryIsOwn, MonitorInv, StartIsUnderWay
<1>4. MonitorInv'
  BY <1>0 DEF IInv, TypeOK, RunnerInv, EntryIsOwn, MonitorInv, StartIsUnderWay,
         StopIsUnderWay, UnregisterIsUnderWay
<1>5. ReachInv'
  BY DEF IInv, TypeOK, RunnerInv, EntryIsOwn, MonitorInv, StartIsUnderWay,
         StopIsUnderWay, ReachInv, NoOrphanProcess, NoOrphanChild, DisposeReaches
<1>6. StatusInv'
  <2>1. /\ UNCHANGED <<entries, kind, route, watcher, attached>>
        /\ mon'.op = mon.op /\ mon'.todo = mon.todo /\ r \in mon.todo
        /\ \A q \in Runners : proc[q] = "none" => proc'[q] = "none"
    BY DEF IInv, TypeOK
  <2>2. CASE kind[r] = "host" /\ proc[r] = "none"
    BY <2>1, <2>2 DEF IInv, TypeOK, StatusInv, WatcherIsAlive, HostIsAttached,
                      DetachedIsAccounted, Accounted, statusVars
  <2>3. CASE ~(kind[r] = "host" /\ proc[r] = "none")
    <3>1. /\ WatcherIsAlive'
          /\ \A i \in Routes : entries[i] # None /\ Accounted(entries[i]) =>
               Accounted(entries[i])'
      BY <2>1, <2>3, NoteKeepsStatusInv DEF States
    <3>2. HostIsAttached' /\ DetachedIsAccounted'
      BY <2>1, <3>1 DEF IInv, TypeOK, StatusInv, HostIsAttached, DetachedIsAccounted,
                        Accounted
    <3> QED
      BY <3>1, <3>2 DEF StatusInv
  <2> QED
    BY <2>2, <2>3
<1> QED
  BY <1>1, <1>2, <1>3, <1>4, <1>5, <1>6 DEF IInv

\* It ends.
LEMMA StopEndStep ==
  ASSUME IInv, NEW r \in Runners, StopEnd(r)
  PROVE  IInv'
<1> USE NoneAssumption DEF StopEnd
<1>0. /\ status' \in [Runners -> States] /\ hidden' \in [Runners -> BOOLEAN]
      /\ seen' \in [Runners -> States \cup {"none"}]
      /\ \A q \in Runners : seen'[q] \in {seen[q], "none"}
      /\ kind[r] = "daemon" => status'[r] = "idle"
  <2>1. CASE kind[r] = "host"
    BY <2>1 DEF IInv, TypeOK, statusVars
  <2>2. CASE kind[r] = "daemon"
    BY <2>2, NoteFacts DEF IInv, States
  <2> QED
    BY <2>1, <2>2
<1>a. /\ attached' \in [Runners -> BOOLEAN]
      /\ \A q \in Runners : q # r => attached'[q] = attached[q]
      /\ kind[r] = "host" /\ mon.op \notin Cancels => attached'[r] = attached[r]
      /\ late' \in [Runners -> SUBSET (States \cup {"same"})]
  <2>1. CASE Detach(r)
    <3>1. PICK L \in SUBSET (States \cup {"same"}) : late' = [late EXCEPT ![r] = @ \cup L]
      BY <2>1 DEF Detach
    <3>2. late' \in [Runners -> SUBSET (States \cup {"same"})]
      BY <3>1 DEF IInv, TypeOK
    <3>3. attached' = [attached EXCEPT ![r] = FALSE]
      BY <2>1 DEF Detach
    <3>4. ~(kind[r] = "host" /\ mon.op \notin Cancels) \/ attached' = attached
      OBVIOUS
    <3> QED
      BY <3>2, <3>3, <3>4 DEF IInv, TypeOK
  <2>2. CASE UNCHANGED <<attached, late>>
    BY <2>2 DEF IInv, TypeOK
  <2> QED
    BY <2>1, <2>2
<1>1. TypeOK'
  <2>1. mon' \in [op : {"free", "start", "stop", "stopAll"} \cup Cancels,
              todo : SUBSET Runners, cur : Runners \cup {None},
              by : Runners \cup {None}]
    BY DEF IInv, TypeOK
  <2>2. /\ child' = [child EXCEPT ![route[r]] = "none"] \/ child' = child
        /\ lost' = [lost EXCEPT ![route[r]] = TRUE] \/ lost' = lost
    OBVIOUS
  <2>3. child' \in [Routes -> {"none", "up", "stopped", "error"}]
    BY <2>2 DEF IInv, TypeOK
  <2>4. lost' \in [Routes -> BOOLEAN]
    BY <2>2 DEF IInv, TypeOK
  <2> QED
    BY <1>0, <1>a, <2>1, <2>3, <2>4 DEF IInv, TypeOK
<1>2. RunnerInv'
  BY <1>0 DEF IInv, TypeOK, RunnerInv, MonitorInv, StartIsUnderWay
<1>3. EntryIsOwn'
  BY DEF IInv, TypeOK, RunnerInv, EntryIsOwn, MonitorInv, StartIsUnderWay
<1>4. MonitorInv'
  BY <1>0, <1>a DEF IInv, TypeOK, RunnerInv, EntryIsOwn, MonitorInv, StartIsUnderWay,
         StopIsUnderWay, UnregisterIsUnderWay
<1>5. ReachInv'
  <2>1. NoOrphanProcess'
    BY DEF IInv, TypeOK, RunnerInv, EntryIsOwn, MonitorInv, StopIsUnderWay,
           ReachInv, NoOrphanProcess, DisposeReaches
  <2>2. NoOrphanChild'
    BY DEF IInv, TypeOK, RunnerInv, EntryIsOwn, MonitorInv, StopIsUnderWay,
           ReachInv, NoOrphanChild, DisposeReaches
  <2>3. DisposeReaches'
    <3> SUFFICES ASSUME mon.op = "dispose" PROVE DisposeReaches'
      BY DEF IInv, TypeOK, DisposeReaches
    <3>1. mon'.op = "dispose" /\ mon'.todo = mon.todo \ {r}
      BY DEF IInv, TypeOK
    <3>2. \A q \in Runners : proc'[q] = "running" => q \in mon'.todo
      BY <3>1 DEF IInv, MonitorInv, StopIsUnderWay, ReachInv, DisposeReaches
    <3>3. ASSUME NEW i \in Routes, child'[i] = "up", ~lost'[i]
          PROVE  \E q \in mon'.todo : kind'[q] = "daemon" /\ route'[q] = i
      <4>1. child[i] = "up" /\ ~lost[i] /\ (kind[r] = "daemon" => route[r] # i)
        BY <3>3 DEF IInv, TypeOK
      <4>2. PICK q \in mon.todo : kind[q] = "daemon" /\ route[q] = i
        BY <4>1 DEF IInv, ReachInv, DisposeReaches
      <4> QED
        BY <3>1, <4>1, <4>2
    <3> QED
      BY <3>2, <3>3 DEF DisposeReaches
  <2> QED
    BY <2>1, <2>2, <2>3 DEF ReachInv
<1>6. StatusInv'
  <2>1. /\ UNCHANGED <<entries, kind, route, watcher, proc>>
        /\ mon'.op = mon.op /\ mon'.todo = mon.todo \ {r} /\ r \in mon.todo
    BY DEF IInv, TypeOK
  <2>2. /\ WatcherIsAlive'
        /\ \A i \in Routes : entries[i] # None /\ Accounted(entries[i]) =>
             Accounted(entries[i])'
    <3>1. CASE kind[r] = "host"
      BY <2>1, <3>1 DEF IInv, TypeOK, StatusInv, WatcherIsAlive, Accounted, statusVars
    <3>2. CASE kind[r] = "daemon"
      BY <2>1, <3>2, NoteKeepsStatusInv DEF States
    <3> QED
      BY <3>1, <3>2
  <2>3. mon.op # "dispose" /\ mon.op # "unregister" => mon.op \notin Cancels
    BY DEF Cancels
  <2>4. mon.op = "unregister" => \A i \in Routes : entries[i] # r
    BY <2>1 DEF IInv, MonitorInv, UnregisterIsUnderWay
  <2>5. HostIsAttached'
    BY <1>a, <2>1, <2>2, <2>3, <2>4 DEF IInv, TypeOK, StatusInv, HostIsAttached, Accounted
  <2>6. kind[r] = "daemon" => Accounted(r)'
    BY <1>0 DEF Accounted, Terminal
  <2>7. kind[r] \in {"host", "daemon"}
    OBVIOUS
  <2>8. DetachedIsAccounted'
    <3> SUFFICES ASSUME mon'.op # "dispose", NEW i \in Routes, entries'[i] # None,
                        entries'[i] \notin mon'.todo, ~attached'[entries'[i]]
                 PROVE  Accounted(entries[i])'
      BY <2>1 DEF DetachedIsAccounted, Accounted
    <3>1. CASE entries[i] = r /\ kind[r] = "daemon"
      BY <2>6, <3>1 DEF Accounted
    <3>2. CASE entries[i] = r /\ kind[r] = "host"
      BY <1>a, <2>1, <2>2, <2>3, <2>4, <3>2 DEF IInv, StatusInv, HostIsAttached
    <3>3. CASE entries[i] # r
      <4>1. entries[i] \in Runners
        BY <2>1 DEF IInv, TypeOK
      <4> QED
        BY <1>a, <2>1, <2>2, <3>3, <4>1 DEF IInv, StatusInv, DetachedIsAccounted
    <3> QED
      BY <2>7, <3>1, <3>2, <3>3
  <2> QED
    BY <2>2, <2>5, <2>8 DEF StatusInv
<1> QED
  BY <1>1, <1>2, <1>3, <1>4, <1>5, <1>6 DEF IInv

\* The operation returns.
LEMMA ReleaseStep ==
  ASSUME IInv, Release
  PROVE  IInv'
<1> USE NoneAssumption DEF statusVars, Release, Free
<1>1. TypeOK'
  <2>1. mon' \in [op : {"free", "start", "stop", "stopAll"} \cup Cancels,
              todo : SUBSET Runners, cur : Runners \cup {None},
              by : Runners \cup {None}]
    BY DEF IInv, TypeOK
  <2>2. watcher' \in [Runners -> {"none", "collect", "unregister", "wait"}]
    BY DEF IInv, TypeOK
  <2>3. entries' \in [Routes -> Runners \cup {None}]
    BY DEF IInv, TypeOK
  <2>4. disposed' \in BOOLEAN
    BY DEF IInv, TypeOK
  <2> QED
    BY <2>1, <2>2, <2>3, <2>4 DEF IInv, TypeOK
<1>2. RunnerInv'
  <2>1. \A r \in Runners : kind[r] = "new" => watcher'[r] = "none"
    BY DEF IInv, TypeOK, RunnerInv, MonitorInv, UnregisterIsUnderWay, Cancels
  <2> QED
    BY <2>1 DEF IInv, RunnerInv
<1>3. EntryIsOwn'
  BY DEF IInv, TypeOK, RunnerInv, EntryIsOwn, MonitorInv, StartIsUnderWay
<1>4. MonitorInv'
  BY DEF IInv, TypeOK, RunnerInv, EntryIsOwn, MonitorInv, StartIsUnderWay,
         StopIsUnderWay, UnregisterIsUnderWay
<1>5. ReachInv'
  BY DEF IInv, TypeOK, RunnerInv, EntryIsOwn, MonitorInv, StartIsUnderWay,
         StopIsUnderWay, ReachInv, NoOrphanProcess, NoOrphanChild, DisposeReaches
<1>6. StatusInv'
  BY DEF IInv, TypeOK, RunnerInv, EntryIsOwn, MonitorInv, StartIsUnderWay,
         StopIsUnderWay, UnregisterIsUnderWay, StatusInv, WatcherIsAlive,
         HostIsAttached, DetachedIsAccounted, Accounted, Terminal, Cancels
<1> QED
  BY <1>1, <1>2, <1>3, <1>4, <1>5, <1>6 DEF IInv

\* A watcher collects a status.
LEMMA EmitStep ==
  ASSUME IInv, NEW w \in Runners, Emit(w)
  PROVE  IInv'
<1> USE NoneAssumption DEF statusVars, Emit
<1>1. TypeOK'
  BY DEF IInv, TypeOK, States, Terminal, Procs, Cancels
<1>2. RunnerInv'
  BY DEF IInv, TypeOK, RunnerInv, MonitorInv, StartIsUnderWay
<1>3. EntryIsOwn'
  BY DEF IInv, TypeOK, RunnerInv, EntryIsOwn, MonitorInv, StartIsUnderWay
<1>4. MonitorInv'
  BY DEF IInv, TypeOK, RunnerInv, EntryIsOwn, MonitorInv, StartIsUnderWay,
         StopIsUnderWay, UnregisterIsUnderWay
<1>5. ReachInv'
  BY DEF IInv, TypeOK, RunnerInv, EntryIsOwn, MonitorInv, StartIsUnderWay,
         StopIsUnderWay, ReachInv, NoOrphanProcess, NoOrphanChild, DisposeReaches
<1>6. StatusInv'
  BY DEF IInv, TypeOK, RunnerInv, EntryIsOwn, MonitorInv, StartIsUnderWay,
         StopIsUnderWay, UnregisterIsUnderWay, StatusInv, WatcherIsAlive,
         HostIsAttached, DetachedIsAccounted, Accounted, Terminal, Cancels
<1> QED
  BY <1>1, <1>2, <1>3, <1>4, <1>5, <1>6 DEF IInv

\* A process ends and its output is used up.
LEMMA ProcessStep ==
  ASSUME IInv, NEW r \in Runners, Exit(r) \/ Kill(r) \/ Drain(r)
  PROVE  IInv'
<1> USE NoneAssumption DEF statusVars, Exit, Kill, Drain
<1>1. TypeOK'
  <2>1. proc' \in [Runners -> Procs]
    <3>1. PICK q \in {"exited", "drained"} : proc' = [proc EXCEPT ![r] = q]
      OBVIOUS
    <3> QED
      BY <3>1 DEF IInv, TypeOK, Procs
  <2>2. exits' \in [Runners -> Seq(Terminal)]
    <3>1. PICK s \in Seq(Terminal) : exits' = [exits EXCEPT ![r] = s] \/ exits' = exits
      <4>1. <<"idle", "idle">> \in Seq(Terminal) /\ \A s \in Terminal : <<s>> \in Seq(Terminal)
        BY DEF Terminal
      <4> QED
        BY <4>1
    <3>2. exits \in [Runners -> Seq(Terminal)]
      BY DEF IInv, TypeOK
    <3> QED
      BY <3>1, <3>2, UpdateType, Zenon
  <2> QED
    BY <2>1, <2>2 DEF IInv, TypeOK
<1>2. RunnerInv'
  BY DEF IInv, TypeOK, RunnerInv, MonitorInv, StartIsUnderWay
<1>3. EntryIsOwn'
  BY DEF IInv, TypeOK, RunnerInv, EntryIsOwn, MonitorInv, StartIsUnderWay
<1>4. MonitorInv'
  BY DEF IInv, TypeOK, RunnerInv, EntryIsOwn, MonitorInv, StartIsUnderWay,
         StopIsUnderWay, UnregisterIsUnderWay
<1>5. ReachInv'
  BY DEF IInv, TypeOK, RunnerInv, EntryIsOwn, MonitorInv, StartIsUnderWay,
         StopIsUnderWay, ReachInv, NoOrphanProcess, NoOrphanChild, DisposeReaches
<1>6. StatusInv'
  BY DEF IInv, TypeOK, RunnerInv, EntryIsOwn, MonitorInv, StartIsUnderWay,
         StopIsUnderWay, UnregisterIsUnderWay, StatusInv, WatcherIsAlive,
         HostIsAttached, DetachedIsAccounted, Accounted, Terminal, Cancels
<1> QED
  BY <1>1, <1>2, <1>3, <1>4, <1>5, <1>6 DEF IInv

\* A collector or a poller reports.
LEMMA CollectStep ==
  ASSUME IInv, NEW r \in Runners,
         CollectExit(r) \/ CollectLine(r) \/ Poll(r) \/ LateWrite(r)
  PROVE  IInv'
<1>0. UNCHANGED <<entries, kind, route, proc, attached, watcher, child, lost, mon,
                  disposed>>
  BY DEF CollectExit, CollectLine, Poll, LateWrite
<1>a. PICK s \in States : Note(r, s)
  <2>1. CASE CollectExit(r)
    <3>1. exits[r] \in Seq(Terminal)
      BY DEF IInv, TypeOK
    <3>2. Head(exits[r]) \in States
      BY <2>1, <3>1 DEF CollectExit, States, Terminal
    <3> QED
      BY <2>1, <3>2 DEF CollectExit
  <2>2. CASE CollectLine(r) \/ Poll(r) \/ LateWrite(r)
    <3>1. PICK x \in States \cup {"same"} : Note(r, IF x = "same" THEN status[r] ELSE x)
      BY <2>2 DEF CollectLine, Poll, LateWrite, IInv, TypeOK
    <3>2. (IF x = "same" THEN status[r] ELSE x) \in States
      BY <3>1 DEF IInv, TypeOK
    <3> QED
      BY <3>1, <3>2
  <2> QED
    BY <2>1, <2>2
<1>b. /\ status' \in [Runners -> States] /\ hidden' \in [Runners -> BOOLEAN]
      /\ seen' \in [Runners -> States \cup {"none"}]
      /\ \A q \in Runners : seen'[q] \in {seen[q], "none"}
  BY <1>a, NoteFacts DEF IInv
<1>1. TypeOK'
  <2>1. exits' \in [Runners -> Seq(Terminal)]
    <3>1. exits[r] \in Seq(Terminal)
      BY DEF IInv, TypeOK
    <3>2. (exits' = [exits EXCEPT ![r] = Tail(exits[r])] /\ exits[r] # <<>>) \/ exits' = exits
      BY DEF CollectExit, CollectLine, Poll, LateWrite
    <3>3. exits[r] # <<>> => Tail(exits[r]) \in Seq(Terminal)
      BY <3>1
    <3>4. exits \in [Runners -> Seq(Terminal)]
      BY DEF IInv, TypeOK
    <3> QED
      BY <3>2, <3>3, <3>4, UpdateType, Zenon
  <2>2. late' \in [Runners -> SUBSET (States \cup {"same"})]
    <3>1. late \in [Runners -> SUBSET (States \cup {"same"})]
      BY DEF IInv, TypeOK
    <3>2. \A x : late[r] \ {x} \in SUBSET (States \cup {"same"})
      BY <3>1
    <3>3. PICK v \in SUBSET (States \cup {"same"}) :
            late' = late \/ late' = [late EXCEPT ![r] = v]
      BY <3>1, <3>2 DEF CollectExit, CollectLine, Poll, LateWrite
    <3>4. [late EXCEPT ![r] = v] \in [Runners -> SUBSET (States \cup {"same"})]
      BY <3>1, <3>3, UpdateType, Zenon
    <3> QED
      BY <3>1, <3>3, <3>4
  <2> QED
    BY <1>0, <1>b, <2>1, <2>2 DEF IInv, TypeOK
<1>2. RunnerInv'
  BY <1>0, <1>b DEF IInv, TypeOK, RunnerInv
<1>3. EntryIsOwn'
  BY <1>0 DEF IInv, EntryIsOwn
<1>4. MonitorInv'
  BY <1>0, <1>b DEF IInv, TypeOK, MonitorInv, StartIsUnderWay, StopIsUnderWay,
                    UnregisterIsUnderWay
<1>5. ReachInv'
  BY <1>0 DEF IInv, ReachInv, NoOrphanProcess, NoOrphanChild, DisposeReaches
<1>6. StatusInv'
  <2>1. /\ WatcherIsAlive'
        /\ \A i \in Routes : entries[i] # None /\ Accounted(entries[i]) =>
             Accounted(entries[i])'
    BY <1>0, <1>a, NoteKeepsStatusInv
  <2>2. HostIsAttached' /\ DetachedIsAccounted'
    BY <1>0, <2>1 DEF IInv, StatusInv, HostIsAttached, DetachedIsAccounted, Accounted
  <2> QED
    BY <2>1, <2>2 DEF StatusInv
<1> QED
  BY <1>1, <1>2, <1>3, <1>4, <1>5, <1>6 DEF IInv

\* A child of vkturnd ends.
LEMMA ChildEndsStep ==
  ASSUME IInv, NEW i \in Routes, ChildEnds(i)
  PROVE  IInv'
<1> USE NoneAssumption DEF statusVars, ChildEnds
<1>1. TypeOK'
  BY DEF IInv, TypeOK, States, Terminal, Procs, Cancels
<1>2. RunnerInv'
  BY DEF IInv, TypeOK, RunnerInv, MonitorInv, StartIsUnderWay
<1>3. EntryIsOwn'
  BY DEF IInv, TypeOK, RunnerInv, EntryIsOwn, MonitorInv, StartIsUnderWay
<1>4. MonitorInv'
  BY DEF IInv, TypeOK, RunnerInv, EntryIsOwn, MonitorInv, StartIsUnderWay,
         StopIsUnderWay, UnregisterIsUnderWay
<1>5. ReachInv'
  BY DEF IInv, TypeOK, RunnerInv, EntryIsOwn, MonitorInv, StartIsUnderWay,
         StopIsUnderWay, ReachInv, NoOrphanProcess, NoOrphanChild, DisposeReaches
<1>6. StatusInv'
  BY DEF IInv, TypeOK, RunnerInv, EntryIsOwn, MonitorInv, StartIsUnderWay,
         StopIsUnderWay, UnregisterIsUnderWay, StatusInv, WatcherIsAlive,
         HostIsAttached, DetachedIsAccounted, Accounted, Terminal, Cancels
<1> QED
  BY <1>1, <1>2, <1>3, <1>4, <1>5, <1>6 DEF IInv

-----------------------------------------------------------------------------
\* The initial state satisfies the invariant.
LEMMA InitIInv == Init => IInv
<1> SUFFICES ASSUME Init PROVE IInv
  OBVIOUS
<1> USE NoneAssumption DEF statusVars, Init, Free
<1>1. TypeOK
  <2>1. exits \in [Runners -> Seq(Terminal)]
    OBVIOUS
  <2> QED
    BY <2>1 DEF TypeOK, States, Procs, Cancels
<1>2. RunnerInv /\ EntryIsOwn
  BY DEF RunnerInv, EntryIsOwn
<1>3. MonitorInv
  BY DEF MonitorInv, StartIsUnderWay, StopIsUnderWay, UnregisterIsUnderWay
<1>4. ReachInv
  BY DEF ReachInv, NoOrphanProcess, NoOrphanChild, DisposeReaches
<1>5. StatusInv
  BY DEF StatusInv, WatcherIsAlive, HostIsAttached, DetachedIsAccounted
<1> QED
  BY <1>1, <1>2, <1>3, <1>4, <1>5 DEF IInv

\* Every step preserves it.
LEMMA NextIInv == IInv /\ [Next]_vars => IInv'
<1> SUFFICES ASSUME IInv, [Next]_vars PROVE IInv'
  OBVIOUS
<1>1. CASE UNCHANGED vars
  BY <1>1 DEF vars, statusVars, Accounted, IInv, TypeOK, RunnerInv, EntryIsOwn, MonitorInv, StartIsUnderWay,
     StopIsUnderWay, UnregisterIsUnderWay, ReachInv, NoOrphanProcess, NoOrphanChild,
     DisposeReaches, StatusInv, WatcherIsAlive, HostIsAttached, DetachedIsAccounted
<1>2. ASSUME NEW i \in Routes, NEW r \in Runners, Start(i, r) PROVE IInv'
  BY <1>2, StartHostFailsStep, SpawnStep, StartDaemonStep DEF Start
<1>3. ASSUME (\E i \in Routes : Stop(i)) \/ StopAll \/ Dispose PROVE IInv'
  BY <1>3, StopStep
<1>4. ASSUME NEW r \in Runners, Machinery(r) PROVE IInv'
  BY <1>4, SpawnedStep, StopBeginStep, StopEndStep, UnregisterStep, EmitStep,
     CollectStep DEF Machinery
<1>5. ASSUME NEW r \in Runners,
             Exit(r) \/ Kill(r) \/ CollectLine(r) \/ Drain(r) \/ Poll(r)
             \/ LateWrite(r)
      PROVE  IInv'
  BY <1>5, ProcessStep, CollectStep
<1> QED
  BY <1>1, <1>2, <1>3, <1>4, <1>5, ReleaseStep, ChildEndsStep DEF Next

\* It holds in every reachable state.
LEMMA Invariance == Spec => []IInv
BY InitIInv, NextIInv, PTL DEF Spec

-----------------------------------------------------------------------------
\* The variables of the supervisor, its runners and its watchers keep their
\* types, for any routes and runners (RouteSupervisor and the three runners).
THEOREM TypeCorrect == Spec => []TypeOK
<1>1. IInv => TypeOK
  BY DEF IInv
<1> QED
  BY <1>1, Invariance, PTL

\* A process that nobody told to end is always in reach of a stop, through every
\* interleaving of starts, stops, exits and unregistrations by watchers, whether
\* of their own runner or of its successor (RouteSupervisor.unregister, dispose).
THEOREM ProcessesAreInReach == Spec => []NoOrphanProcess
<1>1. IInv => NoOrphanProcess
  BY DEF IInv, ReachInv
<1> QED
  BY <1>1, Invariance, PTL

\* A child of vkturnd is left behind only by a down request that got lost
\* (DaemonRouteRunner.start and stop).
THEOREM ChildrenAreInReach == Spec => []NoOrphanChild
<1>1. IInv => NoOrphanChild
  BY DEF IInv, ReachInv
<1> QED
  BY <1>1, Invariance, PTL

\* The watcher of a registered runner never misses a terminal status that stays,
\* and a registered runner without collectors is done, was seen done, or had its
\* end overwritten by a callback that outlived its cancellation
\* (RouteSupervisor.watch on a conflating StateFlow, DaemonRouteRunner.stop).
THEOREM TerminalsAreNotMissed == Spec => []NoMissedTerminal
<1>1. IInv => NoMissedTerminal
  <2> SUFFICES ASSUME IInv, NEW r \in Registered
               PROVE  /\ status[r] \in Terminal => Delivered(r)
                      /\ ~attached[r] /\ r \notin mon.todo /\ mon.op # "dispose" =>
                           Accounted(r)
    BY DEF NoMissedTerminal, Accounted, Delivered
  <2>1. PICK i \in Routes : entries[i] = r /\ entries[i] # None
    BY DEF Registered
  <2>2. /\ watcher[r] \in {"collect", "unregister"}
        /\ seen[r] \in Terminal => watcher[r] = "unregister"
    BY <2>1 DEF IInv, StatusInv, WatcherIsAlive
  <2>3. ~attached[r] /\ r \notin mon.todo /\ mon.op # "dispose" => Accounted(r)
    BY <2>1 DEF IInv, StatusInv, DetachedIsAccounted
  <2> QED
    BY <2>2, <2>3 DEF Delivered
<1> QED
  BY <1>1, Invariance, PTL

-----------------------------------------------------------------------------
(* The end of a process.                                                   *)

Dead == {"failed", "exited", "drained"}

\* A runner in the map, or about to be put there.
Held(r) == r \in Registered \/ (mon.op = "start" /\ mon.cur = r)

\* ExitIsReported, also for a runner that is just being started.
EndIsAccounted ==
  \A r \in Runners : proc[r] \in Dead /\ Held(r) => exits[r] # <<>> \/ Accounted(r)

\* A write of a status leaves the runners that are held accounted for.
LEMMA NoteAccounts ==
  ASSUME IInv, NEW r \in Runners, NEW s \in States, Note(r, s),
         NEW q \in Runners, Held(q), Accounted(q)
  PROVE  status'[q] \in Terminal \/ watcher[q] = "unregister" \/ hidden'[q]
<1>1. TypeOK
  BY DEF IInv
<1>2. CASE q # r
  BY <1>1, <1>2, NoteFacts DEF Accounted
<1>3. CASE q = r /\ s \in Terminal
  BY <1>1, <1>3, NoteFacts
<1>4. CASE q = r /\ s \notin Terminal
  <2>1. hidden'[r] = (hidden[r] \/ Uncollected(r))
    BY <1>1, <1>4, NoteFacts
  <2>2. status[r] \in Terminal => watcher[r] = "unregister" \/ Uncollected(r)
    <3>1. CASE r \in Registered
      <4>1. PICK i \in Routes : entries[i] = r /\ entries[i] # None
        BY <3>1 DEF Registered
      <4> QED
        BY <4>1 DEF IInv, EntryIsOwn, StatusInv, WatcherIsAlive, Uncollected
    <3>2. CASE mon.op = "start" /\ mon.cur = r
      BY <3>2 DEF IInv, MonitorInv, StartIsUnderWay, Uncollected
    <3> QED
      BY <1>4, <3>1, <3>2 DEF Held
  <2> QED
    BY <1>4, <2>1, <2>2 DEF Accounted
<1> QED
  BY <1>2, <1>3, <1>4

\* A start, with or without a process.
LEMMA EndOnStart ==
  ASSUME IInv, EndIsAccounted, NEW i \in Routes, NEW r \in Runners, Start(i, r)
  PROVE  EndIsAccounted'
<1> USE NoneAssumption
<1>0. /\ mon = Free /\ entries[i] = None /\ kind[r] = "new"
      /\ entries \in [Routes -> Runners \cup {None}]
      /\ proc \in [Runners -> Procs] /\ status \in [Runners -> States]
      /\ watcher \in [Runners -> {"none", "collect", "unregister", "wait"}]
  BY DEF IInv, TypeOK, Start, StartHostFails, Spawn, StartDaemon, MayStart, IsNext
<1>1. proc[r] = "none" /\ r \notin Registered
  BY <1>0 DEF IInv, RunnerInv, EntryIsOwn, Registered
<1>2. UNCHANGED <<exits, hidden>>
      /\ \A q \in Runners : q # r =>
           proc'[q] = proc[q] /\ status'[q] = status[q] /\ watcher'[q] = watcher[q]
  BY <1>0 DEF Start, StartHostFails, Spawn, StartDaemon, Register
<1>3. ASSUME NEW q \in Runners, q # r, Held(q)' PROVE Held(q)
  <2>1. entries' = entries \/ entries' = [entries EXCEPT ![i] = r]
    BY DEF Start, StartHostFails, Spawn, StartDaemon, Register
  <2>2. mon' = mon \/ mon'.cur = r
    BY DEF Start, StartHostFails, Spawn, StartDaemon, Op
  <2> QED
    BY <1>0, <1>3, <2>1, <2>2 DEF Held, Registered, Free
<1>4. proc'[r] \in Dead => status'[r] = "error"
  BY <1>0, <1>1 DEF Start, StartHostFails, Spawn, StartDaemon, Dead
<1> QED
  BY <1>2, <1>3, <1>4 DEF EndIsAccounted, Accounted, Terminal

\* The steps of the monitor and of the watchers, which write no status: those
\* that lose their mark are not in the map.
LEMMA EndOnControl ==
  ASSUME IInv, EndIsAccounted,
         (\E i \in Routes : Stop(i) \/ ChildEnds(i)) \/ StopAll \/ Dispose \/ Release
         \/ \E w \in Runners : Unregister(w) \/ Emit(w)
  PROVE  EndIsAccounted'
<1> USE NoneAssumption
<1>0. UNCHANGED <<proc, exits, status, hidden>>
  BY DEF Stop, ChildEnds, StopAll, Dispose, Release, Unregister, Emit, statusVars
<1> SUFFICES ASSUME NEW q \in Runners, Held(q)'
             PROVE  Held(q) /\ (watcher[q] = "unregister" =>
                                  status'[q] \in Terminal \/ watcher'[q] = "unregister")
  BY <1>0 DEF EndIsAccounted, Accounted
<1>1. CASE (\E i \in Routes : Stop(i) \/ ChildEnds(i)) \/ StopAll \/ Dispose
  BY <1>1 DEF Stop, ChildEnds, StopAll, Dispose, Op, Held, Registered, statusVars
<1>2. CASE Release
  BY <1>2 DEF Release, Free, Held, Registered, IInv, TypeOK, MonitorInv,
              UnregisterIsUnderWay
<1>3. ASSUME NEW w \in Runners, Unregister(w)
      PROVE  Held(q) /\ (watcher[q] = "unregister" => watcher'[q] = "unregister")
  <2>1. /\ route[w] \in Routes /\ mon = Free /\ mon'.op # "start"
        /\ entries' = entries \/ entries' = [entries EXCEPT ![route[w]] = None]
        /\ entries'[route[w]] = None
        /\ \A p \in Runners : p # w => watcher'[p] = watcher[p]
    BY <1>3 DEF Unregister, Op, Free, IInv, TypeOK, RunnerInv
  <2>2. q \in Registered' /\ q \in Registered
    BY <2>1 DEF Held, Registered, IInv, TypeOK
  <2>3. q # w
    <3>1. PICK j \in Routes : entries'[j] = q /\ q # None
      BY <2>2 DEF Registered
    <3>2. entries[j] = q
      BY <2>1, <3>1 DEF IInv, TypeOK
    <3>3. route[q] = j
      BY <3>1, <3>2 DEF IInv, EntryIsOwn
    <3> QED
      BY <2>1, <3>1, <3>3
  <2> QED
    BY <2>1, <2>2, <2>3 DEF Held
<1>4. ASSUME NEW w \in Runners, Emit(w)
      PROVE  Held(q) /\ (watcher[q] = "unregister" => watcher'[q] = "unregister")
  BY <1>4 DEF Emit, Held, Registered, IInv, TypeOK
<1> QED
  BY <1>1, <1>2, <1>3, <1>4

\* The steps that may write a status.
LEMMA EndOnWrite ==
  ASSUME IInv, EndIsAccounted, NEW r \in Runners,
         Spawned(r) \/ StopBegin(r) \/ StopEnd(r) \/ CollectExit(r)
         \/ CollectLine(r) \/ Poll(r) \/ LateWrite(r)
  PROVE  EndIsAccounted'
<1> USE NoneAssumption
<1>0. /\ proc \in [Runners -> Procs] /\ exits \in [Runners -> Seq(Terminal)]
      /\ watcher \in [Runners -> {"none", "collect", "unregister", "wait"}]
      /\ entries \in [Routes -> Runners \cup {None}]
  BY DEF IInv, TypeOK
<1>1. ASSUME NEW q \in Runners, Held(q)', proc'[q] \in Dead
      PROVE  Held(q) /\ proc[q] \in Dead
  <2>1. proc[q] \in Dead
    BY <1>0, <1>1 DEF Spawned, StopBegin, StopEnd, CollectExit, CollectLine, Poll,
                      LateWrite, Dead
  <2>2. CASE Spawned(r)
    BY <1>0, <1>1, <2>1, <2>2 DEF Spawned, Register, Free, Held, Registered
  <2>3. CASE ~Spawned(r)
    <3>1. entries' = entries
      BY <2>3 DEF StopBegin, StopEnd, CollectExit, CollectLine, Poll, LateWrite
    <3>2. mon' = mon \/ (mon'.op = mon.op /\ mon.op # "start")
      <4>1. CASE StopBegin(r) \/ StopEnd(r)
        BY <4>1 DEF StopBegin, StopEnd, IInv, TypeOK, MonitorInv, StopIsUnderWay
      <4> QED
        BY <2>3, <4>1 DEF CollectExit, CollectLine, Poll, LateWrite
    <3> QED
      BY <1>1, <2>1, <3>1, <3>2 DEF Held, Registered
  <2> QED
    BY <2>2, <2>3
<1>2. \A q \in Runners : Held(q) /\ watcher[q] = "unregister" =>
                           watcher'[q] = "unregister"
  BY <1>0 DEF Spawned, Register, StopBegin, StopEnd, CollectExit, CollectLine,
              Poll, LateWrite, IInv, MonitorInv, StartIsUnderWay
<1>3. CASE UNCHANGED statusVars /\ exits' = exits
  BY <1>1, <1>2, <1>3 DEF EndIsAccounted, Accounted, statusVars
<1>4. CASE CollectExit(r)
  <2>1. Head(exits[r]) \in Terminal /\ Head(exits[r]) \in States
    BY <1>0, <1>4 DEF CollectExit, Terminal, States
  <2>2. status'[r] \in Terminal
    BY <1>4, <2>1, NoteFacts DEF CollectExit, IInv
  <2>3. \A q \in Runners : q # r => exits'[q] = exits[q]
    BY <1>0, <1>4 DEF CollectExit
  <2>4. \A q \in Runners : Held(q) /\ Accounted(q) => Accounted(q)'
    BY <1>2, <1>4, <2>1, NoteAccounts DEF CollectExit, Accounted
  <2> QED
    BY <1>1, <2>2, <2>3, <2>4 DEF EndIsAccounted, Accounted
<1>5. CASE ~CollectExit(r) /\ ~UNCHANGED statusVars
  <2>1. exits' = exits
    BY <1>5 DEF Spawned, StopBegin, StopEnd, CollectLine, Poll, LateWrite
  <2>2. PICK s \in States : Note(r, s)
    <3>1. CASE Spawned(r) \/ StopBegin(r) \/ StopEnd(r)
      BY <1>5, <3>1 DEF Spawned, StopBegin, StopEnd, States
    <3>2. CASE CollectLine(r) \/ Poll(r) \/ LateWrite(r)
      <4>1. PICK x \in States \cup {"same"} :
              Note(r, IF x = "same" THEN status[r] ELSE x)
        BY <3>2 DEF CollectLine, Poll, LateWrite, IInv, TypeOK
      <4>2. (IF x = "same" THEN status[r] ELSE x) \in States
        BY <4>1 DEF IInv, TypeOK
      <4> QED
        BY <4>1, <4>2
    <3> QED
      BY <1>5, <3>1, <3>2
  <2>3. \A q \in Runners : Held(q) /\ Accounted(q) => Accounted(q)'
    BY <1>2, <2>2, NoteAccounts DEF Accounted
  <2> QED
    BY <1>1, <2>1, <2>3 DEF EndIsAccounted
<1>6. CASE ~CollectExit(r) /\ UNCHANGED statusVars
  BY <1>3, <1>6 DEF Spawned, StopBegin, StopEnd, CollectLine, Poll, LateWrite
<1> QED
  BY <1>4, <1>5, <1>6

\* A process ends: its exit waits to be collected.
LEMMA EndOnExit ==
  ASSUME IInv, EndIsAccounted, NEW r \in Runners, Exit(r) \/ Kill(r) \/ Drain(r)
  PROVE  EndIsAccounted'
<1>0. proc \in [Runners -> Procs] /\ exits \in [Runners -> Seq(Terminal)]
  BY DEF IInv, TypeOK
<1>1. UNCHANGED <<entries, mon, status, watcher, hidden>>
  BY DEF Exit, Kill, Drain, statusVars
<1>2. \A q \in Runners : q # r => proc'[q] = proc[q] /\ exits'[q] = exits[q]
  BY <1>0 DEF Exit, Kill, Drain
<1>3. exits'[r] # <<>> \/ (exits'[r] = exits[r] /\ proc[r] \in Dead)
  <2>1. CASE Exit(r)
    <3>1. PICK s \in Terminal : exits' = [exits EXCEPT ![r] = <<s>>]
      BY <2>1 DEF Exit
    <3>2. exits'[r] = <<s>>
      BY <1>0, <3>1
    <3> QED
      BY <3>2
  <2>2. CASE Kill(r)
    <3>1. exits'[r] = <<"idle", "idle">>
      BY <1>0, <2>2 DEF Kill
    <3> QED
      BY <3>1
  <2>3. CASE Drain(r)
    BY <2>3 DEF Drain, Dead
  <2> QED
    BY <2>1, <2>2, <2>3
<1> QED
  BY <1>1, <1>2, <1>3 DEF EndIsAccounted, Held, Registered, Accounted

\* The end of a process is never forgotten: an Exit waits, or a terminal status
\* is delivered, or one was overwritten before the watcher saw it (the collectors
\* of VkTurnRunner and SingBoxRunner, RouteSupervisor.watch).
THEOREM ExitsAreReported == Spec => []ExitIsReported
<1>1. Init => EndIsAccounted
  BY DEF Init, EndIsAccounted, Dead
<1>2. IInv /\ EndIsAccounted /\ [Next]_vars => EndIsAccounted'
  <2> SUFFICES ASSUME IInv, EndIsAccounted, [Next]_vars PROVE EndIsAccounted'
    OBVIOUS
  <2>1. CASE UNCHANGED vars
    BY <2>1 DEF vars, statusVars, EndIsAccounted, Held, Registered, Accounted
  <2> QED
    BY <2>1, EndOnStart, EndOnControl, EndOnWrite, EndOnExit DEF Next, Machinery
<1>3. IInv /\ EndIsAccounted => ExitIsReported
  <2> SUFFICES ASSUME IInv, EndIsAccounted, NEW r \in Registered, proc[r] \in Dead
               PROVE  exits[r] # <<>> \/ Delivered(r) \/ hidden[r]
    BY DEF ExitIsReported, Dead
  <2>1. PICK i \in Routes : entries[i] = r /\ entries[i] # None
    BY DEF Registered
  <2>2. /\ r \in Runners /\ watcher[r] \in {"collect", "unregister"}
        /\ seen[r] \in Terminal => watcher[r] = "unregister"
    BY <2>1 DEF IInv, TypeOK, StatusInv, WatcherIsAlive
  <2>3. exits[r] # <<>> \/ Accounted(r)
    BY <2>2 DEF EndIsAccounted, Held
  <2> QED
    BY <2>2, <2>3 DEF Accounted, Delivered
<1> QED
  BY <1>1, <1>2, <1>3, Invariance, PTL DEF Spec
=============================================================================
