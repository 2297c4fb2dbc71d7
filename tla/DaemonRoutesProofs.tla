-------------------------- MODULE DaemonRoutesProofs --------------------------
(***************************************************************************)
(* Safety of DaemonRoutes for any number of route ids, of control          *)
(* connections and of buffered lines.                                      *)
(*                                                                         *)
(* RunningChildIsMapped rests on what Up knows after stopLocked: as long   *)
(* as it has the lock, the route it is about to replace has no running     *)
(* child (StartIsClear).  That needs the mutex (LockHolder), which at the  *)
(* end of main is handed on only because Serve has waited for every        *)
(* handler (QuietAtTheEnd).  SubscribedChannelIsOpen needs to know that a  *)
(* channel is subscribed to one route, the one its handler streams         *)
(* (SubscriberStreams), and StatusIsHonest that a child runs only while    *)
(* its watch goroutine waits (RunningIsWatched) and that this goroutine    *)
(* never ends with the state at "running" (WatchTells).                    *)
(***************************************************************************)
EXTENDS DaemonRoutes, TLAPS

Critical  == {"up", "start", "down"}
Following == {"subscribe", "stream", "cancel"}

LockHolder ==
    \A h \in Handlers : handler[h] \in Critical => mu = h /\ target[h] \in Ids

QuietAtTheEnd ==
    main \in {"stopall", "exit"} => \A h \in Handlers : handler[h] \in {"none", "gone"}

StartIsClear ==
    \A h \in Handlers : handler[h] = "start" =>
        \A r \in Objs : routes[target[h]] = r => child[r] # "running"

FollowerHasRoute ==
    \A h \in Handlers : handler[h] \in Following => target[h] \in Objs

SubscriberStreams ==
    \A r \in Objs : \A h \in subs[r] : /\ handler[h] \in {"stream", "cancel"}
                                       /\ target[h] = r

RunningIsWatched ==
    \A r \in Objs : child[r] = "running" => state[r] = "running" /\ watch[r] = "wait"

WatchTells == \A r \in Objs : watch[r] = "done" => state[r] # "running"

\* What is said of the handlers and their locks.
HandlerInv == LockHolder /\ QuietAtTheEnd /\ FollowerHasRoute

\* What is said of the log channels.
LogInv == SubscriberStreams /\ SubscribedChannelIsOpen

\* What is said of the routes and their children.
RouteInv == StartIsClear /\ RunningIsWatched /\ WatchTells /\ RunningChildIsMapped

IInv == TypeOK /\ HandlerInv /\ LogInv /\ RouteInv

-----------------------------------------------------------------------------
\* The initial state satisfies the invariant.
LEMMA InitIInv == Init => IInv
<1> SUFFICES ASSUME Init PROVE IInv
  OBVIOUS
<1> USE DEF Init
<1>1. TypeOK
  <2>1. 0 \in 0 .. MaxLines
    BY MaxLinesIsNat
  <2>2. lines \in [Handlers -> 0 .. MaxLines]
    BY <2>1
  <2>3. target \in [Handlers -> Objs \cup Ids \cup {None}]
    OBVIOUS
  <2>4. /\ routes \in [Ids -> Objs \cup {None}]
        /\ ident \in [Objs -> Ids \cup {None}]
        /\ subs \in [Objs -> SUBSET Handlers]
    OBVIOUS
  <2> QED
    BY <2>2, <2>3, <2>4 DEF TypeOK, Points
<1>2. HandlerInv
  BY DEF HandlerInv, LockHolder, QuietAtTheEnd, FollowerHasRoute, Critical, Following
<1>3. LogInv
  BY DEF LogInv, SubscriberStreams, SubscribedChannelIsOpen
<1>4. RouteInv
  BY DEF RouteInv, StartIsClear, RunningIsWatched, WatchTells, RunningChildIsMapped
<1> QED
  BY <1>1, <1>2, <1>3, <1>4 DEF IInv

\* A step that keeps the routes and lets no handler enter "start" keeps
\* RouteInv, unless main exits.
LEMMA RoutesUntouched ==
    ASSUME RouteInv, UNCHANGED routeVars, main' = "exit" => main = "exit",
           \A h \in Handlers : handler'[h] = "start" =>
                handler[h] = "start" /\ target'[h] = target[h]
    PROVE  RouteInv'
BY DEF RouteInv, routeVars, StartIsClear, RunningIsWatched, WatchTells,
       RunningChildIsMapped

\* A step that keeps the channels and the subscriptions, and the handlers that
\* stream, keeps LogInv.
LEMMA LogsUntouched ==
    ASSUME TypeOK, LogInv, subs' = subs, chan' = chan,
           \A h \in Handlers : handler[h] \in {"stream", "cancel"} =>
                handler'[h] \in {"stream", "cancel"} /\ target'[h] = target[h]
    PROVE  LogInv'
BY DEF TypeOK, LogInv, SubscriberStreams, SubscribedChannelIsOpen

-----------------------------------------------------------------------------
(* Steps of the handlers that leave the routes alone.                      *)

\* Connections come and go.
LEMMA ConnectionStep ==
    ASSUME IInv, NEW h \in Handlers,
           Accept(h) \/ ClientHangsUp(h) \/ HandleEOF(h) \/ HandleCancelled(h)
    PROVE  IInv'
<1> USE DEF Accept, ClientHangsUp, HandleEOF, HandleCancelled, Goto
<1>1. TypeOK'
  BY DEF IInv, TypeOK, Points, routeVars, logVars
<1>2. HandlerInv'
  BY DEF IInv, TypeOK, HandlerInv, LockHolder, QuietAtTheEnd, FollowerHasRoute,
         Critical, Following
<1>3. LogInv'
  BY LogsUntouched DEF IInv, TypeOK, logVars
<1>4. RouteInv'
  BY RoutesUntouched DEF IInv, TypeOK
<1> QED
  BY <1>1, <1>2, <1>3, <1>4 DEF IInv

\* Up or Down takes the free lock, or Subscribe looks its route up.
LEMMA RequestStep ==
    ASSUME IInv, main # "exit", NEW h \in Handlers, NEW i \in Ids,
           Up(h, i) \/ Down(h, i) \/ Logs(h, i)
    PROVE  IInv'
<1> USE DEF Up, Down, Lock, Logs, Request, Goto
<1>1. TypeOK'
  BY DEF IInv, TypeOK, Points, routeVars, logVars
<1>2. HandlerInv'
  BY NoneIsFresh DEF IInv, TypeOK, HandlerInv, LockHolder, QuietAtTheEnd,
         FollowerHasRoute, Critical, Following, routeVars
<1>3. LogInv'
  BY LogsUntouched DEF IInv, TypeOK, logVars
<1>4. RouteInv'
  BY RoutesUntouched DEF IInv, TypeOK
<1> QED
  BY <1>1, <1>2, <1>3, <1>4 DEF IInv

\* Up gives up and releases the lock.
LEMMA UpFailStep ==
    ASSUME IInv, NEW h \in Handlers, UpFail(h)
    PROVE  IInv'
<1> USE DEF UpFail, Goto
<1>1. TypeOK'
  BY DEF IInv, TypeOK, Points, routeVars, logVars
<1>2. HandlerInv'
  BY DEF IInv, TypeOK, HandlerInv, LockHolder, QuietAtTheEnd, FollowerHasRoute,
         Critical, Following
<1>3. LogInv'
  BY LogsUntouched DEF IInv, TypeOK, logVars
<1>4. RouteInv'
  BY RoutesUntouched DEF IInv, TypeOK
<1> QED
  BY <1>1, <1>2, <1>3, <1>4 DEF IInv

\* A log stream subscribes, writes lines, ends and cancels.
LEMMA StreamStep ==
    ASSUME IInv, NEW h \in Handlers,
           Subscribe(h) \/ StreamLine(h) \/ StreamEnds(h) \/ Cancel(h)
    PROVE  IInv'
<1> USE DEF Subscribe, StreamLine, StreamEnds, Cancel, Goto
<1>0. target[h] \in Objs
  BY DEF IInv, HandlerInv, FollowerHasRoute, Following
<1>1. TypeOK'
  <2>1. lines' \in [Handlers -> 0 .. MaxLines]
    BY MaxLinesIsNat DEF IInv, TypeOK, logVars
  <2> QED
    BY <1>0, <2>1 DEF IInv, TypeOK, Points, routeVars, logVars
<1>2. HandlerInv'
  BY DEF IInv, TypeOK, HandlerInv, LockHolder, QuietAtTheEnd, FollowerHasRoute,
         Critical, Following
<1>3. LogInv'
  <2>1. CASE Subscribe(h)
    BY <1>0, <2>1 DEF IInv, TypeOK, LogInv, SubscriberStreams, SubscribedChannelIsOpen
  <2>2. CASE StreamLine(h) \/ StreamEnds(h)
    BY <2>2, LogsUntouched DEF IInv, TypeOK, logVars
  <2>3. CASE Cancel(h)
    BY <1>0, <2>3 DEF IInv, TypeOK, LogInv, SubscriberStreams, SubscribedChannelIsOpen
  <2> QED
    BY <2>1, <2>2, <2>3
<1>4. RouteInv'
  BY RoutesUntouched DEF IInv, TypeOK
<1> QED
  BY <1>1, <1>2, <1>3, <1>4 DEF IInv

-----------------------------------------------------------------------------
(* Steps that change the routes.                                           *)

\* Up has stopped the previous runner of the id.
LEMMA UpStopStep ==
    ASSUME IInv, NEW h \in Handlers, UpStop(h)
    PROVE  IInv'
<1> USE DEF UpStop, Stop, Stopped, Goto
<1>0. target[h] \in Ids /\ mu = h
  BY DEF IInv, HandlerInv, LockHolder, Critical
<1>1. TypeOK'
  BY <1>0 DEF IInv, TypeOK, Points, logVars
<1>2. HandlerInv'
  BY <1>0 DEF IInv, TypeOK, HandlerInv, LockHolder, QuietAtTheEnd, FollowerHasRoute,
         Critical, Following
<1>3. LogInv'
  BY LogsUntouched DEF IInv, TypeOK, logVars
<1>4. RouteInv'
  <2>1. StartIsClear'
    BY <1>0, NoneIsFresh DEF IInv, TypeOK, HandlerInv, LockHolder, RouteInv,
           StartIsClear, Critical
  <2>2. RunningIsWatched' /\ WatchTells' /\ RunningChildIsMapped'
    BY <1>0 DEF IInv, TypeOK, RouteInv, RunningIsWatched, WatchTells,
           RunningChildIsMapped
  <2> QED
    BY <2>1, <2>2 DEF RouteInv
<1> QED
  BY <1>1, <1>2, <1>3, <1>4 DEF IInv

\* Up has started a child and put its route into the map.
LEMMA UpStartStep ==
    ASSUME IInv, main # "exit", NEW h \in Handlers, UpStart(h)
    PROVE  IInv'
<1> USE DEF UpStart, Goto
<1>0. target[h] \in Ids /\ mu = h
  BY DEF IInv, HandlerInv, LockHolder, Critical
<1>1. TypeOK'
  BY <1>0 DEF IInv, TypeOK, Points, logVars
<1>2. HandlerInv'
  BY <1>0 DEF IInv, TypeOK, HandlerInv, LockHolder, QuietAtTheEnd, FollowerHasRoute,
         Critical, Following
<1>3. LogInv'
  BY LogsUntouched DEF IInv, TypeOK, logVars
<1>4. RouteInv'
  <2>1. PICK r \in Objs :
          /\ Unreferenced(r)
          /\ routes' = [routes EXCEPT ![target[h]] = r]
          /\ ident' = [ident EXCEPT ![r] = target[h]]
          /\ state' = [state EXCEPT ![r] = "running"]
          /\ child' = [child EXCEPT ![r] = "running"]
          /\ watch' = [watch EXCEPT ![r] = "wait"]
    OBVIOUS
  <2>2. StartIsClear'
    BY <1>0 DEF IInv, TypeOK, HandlerInv, LockHolder, StartIsClear, Critical
  <2>3. RunningIsWatched' /\ WatchTells'
    BY <2>1 DEF IInv, TypeOK, RouteInv, RunningIsWatched, WatchTells
  <2>4. RunningChildIsMapped'
    <3>1. ASSUME NEW q \in Objs, child'[q] = "running", q # r
          PROVE  ident[q] # target[h]
      <4>1. child[q] = "running"
        BY <2>1, <3>1 DEF IInv, TypeOK
      <4>2. routes[ident[q]] = q
        BY <4>1 DEF IInv, RouteInv, RunningChildIsMapped
      <4> QED
        BY <4>1, <4>2 DEF IInv, RouteInv, StartIsClear
    <3>2. \A q \in Objs : child'[q] = "running" /\ q # r => child[q] = "running"
      BY <2>1 DEF IInv, TypeOK
    <3> QED
      BY <1>0, <2>1, <3>1, <3>2, NoneIsFresh
         DEF IInv, TypeOK, RouteInv, RunningChildIsMapped
  <2> QED
    BY <2>2, <2>3, <2>4 DEF RouteInv
<1> QED
  BY <1>1, <1>2, <1>3, <1>4 DEF IInv

\* Down has stopped the child and taken its route out of the map.
LEMMA DownStopStep ==
    ASSUME IInv, NEW h \in Handlers, DownStop(h)
    PROVE  IInv'
<1> USE DEF DownStop, Stop, Stopped, Goto
<1>0. target[h] \in Ids /\ mu = h
  BY DEF IInv, HandlerInv, LockHolder, Critical
<1>1. TypeOK'
  BY <1>0 DEF IInv, TypeOK, Points, logVars
<1>2. HandlerInv'
  BY <1>0 DEF IInv, TypeOK, HandlerInv, LockHolder, QuietAtTheEnd, FollowerHasRoute,
         Critical, Following
<1>3. LogInv'
  BY LogsUntouched DEF IInv, TypeOK, logVars
<1>4. RouteInv'
  <2>1. StartIsClear'
    BY <1>0 DEF IInv, TypeOK, HandlerInv, LockHolder, StartIsClear, Critical
  <2>2. RunningIsWatched' /\ WatchTells' /\ RunningChildIsMapped'
    BY <1>0, NoneIsFresh DEF IInv, TypeOK, RouteInv, RunningIsWatched, WatchTells,
           RunningChildIsMapped
  <2> QED
    BY <2>1, <2>2 DEF RouteInv
<1> QED
  BY <1>1, <1>2, <1>3, <1>4 DEF IInv

-----------------------------------------------------------------------------
(* Steps of a child, its goroutines and main.                              *)

\* A child exits, its watch goroutine collects it, or its output is pumped.
LEMMA ChildStep ==
    ASSUME IInv, NEW r \in Objs, ChildExits(r) \/ WatchWait(r) \/ Pump(r)
    PROVE  IInv'
<1> USE DEF ChildExits, WatchWait, Pump
<1>1. TypeOK'
  <2>1. lines' \in [Handlers -> 0 .. MaxLines]
    BY MaxLinesIsNat DEF IInv, TypeOK, logVars
  <2> QED
    BY <2>1 DEF IInv, TypeOK, Points, routeVars, logVars
<1>2. HandlerInv'
  BY DEF IInv, HandlerInv, LockHolder, QuietAtTheEnd, FollowerHasRoute
<1>3. LogInv'
  BY LogsUntouched DEF IInv, logVars
<1>4. RouteInv'
  BY DEF IInv, TypeOK, RouteInv, routeVars, StartIsClear, RunningIsWatched, WatchTells,
         RunningChildIsMapped
<1> QED
  BY <1>1, <1>2, <1>3, <1>4 DEF IInv

\* The watch goroutine records the end and closes its subscribers' channels.
LEMMA WatchEndStep ==
    ASSUME IInv, NEW r \in Objs, WatchEnd(r)
    PROVE  IInv'
<1> USE DEF WatchEnd
<1>1. TypeOK'
  BY DEF IInv, TypeOK, Points
<1>2. HandlerInv'
  BY DEF IInv, HandlerInv, LockHolder, QuietAtTheEnd, FollowerHasRoute
<1>3. LogInv'
  BY DEF IInv, TypeOK, LogInv, SubscriberStreams, SubscribedChannelIsOpen
<1>4. RouteInv'
  BY DEF IInv, TypeOK, RouteInv, StartIsClear, RunningIsWatched, WatchTells,
         RunningChildIsMapped
<1> QED
  BY <1>1, <1>2, <1>3, <1>4 DEF IInv

\* The signal, the end of Serve, StopAll and the end of main.
LEMMA MainStepKeeps ==
    ASSUME IInv, main # "exit", Signal \/ MainStep
    PROVE  IInv'
<1> USE DEF Signal, MainStep, ServeWaits, ServeReturns, StopAllOne, Exit, Stop, Stopped
<1>1. TypeOK'
  BY DEF IInv, TypeOK, Points, routeVars, logVars
<1>2. HandlerInv'
  BY DEF IInv, TypeOK, HandlerInv, LockHolder, QuietAtTheEnd, FollowerHasRoute,
         Critical, Following
<1>3. LogInv'
  BY LogsUntouched DEF IInv, logVars
<1>4. RouteInv'
  <2>1. CASE Signal \/ ServeWaits \/ ServeReturns
    BY <2>1, RoutesUntouched DEF IInv
  <2>2. CASE StopAllOne
    <3>1. StartIsClear'
      BY <2>2 DEF IInv, HandlerInv, QuietAtTheEnd, StartIsClear
    <3>2. RunningIsWatched' /\ WatchTells' /\ RunningChildIsMapped'
      BY <2>2, NoneIsFresh DEF IInv, TypeOK, RouteInv, RunningIsWatched, WatchTells,
             RunningChildIsMapped
    <3> QED
      BY <3>1, <3>2 DEF RouteInv
  <2>3. CASE Exit
    <3>1. \A r \in Objs : child[r] # "running"
      BY <2>3, NoneIsFresh DEF IInv, TypeOK, RouteInv, RunningChildIsMapped
    <3> QED
      BY <2>3, <3>1 DEF IInv, TypeOK, RouteInv, StartIsClear, RunningIsWatched,
             WatchTells, RunningChildIsMapped, routeVars
  <2> QED
    BY <2>1, <2>2, <2>3
<1> QED
  BY <1>1, <1>2, <1>3, <1>4 DEF IInv

\* Every step preserves the invariant.
LEMMA NextIInv == IInv /\ [Next]_vars => IInv'
<1> SUFFICES ASSUME IInv, [Next]_vars PROVE IInv'
  OBVIOUS
<1>1. CASE UNCHANGED vars
  BY <1>1 DEF vars, IInv, TypeOK, HandlerInv, LogInv, RouteInv, LockHolder,
       QuietAtTheEnd, StartIsClear, FollowerHasRoute, SubscriberStreams,
       SubscribedChannelIsOpen, RunningIsWatched, WatchTells, RunningChildIsMapped
<1>2. ASSUME main # "exit", NEW h \in Handlers,
             Accept(h) \/ ClientHangsUp(h) \/ Ask(h) \/ HandlerStep(h)
      PROVE  IInv'
  BY <1>2, ConnectionStep, RequestStep, UpStopStep, UpFailStep, UpStartStep,
     DownStopStep, StreamStep DEF Ask, HandlerStep
<1>3. ASSUME main # "exit", NEW r \in Objs, ChildExits(r) \/ WatchStep(r) \/ Pump(r)
      PROVE  IInv'
  BY <1>3, ChildStep, WatchEndStep DEF WatchStep
<1>4. ASSUME main # "exit", Signal \/ MainStep
      PROVE  IInv'
  BY <1>4, MainStepKeeps
<1> QED
  BY <1>1, <1>2, <1>3, <1>4 DEF Next, Terminated

\* The invariant holds throughout.
LEMMA Invariance == Spec => []IInv
BY InitIInv, NextIInv, PTL DEF Spec

-----------------------------------------------------------------------------
\* The variables of the daemon keep their types; in particular pump never
\* overfills a subscriber's channel.
THEOREM TypeCorrect == Spec => []TypeOK
<1>1. IInv => TypeOK
  BY DEF IInv
<1> QED
  BY <1>1, Invariance, PTL

\* Whatever control connections ask for, a running child is the one its id
\* maps to, and no child runs when main has returned.
THEOREM RunningChildrenAreMapped == Spec => []RunningChildIsMapped
<1>1. IInv => RunningChildIsMapped
  BY DEF IInv, RouteInv
<1> QED
  BY <1>1, Invariance, PTL

\* pump never sends on a closed channel.
THEOREM SubscribedChannelsAreOpen == Spec => []SubscribedChannelIsOpen
<1>1. IInv => SubscribedChannelIsOpen
  BY DEF IInv, LogInv
<1> QED
  BY <1>1, Invariance, PTL

\* What StatusAll tells of a child agrees with the child, up to the moment
\* its watch goroutine gets the lock.
THEOREM StatusStaysHonest == Spec => []StatusIsHonest
<1>1. IInv => StatusIsHonest
  BY DEF IInv, TypeOK, RouteInv, RunningIsWatched, WatchTells, StatusIsHonest
<1> QED
  BY <1>1, Invariance, PTL
=============================================================================
