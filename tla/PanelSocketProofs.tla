-------------------------- MODULE PanelSocketProofs --------------------------
(***************************************************************************)
(* Safety of PanelSocket for any number of sockets, attempts and statuses  *)
(* and any capacities.                                                     *)
(*                                                                         *)
(* NeverStranded and OneSocket rest on what the page's fields say of its   *)
(* sockets (PageInv): only the current one is alive, isConnected means     *)
(* that it is open, and a time-out is pending only when none is alive.     *)
(* HubSendsToOpen rests on the registration happening once (HubInv): a     *)
(* client in the queue is neither listed nor closed, and while broadcast   *)
(* goroutines run, the hub's list does not change.  PushesInOrder rests on *)
(* one chain (OrderInv): what the page has shown, what is buffered for it, *)
(* what is being sent, what is queued and the latest status follow one     *)
(* another in this order.                                                  *)
(***************************************************************************)
EXTENDS PanelSocket, TLAPS

\* Before it mounts and after it left, a page has no socket and no time-out.
OffIsQuiet == page # "mounted" => ws = None /\ timers = 0

LiveIsCurrent == \A c \in Conns : Live(c) => c = ws

ConnectedIsOpen == isConnected => ws \in Conns /\ ready[ws] = "open"

\* A reconnection is scheduled once, and only when no socket is alive.
ScheduledIsDown == timers > 0 => timers = 1 /\ \A c \in Conns : ~Live(c)

\* The server knows no socket the page has not opened.
UnopenedIsUnknown ==
    \A c \in Conns : ready[c] = "none" =>
        srv[c] = "none" /\ reader[c] = "none" /\ writer[c] = "none"

PageInv ==
    /\ OffIsQuiet /\ LiveIsCurrent /\ ConnectedIsOpen /\ ScheduledIsDown
    /\ NeverStranded

\* Before Register, the hub has nothing of a connection.
UnregisteredIsUnknown ==
    \A c \in Conns : srv[c] \in {"none", "accepted"} =>
        /\ c \notin clients /\ c \notin sendClosed
        /\ send[c] = <<>>
        /\ \A k \in 1..Len(register) : register[k] # c

\* A client is queued once, and not after it was listed.
RegisteredOnce ==
    /\ \A k \in 1..Len(register) :
          register[k] \notin clients /\ register[k] \notin sendClosed
    /\ \A j, k \in 1..Len(register) : register[j] = register[k] => j = k

\* One broadcast at a time, to listed clients.
SendersAgree ==
    /\ \A p \in sending : p[1] \in clients
    /\ \A p, q \in sending : p[2] = q[2]

HubInv == UnregisteredIsUnknown /\ RegisteredOnce /\ SendersAgree /\ HubSendsToOpen

\* A sequence of statuses in the order they were taken.
Ascending(s) == \A j, k \in 1..Len(s) : j <= k => s[j] <= s[k]

QueueIsOrdered ==
    /\ Ascending(broadcast)
    /\ \A k \in 1..Len(broadcast) :
          /\ broadcast[k] <= version
          /\ \A p \in sending : p[2] <= broadcast[k]
    /\ \A p \in sending : p[2] <= version

BufferIsOrdered ==
    \A c \in Conns :
        /\ Ascending(send[c])
        /\ \A k \in 1..Len(send[c]) :
              /\ send[c][k] <= version
              /\ \A p \in sending : send[c][k] <= p[2]
              /\ \A j \in 1..Len(broadcast) : send[c][k] <= broadcast[j]

ShownIsOldest ==
    /\ pushed <= version
    /\ \A p \in sending : pushed <= p[2]
    /\ \A k \in 1..Len(broadcast) : pushed <= broadcast[k]
    /\ \A c \in Conns : ready[c] # "closed" =>
          \A k \in 1..Len(send[c]) : pushed <= send[c][k]

OrderInv == QueueIsOrdered /\ BufferIsOrdered /\ ShownIsOldest

IInv == TypeOK /\ PageInv /\ UnopenedIsUnknown /\ HubInv /\ OrderInv

-----------------------------------------------------------------------------
(* Facts about sequences and the constants.                                *)

\* null is no socket.
LEMMA NoneIsNoSocket == None \notin Conns
BY PanelSocketAssumption DEF Conns

\* What receiving from a channel leaves in it.
LEMMA TailElements ==
    ASSUME NEW S, NEW s \in Seq(S), s # <<>>
    PROVE  /\ Tail(s) \in Seq(S) /\ Len(Tail(s)) = Len(s) - 1 /\ Len(s) \in Nat \ {0}
           /\ \A k \in 1..(Len(s) - 1) : Tail(s)[k] = s[k + 1]
           /\ Head(s) = s[1] /\ Head(s) \in S
OBVIOUS

\* What sending to a channel puts in it.
LEMMA AppendElements ==
    ASSUME NEW S, NEW s \in Seq(S), NEW x \in S
    PROVE  /\ Append(s, x) \in Seq(S) /\ Len(Append(s, x)) = Len(s) + 1 /\ Len(s) \in Nat
           /\ \A k \in 1..Len(s) : Append(s, x)[k] = s[k]
           /\ Append(s, x)[Len(s) + 1] = x
OBVIOUS

\* A sequence of statuses is one of numbers.
LEMMA StatusSequence ==
    ASSUME NEW s \in Seq(Versions)
    PROVE  s \in Seq(Nat)
<1>1. \A k \in 1..Len(s) : s[k] \in Nat
  BY PanelSocketAssumption DEF Versions
<1>2. Len(s) \in Nat /\ s = [k \in 1..Len(s) |-> s[k]]
  OBVIOUS
<1> QED
  BY <1>1, <1>2

\* Replacing one value of a function by one of its range.
LEMMA UpdateType ==
    ASSUME NEW S, NEW T, NEW f \in [S -> T], NEW x, NEW y \in T
    PROVE  [f EXCEPT ![x] = y] \in [S -> T]
OBVIOUS

\* Receiving keeps the order,
LEMMA AscendingTail ==
    ASSUME NEW s \in Seq(Nat), s # <<>>, Ascending(s)
    PROVE  /\ Ascending(Tail(s))
           /\ \A k \in 1..Len(Tail(s)) : Head(s) <= Tail(s)[k]
BY TailElements DEF Ascending

\* and so does sending something that is not older.
LEMMA AscendingAppend ==
    ASSUME NEW s \in Seq(Nat), NEW x \in Nat, Ascending(s),
           \A k \in 1..Len(s) : s[k] <= x
    PROVE  Ascending(Append(s, x))
<1>1. /\ Len(Append(s, x)) = Len(s) + 1 /\ Len(s) \in Nat
      /\ \A k \in 1..Len(s) : Append(s, x)[k] = s[k]
      /\ Append(s, x)[Len(s) + 1] = x
  OBVIOUS
<1> SUFFICES ASSUME NEW j \in 1..(Len(s) + 1), NEW k \in 1..(Len(s) + 1), j <= k
             PROVE  Append(s, x)[j] <= Append(s, x)[k]
  BY <1>1 DEF Ascending
<1>2. CASE k \in 1..Len(s)
  BY <1>1, <1>2 DEF Ascending
<1>3. CASE k = Len(s) + 1 /\ j \in 1..Len(s)
  BY <1>1, <1>3
<1>4. CASE k = Len(s) + 1 /\ j = Len(s) + 1
  BY <1>1, <1>4
<1> QED
  BY <1>1, <1>2, <1>3, <1>4

-----------------------------------------------------------------------------
(* What a step that leaves some of the variables alone preserves.          *)

\* The page's part.
LEMMA PageUntouched ==
    ASSUME PageInv, UNCHANGED pageVars
    PROVE  PageInv'
BY DEF PageInv, OffIsQuiet, LiveIsCurrent, ConnectedIsOpen, ScheduledIsDown,
       NeverStranded, Live, pageVars

\* The hub's part.
LEMMA HubUntouched ==
    ASSUME HubInv, UNCHANGED <<register, clients, send, sendClosed, sending>>,
           \A c \in Conns : srv'[c] \in {"none", "accepted"} => srv[c] \in {"none", "accepted"}
    PROVE  HubInv'
BY DEF HubInv, UnregisteredIsUnknown, RegisteredOnce, SendersAgree, HubSendsToOpen

\* The same when a buffer is drained.
LEMMA HubDrained ==
    ASSUME HubInv, UNCHANGED <<register, clients, sendClosed, sending>>,
           \A c \in Conns : send[c] = <<>> => send'[c] = <<>>,
           \A c \in Conns : srv'[c] \in {"none", "accepted"} => srv[c] \in {"none", "accepted"}
    PROVE  HubInv'
BY DEF HubInv, UnregisteredIsUnknown, RegisteredOnce, SendersAgree, HubSendsToOpen

\* The order of the statuses.
LEMMA OrderUntouched ==
    ASSUME OrderInv, UNCHANGED <<broadcast, send, sending, version, pushed>>,
           \A c \in Conns : ready'[c] # "closed" => ready[c] # "closed"
    PROVE  OrderInv'
BY DEF OrderInv, QueueIsOrdered, BufferIsOrdered, ShownIsOldest, Ascending

-----------------------------------------------------------------------------
(* The page.                                                               *)

\* connect() keeps what is said of the page, on a page that is mounted after
\* it and had nothing scheduled but the time-out that brought it here.
LEMMA ConnectPage ==
    ASSUME TypeOK, PageInv, UnopenedIsUnknown, NEW n \in Nat, NEW heard \in BOOLEAN,
           connect(n, heard), page' = "mounted", UNCHANGED <<isConnected, connVars>>,
           n = 0, heard \/ page = "loading", timers \in {0, 1}
    PROVE  /\ ready' \in [Conns -> {"none", "connecting", "open", "closed"}]
           /\ ws' \in Conns \cup {None} /\ timers' \in Nat /\ polls' \in Nat
           /\ PageInv' /\ UnopenedIsUnknown'
           /\ \A c \in Conns : ready'[c] # "closed" => ready[c] # "closed"
<1> USE NoneIsNoSocket DEF connect, Live, connVars
<1>1. CASE ws # None /\ Live(ws)
  <2>1. UNCHANGED <<ws, ready, polls>> /\ timers' = 0
    BY <1>1
  <2> QED
    BY <1>1, <2>1 DEF TypeOK, PageInv, OffIsQuiet, LiveIsCurrent, ConnectedIsOpen,
       ScheduledIsDown, NeverStranded, UnopenedIsUnknown
<1>2. CASE ~(ws # None /\ Live(ws)) /\ NewSocket /\ UNCHANGED polls
  <2>1. PICK c \in Conns : /\ ready[c] = "none" /\ ws' = c
                           /\ ready' = [ready EXCEPT ![c] = "connecting"]
    BY <1>2 DEF NewSocket
  <2>2. \A d \in Conns : ~Live(d)
    BY <1>2 DEF TypeOK, PageInv, LiveIsCurrent
  <2>3. ~isConnected
    BY <2>2 DEF PageInv, ConnectedIsOpen
  <2>4. \A d \in Conns : ready'[d] \in {"connecting", "open"} <=> d = c
    BY <2>1, <2>2 DEF TypeOK
  <2>5. PageInv'
    BY <2>1, <2>3, <2>4 DEF PageInv, OffIsQuiet, LiveIsCurrent, ConnectedIsOpen,
       ScheduledIsDown, NeverStranded
  <2> QED
    BY <1>2, <2>1, <2>5 DEF TypeOK, UnopenedIsUnknown
<1>3. CASE ~(ws # None /\ Live(ws)) /\ UNCHANGED <<ws, ready>>
            /\ polls' = polls + (IF heard THEN 1 ELSE 0)
  <2>1. polls' \in Nat /\ (heard => polls' > 0)
    BY <1>3 DEF TypeOK
  <2>2. heard \/ ws = None
    BY DEF PageInv, OffIsQuiet
  <2> QED
    BY <1>3, <2>1, <2>2 DEF TypeOK, PageInv, OffIsQuiet, LiveIsCurrent, ConnectedIsOpen,
       ScheduledIsDown, NeverStranded, UnopenedIsUnknown
<1> QED
  BY <1>1, <1>2, <1>3

\* The page mounts, or its time-out fires.
LEMMA ConnectStep ==
    ASSUME IInv, Mount \/ TimerFires
    PROVE  IInv'
<1>1. \E n \in Nat, heard \in BOOLEAN :
         connect(n, heard) /\ n = 0 /\ (heard \/ page = "loading")
  <2>1. CASE Mount
    BY <2>1 DEF Mount, IInv, PageInv, OffIsQuiet
  <2>2. CASE TimerFires
    <3>1. timers = 1
      BY <2>2 DEF TimerFires, IInv, TypeOK, PageInv, ScheduledIsDown
    <3>2. timers - 1 = 0
      BY <3>1
    <3>3. connect(timers - 1, TRUE)
      BY <2>2 DEF TimerFires
    <3>4. connect(0, TRUE)
      BY <3>2, <3>3
    <3> QED
      BY <3>4
  <2> QED
    BY <2>1, <2>2
<1>2. page' = "mounted" /\ timers \in {0, 1}
  <2>1. CASE Mount
    BY <2>1 DEF Mount, IInv, PageInv, OffIsQuiet
  <2>2. CASE TimerFires
    BY <2>2 DEF TimerFires, IInv, TypeOK, PageInv, OffIsQuiet, ScheduledIsDown
  <2> QED
    BY <2>1, <2>2
<1>3. UNCHANGED <<attempts, isConnected, pushed, connVars, queueVars, clientVars, hubVars>>
  BY DEF Mount, TimerFires
<1>4. /\ ready' \in [Conns -> {"none", "connecting", "open", "closed"}]
      /\ ws' \in Conns \cup {None} /\ timers' \in Nat /\ polls' \in Nat
      /\ PageInv' /\ UnopenedIsUnknown'
      /\ \A c \in Conns : ready'[c] # "closed" => ready[c] # "closed"
  <2>1. PICK n \in Nat, heard \in BOOLEAN :
           connect(n, heard) /\ n = 0 /\ (heard \/ page = "loading")
    BY <1>1
  <2>2. UNCHANGED <<isConnected, connVars>>
    BY <1>3
  <2>3. TypeOK /\ PageInv /\ UnopenedIsUnknown
    BY DEF IInv
  <2> QED
    BY <1>2, <2>1, <2>2, <2>3, ConnectPage
<1>5. TypeOK'
  BY <1>2, <1>3, <1>4 DEF IInv, TypeOK, connVars, queueVars, clientVars, hubVars
<1>6. HubInv' /\ OrderInv'
  BY <1>3, <1>4, HubUntouched, OrderUntouched DEF IInv, connVars, queueVars,
     clientVars, hubVars
<1> QED
  BY <1>4, <1>5, <1>6 DEF IInv

\* A socket opens.
LEMMA OnOpenStep ==
    ASSUME IInv, NEW c \in Conns, OnOpen(c)
    PROVE  IInv'
<1> USE DEF OnOpen
<1>1. TypeOK'
  BY PanelSocketAssumption DEF IInv, TypeOK, connVars, queueVars, clientVars, hubVars
<1>2. PageInv'
  BY NoneIsNoSocket DEF IInv, TypeOK, PageInv, OffIsQuiet, LiveIsCurrent, ConnectedIsOpen,
     ScheduledIsDown, NeverStranded, Live
<1>3. UnopenedIsUnknown' /\ HubInv' /\ OrderInv'
  BY HubUntouched, OrderUntouched DEF IInv, TypeOK, UnopenedIsUnknown, connVars, queueVars,
     clientVars, hubVars
<1> QED
  BY <1>1, <1>2, <1>3 DEF IInv

\* It fails or is closed.
LEMMA OnCloseStep ==
    ASSUME IInv, NEW c \in Conns, SocketFails(c) \/ SocketCloses(c)
    PROVE  IInv'
<1>1. PICK e \in {0, 1} : OnClose(c, e)
  BY DEF SocketFails, SocketCloses
<1>2. Live(c) /\ UNCHANGED <<page, ws, pushed, connVars, queueVars, clientVars, hubVars>>
  BY DEF SocketFails, SocketCloses, Live
<1>3. /\ ready' = [ready EXCEPT ![c] = "closed"] /\ isConnected' = FALSE
      /\ polls' \in Nat /\ attempts' \in 0..MaxAttempts /\ timers' \in Nat
      /\ timers' = timers + 1 \/ (timers' = timers /\ polls' > 0)
  <2>1. CASE attempts < MaxAttempts
    BY <1>1, <2>1, PanelSocketAssumption DEF OnClose, giveUp, IInv, TypeOK
  <2>2. CASE ~(attempts < MaxAttempts)
    BY <1>1, <2>2, PanelSocketAssumption DEF OnClose, giveUp, IInv, TypeOK
  <2> QED
    BY <2>1, <2>2
<1>4. c = ws /\ timers = 0 /\ page = "mounted"
  BY <1>2, NoneIsNoSocket DEF IInv, TypeOK, PageInv, OffIsQuiet, LiveIsCurrent, ScheduledIsDown
<1>5. TypeOK'
  BY <1>2, <1>3 DEF IInv, TypeOK, connVars, queueVars, clientVars, hubVars
<1>6. PageInv'
  <2>1. \A d \in Conns : ready'[d] \notin {"connecting", "open"}
    BY <1>3, <1>4 DEF IInv, TypeOK, PageInv, LiveIsCurrent, Live
  <2> QED
    BY <1>2, <1>3, <1>4, <2>1 DEF IInv, PageInv, OffIsQuiet, LiveIsCurrent,
       ConnectedIsOpen, ScheduledIsDown, NeverStranded, Live
<1>7. UnopenedIsUnknown' /\ HubInv' /\ OrderInv'
  BY <1>2, <1>3, HubUntouched, OrderUntouched DEF IInv, TypeOK, UnopenedIsUnknown,
     connVars, queueVars, clientVars, hubVars
<1> QED
  BY <1>5, <1>6, <1>7 DEF IInv

\* A tick finds the socket connected.
LEMMA PollStopsStep ==
    ASSUME IInv, PollStops
    PROVE  IInv'
<1> USE DEF PollStops
<1>1. polls' \in Nat
  BY DEF IInv, TypeOK
<1>2. TypeOK'
  BY <1>1 DEF IInv, TypeOK, connVars, queueVars, clientVars, hubVars
<1>3. PageInv'
  BY DEF IInv, PageInv, OffIsQuiet, LiveIsCurrent, ConnectedIsOpen, ScheduledIsDown,
     NeverStranded, Live
<1>4. UnopenedIsUnknown' /\ HubInv' /\ OrderInv'
  BY HubUntouched, OrderUntouched DEF IInv, UnopenedIsUnknown, connVars,
     queueVars, clientVars, hubVars
<1> QED
  BY <1>2, <1>3, <1>4 DEF IInv

\* The user leaves.
LEMMA UnloadStep ==
    ASSUME IInv, Unload
    PROVE  IInv'
<1> USE DEF Unload
<1>1. /\ ready' \in [Conns -> {"none", "connecting", "open", "closed"}]
      /\ \A c \in Conns : /\ ready'[c] \notin {"connecting", "open"}
                          /\ ready'[c] = "none" <=> ready[c] = "none"
                          /\ ready'[c] # "closed" => ready[c] # "closed"
  BY DEF IInv, TypeOK, Live
<1>2. attempts' \in 0..MaxAttempts
  BY PanelSocketAssumption
<1>3. TypeOK'
  BY <1>1, <1>2 DEF IInv, TypeOK, connVars, queueVars, clientVars, hubVars
<1>4. PageInv'
  BY <1>1 DEF PageInv, OffIsQuiet, LiveIsCurrent, ConnectedIsOpen, ScheduledIsDown,
     NeverStranded, Live
<1>5. UnopenedIsUnknown' /\ HubInv' /\ OrderInv'
  BY <1>1, HubUntouched, OrderUntouched DEF IInv, UnopenedIsUnknown, connVars,
     queueVars, clientVars, hubVars
<1> QED
  BY <1>3, <1>4, <1>5 DEF IInv

-----------------------------------------------------------------------------
(* A connection.                                                           *)

\* A step that touches neither the page, nor the order of the statuses.
LEMMA SocketsUntouched ==
    ASSUME PageInv, OrderInv,
           UNCHANGED <<pageVars, broadcast, send, sending, version, pushed>>
    PROVE  PageInv' /\ OrderInv'
BY PageUntouched, OrderUntouched DEF pageVars

\* The connection is upgraded.
LEMMA AcceptStep ==
    ASSUME IInv, NEW c \in Conns, Accept(c)
    PROVE  IInv'
<1> USE DEF Accept
<1>1. /\ srv' \in [Conns -> {"none", "accepted", "open", "closed"}]
      /\ \A d \in Conns : srv'[d] \in {"none", "accepted"} => srv[d] \in {"none", "accepted"}
  BY DEF IInv, TypeOK
<1>2. TypeOK'
  BY <1>1 DEF IInv, TypeOK, pageVars, queueVars, clientVars, hubVars
<1>3. UnopenedIsUnknown'
  BY DEF IInv, TypeOK, UnopenedIsUnknown, pageVars
<1>4. HubInv' /\ PageInv' /\ OrderInv'
  BY <1>1, HubUntouched, SocketsUntouched DEF IInv, pageVars, queueVars, clientVars, hubVars
<1> QED
  BY <1>2, <1>3, <1>4 DEF IInv

\* It registers with the hub and its pumps start.
LEMMA RegisterStep ==
    ASSUME IInv, NEW c \in Conns, Register(c)
    PROVE  IInv'
<1> USE DEF Register
<1>1. /\ srv' \in [Conns -> {"none", "accepted", "open", "closed"}]
      /\ reader' \in [Conns -> {"none", "reading", "leaving", "done"}]
      /\ writer' \in [Conns -> {"none", "running", "done"}]
      /\ \A d \in Conns : srv'[d] \in {"none", "accepted"} =>
            d # c /\ srv[d] \in {"none", "accepted"}
  BY DEF IInv, TypeOK
<1>2. register \in Seq(Conns)
  BY DEF IInv, TypeOK
<1>3. /\ register' \in Seq(Conns) /\ Len(register') <= QueueCap
      /\ \/ register' = register
         \/ /\ Len(register') = Len(register) + 1 /\ Len(register) \in Nat
            /\ \A k \in 1..Len(register) : register'[k] = register[k]
            /\ register'[Len(register) + 1] = c
  <2>1. CASE Len(register) < QueueCap /\ register' = Append(register, c)
    BY <1>2, <2>1, AppendElements, PanelSocketAssumption
  <2>2. CASE UNCHANGED register
    BY <2>2 DEF IInv, TypeOK
  <2> QED
    BY <2>1, <2>2
<1>4. TypeOK'
  BY <1>1, <1>3 DEF IInv, TypeOK, pageVars, clientVars, hubVars
<1>5. UnopenedIsUnknown'
  BY DEF IInv, TypeOK, UnopenedIsUnknown, pageVars
<1>6. PageInv' /\ OrderInv'
  BY SocketsUntouched DEF IInv, pageVars, clientVars, hubVars
<1>7. HubInv'
  <2>1. CASE register' = register
    BY <1>1, <2>1, HubUntouched DEF IInv, clientVars, hubVars
  <2>2. CASE register' # register
    <3> DEFINE L == Len(register)
    <3>1. /\ Len(register') = L + 1 /\ L \in Nat
          /\ \A k \in 1..L : register'[k] = register[k]
          /\ register'[L + 1] = c
      BY <1>3, <2>2
    <3>2. \A k \in 1..(L + 1) : k \in 1..L \/ k = L + 1
      BY <3>1
    <3>3. /\ c \notin clients /\ c \notin sendClosed
          /\ \A k \in 1..L : register[k] # c
      BY DEF IInv, HubInv, UnregisteredIsUnknown
    <3>4. UNCHANGED <<clients, send, sendClosed, sending>>
      BY DEF clientVars, hubVars
    <3> HIDE DEF L
    <3>5. \A k \in 1..L : register[k] \notin clients /\ register[k] \notin sendClosed
      BY DEF IInv, HubInv, RegisteredOnce, L
    <3>6. \A j, k \in 1..L : register[j] = register[k] => j = k
      BY DEF IInv, HubInv, RegisteredOnce, L
    <3>7. \A k \in 1..(L + 1) : register'[k] \notin clients /\ register'[k] \notin sendClosed
      BY <3>1, <3>2, <3>3, <3>5
    <3>8. \A j, k \in 1..(L + 1) : register'[j] = register'[k] => j = k
      BY <3>1, <3>2, <3>3, <3>6
    <3>9. UnregisteredIsUnknown'
      <4> SUFFICES ASSUME NEW d \in Conns, srv'[d] \in {"none", "accepted"}
                   PROVE  /\ d \notin clients /\ d \notin sendClosed /\ send[d] = <<>>
                          /\ \A k \in 1..(L + 1) : register'[k] # d
        BY <3>1, <3>4 DEF UnregisteredIsUnknown
      <4>1. /\ d # c /\ d \notin clients /\ d \notin sendClosed /\ send[d] = <<>>
            /\ \A k \in 1..L : register[k] # d
        BY <1>1 DEF IInv, HubInv, UnregisteredIsUnknown, L
      <4> QED
        BY <3>1, <3>2, <4>1
    <3> QED
      BY <3>1, <3>4, <3>7, <3>8, <3>9 DEF IInv, HubInv, RegisteredOnce, SendersAgree,
         HubSendsToOpen
  <2> QED
    BY <2>1, <2>2
<1> QED
  BY <1>4, <1>5, <1>6, <1>7 DEF IInv

\* The reader fails.
LEMMA ReadFailsStep ==
    ASSUME IInv, NEW c \in Conns, ReadFails(c)
    PROVE  IInv'
<1> USE DEF ReadFails
<1>1. TypeOK'
  BY DEF IInv, TypeOK, pageVars, queueVars, clientVars, hubVars
<1>2. UnopenedIsUnknown' /\ PageInv' /\ OrderInv' /\ HubInv'
  BY SocketsUntouched, HubUntouched DEF IInv, UnopenedIsUnknown, pageVars, queueVars,
     clientVars, hubVars
<1> QED
  BY <1>1, <1>2 DEF IInv

\* Unregister keeps its channel within its capacity.
LEMMA UnregisterType ==
    ASSUME TypeOK, NEW c \in Conns, Unregister(c)
    PROVE  unregister' \in Seq(Conns) /\ Len(unregister') <= QueueCap
<1>1. CASE Len(unregister) < QueueCap /\ unregister' = Append(unregister, c)
  BY <1>1, AppendElements, PanelSocketAssumption DEF TypeOK
<1>2. CASE UNCHANGED unregister
  BY <1>2 DEF TypeOK
<1> QED
  BY <1>1, <1>2 DEF Unregister

\* A registered connection is closed.
LEMMA ConnCloses ==
    ASSUME TypeOK, UnopenedIsUnknown, NEW c \in Conns, ready[c] # "none",
           srv' = [srv EXCEPT ![c] = "closed"], UNCHANGED ready,
           \/ reader' = [reader EXCEPT ![c] = "done"] /\ UNCHANGED writer
           \/ writer' = [writer EXCEPT ![c] = "done"] /\ UNCHANGED reader
    PROVE  /\ srv' \in [Conns -> {"none", "accepted", "open", "closed"}]
           /\ reader' \in [Conns -> {"none", "reading", "leaving", "done"}]
           /\ writer' \in [Conns -> {"none", "running", "done"}]
           /\ UnopenedIsUnknown'
           /\ \A d \in Conns : srv'[d] \in {"none", "accepted"} => srv[d] \in {"none", "accepted"}
BY DEF TypeOK, UnopenedIsUnknown

\* The reader leaves.
LEMMA ReaderLeavesStep ==
    ASSUME IInv, NEW c \in Conns, ReaderLeaves(c)
    PROVE  IInv'
<1> USE DEF ReaderLeaves
<1>1. ready[c] # "none" /\ UNCHANGED ready
  BY DEF IInv, UnopenedIsUnknown, pageVars
<1>2. /\ srv' \in [Conns -> {"none", "accepted", "open", "closed"}]
      /\ reader' \in [Conns -> {"none", "reading", "leaving", "done"}]
      /\ UnopenedIsUnknown'
      /\ \A d \in Conns : srv'[d] \in {"none", "accepted"} => srv[d] \in {"none", "accepted"}
  BY <1>1, ConnCloses DEF IInv
<1>3. unregister' \in Seq(Conns) /\ Len(unregister') <= QueueCap
  BY UnregisterType DEF IInv
<1>4. TypeOK'
  BY <1>2, <1>3 DEF IInv, TypeOK, pageVars, clientVars, hubVars
<1>5. PageInv' /\ OrderInv' /\ HubInv'
  BY <1>2, SocketsUntouched, HubUntouched DEF IInv, pageVars, clientVars, hubVars
<1> QED
  BY <1>2, <1>4, <1>5 DEF IInv

\* The writer takes a message: the order of the statuses is kept, and the page
\* shows it if its socket is open.  Another socket that is not closed has not
\* been opened and nothing is buffered for it.
LEMMA TakeMessage ==
    ASSUME IInv, NEW c \in Conns, send[c] # <<>>,
           send' = [send EXCEPT ![c] = Tail(@)],
           pushed' = pushed \/ (ready[c] = "open" /\ pushed' = Head(send[c])),
           UNCHANGED <<ready, ws, broadcast, sending, version>>
    PROVE  /\ send' \in [Conns -> Seq(Versions)]
           /\ \A d \in Conns : Len(send'[d]) <= SendCap
           /\ pushed' \in Versions /\ pushed' >= pushed
           /\ \A d \in Conns : send[d] = <<>> => send'[d] = <<>>
           /\ OrderInv'
<1>1. /\ send \in [Conns -> Seq(Versions)] /\ send[c] \in Seq(Versions)
      /\ Versions \subseteq Nat /\ send[c] \in Seq(Nat)
  <2>1. send \in [Conns -> Seq(Versions)] /\ send[c] \in Seq(Versions)
    BY DEF IInv, TypeOK
  <2>2. Versions \subseteq Nat
    BY PanelSocketAssumption DEF Versions
  <2> QED
    BY <2>1, <2>2, StatusSequence
<1> DEFINE s == send[c]
           t == Tail(send[c])
<1>2. /\ t \in Seq(Versions) /\ Len(t) = Len(s) - 1 /\ Len(s) \in Nat \ {0}
      /\ \A k \in 1..(Len(s) - 1) : t[k] = s[k + 1] /\ k + 1 \in 1..Len(s)
      /\ Head(s) = s[1] /\ Head(s) \in Versions /\ 1 \in 1..Len(s)
  BY <1>1, TailElements
<1>3. send'[c] = t /\ \A d \in Conns : d # c => send'[d] = send[d]
  BY <1>1
<1>4. send' \in [Conns -> Seq(Versions)]
  BY <1>1, <1>2, UpdateType, Zenon
<1>5. Ascending(t) /\ \A k \in 1..Len(t) : Head(s) <= t[k]
  BY <1>1, AscendingTail DEF IInv, OrderInv, BufferIsOrdered
<1>6. \A k \in 1..Len(t) : \E j \in 1..Len(s) : t[k] = s[j]
  BY <1>2
<1> HIDE DEF t, s
<1>7. pushed' \in Versions /\ pushed' >= pushed
  <2>1. pushed \in Versions /\ pushed \in Nat
    BY <1>1 DEF IInv, TypeOK
  <2>2. CASE pushed' = pushed
    BY <2>1, <2>2
  <2>3. CASE ready[c] = "open" /\ pushed' = Head(s)
    <3>1. pushed <= s[1]
      BY <1>2, <2>3 DEF IInv, OrderInv, ShownIsOldest, s
    <3>2. s[1] \in Nat /\ pushed' = s[1] /\ pushed' \in Versions
      BY <1>1, <1>2, <2>3
    <3> QED
      BY <2>1, <3>1, <3>2
  <2> QED
    BY <2>2, <2>3 DEF s
<1>8. \A d \in Conns : Len(send'[d]) <= SendCap
  <2>1. Len(s) <= SendCap
    BY DEF IInv, TypeOK, s
  <2>2. Len(t) <= SendCap
    BY <1>2, <2>1, PanelSocketAssumption
  <2> QED
    BY <1>3, <2>2 DEF IInv, TypeOK
<1>9. BufferIsOrdered'
  <2> SUFFICES ASSUME NEW d \in Conns
               PROVE  /\ Ascending(send'[d])
                      /\ \A k \in 1..Len(send'[d]) :
                            /\ send'[d][k] <= version
                            /\ \A p \in sending : send'[d][k] <= p[2]
                            /\ \A j \in 1..Len(broadcast) : send'[d][k] <= broadcast[j]
    BY DEF BufferIsOrdered, Ascending
  <2>1. CASE d # c
    BY <1>3, <2>1 DEF IInv, OrderInv, BufferIsOrdered
  <2>2. CASE d = c
    <3>1. \A k \in 1..Len(s) :
             /\ s[k] <= version
             /\ \A p \in sending : s[k] <= p[2]
             /\ \A j \in 1..Len(broadcast) : s[k] <= broadcast[j]
      BY DEF IInv, OrderInv, BufferIsOrdered, s
    <3> QED
      <4>1. Ascending(send'[d])
        BY <1>3, <1>5, <2>2
      <4> SUFFICES ASSUME NEW k \in 1..Len(t)
                   PROVE  /\ t[k] <= version
                          /\ \A p \in sending : t[k] <= p[2]
                          /\ \A j \in 1..Len(broadcast) : t[k] <= broadcast[j]
        BY <1>3, <2>2, <4>1
      <4>2. PICK j \in 1..Len(s) : t[k] = s[j]
        BY <1>6
      <4> QED
        BY <3>1, <4>2
  <2> QED
    BY <2>1, <2>2
<1>10. ShownIsOldest'
  <2>1. CASE pushed' = pushed
    <3>1. \A d \in Conns : ready[d] # "closed" =>
             \A k \in 1..Len(send'[d]) : pushed <= send'[d][k]
      <4> SUFFICES ASSUME NEW d \in Conns, ready[d] # "closed",
                          NEW k \in 1..Len(send'[d])
                   PROVE  pushed <= send'[d][k]
        OBVIOUS
      <4>1. CASE d # c
        BY <1>3, <4>1 DEF IInv, OrderInv, ShownIsOldest
      <4>2. CASE d = c
        BY <1>3, <1>6, <4>2 DEF IInv, OrderInv, ShownIsOldest, s
      <4> QED
        BY <4>1, <4>2
    <3> QED
      BY <2>1, <3>1 DEF IInv, OrderInv, ShownIsOldest
  <2>2. CASE ready[c] = "open" /\ pushed' = s[1]
    <3>1. /\ s[1] <= version /\ \A p \in sending : s[1] <= p[2]
          /\ \A j \in 1..Len(broadcast) : s[1] <= broadcast[j]
      BY <1>2 DEF IInv, OrderInv, BufferIsOrdered, s
    <3>2. \A d \in Conns : ready[d] # "closed" =>
             \A k \in 1..Len(send'[d]) : s[1] <= send'[d][k]
      <4> SUFFICES ASSUME NEW d \in Conns, ready[d] # "closed",
                          NEW k \in 1..Len(send'[d])
                   PROVE  s[1] <= send'[d][k]
        OBVIOUS
      <4>1. CASE d # c
        <5>1. c = ws /\ ~Live(d)
          BY <2>2, <4>1 DEF IInv, PageInv, LiveIsCurrent, Live
        <5>2. ready[d] = "none"
          BY <5>1 DEF IInv, TypeOK, Live
        <5>3. send[d] = <<>>
          BY <5>2 DEF IInv, UnopenedIsUnknown, HubInv, UnregisteredIsUnknown
        <5>4. Len(send'[d]) = 0
          BY <1>3, <4>1, <5>3
        <5> QED
          BY <5>4
      <4>2. CASE d = c
        BY <1>2, <1>3, <1>5, <4>2
      <4> QED
        BY <4>1, <4>2
    <3> QED
      BY <2>2, <3>1, <3>2 DEF ShownIsOldest
  <2> QED
    BY <1>2, <2>1, <2>2 DEF s
<1>11. QueueIsOrdered'
  BY DEF IInv, OrderInv, QueueIsOrdered, Ascending
<1>12. \A d \in Conns : send[d] = <<>> => send'[d] = <<>>
  BY <1>3
<1> QED
  BY <1>4, <1>7, <1>8, <1>9, <1>10, <1>11, <1>12 DEF OrderInv

\* The writer writes a message.
LEMMA WriteMessageStep ==
    ASSUME IInv, NEW c \in Conns, WriteMessage(c)
    PROVE  IInv' /\ pushed' >= pushed
<1> USE DEF WriteMessage
<1>1. UNCHANGED <<ready, ws, srv, reader, writer, broadcast, register, clients,
                  sendClosed, sending, version>>
  BY DEF pageVars, connVars, queueVars, hubVars
<1>2. /\ send' \in [Conns -> Seq(Versions)]
      /\ \A d \in Conns : Len(send'[d]) <= SendCap
      /\ pushed' \in Versions /\ pushed' >= pushed
      /\ \A d \in Conns : send[d] = <<>> => send'[d] = <<>>
      /\ OrderInv'
  BY <1>1, TakeMessage
<1>3. TypeOK'
  BY <1>2 DEF IInv, TypeOK, pageVars, connVars, queueVars, hubVars
<1>4. UnopenedIsUnknown' /\ PageInv' /\ HubInv'
  BY <1>1, <1>2, PageUntouched, HubDrained DEF IInv, UnopenedIsUnknown
<1> QED
  BY <1>2, <1>3, <1>4 DEF IInv

\* The writer returns, with or without a message it could not write.
LEMMA WriterReturnsStep ==
    ASSUME IInv, NEW c \in Conns, WriteFails(c) \/ SendIsClosed(c)
    PROVE  IInv'
<1>1. /\ writer[c] = "running" /\ writer' = [writer EXCEPT ![c] = "done"]
      /\ srv' = [srv EXCEPT ![c] = "closed"]
      /\ UNCHANGED <<pageVars, pushed, reader, queueVars, clients, sendClosed, hubVars>>
      /\ send' = send \/ (send[c] # <<>> /\ send' = [send EXCEPT ![c] = Tail(@)])
  BY DEF WriteFails, SendIsClosed, WriterReturns
<1>2. ready[c] # "none" /\ UNCHANGED <<ready, ws, broadcast, register, sending, version>>
  BY <1>1 DEF IInv, UnopenedIsUnknown, pageVars, queueVars, hubVars
<1>3. /\ srv' \in [Conns -> {"none", "accepted", "open", "closed"}]
      /\ writer' \in [Conns -> {"none", "running", "done"}]
      /\ UnopenedIsUnknown'
      /\ \A d \in Conns : srv'[d] \in {"none", "accepted"} => srv[d] \in {"none", "accepted"}
  BY <1>1, <1>2, ConnCloses DEF IInv
<1>4. /\ send' \in [Conns -> Seq(Versions)]
      /\ \A d \in Conns : Len(send'[d]) <= SendCap
      /\ \A d \in Conns : send[d] = <<>> => send'[d] = <<>>
      /\ OrderInv'
  <2>1. CASE send' = send
    BY <1>1, <1>2, <2>1, OrderUntouched DEF IInv, TypeOK
  <2>2. CASE send[c] # <<>> /\ send' = [send EXCEPT ![c] = Tail(@)]
    BY <1>1, <1>2, <2>2, TakeMessage
  <2> QED
    BY <1>1, <2>1, <2>2
<1>5. TypeOK'
  BY <1>1, <1>3, <1>4 DEF IInv, TypeOK, pageVars, queueVars, hubVars
<1>6. PageInv' /\ HubInv'
  BY <1>1, <1>2, <1>3, <1>4, PageUntouched, HubDrained DEF IInv
<1> QED
  BY <1>3, <1>4, <1>5, <1>6 DEF IInv

-----------------------------------------------------------------------------
(* The hub.                                                                *)

\* The hub takes a registration.
LEMMA RunRegisterStep ==
    ASSUME IInv, RunRegister
    PROVE  IInv'
<1> USE DEF RunRegister
<1>1. register \in Seq(Conns) /\ register # <<>> /\ sending = {}
  BY DEF IInv, TypeOK, Selecting
<1> DEFINE L == Len(register)
           c == Head(register)
<1>2. /\ register' \in Seq(Conns) /\ Len(register') = L - 1 /\ L \in Nat \ {0}
      /\ \A k \in 1..(L - 1) : register'[k] = register[k + 1] /\ k + 1 \in 1..L
      /\ c = register[1] /\ c \in Conns /\ 1 \in 1..L
  BY <1>1, TailElements
<1>3. Len(register') <= QueueCap
  BY <1>2, PanelSocketAssumption DEF IInv, TypeOK
<1>4. /\ UNCHANGED <<send, sendClosed, sending, srv, reader, writer>>
      /\ clients' = clients \cup {c}
  BY DEF connVars, hubVars
<1>5. TypeOK'
  BY <1>2, <1>3 DEF IInv, TypeOK, pageVars, connVars, hubVars
<1>6. UnopenedIsUnknown' /\ PageInv' /\ OrderInv'
  BY SocketsUntouched DEF IInv, UnopenedIsUnknown, pageVars, connVars, hubVars
<1> HIDE DEF L, c
<1>7. /\ \A k \in 1..L : register[k] \notin clients /\ register[k] \notin sendClosed
      /\ \A j, k \in 1..L : register[j] = register[k] => j = k
  BY DEF IInv, HubInv, RegisteredOnce, L
<1>8. RegisteredOnce'
  <2>1. \A k \in 1..(L - 1) : /\ register'[k] \notin clients /\ register'[k] \notin sendClosed
                              /\ register'[k] # c
    BY <1>2, <1>7
  <2>2. \A j, k \in 1..(L - 1) : register'[j] = register'[k] => j = k
    BY <1>2, <1>7
  <2> QED
    BY <1>2, <1>4, <2>1, <2>2 DEF RegisteredOnce
<1>9. UnregisteredIsUnknown'
  <2> SUFFICES ASSUME NEW d \in Conns, srv[d] \in {"none", "accepted"}
               PROVE  /\ d \notin clients' /\ d \notin sendClosed /\ send[d] = <<>>
                      /\ \A k \in 1..(L - 1) : register'[k] # d
    BY <1>2, <1>4 DEF UnregisteredIsUnknown
  <2>1. /\ d \notin clients /\ d \notin sendClosed /\ send[d] = <<>>
        /\ \A k \in 1..L : register[k] # d
    BY DEF IInv, HubInv, UnregisteredIsUnknown, L
  <2> QED
    BY <1>2, <1>4, <2>1
<1>10. SendersAgree' /\ HubSendsToOpen'
  BY <1>1, <1>2, <1>4, <1>7 DEF IInv, HubInv, SendersAgree, HubSendsToOpen
<1> QED
  BY <1>5, <1>6, <1>8, <1>9, <1>10 DEF IInv, HubInv

\* The hub takes a removal.
LEMMA RunUnregisterStep ==
    ASSUME IInv, RunUnregister
    PROVE  IInv'
<1> USE DEF RunUnregister
<1>1. unregister \in Seq(Conns) /\ unregister # <<>> /\ sending = {}
  BY DEF IInv, TypeOK, Selecting
<1>2. PICK c \in Conns : /\ clients' = clients \ {c}
                         /\ sendClosed' = IF c \in clients THEN sendClosed \cup {c}
                                          ELSE sendClosed
  BY <1>1, TailElements
<1>3. unregister' \in Seq(Conns) /\ Len(unregister') <= QueueCap
  <2>1. unregister' \in Seq(Conns) /\ Len(unregister') = Len(unregister) - 1
    BY <1>1, TailElements
  <2> QED
    BY <1>1, <2>1, PanelSocketAssumption DEF IInv, TypeOK
<1>4. UNCHANGED <<register, send, sending, srv, reader, writer>>
  BY DEF connVars, hubVars
<1>5. TypeOK'
  BY <1>2, <1>3 DEF IInv, TypeOK, pageVars, connVars, hubVars
<1>6. UnopenedIsUnknown' /\ PageInv' /\ OrderInv'
  BY SocketsUntouched DEF IInv, UnopenedIsUnknown, pageVars, connVars, hubVars
<1>7. HubInv'
  BY <1>1, <1>2, <1>4 DEF IInv, HubInv, UnregisteredIsUnknown, RegisteredOnce, SendersAgree,
     HubSendsToOpen
<1> QED
  BY <1>5, <1>6, <1>7 DEF IInv

\* What TypeOK says of the statuses under way, in one place.
LEMMA StatusFacts ==
    ASSUME TypeOK
    PROVE  /\ Versions \subseteq Nat /\ version \in Nat /\ pushed \in Nat
           /\ broadcast \in Seq(Versions) /\ broadcast \in Seq(Nat)
           /\ \A p \in sending : p[1] \in Conns /\ p[2] \in Versions /\ p[2] \in Nat
           /\ \A c \in Conns : send[c] \in Seq(Versions) /\ send[c] \in Seq(Nat)
<1>1. Versions \subseteq Nat
  BY PanelSocketAssumption DEF Versions
<1>2. broadcast \in Seq(Versions) /\ \A c \in Conns : send[c] \in Seq(Versions)
  BY DEF TypeOK
<1>3. broadcast \in Seq(Nat) /\ \A c \in Conns : send[c] \in Seq(Nat)
  BY <1>2, StatusSequence
<1>4. \A p \in sending : p[1] \in Conns /\ p[2] \in Versions
  BY DEF TypeOK
<1> QED
  BY <1>1, <1>2, <1>3, <1>4 DEF TypeOK

\* The hub starts a broadcast.
LEMMA RunBroadcastStep ==
    ASSUME IInv, RunBroadcast
    PROVE  IInv'
<1> USE DEF RunBroadcast
<1>1. broadcast # <<>> /\ sending = {} /\ broadcast \in Seq(Versions) /\ broadcast \in Seq(Nat)
      /\ Versions \subseteq Nat
  BY StatusFacts DEF IInv, Selecting
<1> DEFINE L == Len(broadcast)
           v == Head(broadcast)
<1>2. /\ broadcast' \in Seq(Versions) /\ Len(broadcast') = L - 1 /\ L \in Nat \ {0}
      /\ \A k \in 1..(L - 1) : broadcast'[k] = broadcast[k + 1] /\ k + 1 \in 1..L
      /\ v = broadcast[1] /\ v \in Versions /\ 1 \in 1..L
  BY <1>1, TailElements
<1>3. /\ Ascending(broadcast') /\ \A k \in 1..Len(broadcast') : v <= broadcast'[k]
  BY <1>1, AscendingTail DEF IInv, OrderInv, QueueIsOrdered
<1>4. /\ sending' = clients \X {v}
      /\ UNCHANGED <<pushed, version, send, clients, sendClosed, register, ready, srv,
                     reader, writer>>
  BY DEF pageVars, connVars, clientVars
<1> HIDE DEF L, v
<1>5. Len(broadcast') <= BroadcastCap
  <2>1. L <= BroadcastCap
    BY DEF IInv, TypeOK, L
  <2> QED
    BY <1>2, <2>1, PanelSocketAssumption
<1>6. \A p \in sending' : p[1] \in clients /\ p[2] = v
  BY <1>4
<1>7. sending' \in SUBSET (Conns \X Versions)
  BY <1>2, <1>4 DEF IInv, TypeOK
<1>8. TypeOK'
  BY <1>2, <1>5, <1>7 DEF IInv, TypeOK, pageVars, connVars, clientVars
<1>9. UnopenedIsUnknown' /\ PageInv'
  BY <1>4, PageUntouched DEF IInv, UnopenedIsUnknown
<1>10. HubInv'
  <2>1. SendersAgree'
    BY <1>4, <1>6 DEF SendersAgree
  <2>2. HubSendsToOpen'
    BY <1>4, <1>6 DEF IInv, HubInv, HubSendsToOpen
  <2> QED
    BY <1>4, <2>1, <2>2 DEF IInv, HubInv, UnregisteredIsUnknown, RegisteredOnce
<1>11. \A k \in 1..Len(broadcast') : \E j \in 1..L : broadcast'[k] = broadcast[j]
  BY <1>2
<1>12. v <= version
  BY <1>2 DEF IInv, OrderInv, QueueIsOrdered, L
<1>13. QueueIsOrdered'
  <2>1. \A k \in 1..Len(broadcast') : broadcast'[k] <= version
    BY <1>11 DEF IInv, OrderInv, QueueIsOrdered, L
  <2> QED
    BY <1>3, <1>4, <1>6, <1>12, <2>1 DEF QueueIsOrdered
<1>14. BufferIsOrdered'
  <2> SUFFICES ASSUME NEW d \in Conns, NEW k \in 1..Len(send[d])
               PROVE  /\ send[d][k] <= version
                      /\ \A p \in sending' : send[d][k] <= p[2]
                      /\ \A j \in 1..Len(broadcast') : send[d][k] <= broadcast'[j]
    BY <1>4 DEF IInv, OrderInv, BufferIsOrdered, Ascending
  <2>1. send[d][k] <= version /\ \A j \in 1..L : send[d][k] <= broadcast[j]
    BY DEF IInv, OrderInv, BufferIsOrdered, L
  <2> QED
    BY <1>2, <1>6, <1>11, <2>1
<1>15. ShownIsOldest'
  <2>1. pushed <= version /\ \A j \in 1..L : pushed <= broadcast[j]
    BY DEF IInv, OrderInv, ShownIsOldest, L
  <2>2. /\ \A p \in sending' : pushed <= p[2]
        /\ \A k \in 1..Len(broadcast') : pushed <= broadcast'[k]
    BY <1>2, <1>6, <1>11, <2>1
  <2> QED
    BY <1>4, <2>1, <2>2 DEF IInv, OrderInv, ShownIsOldest
<1> QED
  BY <1>8, <1>9, <1>10, <1>13, <1>14, <1>15 DEF IInv, OrderInv

\* A goroutine of the broadcast serves its client.
LEMMA SendToStep ==
    ASSUME IInv, NEW c \in Conns, NEW v \in Versions, SendTo(c, v)
    PROVE  IInv'
<1> USE DEF SendTo
<1>1. /\ <<c, v>> \in sending /\ sending' \subseteq sending
      /\ UNCHANGED <<pageVars, pushed, connVars, queueVars, clients, sendClosed,
                     run, ctxDone, version>>
  OBVIOUS
<1>2. UNCHANGED <<ready, broadcast, register, srv, reader, writer>>
  BY <1>1 DEF pageVars, connVars, queueVars
<1>3. c \in clients /\ \A p \in sending : p[2] = v
  BY <1>1 DEF IInv, HubInv, SendersAgree
<1>4. /\ UnopenedIsUnknown' /\ PageInv'
      /\ RegisteredOnce' /\ SendersAgree' /\ HubSendsToOpen'
  BY <1>1, <1>2, PageUntouched DEF IInv, UnopenedIsUnknown, HubInv, RegisteredOnce,
     SendersAgree, HubSendsToOpen
<1>5. QueueIsOrdered'
  BY <1>1, <1>2 DEF IInv, OrderInv, QueueIsOrdered, Ascending
<1>6. evicting' \in SUBSET Conns
  BY DEF IInv, TypeOK
<1>7. sending' \in SUBSET (Conns \X Versions)
  BY <1>1 DEF IInv, TypeOK
<1>8. CASE UNCHANGED send
  <2>1. TypeOK'
    BY <1>1, <1>6, <1>7, <1>8 DEF IInv, TypeOK, pageVars, connVars, queueVars
  <2>2. BufferIsOrdered' /\ ShownIsOldest'
    BY <1>1, <1>2, <1>8 DEF IInv, OrderInv, BufferIsOrdered, ShownIsOldest, Ascending
  <2>3. UnregisteredIsUnknown'
    BY <1>1, <1>2, <1>8 DEF IInv, HubInv, UnregisteredIsUnknown
  <2> QED
    BY <1>4, <1>5, <2>1, <2>2, <2>3 DEF IInv, HubInv, OrderInv
<1>9. CASE Len(send[c]) < SendCap /\ send' = [send EXCEPT ![c] = Append(@, v)]
  <2> DEFINE s == send[c]
             t == Append(send[c], v)
             L == Len(send[c])
  <2>1. /\ send \in [Conns -> Seq(Versions)] /\ s \in Seq(Versions) /\ s \in Seq(Nat)
        /\ v \in Nat
    BY StatusFacts DEF IInv, TypeOK
  <2>2. /\ t \in Seq(Versions) /\ Len(t) = L + 1 /\ L \in Nat
        /\ \A k \in 1..L : t[k] = s[k]
        /\ t[L + 1] = v
    BY <2>1, AppendElements
  <2>3. send'[c] = t /\ \A d \in Conns : d # c => send'[d] = send[d]
    BY <1>9, <2>1
  <2>4. send' \in [Conns -> Seq(Versions)]
    BY <1>9, <2>1, <2>2, UpdateType, Zenon
  <2>5. \A k \in 1..L : /\ s[k] <= version /\ s[k] <= v
                        /\ \A j \in 1..Len(broadcast) : s[k] <= broadcast[j]
    BY <1>1 DEF IInv, OrderInv, BufferIsOrdered
  <2>6. Ascending(t)
    BY <2>1, <2>5, AscendingAppend DEF IInv, OrderInv, BufferIsOrdered
  <2>7. Len(t) <= SendCap
    BY <1>9, <2>2, PanelSocketAssumption
  <2> HIDE DEF s, t, L
  <2>8. \A k \in 1..Len(t) : t[k] = v \/ \E j \in 1..L : t[k] = s[j]
    BY <2>2
  <2>9. TypeOK'
    <3>1. \A d \in Conns : Len(send'[d]) <= SendCap
      BY <2>3, <2>7 DEF IInv, TypeOK
    <3> QED
      BY <1>1, <1>6, <1>7, <2>4, <3>1 DEF IInv, TypeOK, pageVars, connVars, queueVars
  <2>10. /\ v <= version /\ v <= v /\ pushed <= v
         /\ \A j \in 1..Len(broadcast) : v <= broadcast[j]
    BY <1>1, <2>1 DEF IInv, OrderInv, QueueIsOrdered, ShownIsOldest
  <2>11. BufferIsOrdered'
    <3> SUFFICES ASSUME NEW d \in Conns
                 PROVE  /\ Ascending(send'[d])
                        /\ \A k \in 1..Len(send'[d]) :
                              /\ send'[d][k] <= version
                              /\ \A p \in sending' : send'[d][k] <= p[2]
                              /\ \A j \in 1..Len(broadcast) : send'[d][k] <= broadcast[j]
      BY <1>1, <1>2 DEF BufferIsOrdered, Ascending
    <3>1. CASE d # c
      BY <1>1, <2>3, <3>1 DEF IInv, OrderInv, BufferIsOrdered
    <3>2. CASE d = c
      <4> SUFFICES ASSUME NEW k \in 1..Len(t)
                   PROVE  /\ t[k] <= version /\ t[k] <= v
                          /\ \A j \in 1..Len(broadcast) : t[k] <= broadcast[j]
        BY <1>1, <1>3, <2>3, <2>6, <3>2
      <4> QED
        BY <2>5, <2>8, <2>10
    <3> QED
      BY <3>1, <3>2
  <2>12. ShownIsOldest'
    <3>1. \A d \in Conns : ready[d] # "closed" =>
             \A k \in 1..Len(send'[d]) : pushed <= send'[d][k]
      <4> SUFFICES ASSUME NEW d \in Conns, ready[d] # "closed",
                          NEW k \in 1..Len(send'[d])
                   PROVE  pushed <= send'[d][k]
        OBVIOUS
      <4>1. CASE d # c
        BY <2>3, <4>1 DEF IInv, OrderInv, ShownIsOldest
      <4>2. CASE d = c
        <5>1. \A j \in 1..L : pushed <= s[j]
          BY <4>2 DEF IInv, OrderInv, ShownIsOldest, s, L
        <5> QED
          BY <2>3, <2>8, <2>10, <4>2, <5>1
      <4> QED
        BY <4>1, <4>2
    <3> QED
      BY <1>1, <1>2, <3>1 DEF IInv, OrderInv, ShownIsOldest
  <2>13. UnregisteredIsUnknown'
    BY <1>1, <1>2, <1>3, <2>3 DEF IInv, HubInv, UnregisteredIsUnknown
  <2> QED
    BY <1>4, <1>5, <2>9, <2>11, <2>12, <2>13 DEF IInv, HubInv, OrderInv
<1> QED
  BY <1>8, <1>9

\* One that found a full buffer asks for the removal of its client.
LEMMA EvictStep ==
    ASSUME IInv, NEW c \in Conns, Evict(c)
    PROVE  IInv'
<1> USE DEF Evict
<1>1. unregister' \in Seq(Conns) /\ Len(unregister') <= QueueCap
  BY UnregisterType DEF IInv
<1>2. TypeOK'
  BY <1>1 DEF IInv, TypeOK, pageVars, connVars, clientVars
<1>3. UnopenedIsUnknown' /\ PageInv' /\ OrderInv' /\ HubInv'
  BY SocketsUntouched, HubUntouched DEF IInv, UnopenedIsUnknown, pageVars, connVars, clientVars
<1> QED
  BY <1>2, <1>3 DEF IInv

\* The hub ends, or is told to.
LEMMA StopStep ==
    ASSUME IInv, RunStops \/ Stop
    PROVE  IInv'
<1>1. CASE RunStops
  <2> USE <1>1 DEF RunStops
  <2>1. TypeOK'
    BY DEF IInv, TypeOK, pageVars, connVars, queueVars
  <2>2. UnopenedIsUnknown' /\ PageInv' /\ OrderInv'
    BY SocketsUntouched DEF IInv, UnopenedIsUnknown, pageVars, connVars, queueVars
  <2>3. sending = {} /\ UNCHANGED <<register, send, sending, srv>>
    BY DEF Selecting, connVars, queueVars
  <2>4. HubInv'
    BY <2>3 DEF IInv, HubInv, UnregisteredIsUnknown, RegisteredOnce, SendersAgree,
       HubSendsToOpen
  <2> QED
    BY <2>1, <2>2, <2>4 DEF IInv
<1>2. CASE Stop
  <2> USE <1>2 DEF Stop
  <2>1. TypeOK'
    BY DEF IInv, TypeOK, pageVars, connVars, queueVars, clientVars
  <2>2. UnopenedIsUnknown' /\ PageInv' /\ OrderInv' /\ HubInv'
    BY SocketsUntouched, HubUntouched DEF IInv, UnopenedIsUnknown, pageVars, connVars,
       queueVars, clientVars
  <2> QED
    BY <2>1, <2>2 DEF IInv
<1> QED
  BY <1>1, <1>2

\* A new status is stored and queued.
LEMMA RefreshStep ==
    ASSUME IInv, refreshStatus
    PROVE  IInv'
<1> USE DEF refreshStatus
<1>1. /\ version' = version + 1 /\ version' \in Versions /\ version \in Nat
      /\ broadcast \in Seq(Versions) /\ broadcast \in Seq(Nat) /\ Versions \subseteq Nat
  <2>1. version \in Versions /\ version < MaxVersion
    BY DEF IInv, TypeOK
  <2>2. version + 1 \in Versions
    BY <2>1, PanelSocketAssumption DEF Versions
  <2> QED
    BY <2>2, StatusFacts DEF IInv
<1>2. UNCHANGED <<pushed, send, clients, sendClosed, sending, register, ready, srv,
                  reader, writer>>
  BY DEF pageVars, connVars, clientVars
<1>3. UnopenedIsUnknown' /\ PageInv' /\ HubInv'
  BY <1>2, PageUntouched, HubUntouched DEF IInv, UnopenedIsUnknown
<1> DEFINE L == Len(broadcast)
<1>4. /\ broadcast' \in Seq(Versions) /\ Len(broadcast') <= BroadcastCap
      /\ Ascending(broadcast')
      /\ \A k \in 1..Len(broadcast') :
            broadcast'[k] = version + 1 \/ \E j \in 1..L : broadcast'[k] = broadcast[j]
  <2>1. CASE L < BroadcastCap /\ broadcast' = Append(broadcast, version')
    <3>1. /\ broadcast' \in Seq(Versions) /\ Len(broadcast') = L + 1 /\ L \in Nat
          /\ \A k \in 1..L : broadcast'[k] = broadcast[k]
          /\ broadcast'[L + 1] = version'
      BY <1>1, <2>1, AppendElements
    <3>2. \A k \in 1..L : broadcast[k] <= version + 1
      <4> SUFFICES ASSUME NEW k \in 1..L PROVE broadcast[k] <= version + 1
        OBVIOUS
      <4>1. broadcast[k] <= version
        BY DEF IInv, OrderInv, QueueIsOrdered
      <4>2. broadcast[k] \in Nat
        BY <1>1
      <4> QED
        BY <1>1, <4>1, <4>2
    <3>3. Ascending(broadcast')
      BY <1>1, <2>1, <3>2, AscendingAppend DEF IInv, OrderInv, QueueIsOrdered
    <3>4. Len(broadcast') <= BroadcastCap
      BY <2>1, <3>1, PanelSocketAssumption
    <3>5. \A k \in 1..Len(broadcast') :
             broadcast'[k] = version + 1 \/ \E j \in 1..L : broadcast'[k] = broadcast[j]
      <4> HIDE DEF L, refreshStatus
      <4> SUFFICES ASSUME NEW k \in 1..(L + 1)
                   PROVE  \/ broadcast'[k] = version + 1
                          \/ \E j \in 1..L : broadcast'[k] = broadcast[j]
        BY <3>1
      <4>1. k \in 1..L \/ k = L + 1
        BY <3>1
      <4>2. CASE k \in 1..L
        BY <3>1, <4>2
      <4>3. CASE k = L + 1
        BY <1>1, <3>1, <4>3
      <4> QED
        BY <4>1, <4>2, <4>3
    <3> QED
      BY <3>1, <3>3, <3>4, <3>5
  <2>2. CASE UNCHANGED broadcast
    BY <2>2 DEF IInv, TypeOK, OrderInv, QueueIsOrdered
  <2> QED
    BY <2>1, <2>2
<1>5. TypeOK'
  BY <1>1, <1>4 DEF IInv, TypeOK, pageVars, connVars, clientVars
<1>6. \A n \in Nat : n <= version => n <= version + 1
  BY <1>1
<1>7. \A n \in Nat :
         /\ n <= version
         /\ \A j \in 1..L : n <= broadcast[j]
         => \A k \in 1..Len(broadcast') : n <= broadcast'[k]
  BY <1>4, <1>6
<1> HIDE DEF L
<1>8. QueueIsOrdered'
  <2>1. \A k \in 1..Len(broadcast') : broadcast'[k] <= version'
    <3> SUFFICES ASSUME NEW k \in 1..Len(broadcast') PROVE broadcast'[k] <= version + 1
      BY <1>1
    <3>1. CASE broadcast'[k] = version + 1
      BY <1>1, <3>1
    <3>2. ASSUME NEW j \in 1..L, broadcast'[k] = broadcast[j]
          PROVE  broadcast'[k] <= version + 1
      <4>1. broadcast[j] <= version /\ broadcast[j] \in Nat
        BY <1>1 DEF IInv, OrderInv, QueueIsOrdered, L
      <4> QED
        BY <1>6, <3>2, <4>1
    <3> QED
      BY <1>4, <3>1, <3>2
  <2>2. ASSUME NEW p \in sending
        PROVE  p[2] <= version' /\ \A k \in 1..Len(broadcast') : p[2] <= broadcast'[k]
    <3>1. p[2] \in Nat /\ p[2] <= version /\ \A j \in 1..L : p[2] <= broadcast[j]
      BY StatusFacts DEF IInv, OrderInv, QueueIsOrdered, L
    <3> QED
      BY <1>1, <1>6, <1>7, <3>1
  <2> QED
    BY <1>2, <1>4, <2>1, <2>2 DEF QueueIsOrdered
<1>9. BufferIsOrdered'
  <2> SUFFICES ASSUME NEW d \in Conns, NEW k \in 1..Len(send[d])
               PROVE  /\ send[d][k] <= version'
                      /\ \A j \in 1..Len(broadcast') : send[d][k] <= broadcast'[j]
    BY <1>2 DEF IInv, OrderInv, BufferIsOrdered, Ascending
  <2>1. /\ send[d][k] \in Nat /\ send[d][k] <= version
        /\ \A j \in 1..L : send[d][k] <= broadcast[j]
    BY StatusFacts DEF IInv, OrderInv, BufferIsOrdered, L
  <2> QED
    BY <1>1, <1>6, <1>7, <2>1
<1>10. ShownIsOldest'
  <2>1. pushed \in Nat /\ pushed <= version /\ \A j \in 1..L : pushed <= broadcast[j]
    BY StatusFacts DEF IInv, OrderInv, ShownIsOldest, L
  <2>2. pushed <= version' /\ \A k \in 1..Len(broadcast') : pushed <= broadcast'[k]
    BY <1>1, <1>6, <1>7, <2>1
  <2> QED
    BY <1>2, <2>2 DEF IInv, OrderInv, ShownIsOldest
<1> QED
  BY <1>3, <1>5, <1>8, <1>9, <1>10 DEF IInv, OrderInv

-----------------------------------------------------------------------------
(* The specification.                                                      *)

\* The first state.
LEMMA InitIInv == Init => IInv
<1> SUFFICES ASSUME Init PROVE IInv
  OBVIOUS
<1> USE DEF Init
<1>1. TypeOK
  <2>1. 0 \in Versions /\ 0 \in 0..MaxAttempts /\ Len(<<>>) = 0
    BY PanelSocketAssumption DEF Versions
  <2>2. send \in [Conns -> Seq(Versions)] /\ \A c \in Conns : Len(send[c]) <= SendCap
    BY <2>1, PanelSocketAssumption
  <2>3. /\ register \in Seq(Conns) /\ Len(register) <= QueueCap
        /\ unregister \in Seq(Conns) /\ Len(unregister) <= QueueCap
        /\ broadcast \in Seq(Versions) /\ Len(broadcast) <= BroadcastCap
    BY <2>1, PanelSocketAssumption
  <2>4. timers \in Nat /\ polls \in Nat
    OBVIOUS
  <2>5. /\ ready \in [Conns -> {"none", "connecting", "open", "closed"}]
        /\ srv \in [Conns -> {"none", "accepted", "open", "closed"}]
        /\ reader \in [Conns -> {"none", "reading", "leaving", "done"}]
        /\ writer \in [Conns -> {"none", "running", "done"}]
    OBVIOUS
  <2> QED
    BY <2>1, <2>2, <2>3, <2>4, <2>5, Zenon DEF TypeOK
<1>2. PageInv /\ UnopenedIsUnknown
  BY DEF PageInv, OffIsQuiet, LiveIsCurrent, ConnectedIsOpen, ScheduledIsDown,
     NeverStranded, Live, UnopenedIsUnknown
<1>3. HubInv
  BY DEF HubInv, UnregisteredIsUnknown, RegisteredOnce, SendersAgree, HubSendsToOpen
<1>4. OrderInv
  <2>1. Len(broadcast) = 0 /\ \A c \in Conns : Len(send[c]) = 0
    OBVIOUS
  <2>2. 0 <= 0
    OBVIOUS
  <2> QED
    BY <2>1, <2>2 DEF OrderInv, QueueIsOrdered, BufferIsOrdered, ShownIsOldest, Ascending
<1> QED
  BY <1>1, <1>2, <1>3, <1>4 DEF IInv

\* Every step preserves the invariant and shows no older status.
LEMMA NextIInv == IInv /\ [Next]_vars => IInv' /\ (pushed' = pushed \/ pushed' >= pushed)
<1> SUFFICES ASSUME IInv, [Next]_vars
             PROVE  IInv' /\ (pushed' = pushed \/ pushed' >= pushed)
  OBVIOUS
<1>1. CASE Page
  <2>1. pushed' = pushed
    BY <1>1 DEF Page, Mount, TimerFires, PollStops, Unload
  <2> QED
    BY <1>1, <2>1, ConnectStep, PollStopsStep, UnloadStep DEF Page
<1>2. CASE Run
  <2>1. pushed' = pushed
    BY <1>2 DEF Run, RunRegister, RunUnregister, RunBroadcast, RunStops
  <2> QED
    BY <1>2, <2>1, RunRegisterStep, RunUnregisterStep, RunBroadcastStep, StopStep DEF Run
<1>3. CASE Stop \/ refreshStatus
  <2>1. pushed' = pushed
    BY <1>3 DEF Stop, refreshStatus
  <2> QED
    BY <1>3, <2>1, StopStep, RefreshStep
<1>4. ASSUME NEW c \in Conns, Browser(c) PROVE IInv' /\ pushed' = pushed
  <2>1. pushed' = pushed
    BY <1>4 DEF Browser, OnOpen, SocketFails, SocketCloses
  <2> QED
    BY <1>4, <2>1, OnOpenStep, OnCloseStep DEF Browser
<1>5. ASSUME NEW c \in Conns, Pumps(c), ~WriteMessage(c) PROVE IInv' /\ pushed' = pushed
  <2>1. pushed' = pushed
    BY <1>5 DEF Pumps, Accept, Register, ReadFails, ReaderLeaves, WriteFails,
       SendIsClosed, WriterReturns
  <2> QED
    BY <1>5, <2>1, AcceptStep, RegisterStep, ReadFailsStep, ReaderLeavesStep,
       WriterReturnsStep DEF Pumps
<1>6. ASSUME NEW c \in Conns, WriteMessage(c) PROVE IInv' /\ pushed' >= pushed
  BY <1>6, WriteMessageStep
<1>7. ASSUME NEW c \in Conns, Sender(c) PROVE IInv' /\ pushed' = pushed
  <2>1. pushed' = pushed
    BY <1>7 DEF Sender, SendTo, Evict
  <2> QED
    BY <1>7, <2>1, SendToStep, EvictStep DEF Sender
<1>8. CASE UNCHANGED vars
  <2>1. UNCHANGED <<pageVars, pushed, connVars, queueVars, clientVars, hubVars>>
    BY <1>8 DEF vars
  <2>2. TypeOK'
    BY <2>1 DEF IInv, TypeOK, pageVars, connVars, queueVars, clientVars, hubVars
  <2>3. UnopenedIsUnknown' /\ PageInv' /\ OrderInv' /\ HubInv'
    BY <2>1, SocketsUntouched, HubUntouched DEF IInv, UnopenedIsUnknown, pageVars,
       connVars, queueVars, clientVars, hubVars
  <2> QED
    BY <2>1, <2>2, <2>3 DEF IInv
<1> QED
  BY <1>1, <1>2, <1>3, <1>4, <1>5, <1>6, <1>7, <1>8 DEF Next

\* Every reachable state satisfies the inductive invariant.
THEOREM Invariance == Spec => []IInv
BY InitIInv, NextIInv, PTL DEF Spec

\* The types, and no channel ever holds more than its capacity: Register,
\* Unregister, Broadcast and the goroutines of broadcastParallel only send
\* where there is room.
THEOREM TypeCorrect == Spec => []TypeOK
<1>1. IInv => TypeOK
  BY DEF IInv
<1> QED
  BY <1>1, Invariance, PTL

\* A mounted page that ever had a socket is served, about to reconnect, or
\* polls, however often its sockets fail and whichever connect() throws.
THEOREM PagesAreNeverStranded == Spec => []NeverStranded
<1>1. IInv => NeverStranded
  BY DEF IInv, PageInv
<1> QED
  BY <1>1, Invariance, PTL

\* A page has one live socket or one scheduled reconnection, never two of
\* them: onclose is the only place that schedules and connect() is idempotent.
THEOREM SocketsAreSingle == Spec => []OneSocket
<1>1. IInv => OneSocket
  BY DEF IInv, PageInv, LiveIsCurrent, ScheduledIsDown, OneSocket
<1> QED
  BY <1>1, Invariance, PTL

\* The hub never sends to a channel it has closed, in whatever order the
\* registration and the removals of a client are taken.
THEOREM HubSendsOnlyToOpen == Spec => []HubSendsToOpen
<1>1. IInv => HubSendsToOpen
  BY DEF IInv, HubInv
<1> QED
  BY <1>1, Invariance, PTL

\* What the page shows never goes back in time, across reconnections: from the
\* status job through both queues and the writer to the page.
THEOREM PushesStayInOrder == Spec => PushesInOrder
<1>1. IInv /\ [Next]_vars => [pushed' >= pushed]_pushed
  BY NextIInv
<1> QED
  BY <1>1, Invariance, PTL DEF Spec, PushesInOrder
=============================================================================
