------------------------ MODULE ServerSessionsProofs ------------------------
(***************************************************************************)
(* Proofs that the session table of the server keeps its invariants for    *)
(* every number of connections, session ids, stream ids and objects.       *)
(***************************************************************************)
EXTENDS ServerSessions, TLAPS

\* A handler past GetOrCreate holds an allocated object with its hello's id.
HandlerHoldsItsSession ==
    \A c \in Conns :
        pc[c] # "accepted" =>
            /\ obj[c] \in Objs
            /\ hello[c].id \in Ids
            /\ hello[c].stream \in StreamIds
            /\ ident[obj[c]] = hello[c].id

\* An object nobody allocated is untouched.
FreshObject ==
    \A o \in Objs : ident[o] = None => once[o] = "new"

\* sync.Once: the body of Cleanup has at most one executor per object.
OneCleaner ==
    /\ \A c \in Conns : pc[c] \in Cleaning => once[obj[c]] = "running"
    /\ \A c, d \in Conns :
          pc[c] \in Cleaning /\ pc[d] \in Cleaning /\ obj[c] = obj[d] => c = d

\* What the map holds carries the id it is stored under and is not deleted.
MappedSessionIsLive ==
    \A i \in Ids :
        sessions[i] # None =>
            /\ ident[sessions[i]] = i
            /\ once[sessions[i]] # "done"
            /\ \A c \in Conns :
                  obj[c] = sessions[i] => pc[c] \notin {"unregister", "close"}

IInv ==
    /\ TypeOK
    /\ HandlerHoldsItsSession
    /\ FreshObject
    /\ OneCleaner
    /\ MappedSessionIsLive
    /\ LiveSessionIsMapped
    /\ StreamingConnIsRegistered
    /\ TableHoldsJoined
    /\ NoSessionLeak
    /\ UiShowsNoGhost

\* The initial state, with an empty map and every handler before GetOrCreate,
\* satisfies the inductive invariant.
LEMMA InitIInv == Init => IInv
  <1> SUFFICES ASSUME Init PROVE IInv
      OBVIOUS
  <1>1. TypeOK
      BY NoneIsFresh DEF Init, TypeOK, Hello, Points
  <1>2. HandlerHoldsItsSession /\ FreshObject /\ OneCleaner
      BY DEF Init, HandlerHoldsItsSession, FreshObject, OneCleaner, Cleaning
  <1>3. MappedSessionIsLive /\ LiveSessionIsMapped /\ NoSessionLeak
      BY DEF Init, MappedSessionIsLive, LiveSessionIsMapped, NoSessionLeak
  <1>4. StreamingConnIsRegistered /\ TableHoldsJoined /\ UiShowsNoGhost
      BY DEF Init, StreamingConnIsRegistered, TableHoldsJoined, UiShowsNoGhost
  <1> QED BY <1>1, <1>2, <1>3, <1>4 DEF IInv

\* GetOrCreate, whether it finds a session or allocates one, keeps the
\* inductive invariant.
LEMMA GetOrCreateKeepsIInv ==
    ASSUME NEW c \in Conns, NEW i \in Ids, NEW s \in StreamIds,
           IInv, GetOrCreate(c, i, s)
    PROVE  IInv'
  <1> USE NoneIsFresh DEF IInv, TypeOK, Goto
  <1> USE DEF GetOrCreate
  <1>1. TypeOK'
    <2>1. hello' \in [Conns -> Hello] /\ pc' \in [Conns -> Points]
        BY DEF Hello, Points
    <2>2. CASE sessions[i] # None
        BY <2>1, <2>2
    <2>3. CASE sessions[i] = None
        BY <2>1, <2>3
    <2> QED BY <2>2, <2>3
  <1>2. HandlerHoldsItsSession'
      BY <1>1 DEF HandlerHoldsItsSession, MappedSessionIsLive, Hello
  <1>3. FreshObject'
      BY <1>1 DEF FreshObject
  <1>4. OneCleaner'
      BY <1>1 DEF OneCleaner, Cleaning, HandlerHoldsItsSession
  <1>5. MappedSessionIsLive'
      BY <1>1 DEF MappedSessionIsLive, HandlerHoldsItsSession, FreshObject
  <1>6. LiveSessionIsMapped'
      BY <1>1 DEF LiveSessionIsMapped, HandlerHoldsItsSession, FreshObject
  <1>7. StreamingConnIsRegistered'
      BY <1>1 DEF StreamingConnIsRegistered, Hello
  <1>8. TableHoldsJoined'
      BY <1>1 DEF TableHoldsJoined, Joined, streamEntry, Hello
  <1>9. NoSessionLeak'
      BY <1>1 DEF NoSessionLeak, Holding, Joined, HandlerHoldsItsSession
  <1>10. UiShowsNoGhost'
      BY <1>1 DEF UiShowsNoGhost, HandlerHoldsItsSession
  <1> QED BY <1>1, <1>2, <1>3, <1>4, <1>5, <1>6, <1>7, <1>8, <1>9, <1>10

\* A step that only moves a handler from one point of runMuStream to the next
\* (the dial, the reply, the end of the stream) keeps the inductive invariant.
LEMMA MoveKeepsIInv ==
    ASSUME NEW c \in Conns, IInv,
           DialOk(c) \/ DialFail(c) \/ ReplyOk(c) \/ ReplyFail(c) \/ StreamEnds(c)
    PROVE  IInv'
  <1> USE NoneIsFresh DEF IInv, TypeOK, Goto
  <1> USE DEF DialOk, DialFail, ReplyOk, ReplyFail, StreamEnds
  <1>1. TypeOK'
      BY DEF HandlerHoldsItsSession, Points
  <1>2. HandlerHoldsItsSession' /\ FreshObject'
      BY DEF HandlerHoldsItsSession, FreshObject
  <1>3. OneCleaner'
      BY DEF OneCleaner, Cleaning
  <1>4. MappedSessionIsLive' /\ LiveSessionIsMapped'
      BY DEF MappedSessionIsLive, LiveSessionIsMapped
  <1>5. StreamingConnIsRegistered'
      BY DEF StreamingConnIsRegistered
  <1>6. TableHoldsJoined'
      BY DEF TableHoldsJoined, Joined, streamEntry
  <1>7. NoSessionLeak'
      BY DEF NoSessionLeak, Holding, Joined
  <1>8. UiShowsNoGhost'
      BY DEF UiShowsNoGhost
  <1> QED BY <1>1, <1>2, <1>3, <1>4, <1>5, <1>6, <1>7, <1>8

\* AddConn keeps the inductive invariant: what it takes out of the table it
\* closes, and what it puts in is the caller's own entry.
LEMMA AddConnKeepsIInv ==
    ASSUME NEW c \in Conns, IInv, AddConn(c)
    PROVE  IInv'
  <1> USE NoneIsFresh DEF IInv, TypeOK, Goto
  <1> DEFINE o   == obj[c]
             new == [id |-> hello[c].stream, conn |-> c]
             old == {e \in entries[o] : e.id = hello[c].stream}
  <1>1. o \in Objs /\ new \in streamEntry /\ pc[c] = "add"
      BY DEF AddConn, HandlerHoldsItsSession, streamEntry
  <1>2. /\ entries' = [entries EXCEPT ![o] = (@ \ old) \cup {new}]
        /\ open' = open \ {e.conn : e \in old}
        /\ pc' = [pc EXCEPT ![c] = "reply"]
        /\ UNCHANGED <<sessions, ident, once, hello, obj, uiSessions, dialFailed>>
      BY DEF AddConn
  <1>3. TypeOK'
      BY <1>1, <1>2 DEF Points
  <1>4. HandlerHoldsItsSession' /\ FreshObject' /\ OneCleaner'
      BY <1>1, <1>2 DEF HandlerHoldsItsSession, FreshObject, OneCleaner, Cleaning
  <1>5. MappedSessionIsLive' /\ LiveSessionIsMapped'
      BY <1>1, <1>2 DEF MappedSessionIsLive, LiveSessionIsMapped
  <1>6. StreamingConnIsRegistered'
      BY <1>1, <1>2 DEF StreamingConnIsRegistered, streamEntry
  <1>7. TableHoldsJoined'
      BY <1>1, <1>2 DEF TableHoldsJoined, Joined, streamEntry
  <1>8. NoSessionLeak' /\ UiShowsNoGhost'
      BY <1>1, <1>2 DEF NoSessionLeak, Holding, Joined, UiShowsNoGhost
  <1> QED BY <1>3, <1>4, <1>5, <1>6, <1>7, <1>8

\* RemoveConn keeps the inductive invariant: it drops the caller's own entry
\* only, and a handler that leaves others behind leaves someone who will
\* clean up.
LEMMA RemoveConnKeepsIInv ==
    ASSUME NEW c \in Conns, IInv, RemoveConn(c)
    PROVE  IInv'
  <1> USE NoneIsFresh DEF IInv, TypeOK, Goto
  <1> DEFINE o    == obj[c]
             rest == entries[o] \ {[id |-> hello[c].stream, conn |-> c]}
             next == IF rest = {} THEN "cleanup" ELSE "return"
  <1>1. o \in Objs /\ pc[c] = "remove" /\ rest \in SUBSET streamEntry
      BY DEF RemoveConn, HandlerHoldsItsSession
  <1>2. /\ entries' = [entries EXCEPT ![o] = rest]
        /\ pc' = [pc EXCEPT ![c] = next]
        /\ UNCHANGED <<sessions, ident, once, open, hello, obj, uiSessions,
                       dialFailed>>
      BY DEF RemoveConn
  <1>3. next \in {"cleanup", "return"}
      OBVIOUS
  <1> HIDE DEF next
  <1>4. TypeOK'
      BY <1>1, <1>2, <1>3 DEF Points
  <1>5. HandlerHoldsItsSession' /\ FreshObject' /\ OneCleaner'
      BY <1>1, <1>2, <1>3
      DEF HandlerHoldsItsSession, FreshObject, OneCleaner, Cleaning
  <1>6. MappedSessionIsLive' /\ LiveSessionIsMapped'
      BY <1>1, <1>2, <1>3 DEF MappedSessionIsLive, LiveSessionIsMapped
  <1>7. StreamingConnIsRegistered'
      BY <1>1, <1>2, <1>3 DEF StreamingConnIsRegistered
  <1>8. TableHoldsJoined'
      BY <1>1, <1>2, <1>3 DEF TableHoldsJoined, Joined, streamEntry
  <1>9. NoSessionLeak'
    <2> SUFFICES ASSUME NEW i \in Ids, sessions[i] # None,
                        sessions[i] \notin dialFailed
                 PROVE  \E d \in Conns : obj[d] = sessions[i] /\ pc'[d] \in Holding
        BY <1>2 DEF NoSessionLeak
    <2>1. PICK d \in Conns : obj[d] = sessions[i] /\ pc[d] \in Holding
        BY DEF NoSessionLeak
    <2>2. CASE d # c
        BY <1>2, <2>1, <2>2
    <2>3. CASE d = c /\ rest = {}
        BY <1>1, <1>2, <2>1, <2>3 DEF next, Holding
    <2>4. CASE d = c /\ rest # {}
      <3>1. PICK e \in rest : TRUE
          BY <2>4
      <3>2. e.conn \in Conns /\ pc[e.conn] \in Joined /\ obj[e.conn] = o
          BY <1>1, <3>1 DEF TableHoldsJoined, streamEntry
      <3>3. e.conn # c
          BY <1>1, <3>1 DEF TableHoldsJoined, streamEntry
      <3> QED BY <1>2, <2>1, <2>4, <3>2, <3>3 DEF Holding
    <2> QED BY <2>2, <2>3, <2>4
  <1>10. UiShowsNoGhost'
      BY <1>1, <1>2, <1>3 DEF UiShowsNoGhost
  <1> QED BY <1>4, <1>5, <1>6, <1>7, <1>8, <1>9, <1>10

\* Entering cleanupOnce.Do, or passing it by, keeps the inductive invariant.
LEMMA CleanupOnceKeepsIInv ==
    ASSUME NEW c \in Conns, IInv, CleanupBegin(c) \/ CleanupSkip(c)
    PROVE  IInv'
  <1> USE NoneIsFresh DEF IInv, TypeOK, Goto
  <1> USE DEF CleanupBegin, CleanupSkip
  <1>1. TypeOK'
      BY DEF Points
  <1>2. HandlerHoldsItsSession' /\ FreshObject'
      BY DEF HandlerHoldsItsSession, FreshObject
  <1>3. OneCleaner'
      BY DEF OneCleaner, Cleaning, HandlerHoldsItsSession
  <1>4. MappedSessionIsLive'
      BY DEF MappedSessionIsLive, HandlerHoldsItsSession
  <1>5. LiveSessionIsMapped'
      BY DEF LiveSessionIsMapped, OneCleaner, Cleaning, HandlerHoldsItsSession
  <1>6. StreamingConnIsRegistered' /\ TableHoldsJoined'
      BY DEF StreamingConnIsRegistered, TableHoldsJoined, Joined, streamEntry
  <1>7. NoSessionLeak'
      BY DEF NoSessionLeak, Holding, Joined, MappedSessionIsLive
  <1>8. UiShowsNoGhost'
      BY DEF UiShowsNoGhost
  <1> QED BY <1>1, <1>2, <1>3, <1>4, <1>5, <1>6, <1>7, <1>8

\* The body of Cleanup keeps the inductive invariant.  Its delete removes the
\* entry of its own session because no other object with that id is live.
LEMMA CleanupKeepsIInv ==
    ASSUME NEW c \in Conns, IInv, Cleanup(c)
    PROVE  IInv'
  <1> USE NoneIsFresh DEF IInv, TypeOK, Goto
  <1>1. ASSUME CleanupDelete(c) PROVE IInv'
    <2> USE <1>1 DEF CleanupDelete
    <2>1. TypeOK'
        BY DEF Points, HandlerHoldsItsSession
    <2>2. HandlerHoldsItsSession' /\ FreshObject' /\ OneCleaner'
        BY DEF HandlerHoldsItsSession, FreshObject, OneCleaner, Cleaning
    <2>3. MappedSessionIsLive'
        BY DEF MappedSessionIsLive, HandlerHoldsItsSession
    <2>4. sessions[ident[obj[c]]] = obj[c]
        BY DEF LiveSessionIsMapped, OneCleaner, Cleaning, HandlerHoldsItsSession
    <2>5. LiveSessionIsMapped'
        BY <2>4 DEF LiveSessionIsMapped, HandlerHoldsItsSession
    <2>6. StreamingConnIsRegistered' /\ TableHoldsJoined'
        BY DEF StreamingConnIsRegistered, TableHoldsJoined, Joined, streamEntry
    <2>7. NoSessionLeak'
        BY DEF NoSessionLeak, Holding, Joined, MappedSessionIsLive,
               HandlerHoldsItsSession
    <2>8. UiShowsNoGhost'
        BY DEF UiShowsNoGhost, HandlerHoldsItsSession
    <2> QED BY <2>1, <2>2, <2>3, <2>5, <2>6, <2>7, <2>8
  <1>2. ASSUME CleanupUnregister(c) PROVE IInv'
    <2> USE <1>2 DEF CleanupUnregister
    <2>1. TypeOK'
        BY DEF Points
    <2>2. HandlerHoldsItsSession' /\ FreshObject' /\ OneCleaner'
        BY DEF HandlerHoldsItsSession, FreshObject, OneCleaner, Cleaning
    <2>3. MappedSessionIsLive' /\ LiveSessionIsMapped'
        BY DEF MappedSessionIsLive, LiveSessionIsMapped
    <2>4. StreamingConnIsRegistered' /\ TableHoldsJoined'
        BY DEF StreamingConnIsRegistered, TableHoldsJoined, Joined, streamEntry
    <2>5. NoSessionLeak'
        BY DEF NoSessionLeak, Holding, Joined
    <2>6. UiShowsNoGhost'
        BY DEF UiShowsNoGhost
    <2> QED BY <2>1, <2>2, <2>3, <2>4, <2>5, <2>6
  <1>3. ASSUME CleanupClose(c) PROVE IInv'
    <2> USE <1>3 DEF CleanupClose
    <2>1. TypeOK'
        BY DEF Points
    <2>2. HandlerHoldsItsSession' /\ FreshObject' /\ OneCleaner'
        BY DEF HandlerHoldsItsSession, FreshObject, OneCleaner, Cleaning
    <2>3. MappedSessionIsLive' /\ LiveSessionIsMapped'
        BY DEF MappedSessionIsLive, LiveSessionIsMapped, HandlerHoldsItsSession
    <2>4. StreamingConnIsRegistered' /\ TableHoldsJoined'
        BY DEF StreamingConnIsRegistered, TableHoldsJoined, Joined, streamEntry,
               HandlerHoldsItsSession
    <2>5. NoSessionLeak'
        BY DEF NoSessionLeak, Holding, Joined
    <2>6. UiShowsNoGhost'
        BY DEF UiShowsNoGhost
    <2> QED BY <2>1, <2>2, <2>3, <2>4, <2>5, <2>6
  <1> QED BY <1>1, <1>2, <1>3 DEF Cleanup

\* The return of a handler, which closes its connection, keeps the inductive
\* invariant.
LEMMA ReturnKeepsIInv ==
    ASSUME NEW c \in Conns, IInv, Return(c)
    PROVE  IInv'
  <1> USE NoneIsFresh DEF IInv, TypeOK, Goto, Return
  <1>1. TypeOK'
      BY DEF Points
  <1>2. HandlerHoldsItsSession' /\ FreshObject' /\ OneCleaner'
      BY DEF HandlerHoldsItsSession, FreshObject, OneCleaner, Cleaning
  <1>3. MappedSessionIsLive' /\ LiveSessionIsMapped'
      BY DEF MappedSessionIsLive, LiveSessionIsMapped
  <1>4. StreamingConnIsRegistered' /\ TableHoldsJoined'
      BY DEF StreamingConnIsRegistered, TableHoldsJoined, Joined, streamEntry
  <1>5. NoSessionLeak' /\ UiShowsNoGhost'
      BY DEF NoSessionLeak, Holding, Joined, UiShowsNoGhost
  <1> QED BY <1>1, <1>2, <1>3, <1>4, <1>5

\* Every step of every handler keeps the inductive invariant.
LEMMA NextIInv == IInv /\ [Next]_vars => IInv'
  <1> SUFFICES ASSUME IInv, [Next]_vars PROVE IInv'
      OBVIOUS
  <1>1. CASE UNCHANGED vars
      BY <1>1 DEF vars, IInv, TypeOK, HandlerHoldsItsSession, FreshObject,
         OneCleaner, MappedSessionIsLive, LiveSessionIsMapped,
         StreamingConnIsRegistered, TableHoldsJoined, NoSessionLeak, UiShowsNoGhost
  <1>2. ASSUME NEW c \in Conns, runMuStream(c) PROVE IInv'
      BY <1>2, GetOrCreateKeepsIInv, MoveKeepsIInv, AddConnKeepsIInv,
         RemoveConnKeepsIInv, CleanupOnceKeepsIInv, CleanupKeepsIInv,
         ReturnKeepsIInv
      DEF runMuStream, Join, Leave
  <1> QED BY <1>1, <1>2 DEF Next, Terminated

\* The variables of the session table keep their types.
THEOREM TypeCorrect == Spec => []TypeOK
  <1>1. IInv => TypeOK
      BY DEF IInv
  <1> QED BY InitIInv, NextIInv, <1>1, PTL DEF Spec

\* Whatever handlers do, and in whatever order, GetOrCreate and Cleanup keep
\* at most one live session per id, the one the map holds.
THEOREM LiveSessionsAreMapped == Spec => []LiveSessionIsMapped
  <1>1. IInv => LiveSessionIsMapped
      BY DEF IInv
  <1> QED BY InitIInv, NextIInv, <1>1, PTL DEF Spec

\* An open connection that is forwarded is always in its session's table, and
\* the table holds nothing else.
THEOREM TablesAreExact == Spec => []TableIsExact
  <1>1. IInv => TableIsExact
      BY DEF IInv, TableIsExact
  <1> QED BY InitIInv, NextIInv, <1>1, PTL DEF Spec

\* A session outlives its handlers in the map only after a failed dial.
THEOREM SessionsDoNotLeak == Spec => []NoSessionLeak
  <1>1. IInv => NoSessionLeak
      BY DEF IInv
  <1> QED BY InitIInv, NextIInv, <1>1, PTL DEF Spec

\* The TUI's session list never keeps a session whose Cleanup has passed.
THEOREM UiHasNoGhosts == Spec => []UiShowsNoGhost
  <1>1. IInv => UiShowsNoGhost
      BY DEF IInv
  <1> QED BY InitIInv, NextIInv, <1>1, PTL DEF Spec

-----------------------------------------------------------------------------
(* Refinement.                                                             *)

\* A table of distinct stream ids, as TableHoldsJoined describes it.
OnePerStream(E) == \A e, f \in E : e.id = f.id => e = f

\* What slotOf reads off such a table.
LEMMA SlotOf ==
    ASSUME NEW E \in SUBSET streamEntry, OnePerStream(E), NEW s \in StreamIds
    PROVE  /\ \A e \in E : e.id = s => slotOf(E, s) = e.conn
           /\ (\A e \in E : e.id # s) => slotOf(E, s) = None
  <1>1. ASSUME NEW e \in E, e.id = s PROVE slotOf(E, s) = e.conn
    <2>1. (CHOOSE f \in E : f.id = s) \in E /\ (CHOOSE f \in E : f.id = s).id = s
        BY <1>1
    <2>2. (CHOOSE f \in E : f.id = s) = e
        BY <1>1, <2>1 DEF OnePerStream
    <2> QED BY <1>1, <2>2 DEF slotOf
  <1>2. ASSUME \A e \in E : e.id # s PROVE slotOf(E, s) = None
      BY <1>2 DEF slotOf
  <1> QED BY <1>1, <1>2

\* Two tables that agree on a stream id have the same slot for it.
LEMMA SameSlot ==
    ASSUME NEW E \in SUBSET streamEntry, OnePerStream(E),
           NEW F \in SUBSET streamEntry, OnePerStream(F), NEW s \in StreamIds,
           \A e \in streamEntry : e.id = s => (e \in E <=> e \in F)
    PROVE  slotOf(E, s) = slotOf(F, s)
  <1>1. CASE \E e \in E : e.id = s
    <2>1. PICK e \in E : e.id = s
        BY <1>1
    <2>2. e \in F
        BY <2>1
    <2> QED BY <2>1, <2>2, SlotOf
  <1>2. CASE \A e \in E : e.id # s
    <2>1. \A e \in F : e.id # s
        BY <1>2
    <2> QED BY <1>2, <2>1, SlotOf
  <1> QED BY <1>1, <1>2

\* The slots of exact tables are connections or empty.
LEMMA SlotsType ==
    ASSUME NEW T \in [Objs -> SUBSET streamEntry],
           \A o \in Objs : OnePerStream(T[o])
    PROVE  [o \in Objs |-> [s \in StreamIds |-> slotOf(T[o], s)]]
               \in [Objs -> [StreamIds -> Conns \cup {None}]]
  <1>1. ASSUME NEW o \in Objs, NEW s \in StreamIds
        PROVE  slotOf(T[o], s) \in Conns \cup {None}
    <2>1. CASE \E e \in T[o] : e.id = s
      <3>1. PICK e \in T[o] : e.id = s
          BY <2>1
      <3>2. e.conn \in Conns
          BY <3>1 DEF streamEntry
      <3> QED BY <3>1, <3>2, SlotOf
    <2>2. CASE \A e \in T[o] : e.id # s
        BY <2>2, SlotOf
    <2> QED BY <2>1, <2>2
  <1> QED BY <1>1

\* A function of two arguments that differs from another in one place.
LEMMA OnePlace ==
    ASSUME NEW V, NEW X \in [Objs -> [StreamIds -> V]],
           NEW Y \in [Objs -> [StreamIds -> V]],
           NEW o \in Objs, NEW s \in StreamIds,
           \A p \in Objs, t \in StreamIds : p # o \/ t # s => Y[p][t] = X[p][t]
    PROVE  Y = [X EXCEPT ![o][s] = Y[o][s]]
  <1> DEFINE Z == [X EXCEPT ![o][s] = Y[o][s]]
  <1>1. Z \in [Objs -> [StreamIds -> V]]
      OBVIOUS
  <1>2. ASSUME NEW p \in Objs PROVE Y[p] = Z[p]
    <2>1. \A t \in StreamIds : Y[p][t] = Z[p][t]
        OBVIOUS
    <2>2. Y[p] \in [StreamIds -> V] /\ Z[p] \in [StreamIds -> V]
        BY <1>1
    <2> HIDE DEF Z
    <2> QED BY <2>1, <2>2
  <1> HIDE DEF Z
  <1>3. Y = Z
      BY <1>1, <1>2
  <1> QED BY <1>3 DEF Z

\* AddConn attaches the handler's connection to its stream.
LEMMA AddConnAttaches ==
    ASSUME NEW c \in Conns, IInv, IInv', AddConn(c)
    PROVE  Registry!Attach(obj[c], hello[c].stream, c)
  <1> USE NoneIsFresh DEF IInv, TypeOK
  <1> DEFINE o   == obj[c]
             st  == hello[c].stream
             new == [id |-> st, conn |-> c]
             old == {e \in entries[o] : e.id = st}
  <1>1. o \in Objs /\ st \in StreamIds /\ new \in streamEntry /\ ident[o] # None
      BY DEF AddConn, HandlerHoldsItsSession, streamEntry
  <1>2. /\ entries' = [entries EXCEPT ![o] = (@ \ old) \cup {new}]
        /\ UNCHANGED <<sessions, ident>> /\ pc[c] = "add"
      BY DEF AddConn
  <1>3. \A p \in Objs : /\ entries[p] \in SUBSET streamEntry
                        /\ entries'[p] \in SUBSET streamEntry
                        /\ OnePerStream(entries[p]) /\ OnePerStream(entries'[p])
      BY DEF TableHoldsJoined, OnePerStream
  <1>4. ASSUME NEW p \in Objs, NEW t \in StreamIds PROVE slots[p][t] # c
    <2>1. slots[p][t] = slotOf(entries[p], t)
        BY DEF slots
    <2>2. CASE \E e \in entries[p] : e.id = t
      <3>1. PICK e \in entries[p] : e.id = t
          BY <2>2
      <3>2. pc[e.conn] \in Joined
          BY <3>1 DEF TableHoldsJoined
      <3>3. slotOf(entries[p], t) = e.conn
          BY <1>3, <3>1, SlotOf
      <3> QED BY <1>2, <2>1, <3>2, <3>3 DEF Joined
    <2>3. CASE \A e \in entries[p] : e.id # t
      <3>1. slotOf(entries[p], t) = None
          BY <1>3, <2>3, SlotOf
      <3> QED BY <2>1, <3>1
    <2> QED BY <2>2, <2>3
  <1>5. slots' = [slots EXCEPT ![o][st] = c]
    <2>1. slotOf(entries'[o], st) = c
      <3>1. new \in entries'[o] /\ new.id = st /\ new.conn = c
          BY <1>1, <1>2
      <3> QED BY <1>1, <1>3, <3>1, SlotOf
    <2>2. ASSUME NEW p \in Objs, NEW t \in StreamIds, p # o \/ t # st
          PROVE  slotOf(entries'[p], t) = slotOf(entries[p], t)
      <3>1. \A e \in streamEntry : e.id = t => (e \in entries'[p] <=> e \in entries[p])
          BY <1>1, <1>2, <2>2
      <3> QED BY <1>3, <3>1, SameSlot
    <2>3. /\ slots \in [Objs -> [StreamIds -> Conns \cup {None}]]
          /\ slots' \in [Objs -> [StreamIds -> Conns \cup {None}]]
        BY <1>3, SlotsType DEF slots
    <2>4. /\ slots'[o][st] = c
          /\ \A p \in Objs, t \in StreamIds : p # o \/ t # st => slots'[p][t] = slots[p][t]
        BY <1>1, <2>1, <2>2 DEF slots
    <2> HIDE DEF o, st
    <2> QED BY <1>1, <2>3, <2>4, OnePlace
  <1> QED BY <1>1, <1>2, <1>4, <1>5 DEF Registry!Attach

\* RemoveConn detaches the handler's stream, or finds it replaced or swept.
LEMMA RemoveConnDetaches ==
    ASSUME NEW c \in Conns, IInv, IInv', RemoveConn(c)
    PROVE  \/ Registry!Detach(obj[c], hello[c].stream)
           \/ UNCHANGED <<sessions, ident, slots>>
  <1> USE NoneIsFresh DEF IInv, TypeOK
  <1> DEFINE o   == obj[c]
             st  == hello[c].stream
             own == [id |-> st, conn |-> c]
  <1>1. o \in Objs /\ st \in StreamIds /\ own \in streamEntry
      BY DEF RemoveConn, HandlerHoldsItsSession, streamEntry
  <1>2. entries' = [entries EXCEPT ![o] = @ \ {own}] /\ UNCHANGED <<sessions, ident>>
      BY DEF RemoveConn
  <1>3. \A p \in Objs : /\ entries[p] \in SUBSET streamEntry
                        /\ entries'[p] \in SUBSET streamEntry
                        /\ OnePerStream(entries[p]) /\ OnePerStream(entries'[p])
      BY DEF TableHoldsJoined, OnePerStream
  <1>4. CASE own \notin entries[o]
    <2>1. entries' = entries
        BY <1>1, <1>2, <1>4
    <2>2. slots' = slots
        BY <2>1 DEF slots
    <2> QED BY <1>2, <2>2
  <1>5. CASE own \in entries[o]
    <2>1. slotOf(entries[o], st) = c
        BY <1>1, <1>3, <1>5, SlotOf
    <2>2. slotOf(entries'[o], st) = None
      <3>1. \A e \in entries'[o] : e.id # st
          BY <1>1, <1>2, <1>3, <1>5 DEF OnePerStream
      <3> QED BY <1>1, <1>3, <3>1, SlotOf
    <2>3. ASSUME NEW p \in Objs, NEW t \in StreamIds, p # o \/ t # st
          PROVE  slotOf(entries'[p], t) = slotOf(entries[p], t)
      <3>1. \A e \in streamEntry : e.id = t => (e \in entries'[p] <=> e \in entries[p])
          BY <1>1, <1>2, <2>3
      <3> QED BY <1>3, <3>1, SameSlot
    <2>4. slots' = [slots EXCEPT ![o][st] = None]
      <3>1. /\ slots \in [Objs -> [StreamIds -> Conns \cup {None}]]
            /\ slots' \in [Objs -> [StreamIds -> Conns \cup {None}]]
          BY <1>3, SlotsType DEF slots
      <3>2. /\ slots'[o][st] = None
            /\ \A p \in Objs, t \in StreamIds :
                  p # o \/ t # st => slots'[p][t] = slots[p][t]
          BY <1>1, <2>2, <2>3 DEF slots
      <3> HIDE DEF o, st
      <3> QED BY <1>1, <3>1, <3>2, OnePlace
    <2>5. slots[o][st] # None
        BY <1>1, <2>1 DEF slots
    <2> QED BY <1>2, <2>4, <2>5 DEF Registry!Detach
  <1> QED BY <1>4, <1>5

\* The last stage of Cleanup sweeps a session that is no longer the current one.
LEMMA CleanupCloseSweeps ==
    ASSUME NEW c \in Conns, IInv, IInv', CleanupClose(c)
    PROVE  Registry!Sweep(obj[c])
  <1> USE NoneIsFresh DEF IInv, TypeOK
  <1> DEFINE o == obj[c]
  <1>1. o \in Objs /\ ident[o] # None /\ ident[o] \in Ids
      BY DEF CleanupClose, HandlerHoldsItsSession
  <1>2. sessions[ident[o]] # o
      BY <1>1 DEF CleanupClose, MappedSessionIsLive
  <1>3. entries' = [entries EXCEPT ![o] = {}] /\ UNCHANGED <<sessions, ident>>
      BY DEF CleanupClose
  <1>4. \A s \in StreamIds : slotOf({}, s) = None
      BY DEF slotOf
  <1>5. slots' = [slots EXCEPT ![o] = [s \in StreamIds |-> None]]
    <2>1. slots'[o] = [s \in StreamIds |-> None]
        BY <1>1, <1>3, <1>4 DEF slots
    <2>2. \A p \in Objs : p # o => slots'[p] = slots[p]
        BY <1>1, <1>3 DEF slots
    <2>3. slots = [p \in Objs |-> slots[p]] /\ slots' = [p \in Objs |-> slots'[p]]
        BY DEF slots
    <2> HIDE DEF o
    <2> QED BY <1>1, <2>1, <2>2, <2>3
  <1> QED BY <1>1, <1>2, <1>3, <1>5 DEF Registry!Sweep

\* The other steps of a handler create a session, retire one, or leave the
\* table alone.
LEMMA OtherStepsMap ==
    ASSUME NEW c \in Conns, IInv, runMuStream(c),
           ~AddConn(c), ~RemoveConn(c), ~CleanupClose(c)
    PROVE  \/ \E o \in Objs : (\E i \in Ids : Registry!Create(i, o)) \/ Registry!Retire(o)
           \/ UNCHANGED <<sessions, ident, slots>>
  <1> USE NoneIsFresh DEF IInv, TypeOK
  <1>1. entries' = entries
      BY DEF runMuStream, Join, GetOrCreate, DialOk, DialFail, ReplyOk, ReplyFail,
             StreamEnds, Leave, CleanupBegin, CleanupSkip, Cleanup, CleanupDelete,
             CleanupUnregister, Return
  <1>2. slots' = slots
      BY <1>1 DEF slots
  <1>3. ASSUME NEW i \in Ids, NEW s \in StreamIds, GetOrCreate(c, i, s)
        PROVE  \/ \E o \in Objs : Registry!Create(i, o)
               \/ UNCHANGED <<sessions, ident, slots>>
      BY <1>2, <1>3 DEF GetOrCreate, Registry!Create
  <1>4. ASSUME CleanupDelete(c) PROVE Registry!Retire(obj[c]) /\ obj[c] \in Objs
    <2>1. obj[c] \in Objs /\ ident[obj[c]] # None
        BY <1>4 DEF CleanupDelete, HandlerHoldsItsSession
    <2>2. sessions[ident[obj[c]]] = obj[c]
        BY <1>4, <2>1
        DEF CleanupDelete, LiveSessionIsMapped, OneCleaner, Cleaning,
            HandlerHoldsItsSession
    <2> QED BY <1>2, <1>4, <2>1, <2>2 DEF CleanupDelete, Registry!Retire
  <1>5. CASE ~(\E i \in Ids, s \in StreamIds : GetOrCreate(c, i, s)) /\ ~CleanupDelete(c)
    <2>1. UNCHANGED <<sessions, ident>>
        BY <1>5 DEF runMuStream, Join, DialOk, DialFail, ReplyOk, ReplyFail,
             StreamEnds, Leave, CleanupBegin, CleanupSkip, Cleanup,
             CleanupUnregister, Return
    <2> QED BY <1>2, <2>1
  <1> QED BY <1>3, <1>4, <1>5

\* Every step of the handlers is a step of the registry or leaves it alone.
LEMMA StepsMap ==
    ASSUME IInv, IInv', [Next]_vars
    PROVE  [Registry!Next]_<<sessions, ident, slots>>
  <1>1. CASE UNCHANGED vars
      BY <1>1 DEF vars, slots
  <1>2. ASSUME NEW c \in Conns, runMuStream(c)
        PROVE  [Registry!Next]_<<sessions, ident, slots>>
    <2>1. pc[c] # "accepted" => obj[c] \in Objs /\ hello[c].stream \in StreamIds
        BY DEF IInv, HandlerHoldsItsSession
    <2>2. CASE AddConn(c)
        BY <2>1, <2>2, AddConnAttaches DEF AddConn, Registry!Next
    <2>3. CASE RemoveConn(c)
        BY <2>1, <2>3, RemoveConnDetaches DEF RemoveConn, Registry!Next
    <2>4. CASE CleanupClose(c)
        BY <2>1, <2>4, CleanupCloseSweeps DEF CleanupClose, Registry!Next
    <2>5. CASE ~AddConn(c) /\ ~RemoveConn(c) /\ ~CleanupClose(c)
        BY <1>2, <2>5, OtherStepsMap DEF Registry!Next
    <2> QED BY <2>2, <2>3, <2>4, <2>5
  <1> QED BY <1>1, <1>2 DEF Next, Terminated

\* The handlers of the server, interleaved in every way, implement the
\* registry of sessions: ids, objects, stream ids and connections in any number.
THEOREM HandlersImplementRegistry == Spec => ImplementsRegistry
  <1>1. Init => Registry!Init
    <2>1. \A s \in StreamIds : slotOf({}, s) = None
        BY DEF slotOf
    <2> QED BY <2>1 DEF Init, Registry!Init, slots
  <1>2. IInv /\ IInv' /\ [Next]_vars => [Registry!Next]_<<sessions, ident, slots>>
      BY StepsMap
  <1> QED BY InitIInv, NextIInv, <1>1, <1>2, PTL
          DEF Spec, ImplementsRegistry, Registry!Spec
=============================================================================
