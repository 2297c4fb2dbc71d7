--------------------------- MODULE ServerSessions ---------------------------
(***************************************************************************)
(* The session table of the vk-turn-proxy server                           *)
(* (vk-turn-proxy/server/main.go: SessionManager, UserSession and          *)
(* runMuStream).  A client multiplexes one session over several DTLS       *)
(* connections; every connection has a handler goroutine of its own that   *)
(* joins the session named in the client's hello, forwards datagrams, and  *)
(* leaves.  The last handler to leave cleans the session up.               *)
(*                                                                         *)
(* Each critical section of SessionManager.Lock or UserSession.Lock is one *)
(* step; everything between two critical sections may be interleaved with  *)
(* any step of any other handler.                                          *)
(***************************************************************************)
EXTENDS FiniteSets

CONSTANTS
    Conns,      \* DTLS connections whose hello selected the mu data path
    Ids,        \* hex encoded session ids found in a ClientHello
    StreamIds,  \* values of byte(hello.GetStreamId())
    Objs,       \* addresses of UserSession objects
    None        \* nil, an absent map entry or an id not chosen yet

ASSUME NoneIsFresh == None \notin Ids \cup Objs \cup StreamIds \cup Conns

VARIABLES
    sessions,   \* SessionManager.Sessions: Ids -> *UserSession or None
    ident,      \* UserSession.ID of every object, None before it is allocated
    entries,    \* UserSession.Conns of every object, a set of streamEntry
    once,       \* UserSession.cleanupOnce of every object
    open,       \* connections the server has not closed
    hello,      \* session and stream id the connection's client asked for
    obj,        \* the *UserSession a handler got from GetOrCreate
    pc,         \* the point a handler has reached in runMuStream
    uiSessions, \* serverTUI.sessions
    dialFailed  \* history: objects on which a handler's net.Dial failed

vars == <<sessions, ident, entries, once, open, hello, obj, pc, uiSessions,
          dialFailed>>

-----------------------------------------------------------------------------
Hello == [id : Ids \cup {None}, stream : StreamIds \cup {None}]

streamEntry == [id : StreamIds, conn : Conns]

Points == {"accepted", "dial", "add", "reply", "stream", "remove",
           "cleanup", "delete", "unregister", "close", "return", "done"}

\* A handler that has called AddConn and not yet RemoveConn.
Joined == {"reply", "stream", "remove"}

\* A handler inside the function passed to cleanupOnce.Do.
Cleaning == {"delete", "unregister", "close"}

\* Points at which a handler holds a session it will still leave or tear down.
Holding == {"dial", "add", "cleanup", "delete"} \cup Joined

TypeOK ==
    /\ sessions \in [Ids -> Objs \cup {None}]
    /\ ident \in [Objs -> Ids \cup {None}]
    /\ entries \in [Objs -> SUBSET streamEntry]
    /\ once \in [Objs -> {"new", "running", "done"}]
    /\ open \in SUBSET Conns
    /\ hello \in [Conns -> Hello]
    /\ obj \in [Conns -> Objs \cup {None}]
    /\ pc \in [Conns -> Points]
    /\ uiSessions \in SUBSET Ids
    /\ dialFailed \in SUBSET Objs

Init ==
    /\ sessions = [i \in Ids |-> None]
    /\ ident = [o \in Objs |-> None]
    /\ entries = [o \in Objs |-> {}]
    /\ once = [o \in Objs |-> "new"]
    /\ open = Conns
    /\ hello = [c \in Conns |-> [id |-> None, stream |-> None]]
    /\ obj = [c \in Conns |-> None]
    /\ pc = [c \in Conns |-> "accepted"]
    /\ uiSessions = {}
    /\ dialFailed = {}

Goto(c, p) == pc' = [pc EXCEPT ![c] = p]

-----------------------------------------------------------------------------
(* Joining a session.                                                      *)

\* Mutant: the lookup under the lock is missing, every caller creates.
GetOrCreateNoLookup(c, i, s) ==
    /\ pc[c] = "accepted"
    /\ hello' = [hello EXCEPT ![c] = [id |-> i, stream |-> s]]
    /\ \E o \in {p \in Objs : ident[p] = None} :
          /\ ident' = [ident EXCEPT ![o] = i]
          /\ sessions' = [sessions EXCEPT ![i] = o]
          /\ obj' = [obj EXCEPT ![c] = o]
    /\ uiSessions' = uiSessions \cup {i}
    /\ Goto(c, "dial")
    /\ UNCHANGED <<entries, once, open, dialFailed>>

\* Mutant: the stream id of the hello gets lost.
GetOrCreateNoStream(c, i, s) ==
    /\ pc[c] = "accepted"
    /\ hello' = [hello EXCEPT ![c].id = i]
    /\ sessions[i] = None
    /\ \E o \in {p \in Objs : ident[p] = None} :
          /\ ident' = [ident EXCEPT ![o] = i]
          /\ sessions' = [sessions EXCEPT ![i] = o]
          /\ obj' = [obj EXCEPT ![c] = o]
    /\ uiSessions' = uiSessions \cup {i}
    /\ Goto(c, "dial")
    /\ UNCHANGED <<entries, once, open, dialFailed>>

\* SessionManager.GetOrCreate, called with the ids of the client's hello.
GetOrCreate(c, i, s) ==
    /\ pc[c] = "accepted"
    /\ hello' = [hello EXCEPT ![c] = [id |-> i, stream |-> s]]
    /\ \/ /\ sessions[i] # None
          /\ obj' = [obj EXCEPT ![c] = sessions[i]]
          /\ UNCHANGED <<sessions, ident, uiSessions>>
       \/ /\ sessions[i] = None
          /\ \E o \in {p \in Objs : ident[p] = None} :
                /\ ident' = [ident EXCEPT ![o] = i]
                /\ sessions' = [sessions EXCEPT ![i] = o]
                /\ obj' = [obj EXCEPT ![c] = o]
          /\ uiSessions' = uiSessions \cup {i}
    /\ Goto(c, "dial")
    /\ UNCHANGED <<entries, once, open, dialFailed>>

\* net.Dial of the UDP backend; an error returns before AddConn, and nothing
\* gives the session back.
DialOk(c) ==
    /\ pc[c] = "dial"
    /\ Goto(c, "add")
    /\ UNCHANGED <<sessions, ident, entries, once, open, hello, obj,
                   uiSessions, dialFailed>>

DialFail(c) ==
    /\ pc[c] = "dial"
    /\ Goto(c, "return")
    /\ dialFailed' = dialFailed \cup {obj[c]}
    /\ UNCHANGED <<sessions, ident, entries, once, open, hello, obj,
                   uiSessions>>

\* UserSession.AddConn: an entry with the same stream id is replaced, and the
\* connection it held is closed.
AddConn(c) ==
    /\ pc[c] = "add"
    /\ LET o   == obj[c]
           old == {e \in entries[o] : e.id = hello[c].stream}
       IN  /\ entries' = [entries EXCEPT
                 ![o] = (@ \ old) \cup {[id |-> hello[c].stream, conn |-> c]}]
           /\ open' = open \ {e.conn : e \in old}
    /\ Goto(c, "reply")
    /\ UNCHANGED <<sessions, ident, once, hello, obj, uiSessions, dialFailed>>

\* writeMuxSessionHelloResponse: a write on a closed connection fails, on an
\* open one it may.
ReplyOk(c) ==
    /\ pc[c] = "reply"
    /\ c \in open
    /\ Goto(c, "stream")
    /\ UNCHANGED <<sessions, ident, entries, once, open, hello, obj,
                   uiSessions, dialFailed>>

ReplyFail(c) ==
    /\ pc[c] = "reply"
    /\ Goto(c, "remove")
    /\ UNCHANGED <<sessions, ident, entries, once, open, hello, obj,
                   uiSessions, dialFailed>>

\* Both forwarding goroutines have ended: the client went away, a deadline
\* passed, the backend failed, the server shuts down, or the connection was
\* closed under them.
StreamEnds(c) ==
    /\ pc[c] = "stream"
    /\ Goto(c, "remove")
    /\ UNCHANGED <<sessions, ident, entries, once, open, hello, obj,
                   uiSessions, dialFailed>>

-----------------------------------------------------------------------------
(* Leaving a session.                                                      *)

\* Mutant: the entry is matched by stream id alone.
RemoveConnById(c) ==
    /\ pc[c] = "remove"
    /\ LET o    == obj[c]
           rest == {e \in entries[o] : e.id # hello[c].stream}
       IN  /\ entries' = [entries EXCEPT ![o] = rest]
           /\ Goto(c, IF rest = {} THEN "cleanup" ELSE "return")
    /\ UNCHANGED <<sessions, ident, once, open, hello, obj, uiSessions,
                   dialFailed>>

\* Mutant: the session is never found empty.
RemoveConnKeep(c) ==
    /\ pc[c] = "remove"
    /\ entries' = [entries EXCEPT
             ![obj[c]] = @ \ {[id |-> hello[c].stream, conn |-> c]}]
    /\ Goto(c, "return")
    /\ UNCHANGED <<sessions, ident, once, open, hello, obj, uiSessions,
                   dialFailed>>

\* The critical section of UserSession.RemoveConn.  shouldCleanup is decided
\* here and acted on after the lock has been released.
RemoveConn(c) ==
    /\ pc[c] = "remove"
    /\ LET o    == obj[c]
           rest == entries[o] \ {[id |-> hello[c].stream, conn |-> c]}
       IN  /\ entries' = [entries EXCEPT ![o] = rest]
           /\ Goto(c, IF rest = {} THEN "cleanup" ELSE "return")
    /\ UNCHANGED <<sessions, ident, once, open, hello, obj, uiSessions,
                   dialFailed>>

\* Cleanup: cleanupOnce.Do lets the first caller in.  Its s.Cancel() ends a
\* context that no handler derives its own from.
CleanupBegin(c) ==
    /\ pc[c] = "cleanup"
    /\ once[obj[c]] = "new"
    /\ once' = [once EXCEPT ![obj[c]] = "running"]
    /\ Goto(c, "delete")
    /\ UNCHANGED <<sessions, ident, entries, open, hello, obj, uiSessions,
                   dialFailed>>

\* A later caller of cleanupOnce.Do waits for the first and does nothing.
CleanupSkip(c) ==
    /\ pc[c] = "cleanup"
    /\ once[obj[c]] = "done"
    /\ Goto(c, "return")
    /\ UNCHANGED <<sessions, ident, entries, once, open, hello, obj,
                   uiSessions, dialFailed>>

\* delete(s.Manager.Sessions, s.ID), whatever object the id maps to.
CleanupDelete(c) ==
    /\ pc[c] = "delete"
    /\ sessions' = [sessions EXCEPT ![ident[obj[c]]] = None]
    /\ Goto(c, "unregister")
    /\ UNCHANGED <<ident, entries, once, open, hello, obj, uiSessions,
                   dialFailed>>

\* Mutant: the TUI row is left behind.
CleanupForgetUi(c) ==
    /\ pc[c] = "unregister"
    /\ Goto(c, "close")
    /\ UNCHANGED <<sessions, ident, entries, once, open, hello, obj,
                   uiSessions, dialFailed>>

\* serverUI.unregisterSession(s.ID), outside Manager.Lock.
CleanupUnregister(c) ==
    /\ pc[c] = "unregister"
    /\ uiSessions' = uiSessions \ {ident[obj[c]]}
    /\ Goto(c, "close")
    /\ UNCHANGED <<sessions, ident, entries, once, open, hello, obj,
                   dialFailed>>

\* Mutant: cleanupOnce is never released.
CleanupCloseStuck(c) ==
    /\ pc[c] = "close"
    /\ open' = open \ {e.conn : e \in entries[obj[c]]}
    /\ entries' = [entries EXCEPT ![obj[c]] = {}]
    /\ Goto(c, "return")
    /\ UNCHANGED <<sessions, ident, once, hello, obj, uiSessions, dialFailed>>

\* The last critical section of Cleanup: every connection still in the table
\* is closed and the table emptied.
CleanupClose(c) ==
    /\ pc[c] = "close"
    /\ open' = open \ {e.conn : e \in entries[obj[c]]}
    /\ entries' = [entries EXCEPT ![obj[c]] = {}]
    /\ once' = [once EXCEPT ![obj[c]] = "done"]
    /\ Goto(c, "return")
    /\ UNCHANGED <<sessions, ident, hello, obj, uiSessions, dialFailed>>

\* handleConnection returns; the accept loop's goroutine closes the connection.
Return(c) ==
    /\ pc[c] = "return"
    /\ open' = open \ {c}
    /\ Goto(c, "done")
    /\ UNCHANGED <<sessions, ident, entries, once, hello, obj, uiSessions,
                   dialFailed>>

-----------------------------------------------------------------------------
Join(c)    == \E i \in Ids, s \in StreamIds : GetOrCreate(c, i, s)
Leave(c)   == RemoveConn(c) \/ CleanupBegin(c) \/ CleanupSkip(c)
Cleanup(c) == CleanupDelete(c) \/ CleanupUnregister(c) \/ CleanupClose(c)

runMuStream(c) ==
    \/ Join(c) \/ DialOk(c) \/ DialFail(c) \/ AddConn(c)
    \/ ReplyOk(c) \/ ReplyFail(c) \/ StreamEnds(c)
    \/ Leave(c) \/ Cleanup(c) \/ Return(c)

Terminated == (\A c \in Conns : pc[c] = "done") /\ UNCHANGED vars

Next == (\E c \in Conns : runMuStream(c)) \/ Terminated

Spec == Init /\ [][Next]_vars

\* A goroutine that can run does.  A client may stay connected for ever, so
\* the end of a stream is certain only once its connection has been closed.
Fairness ==
    \A c \in Conns :
        /\ WF_vars(Leave(c) \/ Cleanup(c) \/ Return(c))
        /\ WF_vars(DialOk(c) \/ DialFail(c) \/ AddConn(c) \/ ReplyOk(c) \/ ReplyFail(c))
        /\ WF_vars(StreamEnds(c) /\ c \notin open)

FairSpec == Spec /\ Fairness

-----------------------------------------------------------------------------
(* Properties.                                                             *)

\* Until its Cleanup deletes it, a session object is the one its id maps to:
\* GetOrCreate never creates a second one beside it, and the unconditional
\* delete in Cleanup never removes the entry of a different session.
LiveSessionIsMapped ==
    \A o \in Objs :
        (/\ ident[o] # None
         /\ once[o] # "done"
         /\ \A c \in Conns : obj[c] = o => pc[c] \notin {"unregister", "close"})
        => sessions[ident[o]] = o

\* Every open connection that is being forwarded is in the table of its
\* session, under its own stream id: neither a late RemoveConn of a handler it
\* replaced nor a Cleanup running beside it drops it silently.
StreamingConnIsRegistered ==
    \A c \in Conns :
        pc[c] \in {"reply", "stream"} /\ c \in open
        => [id |-> hello[c].stream, conn |-> c] \in entries[obj[c]]

\* A session's table holds one connection per stream id, and only connections
\* whose handlers have yet to call RemoveConn.
TableHoldsJoined ==
    \A o \in Objs :
        /\ \A e \in entries[o] : /\ pc[e.conn] \in Joined
                                 /\ obj[e.conn] = o
                                 /\ hello[e.conn].stream = e.id
        /\ \A e, f \in entries[o] : e.id = f.id => e = f

\* A session's table is exactly what is being forwarded: no connection is
\* dropped silently, and nothing that has ended is counted by ActiveConnCount
\* or closed again by Cleanup.
TableIsExact == StreamingConnIsRegistered /\ TableHoldsJoined

\* A session stays in the map only while some handler will still leave it,
\* unless a handler's net.Dial failed on it: that early return skips RemoveConn.
NoSessionLeak ==
    \A i \in Ids :
        sessions[i] # None
        => \/ \E c \in Conns : obj[c] = sessions[i] /\ pc[c] \in Holding
           \/ sessions[i] \in dialFailed

\* The TUI shows a session only while it is in the map or its Cleanup is still
\* on its way to unregisterSession, although the two are not updated together.
UiShowsNoGhost ==
    \A i \in uiSessions :
        \/ sessions[i] # None
        \/ \E c \in Conns : pc[c] = "unregister" /\ ident[obj[c]] = i

\* A handler whose stream has ended, or whose connection was closed under it
\* (replaced by a newer stream, or swept up by Cleanup), always finishes, also
\* when it has to wait for another handler inside cleanupOnce.Do.
HandlerReturns ==
    \A c \in Conns :
        (pc[c] = "remove" \/ (pc[c] = "stream" /\ c \notin open))
        ~> (pc[c] = "done")

-----------------------------------------------------------------------------
(* What the table promises.                                                *)

\* The connection a table E has for a stream id.
slotOf(E, s) ==
    IF \E e \in E : e.id = s THEN (CHOOSE e \in E : e.id = s).conn ELSE None

slots == [o \in Objs |-> [s \in StreamIds |-> slotOf(entries[o], s)]]

Registry == INSTANCE SessionRegistry
    WITH cur <- sessions, owner <- ident, slot <- slots

\* The handlers, with all their stages between two critical sections, implement
\* the registry: GetOrCreate never makes a second session of an id, AddConn and
\* RemoveConn change the one stream they are called for, and the delete and the
\* sweep of Cleanup meet the session they were meant for.
ImplementsRegistry == Registry!Spec
=============================================================================
