--------------------------- MODULE SessionRegistry ---------------------------
(***************************************************************************)
(* What the session table of the vk-turn-proxy server promises, without    *)
(* handlers, locks and clean-up stages: an id has at most one current      *)
(* session; a session is created once, for an id that has none, and never  *)
(* comes back once it is retired; a stream id of a session is served by    *)
(* one connection, which a newer one replaces; only a retired session is   *)
(* swept empty.                                                            *)
(***************************************************************************)
CONSTANTS Conns, Ids, StreamIds, Objs, None

VARIABLES
    cur,    \* the current session of every id
    owner,  \* the id every session was created for
    slot    \* the connection of every session and stream id

Init ==
    /\ cur = [i \in Ids |-> None]
    /\ owner = [o \in Objs |-> None]
    /\ slot = [o \in Objs |-> [s \in StreamIds |-> None]]

Create(i, o) ==
    /\ cur[i] = None /\ owner[o] = None
    /\ cur' = [cur EXCEPT ![i] = o]
    /\ owner' = [owner EXCEPT ![o] = i]
    /\ UNCHANGED slot

\* A connection that serves nothing yet takes a stream, from another one if
\* need be.  The session may have been retired since the connection chose it.
Attach(o, s, c) ==
    /\ owner[o] # None
    /\ \A p \in Objs, t \in StreamIds : slot[p][t] # c
    /\ slot' = [slot EXCEPT ![o][s] = c]
    /\ UNCHANGED <<cur, owner>>

Detach(o, s) ==
    /\ slot[o][s] # None
    /\ slot' = [slot EXCEPT ![o][s] = None]
    /\ UNCHANGED <<cur, owner>>

Retire(o) ==
    /\ owner[o] # None /\ cur[owner[o]] = o
    /\ cur' = [cur EXCEPT ![owner[o]] = None]
    /\ UNCHANGED <<owner, slot>>

Sweep(o) ==
    /\ owner[o] # None /\ cur[owner[o]] # o
    /\ slot' = [slot EXCEPT ![o] = [s \in StreamIds |-> None]]
    /\ UNCHANGED <<cur, owner>>

Next ==
    \E o \in Objs :
        \/ \E i \in Ids : Create(i, o)
        \/ \E s \in StreamIds : Detach(o, s) \/ \E c \in Conns : Attach(o, s, c)
        \/ Retire(o) \/ Sweep(o)

Spec == Init /\ [][Next]_<<cur, owner, slot>>
=============================================================================
