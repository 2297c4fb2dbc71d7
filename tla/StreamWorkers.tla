---------------------------- MODULE StreamWorkers ----------------------------
(***************************************************************************)
(* The client's stream workers and the table they share                    *)
(* (vk-turn-proxy/client/main.go: oneDtlsConnection, oneTurnConnection and *)
(* their retry loops; client/session_runtime.go: sessionRuntime).          *)
(*                                                                         *)
(* Every stream has a DTLS loop and a TURN loop.  The DTLS loop makes a    *)
(* packet pipe per connection and a goroutine that keeps offering the      *)
(* pipe's other end on connchan; the TURN loop takes an end, allocates a   *)
(* relay and copies.  Whoever stops first closes the pipe.  The goroutine  *)
(* that offers and the one that writes payload are not awaited: both may   *)
(* outlive their connection and meet its successor.                        *)
(*                                                                         *)
(* sessionRuntime.streams is filled by every note of activity (it creates  *)
(* a missing entry), emptied by the DTLS goroutine alone, and elects the   *)
(* one stream whose connection sends control heartbeats.                   *)
(***************************************************************************)
EXTENDS Naturals, FiniteSets

CONSTANTS
    StreamIds,       \* stream ids of the runtime, 0 .. n-1 in the code
    Pipes,           \* packet pipes
    Conns,           \* the pipes of every stream, reused when nobody holds one
    HandshakeSlots,  \* capacity of handshakeSem
    None             \* no leader, no pipe

ASSUME StreamIdsAreNat == StreamIds \subseteq Nat
ASSUME NoneIsFresh == None \notin StreamIds \cup Pipes
ASSUME ConnsAreTagged == Conns \subseteq StreamIds \X Pipes

VARIABLES
    streams,    \* keys of sessionRuntime.streams
    ready,      \* streams in the map whose object has dtlsReady set
    leader,     \* leaderStreamID, None unless leaderStreamValid
    supported,  \* controlHeartbeatSupported
    dtls,       \* where the DTLS goroutine of a stream is
    cur,        \* the pipe of that goroutine's connection
    turn,       \* where the TURN goroutine of a stream is
    taken,      \* the pipe that goroutine took from connchan
    open,       \* pipes neither end of which has been closed
    usable,     \* connections whose dtlsConn still accepts writes
    alive,      \* connections whose dtlsctx has not been cancelled by its own
    offering,   \* connections whose offering goroutine runs
    writer,     \* the payload writer of every connection
    stop        \* the runtime's context has been cancelled

tableVars == <<streams, ready, leader, supported>>
vars == <<streams, ready, leader, supported, dtls, cur, turn, taken, open,
          usable, alive, offering, writer, stop>>

-----------------------------------------------------------------------------
DtlsPoints == {"idle", "starting", "queued", "handshake", "noted", "up",
               "closing", "removing", "done"}

TurnPoints == {"idle", "connect", "relay", "done"}

TypeOK ==
    /\ streams \in SUBSET StreamIds
    /\ ready \in SUBSET streams
    /\ leader \in StreamIds \cup {None}
    /\ supported \in BOOLEAN
    /\ dtls \in [StreamIds -> DtlsPoints]
    /\ cur \in [StreamIds -> Pipes \cup {None}]
    /\ turn \in [StreamIds -> TurnPoints]
    /\ taken \in [StreamIds -> Pipes \cup {None}]
    /\ open \in SUBSET Conns
    /\ usable \in SUBSET Conns
    /\ alive \in SUBSET Conns
    /\ offering \in SUBSET Conns
    /\ writer \in [Conns -> {"none", "select", "written"}]
    /\ stop \in BOOLEAN

Init ==
    /\ streams = {} /\ ready = {} /\ leader = None /\ supported = FALSE
    /\ dtls = [s \in StreamIds |-> "idle"]
    /\ cur = [s \in StreamIds |-> None]
    /\ turn = [s \in StreamIds |-> "idle"]
    /\ taken = [s \in StreamIds |-> None]
    /\ open = {} /\ usable = {} /\ alive = {} /\ offering = {}
    /\ writer = [c \in Conns |-> "none"]
    /\ stop = FALSE

GotoDtls(s, p) == dtls' = [dtls EXCEPT ![s] = p]
GotoTurn(s, p) == turn' = [turn EXCEPT ![s] = p]

\* The connection the DTLS goroutine of s works on.
Mine(s) == <<s, cur[s]>>

\* dtlsctx.Done() of a connection is closed.
Cancelled(c) == stop \/ c \notin alive

-----------------------------------------------------------------------------
(* sessionRuntime.                                                         *)

Least(T) == CHOOSE s \in T : \A t \in T : s <= t

\* Mutant: the lowest id wins whether its handshake is over or not.
ElectLowest(T, R) == IF T = {} THEN None ELSE Least(T)

\* reselectLeaderLocked: the lowest ready stream, failing that the lowest.
Elect(T, R) == IF R # {} THEN Least(R)
               ELSE IF T # {} THEN Least(T) ELSE None

\* EnsureStream: a new entry is not ready, and starts an election.
EnsureStream(s) ==
    /\ streams' = streams \cup {s}
    /\ leader' = IF s \in streams THEN leader ELSE Elect(streams \cup {s}, ready)
    /\ UNCHANGED <<ready, supported>>

\* Mutant: the entry goes, the leader stays.
RemoveStreamNoElection(s) ==
    /\ streams' = streams \ {s}
    /\ ready' = ready \ {s}
    /\ UNCHANGED <<leader, supported>>

\* Mutant: dtlsReady outlives the entry.
RemoveStreamKeepReady(s) ==
    /\ streams' = streams \ {s}
    /\ leader' = Elect(streams', ready)
    /\ UNCHANGED <<ready, supported>>

RemoveStream(s) ==
    /\ streams' = streams \ {s}
    /\ ready' = ready \ {s}
    /\ leader' = Elect(streams', ready')
    /\ UNCHANGED supported

IsHeartbeatLeader(s) == supported /\ leader = s

-----------------------------------------------------------------------------
(* oneDtlsConnectionLoop and oneDtlsConnection.                            *)

\* The loop looks at ctx before every attempt.
DtlsLoop(s) ==
    /\ dtls[s] = "idle"
    /\ GotoDtls(s, IF stop THEN "done" ELSE "starting")
    /\ UNCHANGED <<tableVars, cur, turn, taken, open, usable, alive, offering,
                   writer, stop>>

\* A pipe no goroutine refers to any more.
Free(s, p) ==
    /\ <<s, p>> \in Conns
    /\ <<s, p>> \notin open \cup usable \cup alive \cup offering
    /\ writer[<<s, p>>] = "none"
    /\ taken[s] # p

\* After its random sleep: EnsureStream, the pipe, the offering goroutine.
DtlsBegin(s) ==
    /\ dtls[s] = "starting"
    /\ EnsureStream(s)
    /\ \E p \in Pipes :
          /\ Free(s, p)
          /\ cur' = [cur EXCEPT ![s] = p]
          /\ open' = open \cup {<<s, p>>}
          /\ alive' = alive \cup {<<s, p>>}
          /\ offering' = offering \cup {<<s, p>>}
    /\ GotoDtls(s, "queued")
    /\ UNCHANGED <<turn, taken, usable, writer, stop>>

\* dtlsFunc takes a slot of handshakeSem, or gives up when dtlsctx is done.
DtlsSlot(s) ==
    /\ dtls[s] = "queued"
    /\ Cardinality({r \in StreamIds : dtls[r] = "handshake"}) < HandshakeSlots
    /\ GotoDtls(s, "handshake")
    /\ UNCHANGED <<tableVars, cur, turn, taken, open, usable, alive, offering,
                   writer, stop>>

DtlsGiveUp(s) ==
    /\ dtls[s] = "queued"
    /\ Cancelled(Mine(s))
    /\ GotoDtls(s, "closing")
    /\ UNCHANGED <<tableVars, cur, turn, taken, open, usable, alive, offering,
                   writer, stop>>

\* The handshake (and the mu hello after it) succeeds: its datagrams went
\* through the relay.  NoteDtlsReady sets dtlsReady on the entry and takes the
\* lock for the election afterwards.
HandshakeOk(s) ==
    /\ dtls[s] = "handshake"
    /\ turn[s] = "relay" /\ taken[s] = cur[s] /\ Mine(s) \in open
    /\ ready' = ready \cup {s}
    /\ supported' \in {supported, TRUE}
    /\ usable' = usable \cup {Mine(s)}
    /\ GotoDtls(s, "noted")
    /\ UNCHANGED <<streams, leader, cur, turn, taken, open, alive, offering,
                   writer, stop>>

\* Mutant: without its timeout the handshake ends only with its pipe.
HandshakeFailNoTimeout(s) ==
    /\ dtls[s] = "handshake"
    /\ Cancelled(Mine(s)) \/ Mine(s) \notin open
    /\ GotoDtls(s, "closing")
    /\ UNCHANGED <<tableVars, cur, turn, taken, open, usable, alive, offering,
                   writer, stop>>

\* It times out after 20 s, the pipe is closed under it, or mu is rejected.
HandshakeFail(s) ==
    /\ dtls[s] = "handshake"
    /\ GotoDtls(s, "closing")
    /\ UNCHANGED <<tableVars, cur, turn, taken, open, usable, alive, offering,
                   writer, stop>>

\* In mainline mode a goroutine of stream 0 that nobody waits for learns from
\* the server, some time after the handshake, that heartbeats are supported.
\* Where it outlives its connection it matters once another one is up.
NegotiationEnds ==
    /\ \E s \in StreamIds : dtls[s] \in {"up", "closing", "removing"}
    /\ ~supported /\ supported' = TRUE
    /\ UNCHANGED <<streams, ready, leader, dtls, cur, turn, taken, open, usable,
                   alive, offering, writer, stop>>

\* The election of NoteDtlsReady; then the writer and the reader are started.
DtlsReady(s) ==
    /\ dtls[s] = "noted"
    /\ leader' = Elect(streams, ready)
    /\ writer' = [writer EXCEPT ![Mine(s)] = "select"]
    /\ GotoDtls(s, "up")
    /\ UNCHANGED <<streams, ready, supported, cur, turn, taken, open, usable,
                   alive, offering, stop>>

\* The reader ends, for an error, the closed pipe or a deadline, and cancels.
ReaderEnds(s) ==
    /\ dtls[s] = "up"
    /\ alive' = alive \ {Mine(s)}
    /\ GotoDtls(s, "closing")
    /\ UNCHANGED <<tableVars, cur, turn, taken, open, usable, offering, writer,
                   stop>>

\* The deferred calls up to dtlscancel, in order: dtlsConn.Close, the pipe,
\* UnbindDispatchChannel, dtlscancel.
DtlsClose(s) ==
    /\ dtls[s] = "closing"
    /\ usable' = usable \ {Mine(s)}
    /\ open' = open \ {Mine(s)}
    /\ alive' = alive \ {Mine(s)}
    /\ GotoDtls(s, "removing")
    /\ UNCHANGED <<tableVars, cur, turn, taken, offering, writer, stop>>

\* The deferred RemoveStream; the loop receives the error and backs off.
DtlsRemove(s) ==
    /\ dtls[s] = "removing"
    /\ RemoveStream(s)
    /\ cur' = [cur EXCEPT ![s] = None]
    /\ GotoDtls(s, "idle")
    /\ UNCHANGED <<turn, taken, open, usable, alive, offering, writer, stop>>

\* Mutant: the goroutine that offers the pipe never looks at dtlsctx.
OfferEndNever(c) == FALSE /\ UNCHANGED vars

\* The offering goroutine sees dtlsctx.Done.
OfferEnd(c) ==
    /\ c \in offering
    /\ Cancelled(c)
    /\ offering' = offering \ {c}
    /\ UNCHANGED <<tableVars, dtls, cur, turn, taken, open, usable, alive,
                   writer, stop>>

\* The writer has written a packet and not yet called NoteOutbound.
WriterSend(c) ==
    /\ writer[c] = "select"
    /\ c \in usable
    /\ writer' = [writer EXCEPT ![c] = "written"]
    /\ UNCHANGED <<tableVars, dtls, cur, turn, taken, open, usable, alive,
                   offering, stop>>

\* NoteOutbound creates the entry anew when it has been removed meanwhile.
WriterNote(c) ==
    /\ writer[c] = "written"
    /\ EnsureStream(c[1])
    /\ writer' = [writer EXCEPT ![c] = "select"]
    /\ UNCHANGED <<dtls, cur, turn, taken, open, usable, alive, offering, stop>>

\* It ends, for dtlsctx or a write error, and cancels.
WriterEnd(c) ==
    /\ writer[c] = "select"
    /\ writer' = [writer EXCEPT ![c] = "none"]
    /\ alive' = alive \ {c}
    /\ UNCHANGED <<tableVars, dtls, cur, turn, taken, open, usable, offering, stop>>

-----------------------------------------------------------------------------
(* oneTurnConnectionLoop and oneTurnConnection.                            *)

\* The loop takes a pipe off connchan on a tick of t; without the tick it
\* drops the pipe and takes the next offer, which may be the same one.
TurnTake(s) ==
    /\ turn[s] = "idle"
    /\ \E p \in Pipes : /\ <<s, p>> \in offering
                        /\ taken' = [taken EXCEPT ![s] = p]
    /\ GotoTurn(s, "connect")
    /\ UNCHANGED <<tableVars, dtls, cur, open, usable, alive, offering, writer, stop>>

TurnLoopEnds(s) ==
    /\ turn[s] = "idle"
    /\ stop
    /\ GotoTurn(s, "done")
    /\ UNCHANGED <<tableVars, dtls, cur, taken, open, usable, alive, offering,
                   writer, stop>>

\* The deferred calls of oneTurnConnection; c <- err hands over to the loop.
TurnReturn(s, next) ==
    /\ open' = open \ {<<s, taken[s]>>}
    /\ taken' = [taken EXCEPT ![s] = None]
    /\ GotoTurn(s, next)

\* Credentials, resolving, dialling or allocating fails.
TurnFail(s) ==
    /\ turn[s] = "connect"
    /\ TurnReturn(s, "idle")
    /\ UNCHANGED <<tableVars, dtls, cur, usable, alive, offering, writer, stop>>

\* A fatal captcha failure ends the loop and cancels the whole client.
TurnFatal(s) ==
    /\ turn[s] = "connect"
    /\ TurnReturn(s, "done")
    /\ stop' = TRUE
    /\ UNCHANGED <<tableVars, dtls, cur, usable, alive, offering, writer>>

\* Allocate succeeds; NoteTurnReady creates a missing entry.
TurnReady(s) ==
    /\ turn[s] = "connect"
    /\ EnsureStream(s)
    /\ GotoTurn(s, "relay")
    /\ UNCHANGED <<dtls, cur, taken, open, usable, alive, offering, writer, stop>>

\* Mutant: the pipe is left open for the next allocation.
RelayEndsKeepPipe(s) ==
    /\ turn[s] = "relay"
    /\ taken' = [taken EXCEPT ![s] = None]
    /\ GotoTurn(s, "idle")
    /\ UNCHANGED <<tableVars, dtls, cur, open, usable, alive, offering, writer, stop>>

\* Both copy loops have ended: the pipe was closed, the relay failed, or the
\* context was cancelled.
RelayEnds(s) ==
    /\ turn[s] = "relay"
    /\ TurnReturn(s, "idle")
    /\ UNCHANGED <<tableVars, dtls, cur, usable, alive, offering, writer, stop>>

-----------------------------------------------------------------------------
\* runtimeCancel (a failed mode negotiation, or the end of main).
Stop ==
    /\ ~stop
    /\ stop' = TRUE
    /\ UNCHANGED <<tableVars, dtls, cur, turn, taken, open, usable, alive,
                   offering, writer>>

\* Steps a goroutine takes whatever the network does.
DtlsStep(s) == \/ DtlsLoop(s) \/ DtlsBegin(s) \/ DtlsGiveUp(s) \/ DtlsReady(s)
               \/ DtlsClose(s) \/ DtlsRemove(s)
Handshake(s) == HandshakeOk(s) \/ HandshakeFail(s)
Connect(s)   == TurnFail(s) \/ TurnFatal(s) \/ TurnReady(s)
WriterStep(c) == WriterSend(c) \/ WriterNote(c) \/ WriterEnd(c)

Ended ==
    /\ \A s \in StreamIds : dtls[s] = "done" /\ turn[s] = "done"
    /\ offering = {}
    /\ \A c \in Conns : writer[c] = "none"

Terminated == Ended /\ UNCHANGED vars

Next ==
    \/ \E s \in StreamIds : \/ DtlsStep(s) \/ DtlsSlot(s) \/ Handshake(s)
                            \/ ReaderEnds(s)
                            \/ TurnTake(s) \/ TurnLoopEnds(s) \/ Connect(s)
                            \/ RelayEnds(s)
    \/ \E c \in Conns : OfferEnd(c) \/ WriterStep(c)
    \/ NegotiationEnds
    \/ Stop
    \/ Terminated

Spec == Init /\ [][Next]_vars

\* Goroutines run.  A handshake, an allocation and a fetch of credentials end
\* because each has a timeout; a reader, a writer and a relay are sure to end
\* only once their context or pipe is gone.  Go's select takes every ready
\* case in the long run, and waiters of a channel are served in order, so a
\* queued handshake and a loop waiting on ctx.Done are strongly fair.
Fairness ==
    /\ \A s \in StreamIds :
          /\ WF_vars(DtlsStep(s)) /\ SF_vars(DtlsSlot(s)) /\ WF_vars(Handshake(s))
          /\ WF_vars(ReaderEnds(s) /\ (Cancelled(Mine(s)) \/ Mine(s) \notin open))
          /\ WF_vars(Connect(s)) /\ SF_vars(TurnLoopEnds(s))
          /\ WF_vars(RelayEnds(s) /\ (stop \/ <<s, taken[s]>> \notin open))
    /\ \A c \in Conns :
          /\ SF_vars(OfferEnd(c)) /\ WF_vars(WriterNote(c))
          /\ SF_vars(WriterEnd(c) /\ (Cancelled(c) \/ c \notin usable))

FairSpec == Spec /\ Fairness

-----------------------------------------------------------------------------
(* Properties.                                                             *)

\* Outside the gap of NoteDtlsReady between setting dtlsReady and taking the
\* lock, the leader is the one reselectLeaderLocked would elect: no note of a
\* lingering writer or of a late TURN goroutine leaves an outdated leader.
LeaderIsCurrent ==
    (\A s \in StreamIds : dtls[s] # "noted") => leader = Elect(streams, ready)

\* While some connection of a server that supports heartbeats is up, the
\* leader is a stream that has a connection of its own to send them on: an
\* entry that a late NoteOutbound or NoteTurnReady has brought back after
\* RemoveStream never silences the heartbeat.
HeartbeatHasSender ==
    (supported /\ \E s \in StreamIds : dtls[s] = "up") =>
        \E s \in StreamIds : /\ IsHeartbeatLeader(s)
                             /\ dtls[s] \in {"noted", "up", "closing", "removing"}

\* An established connection whose pipe is open has the relay it was
\* established through: when the TURN side goes, the pipe is closed and the
\* DTLS side can notice, also while its pipe is being offered again.
UpHasRelay ==
    \A s \in StreamIds :
        dtls[s] \in {"noted", "up"} /\ Mine(s) \in open
        => turn[s] = "relay" /\ taken[s] = cur[s]

\* After runtimeCancel both loops of every stream, the goroutines that offer its
\* pipes and the writers, which nobody waits for, end.
ShutdownCompletes == stop ~> Ended

\* A stream never stays in an attempt: it ends up established over an open
\* pipe, or backing off for the next attempt, whatever the TURN loop did with
\* the pipe (never took it, took it twice, closed it).
AttemptsEnd ==
    \A s \in StreamIds :
        (dtls[s] \notin {"idle", "up", "done"} \/ (dtls[s] = "up" /\ Mine(s) \notin open))
        ~> (dtls[s] \in {"idle", "done"} \/ (dtls[s] = "up" /\ Mine(s) \in open))
=============================================================================
