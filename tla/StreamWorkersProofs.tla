------------------------- MODULE StreamWorkersProofs -------------------------
(***************************************************************************)
(* Safety of StreamWorkers for any number of streams, of overlapping       *)
(* connections and of handshake slots.                                     *)
(*                                                                         *)
(* HeartbeatHasSender is not inductive: in the gap of NoteDtlsReady the    *)
(* leader may be outdated, so what is carried through every step is that   *)
(* the leader is some ready stream as soon as one connection is up         *)
(* (LeaderIsReady), that an established connection has made its stream     *)
(* ready (UpIsReady), and that an entry brought back by a late note is     *)
(* never ready (ReadyHasConnection).                                       *)
(***************************************************************************)
EXTENDS StreamWorkers, TLAPS, WellFoundedInduction

Working == {"queued", "handshake", "noted", "up", "closing", "removing"}

WorkerHasPipe ==
    \A s \in StreamIds : dtls[s] \in Working => Mine(s) \in Conns /\ s \in streams

ReadyHasConnection ==
    \A s \in ready : dtls[s] \in {"noted", "up", "closing", "removing"}

UpIsReady == \A s \in StreamIds : dtls[s] \in {"noted", "up"} => s \in ready

LeaderIsReady == (\E s \in StreamIds : dtls[s] = "up") => leader \in ready

IInv ==
    /\ TypeOK
    /\ WorkerHasPipe
    /\ ReadyHasConnection
    /\ UpIsReady
    /\ LeaderIsReady
    /\ LeaderIsCurrent
    /\ UpHasRelay

-----------------------------------------------------------------------------
(* Elections.                                                              *)

\* Every non-empty set of stream ids has a least one.
LEMMA LeastExists ==
    ASSUME NEW T \in SUBSET Nat, T # {}
    PROVE  Least(T) \in T
<1> DEFINE R == OpToRel(<, Nat)
<1>1. PICK x \in T : \A y \in T : ~ (<<y, x>> \in R)
  BY NatLessThanWellFounded, WFMin
<1>2. R = {ss \in Nat \X Nat : ss[1] < ss[2]}
  BY Zenon DEF OpToRel
<1> HIDE DEF R
<1>3. ASSUME NEW y \in T, ~ (x <= y) PROVE FALSE
  <2>1. y \in Nat /\ x \in Nat /\ y < x
    BY <1>3
  <2>2. <<y, x>> \in {ss \in Nat \X Nat : ss[1] < ss[2]}
    BY <2>1
  <2> QED
    BY <1>1, <1>2, <2>2, Zenon
<1> QED
  BY <1>3 DEF Least

\* reselectLeaderLocked elects a ready stream if there is one, else any stream.
LEMMA ElectSound ==
    ASSUME NEW T \in SUBSET StreamIds, NEW R \in SUBSET T
    PROVE  /\ Elect(T, R) \in StreamIds \cup {None}
           /\ R # {} => Elect(T, R) \in R
<1>1. T \in SUBSET Nat /\ R \in SUBSET Nat
  BY StreamIdsAreNat
<1>2. R # {} => Least(R) \in R
  BY <1>1, LeastExists
<1>3. T # {} => Least(T) \in T
  BY <1>1, LeastExists
<1> QED
  BY <1>2, <1>3 DEF Elect

-----------------------------------------------------------------------------
\* The initial state satisfies the invariant.
LEMMA InitIInv == Init => IInv
BY DEF Init, IInv, TypeOK, WorkerHasPipe, ReadyHasConnection, UpIsReady,
       LeaderIsReady, LeaderIsCurrent, UpHasRelay, DtlsPoints, TurnPoints,
       Working, Elect, Mine

\* EnsureStream, whoever calls it, disturbs nothing that is said of the table.
LEMMA EnsureStreamKeepsTable ==
    ASSUME IInv, NEW s \in StreamIds, EnsureStream(s),
           \A r \in StreamIds : dtls'[r] = "noted" => dtls[r] = "noted",
           \A r \in StreamIds : dtls[r] = "noted" => dtls'[r] = "noted",
           \A r \in StreamIds : dtls'[r] = "up" => dtls[r] = "up"
    PROVE  /\ streams' \in SUBSET StreamIds /\ ready' \in SUBSET streams'
           /\ ready' = ready /\ supported' = supported
           /\ leader' \in StreamIds \cup {None}
           /\ LeaderIsReady' /\ LeaderIsCurrent'
<1>1. streams \in SUBSET StreamIds /\ ready \in SUBSET streams
      /\ leader \in StreamIds \cup {None}
  BY DEF IInv, TypeOK
<1>2. /\ streams' = streams \cup {s} /\ ready' = ready /\ supported' = supported
      /\ leader' = IF s \in streams THEN leader ELSE Elect(streams \cup {s}, ready)
  BY DEF EnsureStream
<1>3. /\ Elect(streams \cup {s}, ready) \in StreamIds \cup {None}
      /\ ready # {} => Elect(streams \cup {s}, ready) \in ready
  <2>1. streams \cup {s} \in SUBSET StreamIds /\ ready \in SUBSET (streams \cup {s})
    BY <1>1
  <2> QED
    BY <2>1, ElectSound
<1>4. LeaderIsReady'
  BY <1>2, <1>3 DEF IInv, LeaderIsReady, UpIsReady
<1>5. LeaderIsCurrent'
  <2>1. CASE s \in streams
    <3>1. streams' = streams /\ leader' = leader /\ ready' = ready
      BY <1>2, <2>1
    <3> QED
      BY <3>1 DEF IInv, LeaderIsCurrent
  <2>2. CASE s \notin streams
    BY <1>2, <2>2 DEF LeaderIsCurrent
  <2> QED
    BY <2>1, <2>2
<1> QED
  BY <1>1, <1>2, <1>3, <1>4, <1>5

-----------------------------------------------------------------------------
(* Steps.                                                                  *)

\* A step of the DTLS goroutine that leaves the table alone.
LEMMA DtlsMoveKeepsIInv ==
    ASSUME IInv, NEW s \in StreamIds,
           \/ DtlsLoop(s) \/ DtlsSlot(s) \/ DtlsGiveUp(s) \/ HandshakeFail(s)
           \/ ReaderEnds(s) \/ DtlsClose(s)
    PROVE  IInv'
<1>1. /\ UNCHANGED <<tableVars, cur, turn, taken, offering, writer, stop>>
      /\ open' \in SUBSET open /\ usable' \in SUBSET usable /\ alive' \in SUBSET alive
      /\ \E p \in {"done", "starting", "handshake", "closing", "removing"} :
            /\ dtls' = [dtls EXCEPT ![s] = p]
            /\ p \in {"handshake", "closing", "removing"} => dtls[s] \in Working
            /\ p \in {"done", "starting", "handshake"} => dtls[s] \in {"idle", "queued"}
            /\ dtls[s] # "noted"
  BY DEF DtlsLoop, DtlsSlot, DtlsGiveUp, HandshakeFail, ReaderEnds, DtlsClose,
         GotoDtls, Working
<1>2. TypeOK'
  BY <1>1 DEF IInv, TypeOK, tableVars, DtlsPoints
<1>3. WorkerHasPipe'
  BY <1>1 DEF IInv, TypeOK, tableVars, WorkerHasPipe, Mine, Working
<1>4. ReadyHasConnection'
  BY <1>1 DEF IInv, TypeOK, tableVars, ReadyHasConnection
<1>5. UpIsReady'
  BY <1>1 DEF IInv, TypeOK, tableVars, UpIsReady
<1>6. LeaderIsReady'
  BY <1>1 DEF IInv, TypeOK, tableVars, LeaderIsReady
<1>7. LeaderIsCurrent'
  BY <1>1 DEF IInv, TypeOK, tableVars, LeaderIsCurrent
<1>8. UpHasRelay'
  BY <1>1 DEF IInv, TypeOK, tableVars, UpHasRelay, Mine
<1> QED
  BY <1>2, <1>3, <1>4, <1>5, <1>6, <1>7, <1>8 DEF IInv

\* Starting a connection: the entry may already be there, left by a late note.
LEMMA DtlsBeginKeepsIInv ==
    ASSUME IInv, NEW s \in StreamIds, DtlsBegin(s)
    PROVE  IInv'
<1>1. PICK p \in Pipes : /\ <<s, p>> \in Conns
                         /\ cur' = [cur EXCEPT ![s] = p]
                         /\ open' = open \cup {<<s, p>>}
                         /\ alive' = alive \cup {<<s, p>>}
                         /\ offering' = offering \cup {<<s, p>>}
  BY DEF DtlsBegin, Free
<1>2. /\ dtls[s] = "starting" /\ dtls' = [dtls EXCEPT ![s] = "queued"]
      /\ EnsureStream(s)
      /\ UNCHANGED <<turn, taken, usable, writer, stop>>
  BY DEF DtlsBegin, GotoDtls
<1>3. dtls \in [StreamIds -> DtlsPoints]
  BY DEF IInv, TypeOK
<1>4. /\ streams' \in SUBSET StreamIds /\ ready' \in SUBSET streams'
      /\ ready' = ready /\ supported' = supported
      /\ leader' \in StreamIds \cup {None}
      /\ LeaderIsReady' /\ LeaderIsCurrent'
  <2>1. \A r \in StreamIds : /\ dtls'[r] = "noted" <=> dtls[r] = "noted"
                             /\ dtls'[r] = "up" => dtls[r] = "up"
    BY <1>2, <1>3
  <2> QED
    BY <1>2, <2>1, EnsureStreamKeepsTable
<1>5. TypeOK'
  BY <1>1, <1>2, <1>4 DEF IInv, TypeOK, DtlsPoints
<1>6. WorkerHasPipe'
  BY <1>1, <1>2 DEF IInv, TypeOK, WorkerHasPipe, Mine, EnsureStream
<1>7. ReadyHasConnection' /\ UpIsReady'
  BY <1>2, <1>3, <1>4 DEF IInv, TypeOK, ReadyHasConnection, UpIsReady
<1>8. UpHasRelay'
  BY <1>1, <1>2 DEF IInv, TypeOK, UpHasRelay, Mine
<1> QED
  BY <1>4, <1>5, <1>6, <1>7, <1>8 DEF IInv

\* dtlsReady is set and the election is still to come.
LEMMA HandshakeOkKeepsIInv ==
    ASSUME IInv, NEW s \in StreamIds, HandshakeOk(s)
    PROVE  IInv'
<1>1. /\ dtls[s] = "handshake" /\ dtls' = [dtls EXCEPT ![s] = "noted"]
      /\ turn[s] = "relay" /\ taken[s] = cur[s]
      /\ ready' = ready \cup {s} /\ supported' \in {supported, TRUE}
      /\ usable' = usable \cup {Mine(s)}
      /\ UNCHANGED <<streams, leader, cur, turn, taken, open, alive, offering,
                     writer, stop>>
  BY DEF HandshakeOk, GotoDtls
<1>2. TypeOK'
  <2>1. Mine(s) \in Conns /\ s \in streams
    BY <1>1 DEF IInv, WorkerHasPipe, Working
  <2> QED
    BY <1>1, <2>1 DEF IInv, TypeOK, DtlsPoints
<1>3. WorkerHasPipe'
  BY <1>1 DEF IInv, TypeOK, WorkerHasPipe, Mine, Working
<1>4. ReadyHasConnection' /\ UpIsReady'
  BY <1>1 DEF IInv, TypeOK, ReadyHasConnection, UpIsReady
<1>5. LeaderIsReady' /\ LeaderIsCurrent'
  BY <1>1 DEF IInv, TypeOK, LeaderIsReady, LeaderIsCurrent
<1>6. UpHasRelay'
  BY <1>1 DEF IInv, TypeOK, UpHasRelay, Mine
<1> QED
  BY <1>2, <1>3, <1>4, <1>5, <1>6 DEF IInv

\* The election of NoteDtlsReady.
LEMMA DtlsReadyKeepsIInv ==
    ASSUME IInv, NEW s \in StreamIds, DtlsReady(s)
    PROVE  IInv'
<1>1. /\ dtls[s] = "noted" /\ dtls' = [dtls EXCEPT ![s] = "up"]
      /\ leader' = Elect(streams, ready)
      /\ writer' = [writer EXCEPT ![Mine(s)] = "select"]
      /\ UNCHANGED <<streams, ready, supported, cur, turn, taken, open, usable,
                     alive, offering, stop>>
  BY DEF DtlsReady, GotoDtls
<1>2. s \in ready /\ streams \in SUBSET StreamIds /\ ready \in SUBSET streams
  BY <1>1 DEF IInv, TypeOK, UpIsReady
<1>3. leader' \in StreamIds \cup {None} /\ leader' \in ready
  BY <1>1, <1>2, ElectSound
<1>4. TypeOK'
  BY <1>1, <1>3 DEF IInv, TypeOK, DtlsPoints
<1>5. WorkerHasPipe'
  BY <1>1 DEF IInv, TypeOK, WorkerHasPipe, Mine, Working
<1>6. ReadyHasConnection' /\ UpIsReady'
  BY <1>1 DEF IInv, TypeOK, ReadyHasConnection, UpIsReady
<1>7. LeaderIsReady' /\ LeaderIsCurrent'
  BY <1>1, <1>3 DEF LeaderIsReady, LeaderIsCurrent
<1>8. UpHasRelay'
  BY <1>1 DEF IInv, TypeOK, UpHasRelay, Mine
<1> QED
  BY <1>4, <1>5, <1>6, <1>7, <1>8 DEF IInv

\* Leaving: RemoveStream elects among the streams that stay.
LEMMA DtlsRemoveKeepsIInv ==
    ASSUME IInv, NEW s \in StreamIds, DtlsRemove(s)
    PROVE  IInv'
<1>1. /\ dtls[s] = "removing" /\ dtls' = [dtls EXCEPT ![s] = "idle"]
      /\ streams' = streams \ {s} /\ ready' = ready \ {s}
      /\ leader' = Elect(streams', ready') /\ supported' = supported
      /\ cur' = [cur EXCEPT ![s] = None]
      /\ UNCHANGED <<turn, taken, open, usable, alive, offering, writer, stop>>
  BY DEF DtlsRemove, RemoveStream, GotoDtls
<1>2. streams' \in SUBSET StreamIds /\ ready' \in SUBSET streams'
  BY <1>1 DEF IInv, TypeOK
<1>3. /\ leader' \in StreamIds \cup {None}
      /\ ready' # {} => leader' \in ready'
  BY <1>1, <1>2, ElectSound
<1>4. TypeOK'
  BY <1>1, <1>2, <1>3 DEF IInv, TypeOK, DtlsPoints
<1>5. WorkerHasPipe'
  BY <1>1 DEF IInv, TypeOK, WorkerHasPipe, Mine, Working
<1>6. ReadyHasConnection' /\ UpIsReady'
  BY <1>1 DEF IInv, TypeOK, ReadyHasConnection, UpIsReady
<1>7. LeaderIsReady' /\ LeaderIsCurrent'
  BY <1>1, <1>3, <1>6 DEF LeaderIsReady, LeaderIsCurrent, UpIsReady
<1>8. UpHasRelay'
  BY <1>1 DEF IInv, TypeOK, UpHasRelay, Mine
<1> QED
  BY <1>4, <1>5, <1>6, <1>7, <1>8 DEF IInv

\* A late note may bring an entry back: NoteOutbound of a writer, NoteTurnReady.
LEMMA NoteKeepsIInv ==
    ASSUME IInv, NEW s \in StreamIds, EnsureStream(s),
           UNCHANGED <<dtls, cur, taken, open, usable, alive, offering, stop>>,
           turn' \in [StreamIds -> TurnPoints],
           \A r \in StreamIds : turn[r] = "relay" => turn'[r] = "relay",
           writer' \in [Conns -> {"none", "select", "written"}]
    PROVE  IInv'
<1>1. /\ streams' \in SUBSET StreamIds /\ ready' \in SUBSET streams'
      /\ ready' = ready /\ supported' = supported
      /\ leader' \in StreamIds \cup {None}
      /\ LeaderIsReady' /\ LeaderIsCurrent'
  BY EnsureStreamKeepsTable
<1>2. TypeOK'
  BY <1>1 DEF IInv, TypeOK
<1>3. WorkerHasPipe'
  BY DEF IInv, WorkerHasPipe, Mine, EnsureStream
<1>4. ReadyHasConnection' /\ UpIsReady'
  BY <1>1 DEF IInv, ReadyHasConnection, UpIsReady
<1>5. UpHasRelay'
  BY DEF IInv, UpHasRelay, Mine
<1> QED
  BY <1>1, <1>2, <1>3, <1>4, <1>5 DEF IInv

\* Steps that touch neither the table nor the DTLS goroutines.
LEMMA OtherKeepsIInv ==
    ASSUME IInv, UNCHANGED <<tableVars, dtls, cur, usable>>,
           taken' \in [StreamIds -> Pipes \cup {None}],
           turn' \in [StreamIds -> TurnPoints],
           open' \in SUBSET open, alive' \in SUBSET alive,
           offering' \in SUBSET offering,
           writer' \in [Conns -> {"none", "select", "written"}],
           stop' \in BOOLEAN,
           \A r \in StreamIds : turn[r] = "relay" =>
              \/ turn'[r] = turn[r] /\ taken'[r] = taken[r]
              \/ <<r, taken[r]>> \notin open'
    PROVE  IInv'
<1>1. TypeOK'
  BY DEF IInv, TypeOK, tableVars
<1>2. WorkerHasPipe' /\ ReadyHasConnection' /\ UpIsReady'
  BY DEF IInv, tableVars, WorkerHasPipe, ReadyHasConnection, UpIsReady, Mine
<1>3. LeaderIsReady' /\ LeaderIsCurrent'
  BY DEF IInv, tableVars, LeaderIsReady, LeaderIsCurrent
<1>4. UpHasRelay'
  BY DEF IInv, TypeOK, UpHasRelay, Mine
<1> QED
  BY <1>1, <1>2, <1>3, <1>4 DEF IInv

\* Every step preserves the invariant.
LEMMA NextIInv == IInv /\ [Next]_vars => IInv'
<1> SUFFICES ASSUME IInv, [Next]_vars PROVE IInv'
  OBVIOUS
<1> USE DEF GotoTurn
<1>1. ASSUME NEW s \in StreamIds, DtlsStep(s) \/ DtlsSlot(s) \/ Handshake(s)
                                  \/ ReaderEnds(s)
      PROVE  IInv'
  BY <1>1, DtlsMoveKeepsIInv, DtlsBeginKeepsIInv, HandshakeOkKeepsIInv,
     DtlsReadyKeepsIInv, DtlsRemoveKeepsIInv DEF DtlsStep, Handshake
<1>2. ASSUME NEW s \in StreamIds, TurnTake(s) \/ TurnLoopEnds(s) \/ TurnFail(s)
                                  \/ TurnFatal(s) \/ RelayEnds(s)
      PROVE  IInv'
  <2>1. /\ UNCHANGED <<tableVars, dtls, cur, usable>>
        /\ taken' \in [StreamIds -> Pipes \cup {None}]
        /\ turn' \in [StreamIds -> TurnPoints]
        /\ open' \in SUBSET open /\ alive' \in SUBSET alive
        /\ offering' \in SUBSET offering
        /\ writer' \in [Conns -> {"none", "select", "written"}]
        /\ stop' \in BOOLEAN
    BY <1>2 DEF TurnTake, TurnLoopEnds, TurnFail, TurnFatal, RelayEnds,
                TurnReturn, IInv, TypeOK, TurnPoints
  <2>2. \A r \in StreamIds : turn[r] = "relay" =>
              \/ turn'[r] = turn[r] /\ taken'[r] = taken[r]
              \/ <<r, taken[r]>> \notin open'
    BY <1>2 DEF TurnTake, TurnLoopEnds, TurnFail, TurnFatal, RelayEnds,
                TurnReturn, IInv, TypeOK
  <2> QED
    BY <2>1, <2>2, OtherKeepsIInv
<1>3. ASSUME NEW s \in StreamIds, TurnReady(s)
      PROVE  IInv'
  <2>1. /\ EnsureStream(s)
        /\ UNCHANGED <<dtls, cur, taken, open, usable, alive, offering, stop>>
        /\ turn' \in [StreamIds -> TurnPoints]
        /\ \A r \in StreamIds : turn[r] = "relay" => turn'[r] = "relay"
        /\ writer' \in [Conns -> {"none", "select", "written"}]
    BY <1>3 DEF TurnReady, IInv, TypeOK, TurnPoints
  <2> QED
    BY <2>1, NoteKeepsIInv
<1>4. ASSUME NEW c \in Conns, WriterNote(c)
      PROVE  IInv'
  <2>1. /\ c[1] \in StreamIds
        /\ EnsureStream(c[1])
        /\ UNCHANGED <<dtls, cur, taken, open, usable, alive, offering, stop>>
        /\ turn' = turn /\ turn \in [StreamIds -> TurnPoints]
        /\ writer' \in [Conns -> {"none", "select", "written"}]
    BY <1>4, ConnsAreTagged DEF WriterNote, IInv, TypeOK
  <2> QED
    BY <2>1, NoteKeepsIInv
<1>5. ASSUME (\E c \in Conns : OfferEnd(c) \/ WriterSend(c) \/ WriterEnd(c)) \/ Stop
      PROVE  IInv'
  <2>1. /\ UNCHANGED <<tableVars, dtls, cur, usable, turn, taken>>
        /\ taken' \in [StreamIds -> Pipes \cup {None}]
        /\ turn' \in [StreamIds -> TurnPoints]
        /\ open' \in SUBSET open /\ alive' \in SUBSET alive
        /\ offering' \in SUBSET offering
        /\ writer' \in [Conns -> {"none", "select", "written"}]
        /\ stop' \in BOOLEAN
    BY <1>5 DEF OfferEnd, WriterSend, WriterEnd, Stop, IInv, TypeOK
  <2> QED
    BY <2>1, OtherKeepsIInv
<1>6. CASE UNCHANGED vars
  BY <1>6 DEF vars, IInv, TypeOK, WorkerHasPipe, ReadyHasConnection, UpIsReady,
              LeaderIsReady, LeaderIsCurrent, UpHasRelay, Mine
<1>7. CASE NegotiationEnds
  BY <1>7 DEF NegotiationEnds, IInv, TypeOK, WorkerHasPipe, ReadyHasConnection, UpIsReady,
              LeaderIsReady, LeaderIsCurrent, UpHasRelay, Mine
<1> QED
  BY <1>1, <1>2, <1>3, <1>4, <1>5, <1>6, <1>7
     DEF Next, Connect, WriterStep, Terminated

\* The invariant holds throughout.
LEMMA Invariance == Spec => []IInv
BY InitIInv, NextIInv, PTL DEF Spec

-----------------------------------------------------------------------------
\* Every variable of the workers and of sessionRuntime keeps its type; an
\* entry's dtlsReady never outlives the entry.
THEOREM TypeCorrect == Spec => []TypeOK
<1>1. IInv => TypeOK
  BY DEF IInv
<1> QED
  BY <1>1, Invariance, PTL

\* No interleaving of notes, removals and elections leaves an outdated leader
\* outside the gap of NoteDtlsReady.
THEOREM LeaderStaysCurrent == Spec => []LeaderIsCurrent
<1>1. IInv => LeaderIsCurrent
  BY DEF IInv
<1> QED
  BY <1>1, Invariance, PTL

\* With a connection up, the elected stream has a connection to send
\* heartbeats on, however many entries late notes have brought back.
THEOREM HeartbeatIsSent == Spec => []HeartbeatHasSender
<1>1. IInv => HeartbeatHasSender
  BY DEF IInv, TypeOK, LeaderIsReady, ReadyHasConnection, HeartbeatHasSender,
         IsHeartbeatLeader
<1> QED
  BY <1>1, Invariance, PTL

\* An established connection over an open pipe has its relay.
THEOREM RelayIsAttached == Spec => []UpHasRelay
<1>1. IInv => UpHasRelay
  BY DEF IInv
<1> QED
  BY <1>1, Invariance, PTL
=============================================================================
