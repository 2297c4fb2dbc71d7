--------------------------- MODULE CredGroupsProofs ---------------------------
(***************************************************************************)
(* Safety of CredGroups for any number of workers, groups and links and    *)
(* for any thresholds.                                                     *)
(*                                                                         *)
(* NoLostWakeup is not inductive: it says that some worker is fetching,    *)
(* and a step of that worker alone does not tell whether it was the one    *)
(* waited for.  What every step preserves is that a waiter's group has its *)
(* refreshing flag up (WaiterHasRefresh), which by SingleFlight means one  *)
(* worker in flight, whose return lowers the flag and wakes the waiters in *)
(* one critical section.  Types need to know through which link a fetch    *)
(* succeeded (FetchHasLink), and SecondaryIsLastResort which links the     *)
(* loop of fetchForGroup has behind it (CoverInv).                         *)
(***************************************************************************)
EXTENDS CredGroups, TLAPS

WaiterHasRefresh ==
    \A w \in Workers : pc[w] = "waiting" => refreshing[groupForWorker(w)]

FetchHasLink ==
    \A f \in Fetchers :
        /\ pc[f] \in {"primary", "fetched"} => link[f] \in Links
        /\ pc[f] = "fallback" => link[f] = secondary /\ secondary \in Links

ReporterHasTarget == \A w \in Workers : pc[w] = "mark" => blamed[w] \in Links

\* What is said of the flags and the goroutines in flight.
FlightInv == SingleFlight /\ WaiterHasRefresh

\* What is said of the locals of fetchForGroup and ReportWorkerError.
LocalInv == FetchHasLink /\ ReporterHasTarget

IInv == TypeOK /\ FlightInv /\ LocalInv /\ BackoffHasCause /\ InvalidationIsComplete

-----------------------------------------------------------------------------
(* Workers, groups and links.                                              *)

\* Go's remainder by a positive number.
LEMMA Remainder ==
    ASSUME NEW n \in Nat, NEW d \in Nat \ {0}
    PROVE  n % d \in 0 .. d - 1 /\ n \div d \in Nat
OBVIOUS

\* A worker has a group; a group has a prefetch goroutine of its own, which is
\* no worker.
LEMMA Indices ==
    /\ \A w \in Workers : w \in Fetchers /\ groupForWorker(w) \in Groups
    /\ \A g \in Groups : Prefetcher(g) \in Fetchers /\ Prefetcher(g) \notin Workers
    /\ \A f \in Fetchers : f \in Workers \/ \E g \in Groups : f = Prefetcher(g)
    /\ \A g, h \in Groups : Prefetcher(g) = Prefetcher(h) => g = h
<1>1. ASSUME NEW w \in Workers PROVE groupForWorker(w) \in Groups
  <2>1. w \in Nat /\ GroupSize \in Nat \ {0} /\ NumGroups \in Nat \ {0}
    BY GroupsAssumption DEF Workers
  <2>2. w \div GroupSize \in Nat
    BY <2>1, Remainder
  <2> QED
    BY <2>1, <2>2, Remainder DEF groupForWorker, Groups
<1> QED
  BY <1>1, GroupsAssumption DEF Fetchers, Prefetcher, Workers, Groups

\* The secondary link has an index of its own.
LEMMA LinkFacts ==
    /\ Primary \subseteq Links
    /\ secondary \notin Primary /\ NoLink \notin Links
    /\ \A l \in Links : l \in Primary \/ l = secondary
    /\ HasSecondary => secondary \in Links
    /\ \A l \in Links : Hint(l) \in Nat \cup {secondary}
BY GroupsAssumption DEF Primary, Links, secondary, NoLink, Hint

\* PickPrimary returns primary links.
LEMMA PickIsPrimary == \A n \in Nat : PickPrimary(n) \subseteq Primary
<1>1. ASSUME NEW n \in Nat, NEW i \in Primary PROVE Probe(n, i) \in Primary
  <2>1. n + i \in Nat /\ NumPrimary \in Nat \ {0}
    BY GroupsAssumption DEF Primary
  <2> QED
    BY <2>1, Remainder DEF Probe, Primary
<1> QED
  BY <1>1 DEF PickPrimary

-----------------------------------------------------------------------------
(* What a step that does not touch a part of the state preserves.          *)

\* Flags and goroutines in flight.
LEMMA FlightKept ==
    ASSUME FlightInv, refreshing' = refreshing, prefetching' = prefetching,
           \A w \in Workers : /\ pc'[w] \in Fetching <=> pc[w] \in Fetching
                              /\ pc'[w] = "waiting" => pc[w] = "waiting",
           \A g \in Groups : pc'[Prefetcher(g)] = "idle" <=> pc[Prefetcher(g)] = "idle"
    PROVE  FlightInv'
BY DEF FlightInv, SingleFlight, WaiterHasRefresh, WorkersOf

\* Locals.
LEMMA LocalKept ==
    ASSUME LocalInv,
           \A f \in Fetchers : pc'[f] \in {"primary", "fetched", "fallback"} =>
               pc'[f] = pc[f] /\ link'[f] = link[f],
           \A w \in Workers : pc'[w] = "mark" => pc[w] = "mark" /\ blamed'[w] = blamed[w]
    PROVE  LocalInv'
BY DEF LocalInv, FetchHasLink, ReporterHasTarget

\* Cooldowns.
LEMMA BackoffKept ==
    ASSUME BackoffHasCause, lastErr' = lastErr,
           \A g \in Groups : cooldown'[g] => cooldown[g]
    PROVE  BackoffHasCause'
BY DEF BackoffHasCause

\* Reports in their last loop.
LEMMA InvalidationKept ==
    ASSUME InvalidationIsComplete, credLink' = credLink, assignedIdx' = assignedIdx,
           \A g \in Groups : valid'[g] => valid[g],
           \A w \in Workers : pc'[w] = "invalidate" =>
               /\ pc[w] = "invalidate" /\ blamed'[w] = blamed[w]
               /\ pending'[w] = pending[w] /\ restored'[w] = restored[w]
    PROVE  InvalidationIsComplete'
BY DEF InvalidationIsComplete, BoundTo

-----------------------------------------------------------------------------
\* The initial state satisfies the invariant.
LEMMA InitIInv == Init => IInv
<1> SUFFICES ASSUME Init PROVE IInv
  OBVIOUS
<1> USE DEF Init
<1>1. TypeOK
  <2>1. \A g \in Groups : g % NumPrimary \in Nat
    BY Remainder, GroupsAssumption DEF Groups
  <2>2. assignedIdx \in [Groups -> Nat \cup {secondary}]
    BY <2>1
  <2> QED
    BY <2>2 DEF TypeOK, Points
<1>2. FlightInv
  BY Indices DEF FlightInv, SingleFlight, WaiterHasRefresh, WorkersOf, Fetching
<1>3. LocalInv
  BY Indices DEF LocalInv, FetchHasLink, ReporterHasTarget
<1>4. BackoffHasCause
  BY DEF BackoffHasCause
<1>5. InvalidationIsComplete
  BY Indices DEF InvalidationIsComplete
<1> QED
  BY <1>1, <1>2, <1>3, <1>4, <1>5 DEF IInv

-----------------------------------------------------------------------------
(* Steps of acquire.                                                       *)

\* A call begins, waits, or is answered from the cooldown.
LEMMA CallStep ==
    ASSUME IInv, NEW w \in Workers,
           GetCredsForWorker(w) \/ AcquireWait(w) \/ AcquireBackoff(w)
    PROVE  IInv'
<1>0. /\ UNCHANGED <<groupVars, linkVars, fetchVars, reportVars>>
      /\ calls' = calls \/ calls' = [calls EXCEPT ![w] = @ + 1]
      /\ pc[w] \in {"idle", "acquire"} /\ w \in Fetchers
      /\ \E p \in {"idle", "acquire", "waiting"} :
            /\ pc' = [pc EXCEPT ![w] = p]
            /\ p = "waiting" => refreshing[groupForWorker(w)]
  BY Indices DEF GetCredsForWorker, AcquireWait, AcquireBackoff, Goto
<1>1. TypeOK'
  <2>1. pc' \in [Fetchers -> Points] /\ calls' \in [Workers -> Nat]
    BY <1>0 DEF IInv, TypeOK, Points
  <2> QED
    BY <1>0, <2>1 DEF IInv, TypeOK, groupVars, linkVars, fetchVars, reportVars
<1>2. FlightInv'
  <2>1. /\ \A v \in Workers : pc'[v] \in Fetching <=> pc[v] \in Fetching
        /\ \A g \in Groups : pc'[Prefetcher(g)] = pc[Prefetcher(g)]
    BY <1>0, Indices DEF IInv, TypeOK, Fetching
  <2>2. SingleFlight'
    BY <1>0, <2>1 DEF IInv, FlightInv, SingleFlight, WorkersOf, groupVars
  <2>3. WaiterHasRefresh'
    BY <1>0, Indices DEF IInv, TypeOK, FlightInv, WaiterHasRefresh, groupVars
  <2> QED
    BY <2>2, <2>3 DEF FlightInv
<1>3. LocalInv'
  BY <1>0, Indices, LocalKept DEF IInv, TypeOK, fetchVars, reportVars
<1>4. BackoffHasCause'
  BY <1>0, BackoffKept DEF IInv, groupVars
<1>5. InvalidationIsComplete'
  BY <1>0, Indices, InvalidationKept DEF IInv, TypeOK, groupVars, reportVars
<1> QED
  BY <1>1, <1>2, <1>3, <1>4, <1>5 DEF IInv

\* A usable credential is returned, and a prefetch may start.
LEMMA ValidStep ==
    ASSUME IInv, NEW w \in Workers, AcquireValid(w)
    PROVE  IInv'
<1> DEFINE g == groupForWorker(w)
<1>0. g \in Groups /\ w \in Fetchers /\ Prefetcher(g) \in Fetchers /\ Prefetcher(g) # w
  BY Indices
<1> USE Indices DEF AcquireValid, Goto, linkVars, fetchVars, reportVars
<1>1. TypeOK'
  BY <1>0 DEF IInv, TypeOK, Points
<1>2. FlightInv'
  <2>1. CASE shouldPrefetch(g)
    <3>1. /\ prefetching' = [prefetching EXCEPT ![g] = TRUE] /\ refreshing' = refreshing
          /\ pc' = [pc EXCEPT ![w] = "idle", ![Prefetcher(g)] = "fetch"]
      BY <2>1
    <3>2. \A v \in Workers : pc'[v] = IF v = w THEN "idle" ELSE pc[v]
      BY <3>1 DEF IInv, TypeOK
    <3>3. \A h \in Groups : pc'[Prefetcher(h)] = IF h = g THEN "fetch" ELSE pc[Prefetcher(h)]
      BY <3>1 DEF IInv, TypeOK
    <3>4. pc[w] = "acquire"
      OBVIOUS
    <3> HIDE Indices DEF AcquireValid
    <3>5. WaiterHasRefresh'
      BY <3>1, <3>2 DEF IInv, FlightInv, WaiterHasRefresh
    <3>6. \A h \in Groups : prefetching'[h] <=> pc'[Prefetcher(h)] # "idle"
      <4>1. \A h \in Groups : h # g => prefetching'[h] = prefetching[h]
        BY <3>1 DEF IInv, TypeOK
      <4>2. prefetching'[g] = TRUE
        BY <1>0, <3>1 DEF IInv, TypeOK
      <4>3. \A h \in Groups : prefetching[h] <=> pc[Prefetcher(h)] # "idle"
        BY DEF IInv, FlightInv, SingleFlight
      <4> QED
        BY <3>3, <4>1, <4>2, <4>3
    <3>7. \A v \in Workers : pc'[v] \in Fetching <=> pc[v] \in Fetching
      BY <3>2, <3>4 DEF Fetching
    <3>8. SingleFlight'
      BY <3>1, <3>6, <3>7 DEF IInv, FlightInv, SingleFlight, WorkersOf
    <3> QED
      BY <3>5, <3>8 DEF FlightInv
  <2>2. CASE ~shouldPrefetch(g)
    BY <2>2, FlightKept DEF IInv, TypeOK, Fetching
  <2> QED
    BY <2>1, <2>2
<1>3. LocalInv'
  BY <1>0, LocalKept DEF IInv, TypeOK
<1>4. BackoffHasCause'
  BY BackoffKept DEF IInv
<1>5. InvalidationIsComplete'
  BY <1>0, InvalidationKept DEF IInv, TypeOK
<1> QED
  BY <1>1, <1>2, <1>3, <1>4, <1>5 DEF IInv

\* A worker sets out to fetch for its group.
LEMMA RefreshStep ==
    ASSUME IInv, NEW w \in Workers, AcquireRefresh(w)
    PROVE  IInv'
<1> USE Indices DEF AcquireRefresh, Goto, linkVars, fetchVars, reportVars
<1>1. TypeOK'
  BY DEF IInv, TypeOK, Points
<1>2. FlightInv'
  BY DEF IInv, TypeOK, FlightInv, SingleFlight, WaiterHasRefresh, WorkersOf, Fetching
<1>3. LocalInv'
  BY LocalKept DEF IInv, TypeOK
<1>4. BackoffHasCause'
  BY BackoffKept DEF IInv
<1>5. InvalidationIsComplete'
  BY InvalidationKept DEF IInv, TypeOK
<1> QED
  BY <1>1, <1>2, <1>3, <1>4, <1>5 DEF IInv

-----------------------------------------------------------------------------
(* Steps of fetchForGroup.                                                 *)

\* One lemma for all of them: who fetches goes on fetching.
LEMMA FetchStep ==
    ASSUME IInv, NEW f \in Fetchers, fetchForGroup(f)
    PROVE  IInv'
<1> USE DEF fetchForGroup, FetchBegin, FetchPick, FetchNoneAlive, FetchLoopEnd,
         PrimaryOk, PrimaryFail, SecondaryPick, SecondaryOk, SecondaryFail, Goto
<1>0. /\ UNCHANGED <<groupVars, reportVars, calls>>
      /\ pc[f] \in Fetching /\ \E p \in Fetching : pc' = [pc EXCEPT ![f] = p]
  BY DEF Fetching
<1>1. /\ FetchHasLink' /\ link' \in [Fetchers -> Links \cup {NoLink}]
  <2>1. CASE FetchPick(f)
    <3>1. (prefer[f] + attempt[f]) % NumPrimary \in Nat
      BY Remainder, GroupsAssumption DEF IInv, TypeOK
    <3>2. PICK l \in Primary : link' = [link EXCEPT ![f] = l]
      BY <2>1, <3>1, PickIsPrimary
    <3>3. pc' = [pc EXCEPT ![f] = "primary"]
      BY <2>1
    <3> HIDE DEF fetchForGroup, FetchPick
    <3> QED
      BY <3>2, <3>3, LinkFacts DEF IInv, TypeOK, LocalInv, FetchHasLink
  <2>2. CASE SecondaryPick(f)
    BY <2>2, LinkFacts DEF IInv, TypeOK, LocalInv, FetchHasLink
  <2>3. CASE SecondaryOk(f)
    BY <2>3 DEF IInv, TypeOK, LocalInv, FetchHasLink, fetchVars
  <2>4. CASE PrimaryOk(f)
    BY <2>4 DEF IInv, TypeOK, LocalInv, FetchHasLink, fetchVars
  <2>5. CASE \/ FetchBegin(f) \/ FetchNoneAlive(f) \/ FetchLoopEnd(f)
             \/ PrimaryFail(f) \/ SecondaryFail(f)
    <3>1. /\ link' = link
          /\ \E p \in {"pick", "secondary", "exhausted"} : pc' = [pc EXCEPT ![f] = p]
      BY <2>5 DEF fetchVars
    <3> HIDE DEF fetchForGroup
    <3> QED
      BY <3>1 DEF IInv, TypeOK, LocalInv, FetchHasLink
  <2> QED
    BY <2>1, <2>2, <2>3, <2>4, <2>5
<1>2. /\ prefer' \in [Fetchers -> Nat] /\ attempt' \in [Fetchers -> Nat]
      /\ skipped' \in [Fetchers -> SUBSET Links]
      /\ tried' \in [Fetchers -> SUBSET Links]
  <2>1. CASE FetchBegin(f)
    <3>1. GroupOf(f) \in Groups
      BY Indices, GroupsAssumption DEF GroupOf, Prefetcher, Groups
    <3>2. (IF assignedIdx[GroupOf(f)] < 0 THEN 0 ELSE assignedIdx[GroupOf(f)]) \in Nat
      BY <3>1 DEF IInv, TypeOK, secondary
    <3>3. (IF assignedIdx[GroupOf(f)] < 0 THEN 0 ELSE assignedIdx[GroupOf(f)]) % NumPrimary
            \in Nat
      BY <3>2, Remainder, GroupsAssumption
    <3> QED
      BY <2>1, <3>3 DEF IInv, TypeOK
  <2>2. CASE PrimaryFail(f)
    BY <2>2 DEF IInv, TypeOK, LocalInv, FetchHasLink
  <2>3. CASE FetchPick(f) \/ FetchNoneAlive(f)
    BY <2>3, LinkFacts DEF IInv, TypeOK
  <2>4. CASE \/ FetchLoopEnd(f) \/ PrimaryOk(f) \/ SecondaryPick(f)
             \/ SecondaryOk(f) \/ SecondaryFail(f)
    BY <2>4 DEF IInv, TypeOK, fetchVars
  <2> QED
    BY <2>1, <2>2, <2>3, <2>4
<1>3. /\ failureCount' \in [Links -> Nat] /\ errorCount' = errorCount
      /\ dead' \in SUBSET Links
  <2>1. CASE PrimaryFail(f) \/ SecondaryFail(f)
    <3>1. PICK l \in Links : MarkFetchFailure(l)
      BY <2>1 DEF IInv, LocalInv, FetchHasLink
    <3>2. CountUp(failureCount[l], FetchFailureThreshold) \in Nat
      BY GroupsAssumption DEF IInv, TypeOK, CountUp
    <3>3. errorCount' = errorCount
      BY <2>1
    <3> HIDE DEF fetchForGroup
    <3> QED
      BY <3>1, <3>2, <3>3 DEF IInv, TypeOK, MarkFetchFailure
  <2>2. CASE PrimaryOk(f) \/ SecondaryOk(f)
    BY <2>2 DEF IInv, TypeOK
  <2>3. CASE \/ FetchBegin(f) \/ FetchPick(f) \/ FetchNoneAlive(f) \/ FetchLoopEnd(f)
             \/ SecondaryPick(f)
    BY <2>3 DEF IInv, TypeOK, linkVars
  <2> QED
    BY <2>1, <2>2, <2>3
<1> HIDE DEF fetchForGroup
<1>4. TypeOK'
  <2>1. pc' \in [Fetchers -> Points]
    BY <1>0 DEF IInv, TypeOK, Points, Fetching
  <2> QED
    BY <1>0, <1>1, <1>2, <1>3, <2>1 DEF IInv, TypeOK, groupVars, reportVars
<1>5. FlightInv'
  BY <1>0, Indices, FlightKept DEF IInv, TypeOK, Fetching, groupVars
<1>6. LocalInv'
  BY <1>0, <1>1, Indices DEF IInv, TypeOK, LocalInv, ReporterHasTarget, Fetching, reportVars
<1>7. BackoffHasCause'
  BY <1>0, BackoffKept DEF IInv, groupVars
<1>8. InvalidationIsComplete'
  BY <1>0, Indices, InvalidationKept DEF IInv, TypeOK, Fetching, groupVars, reportVars
<1> QED
  BY <1>4, <1>5, <1>6, <1>7, <1>8 DEF IInv

-----------------------------------------------------------------------------
(* Steps that end a fetch.                                                 *)

\* Storing what was fetched through l in group g.
LEMMA StoreKeeps ==
    ASSUME IInv, NEW g \in Groups, NEW l \in Links, Store(g, l),
           \A w \in Workers : pc'[w] = "invalidate" => pc[w] = "invalidate"
    PROVE  /\ BackoffHasCause' /\ InvalidationIsComplete'
           /\ valid' \in [Groups -> BOOLEAN]
           /\ age' \in [Groups -> {"fresh", "ageing", "expired"}]
           /\ assignedIdx' \in [Groups -> Nat \cup {secondary}]
           /\ cooldown' \in [Groups -> BOOLEAN] /\ lastErr' \in [Groups -> BOOLEAN]
           /\ credLink' \in [Groups -> Links \cup {NoLink}]
           /\ restored' \in [Workers -> SUBSET Groups]
<1> USE DEF Store
<1>1. Hint(l) \in Nat \cup {secondary}
  BY LinkFacts
<1>2. BackoffHasCause'
  BY DEF IInv, TypeOK, BackoffHasCause
<1>3. InvalidationIsComplete'
  <2>1. ASSUME NEW w \in Workers, pc'[w] = "invalidate",
               NEW h \in Groups \ (pending'[w] \cup restored'[w]), BoundTo(h, blamed[w])'
        PROVE  ~valid'[h]
    <3>1. pc[w] = "invalidate" /\ h # g /\ h \notin pending[w] \cup restored[w]
      BY <2>1 DEF IInv, TypeOK
    <3>2. BoundTo(h, blamed[w])
      BY <2>1, <3>1 DEF IInv, TypeOK, BoundTo
    <3> QED
      BY <3>1, <3>2 DEF IInv, TypeOK, InvalidationIsComplete
  <2> QED
    BY <2>1 DEF InvalidationIsComplete
<1> QED
  BY <1>1, <1>2, <1>3 DEF IInv, TypeOK

\* fetchForGroup's locals are gone.
LEMMA EndFetchKeeps ==
    ASSUME TypeOK, NEW f \in Fetchers, EndFetch(f)
    PROVE  /\ prefer' \in [Fetchers -> Nat] /\ attempt' \in [Fetchers -> Nat]
           /\ link' \in [Fetchers -> Links \cup {NoLink}]
           /\ tried' \in [Fetchers -> SUBSET Links]
           /\ skipped' \in [Fetchers -> SUBSET Links]
           /\ \A e \in Fetchers : e # f => link'[e] = link[e]
BY DEF TypeOK, EndFetch

\* A refresh returns: the flag is lowered and the waiters are woken at once.
LEMMA RefreshEnds ==
    ASSUME TypeOK, FlightInv, NEW w \in Workers, pc[w] \in Fetching,
           refreshing' = [refreshing EXCEPT ![groupForWorker(w)] = FALSE],
           prefetching' = prefetching,
           Broadcast(groupForWorker(w), w, "idle")
    PROVE  /\ FlightInv' /\ refreshing' \in [Groups -> BOOLEAN]
           /\ pc' \in [Fetchers -> Points]
           /\ \A f \in Fetchers : \/ pc'[f] = pc[f] /\ f # w
                                  \/ pc'[f] \in {"idle", "acquire"}
<1> DEFINE g == groupForWorker(w)
<1>1. g \in Groups /\ w \in Fetchers
  BY Indices
<1>2. \A v \in Workers : pc'[v] = IF v = w THEN "idle"
                                  ELSE IF v \in WorkersOf(g) /\ pc[v] = "waiting"
                                  THEN "acquire" ELSE pc[v]
  BY Indices DEF Broadcast
<1>3. \A h \in Groups : pc'[Prefetcher(h)] = pc[Prefetcher(h)]
  BY Indices DEF Broadcast, WorkersOf
<1>4. \A v \in WorkersOf(g) : pc[v] \in Fetching => v = w
  BY <1>1 DEF FlightInv, SingleFlight, WorkersOf
<1>5. SingleFlight'
  <2>1. ASSUME NEW h \in Groups
        PROVE  refreshing'[h] <=> \E v \in WorkersOf(h) : pc'[v] \in Fetching
    <3>1. CASE h = g
      BY <1>1, <1>2, <1>4, <3>1 DEF TypeOK, WorkersOf, Fetching
    <3>2. CASE h # g
      <4>1. \A v \in WorkersOf(h) : pc'[v] = pc[v]
        BY <1>2, <3>2 DEF WorkersOf
      <4> QED
        BY <1>1, <3>2, <4>1 DEF TypeOK, FlightInv, SingleFlight, WorkersOf
    <3> QED
      BY <3>1, <3>2
  <2>2. \A v \in Workers : pc'[v] \in Fetching => pc[v] \in Fetching
    BY <1>2 DEF Fetching
  <2> QED
    BY <1>3, <2>1, <2>2 DEF FlightInv, SingleFlight, WorkersOf
<1>6. WaiterHasRefresh'
  BY <1>1, <1>2, Indices DEF TypeOK, FlightInv, WaiterHasRefresh, WorkersOf
<1>7. \A f \in Fetchers : pc'[f] \in Points
  BY DEF Broadcast, TypeOK, Points
<1> QED
  BY <1>1, <1>5, <1>6, <1>7 DEF FlightInv, Broadcast, TypeOK

\* acquire's second critical section, after a success and after a failure.
LEMMA RefreshEndStep ==
    ASSUME IInv, NEW w \in Workers, RefreshOk(w) \/ RefreshErr(w)
    PROVE  IInv'
<1> DEFINE g == groupForWorker(w)
<1> USE DEF RefreshOk, RefreshErr
<1>1. g \in Groups /\ w \in Fetchers /\ EndFetch(w) /\ UNCHANGED <<linkVars, calls>>
  BY Indices
<1>2. /\ FlightInv' /\ refreshing' \in [Groups -> BOOLEAN] /\ prefetching' = prefetching
      /\ pc' \in [Fetchers -> Points]
      /\ \A f \in Fetchers : \/ pc'[f] = pc[f] /\ f # w
                             \/ pc'[f] \in {"idle", "acquire"}
  BY RefreshEnds DEF IInv, Fetching
<1>3. /\ BackoffHasCause' /\ InvalidationIsComplete'
      /\ valid' \in [Groups -> BOOLEAN]
      /\ age' \in [Groups -> {"fresh", "ageing", "expired"}]
      /\ assignedIdx' \in [Groups -> Nat \cup {secondary}]
      /\ cooldown' \in [Groups -> BOOLEAN] /\ lastErr' \in [Groups -> BOOLEAN]
      /\ credLink' \in [Groups -> Links \cup {NoLink}]
      /\ restored' \in [Workers -> SUBSET Groups]
      /\ UNCHANGED <<blamed, pending>>
  <2>1. CASE RefreshOk(w)
    <3>1. link[w] \in Links /\ Store(g, link[w]) /\ UNCHANGED <<blamed, pending>>
      BY <1>1, <2>1 DEF IInv, LocalInv, FetchHasLink, Store
    <3>2. \A v \in Workers : pc'[v] = "invalidate" => pc[v] = "invalidate"
      BY <1>2, Indices
    <3> HIDE DEF RefreshOk, RefreshErr
    <3> QED
      BY <1>1, <3>1, <3>2, StoreKeeps
  <2>2. CASE RefreshErr(w)
    <3>1. InvalidationIsComplete'
      BY <1>2, <2>2, Indices, InvalidationKept DEF IInv, reportVars
    <3> QED
      BY <1>1, <2>2, <3>1 DEF IInv, TypeOK, BackoffHasCause, reportVars
  <2> QED
    BY <2>1, <2>2
<1> HIDE DEF RefreshOk, RefreshErr
<1>4. TypeOK'
  BY <1>1, <1>2, <1>3, EndFetchKeeps DEF IInv, TypeOK, linkVars
<1>5. LocalInv'
  BY <1>1, <1>2, <1>3, Indices, EndFetchKeeps, LocalKept DEF IInv
<1> QED
  BY <1>2, <1>3, <1>4, <1>5 DEF IInv

\* runPrefetch stores, gives up and lowers its flag.
LEMMA PrefetchStep ==
    ASSUME IInv, NEW g \in Groups, runPrefetch(g)
    PROVE  IInv'
<1> DEFINE p == Prefetcher(g)
<1>0. p \in Fetchers /\ p \notin Workers
  BY Indices
<1>1. CASE PrefetchOk(g)
  <2>1. /\ link[p] \in Links /\ Store(g, link[p]) /\ EndFetch(p)
        /\ pc' = [pc EXCEPT ![p] = "release"] /\ pc[p] = "fetched"
        /\ UNCHANGED <<refreshing, prefetching, linkVars, calls, blamed, pending>>
    BY <1>0, <1>1 DEF PrefetchOk, Goto, Store, IInv, LocalInv, FetchHasLink
  <2>2. \A w \in Workers : pc'[w] = pc[w]
    BY <1>0, <2>1, Indices DEF IInv, TypeOK
  <2>3. TypeOK' /\ BackoffHasCause' /\ InvalidationIsComplete'
    BY <1>0, <2>1, <2>2, StoreKeeps, EndFetchKeeps DEF IInv, TypeOK, Points, linkVars
  <2>4. FlightInv'
    BY <1>0, <2>1, <2>2, Indices, FlightKept DEF IInv, TypeOK
  <2>5. LocalInv'
    BY <1>0, <2>1, <2>2, EndFetchKeeps, LocalKept DEF IInv, TypeOK
  <2> QED
    BY <2>3, <2>4, <2>5 DEF IInv
<1>2. CASE PrefetchErr(g)
  <2>1. /\ EndFetch(p) /\ pc' = [pc EXCEPT ![p] = "release"] /\ pc[p] = "exhausted"
        /\ UNCHANGED <<groupVars, linkVars, reportVars, calls>>
    BY <1>2 DEF PrefetchErr, Goto
  <2>2. \A w \in Workers : pc'[w] = pc[w]
    BY <1>0, <2>1, Indices DEF IInv, TypeOK
  <2>3. TypeOK'
    BY <1>0, <2>1, EndFetchKeeps DEF IInv, TypeOK, Points, groupVars, linkVars, reportVars
  <2>4. FlightInv'
    BY <1>0, <2>1, <2>2, Indices, FlightKept DEF IInv, TypeOK, groupVars
  <2>5. LocalInv'
    BY <1>0, <2>1, <2>2, EndFetchKeeps, LocalKept DEF IInv, TypeOK, reportVars
  <2>6. BackoffHasCause' /\ InvalidationIsComplete'
    BY <2>1, <2>2, BackoffKept, InvalidationKept DEF IInv, groupVars, reportVars
  <2> QED
    BY <2>3, <2>4, <2>5, <2>6 DEF IInv
<1>3. CASE PrefetchRelease(g)
  <2> USE DEF PrefetchRelease, Goto, linkVars, reportVars, fetchVars
  <2>1. \A w \in Workers : pc'[w] = pc[w]
    BY <1>0, <1>3, Indices DEF IInv, TypeOK
  <2>2. TypeOK'
    BY <1>0, <1>3 DEF IInv, TypeOK, Points
  <2>3. FlightInv'
    <3>1. \A h \in Groups : pc'[Prefetcher(h)] = IF h = g THEN "idle" ELSE pc[Prefetcher(h)]
      BY <1>0, <1>3, Indices DEF IInv, TypeOK
    <3> QED
      BY <1>3, <2>1, <3>1 DEF IInv, TypeOK, FlightInv, SingleFlight, WaiterHasRefresh,
         WorkersOf
  <2>4. LocalInv'
    BY <1>0, <1>3, <2>1, LocalKept DEF IInv, TypeOK
  <2>5. BackoffHasCause' /\ InvalidationIsComplete'
    BY <1>3, <2>1, BackoffKept, InvalidationKept DEF IInv
  <2> QED
    BY <2>2, <2>3, <2>4, <2>5 DEF IInv
<1> QED
  BY <1>1, <1>2, <1>3 DEF runPrefetch

-----------------------------------------------------------------------------
(* Steps of ReportWorkerError.                                             *)

\* A report begins, marks its link, and decides.
LEMMA ReportStep ==
    ASSUME IInv, NEW w \in Workers,
           ReportWorkerError(w) \/ ReportMark(w) \/ ReportCheck(w) \/ ReportEnd(w)
    PROVE  IInv'
<1>0. w \in Fetchers /\ groupForWorker(w) \in Groups
  BY Indices
<1>1. /\ UNCHANGED <<groupVars, failureCount, fetchVars>>
      /\ pc[w] \in {"idle", "mark", "check", "invalidate"}
      /\ \/ pc' = pc
         \/ \E p \in {"idle", "mark", "check", "invalidate"} : pc' = [pc EXCEPT ![w] = p]
  BY DEF ReportWorkerError, ReportMark, ReportCheck, ReportEnd, Goto, linkVars
<1>2. /\ blamed' \in [Workers -> Links \cup {NoLink}] /\ ReporterHasTarget'
      /\ errorCount' \in [Links -> Nat] /\ dead' \in SUBSET Links
  <2>1. CASE ReportWorkerError(w)
    BY <1>0, <2>1, Indices, LinkFacts DEF ReportWorkerError, Goto, IInv, TypeOK, LocalInv,
       ReporterHasTarget, linkVars
  <2>2. CASE ReportMark(w)
    <3>1. PICK l \in Links :
            /\ blamed' = [blamed EXCEPT ![w] = l]
            /\ \/ /\ errorCount' = [errorCount EXCEPT ![l] = errorCount[l] + 1]
                  /\ dead' = dead \cup {l} \/ dead' = dead
               \/ UNCHANGED <<errorCount, dead>>
      BY <2>2, LinkFacts DEF ReportMark, IInv, LocalInv, ReporterHasTarget
    <3>2. pc' = [pc EXCEPT ![w] = "check"]
      BY <2>2 DEF ReportMark, Goto
    <3>3. ReporterHasTarget'
      BY <1>0, <3>1, <3>2, Indices DEF IInv, TypeOK, LocalInv, ReporterHasTarget
    <3>4. errorCount' \in [Links -> Nat]
      BY <3>1 DEF IInv, TypeOK
    <3> QED
      BY <3>1, <3>3, <3>4 DEF IInv, TypeOK
  <2>3. CASE ReportCheck(w) \/ ReportEnd(w)
    BY <1>0, <2>3, Indices DEF ReportCheck, ReportEnd, Goto, IInv, TypeOK, LocalInv,
       ReporterHasTarget, linkVars
  <2> QED
    BY <2>1, <2>2, <2>3
<1>3. /\ pending' \in [Workers -> SUBSET Groups] /\ restored' \in [Workers -> SUBSET Groups]
      /\ calls' \in [Workers -> Nat]
  BY DEF ReportWorkerError, ReportMark, ReportCheck, ReportEnd, IInv, TypeOK
<1>4. TypeOK'
  <2>1. pc' \in [Fetchers -> Points]
    BY <1>0, <1>1 DEF IInv, TypeOK, Points
  <2> QED
    BY <1>1, <1>2, <1>3, <2>1 DEF IInv, TypeOK, groupVars, fetchVars
<1>5. FlightInv'
  BY <1>0, <1>1, Indices, FlightKept DEF IInv, TypeOK, Fetching, groupVars
<1>6. FetchHasLink'
  BY <1>0, <1>1 DEF IInv, TypeOK, LocalInv, FetchHasLink, fetchVars
<1>7. BackoffHasCause'
  BY <1>1, BackoffKept DEF IInv, groupVars
<1>8. InvalidationIsComplete'
  <2>1. CASE ReportCheck(w)
    BY <1>0, <1>1, <2>1, Indices DEF ReportCheck, Goto, IInv, TypeOK,
       InvalidationIsComplete, BoundTo, groupVars
  <2>2. CASE ReportWorkerError(w) \/ ReportMark(w) \/ ReportEnd(w)
    <3>1. \A v \in Workers : pc'[v] = "invalidate" =>
            /\ pc[v] = "invalidate" /\ blamed'[v] = blamed[v]
            /\ pending'[v] = pending[v] /\ restored'[v] = restored[v]
      BY <1>0, <2>2, Indices DEF ReportWorkerError, ReportMark, ReportEnd, Goto, IInv,
         TypeOK
    <3> QED
      BY <1>1, <3>1, InvalidationKept DEF IInv, groupVars
  <2> QED
    BY <2>1, <2>2
<1> QED
  BY <1>2, <1>4, <1>5, <1>6, <1>7, <1>8 DEF IInv, LocalInv

\* A report passes one group.
LEMMA InvalidateStep ==
    ASSUME IInv, NEW w \in Workers, Invalidate(w)
    PROVE  IInv'
<1>0. w \in Fetchers
  BY Indices
<1>1. PICK g \in Groups :
        /\ pending' = [pending EXCEPT ![w] = @ \ {g}]
        /\ \/ /\ BoundTo(g, blamed[w])
              /\ valid' = [valid EXCEPT ![g] = FALSE]
              /\ Broadcast(g, w, "invalidate")
           \/ /\ ~BoundTo(g, blamed[w])
              /\ valid' = valid
              /\ pc' = pc
  BY DEF Invalidate, IInv, TypeOK
<1>2. /\ pc[w] = "invalidate"
      /\ UNCHANGED <<age, refreshing, prefetching, assignedIdx, cooldown, lastErr,
                     credLink, linkVars, fetchVars, blamed, restored, calls>>
  BY DEF Invalidate
<1>3. /\ pc' \in [Fetchers -> Points]
      /\ \A f \in Fetchers : \/ pc'[f] = pc[f]
                             \/ f \in Workers /\ pc[f] = "waiting" /\ pc'[f] = "acquire"
  BY <1>0, <1>1, <1>2 DEF Broadcast, WorkersOf, IInv, TypeOK, Points
<1>4. TypeOK'
  BY <1>1, <1>2, <1>3 DEF IInv, TypeOK, linkVars, fetchVars
<1>5. FlightInv'
  BY <1>2, <1>3, Indices, FlightKept DEF Fetching, IInv
<1>6. LocalInv'
  BY <1>2, <1>3, Indices, LocalKept DEF IInv, fetchVars
<1>7. BackoffHasCause'
  BY <1>2, BackoffKept DEF IInv
<1>8. InvalidationIsComplete'
  <2>1. ASSUME NEW v \in Workers, pc'[v] = "invalidate",
               NEW h \in Groups \ (pending'[v] \cup restored'[v]), BoundTo(h, blamed[v])'
        PROVE  ~valid'[h]
    <3>1. pc[v] = "invalidate"
      BY <1>3, <2>1, Indices
    <3>2. BoundTo(h, blamed[v])
      BY <1>2, <2>1 DEF BoundTo
    <3>3. valid'[h] => valid[h]
      BY <1>1 DEF IInv, TypeOK
    <3>4. h \notin pending[v] \/ (v = w /\ h = g)
      BY <1>1, <2>1 DEF IInv, TypeOK
    <3>5. CASE h \notin pending[v]
      BY <1>2, <2>1, <3>1, <3>2, <3>3, <3>5 DEF IInv, InvalidationIsComplete
    <3>6. CASE v = w /\ h = g
      BY <1>1, <3>2, <3>6 DEF IInv, TypeOK
    <3> QED
      BY <3>4, <3>5, <3>6
  <2> QED
    BY <2>1 DEF InvalidationIsComplete
<1> QED
  BY <1>4, <1>5, <1>6, <1>7, <1>8 DEF IInv

-----------------------------------------------------------------------------
\* Time passes.
LEMMA ClockStep ==
    ASSUME IInv, \/ \E g \in Groups : Age(g) \/ CooldownOver(g)
                 \/ \E l \in Links : Revive(l)
                 \/ Decay
    PROVE  IInv'
<1> USE DEF Age, CooldownOver, Revive, Decay, groupVars, linkVars, fetchVars, reportVars
<1>1. TypeOK'
  <2>1. CASE Decay
    <3>1. \A n \in Nat : n \div 2 \in Nat
      OBVIOUS
    <3> QED
      BY <2>1, <3>1 DEF IInv, TypeOK
  <2>2. CASE \/ \E g \in Groups : Age(g) \/ CooldownOver(g)
             \/ \E l \in Links : Revive(l)
    BY <2>2 DEF IInv, TypeOK
  <2> QED
    BY <2>1, <2>2
<1>2. FlightInv'
  BY FlightKept DEF IInv
<1>3. LocalInv'
  BY LocalKept DEF IInv
<1>4. BackoffHasCause'
  BY BackoffKept DEF IInv, TypeOK
<1>5. InvalidationIsComplete'
  BY InvalidationKept DEF IInv
<1> QED
  BY <1>1, <1>2, <1>3, <1>4, <1>5 DEF IInv

\* Every step preserves the invariant.
LEMMA NextIInv == IInv /\ [Next]_vars => IInv'
<1> SUFFICES ASSUME IInv, [Next]_vars PROVE IInv'
  OBVIOUS
<1>1. CASE UNCHANGED vars
  <2> USE <1>1 DEF vars, groupVars, linkVars, fetchVars, reportVars
  <2>1. TypeOK'
    BY DEF IInv, TypeOK
  <2>2. FlightInv' /\ LocalInv' /\ BackoffHasCause' /\ InvalidationIsComplete'
    BY FlightKept, LocalKept, BackoffKept, InvalidationKept DEF IInv
  <2> QED
    BY <2>1, <2>2 DEF IInv
<1>2. ASSUME NEW w \in Workers,
             GetCredsForWorker(w) \/ acquire(w) \/ ReportWorkerError(w) \/ Report(w)
      PROVE  IInv'
  BY <1>2, CallStep, ValidStep, RefreshStep, RefreshEndStep, ReportStep, InvalidateStep
     DEF acquire, Report
<1>3. ASSUME \E f \in Fetchers : fetchForGroup(f) PROVE IInv'
  BY <1>3, FetchStep
<1>4. ASSUME \E g \in Groups : runPrefetch(g) PROVE IInv'
  BY <1>4, PrefetchStep
<1> QED
  BY <1>1, <1>2, <1>3, <1>4, ClockStep DEF Next, Terminated

\* The invariant holds throughout.
LEMMA Invariance == Spec => []IInv
BY InitIInv, NextIInv, PTL DEF Spec

-----------------------------------------------------------------------------
(* The links a fetch has gone through.                                     *)

\* The links fetchForGroup has tried, or passed over as dead.
Covered(f) == tried[f] \cup skipped[f]

\* The loop has covered the first attempt[f] links from the preferred one on,
\* and is about to cover the next.
CoverInv ==
    \A f \in Fetchers :
        /\ pc[f] \in {"pick", "primary"} =>
              /\ prefer[f] \in Primary /\ attempt[f] \in 0 .. NumPrimary
              /\ \A i \in 0 .. attempt[f] - 1 : Probe(prefer[f], i) \in Covered(f)
        /\ pc[f] = "primary" =>
              /\ attempt[f] < NumPrimary
              /\ Probe(prefer[f], attempt[f]) \in skipped[f] \cup {link[f]}

ResortInv == CoverInv /\ SecondaryIsLastResort

\* Small remainders.
LEMMA SmallRemainder ==
    ASSUME NEW d \in Nat \ {0}, NEW n \in Nat
    PROVE  /\ n < d => n % d = n
           /\ d <= n /\ n < d + d => n % d = n - d
OBVIOUS

\* The NumPrimary links from any one on are all of them.
LEMMA ProbesAreAll ==
    ASSUME NEW p \in Primary, NEW l \in Primary
    PROVE  \E i \in Primary : Probe(p, i) = l
<1> DEFINE i == IF p <= l THEN l - p ELSE l - p + NumPrimary
<1>1. /\ NumPrimary \in Nat \ {0} /\ p \in Nat /\ l \in Nat /\ p < NumPrimary
      /\ l < NumPrimary
  BY GroupsAssumption DEF Primary
<1>2. i \in Primary
  BY <1>1 DEF Primary
<1>3. CASE p <= l
  BY <1>1, <1>2, <1>3, SmallRemainder DEF Probe
<1>4. CASE ~(p <= l)
  <2>1. p + i = l + NumPrimary
    BY <1>1, <1>4
  <2> DEFINE n == l + NumPrimary
  <2>2. n \in Nat /\ NumPrimary <= n /\ n < NumPrimary + NumPrimary /\ n - NumPrimary = l
    BY <1>1
  <2> HIDE DEF n
  <2>3. n % NumPrimary = l
    BY <1>1, <2>2, SmallRemainder
  <2> QED
    BY <1>2, <2>1, <2>3 DEF Probe, n
<1> QED
  BY <1>3, <1>4

\* PickPrimary returns the link it starts from, or else that link is dead.
LEMMA PickOrDead ==
    ASSUME NEW s \in Primary, NEW h \in PickPrimary(s)
    PROVE  h = s \/ s \in dead \cap Primary
<1>1. Probe(s, 0) = s
  <2>1. NumPrimary \in Nat \ {0} /\ s \in Nat /\ s < NumPrimary /\ s + 0 = s
    BY GroupsAssumption DEF Primary
  <2>2. s % NumPrimary = s
    BY <2>1, SmallRemainder
  <2> QED
    BY <2>1, <2>2 DEF Probe
<1>2. PICK j \in Primary : /\ h = Probe(s, j)
                           /\ \A k \in 0 .. j - 1 : Probe(s, k) \in dead
  BY DEF PickPrimary
<1>3. CASE j = 0
  BY <1>1, <1>2, <1>3
<1>4. CASE j # 0
  <2>1. 0 \in 0 .. j - 1
    BY <1>4 DEF Primary
  <2> QED
    BY <1>1, <1>2, <2>1
<1> QED
  BY <1>3, <1>4

\* A step that moves nobody into the loop and leaves the locals of those in it.
LEMMA ResortKept ==
    ASSUME ResortInv,
           \A f \in Fetchers : pc'[f] \in {"pick", "primary", "secondary", "fallback"} =>
               /\ pc'[f] = pc[f] /\ prefer'[f] = prefer[f] /\ attempt'[f] = attempt[f]
               /\ link'[f] = link[f] /\ tried'[f] = tried[f] /\ skipped'[f] = skipped[f]
    PROVE  ResortInv'
BY DEF ResortInv, CoverInv, SecondaryIsLastResort, Covered

\* One fetch goes on, the others stay where they are.
LEMMA ResortOfOne ==
    ASSUME ResortInv, NEW f \in Fetchers,
           \A h \in Fetchers \ {f} :
               /\ pc'[h] = pc[h] /\ prefer'[h] = prefer[h] /\ attempt'[h] = attempt[h]
               /\ link'[h] = link[h] /\ tried'[h] = tried[h] /\ skipped'[h] = skipped[h],
           pc'[f] \in {"pick", "primary"} =>
              /\ prefer'[f] \in Primary /\ attempt'[f] \in 0 .. NumPrimary
              /\ \A i \in 0 .. attempt'[f] - 1 :
                    Probe(prefer'[f], i) \in tried'[f] \cup skipped'[f],
           pc'[f] = "primary" =>
              /\ attempt'[f] < NumPrimary
              /\ Probe(prefer'[f], attempt'[f]) \in skipped'[f] \cup {link'[f]},
           pc'[f] \in {"secondary", "fallback"} => Primary \subseteq tried'[f] \cup skipped'[f]
    PROVE  ResortInv'
<1>1. CoverInv'
  <2> SUFFICES ASSUME NEW h \in Fetchers
               PROVE  /\ pc'[h] \in {"pick", "primary"} =>
                         /\ prefer'[h] \in Primary /\ attempt'[h] \in 0 .. NumPrimary
                         /\ \A i \in 0 .. attempt'[h] - 1 :
                               Probe(prefer'[h], i) \in tried'[h] \cup skipped'[h]
                      /\ pc'[h] = "primary" =>
                         /\ attempt'[h] < NumPrimary
                         /\ Probe(prefer'[h], attempt'[h]) \in skipped'[h] \cup {link'[h]}
    BY DEF CoverInv, Covered, Primary, Probe
  <2>1. CASE h = f
    BY <2>1
  <2>2. CASE h # f
    BY <2>2 DEF ResortInv, CoverInv, Covered
  <2> QED
    BY <2>1, <2>2
<1>2. SecondaryIsLastResort'
  BY DEF ResortInv, SecondaryIsLastResort, Primary
<1> QED
  BY <1>1, <1>2 DEF ResortInv

\* The steps of the fetch itself.
LEMMA FetchResort ==
    ASSUME IInv, ResortInv, NEW f \in Fetchers, fetchForGroup(f)
    PROVE  ResortInv'
<1> USE DEF fetchForGroup, FetchBegin, FetchPick, FetchNoneAlive, FetchLoopEnd,
         PrimaryOk, PrimaryFail, SecondaryPick, SecondaryOk, SecondaryFail, Goto
<1>0. /\ pc \in [Fetchers -> Points] /\ prefer \in [Fetchers -> Nat]
      /\ attempt \in [Fetchers -> Nat] /\ link \in [Fetchers -> Links \cup {NoLink}]
      /\ tried \in [Fetchers -> SUBSET Links] /\ skipped \in [Fetchers -> SUBSET Links]
      /\ NumPrimary \in Nat \ {0}
  BY GroupsAssumption DEF IInv, TypeOK
<1>1. \A h \in Fetchers \ {f} :
         /\ pc'[h] = pc[h] /\ prefer'[h] = prefer[h] /\ attempt'[h] = attempt[h]
         /\ link'[h] = link[h] /\ tried'[h] = tried[h] /\ skipped'[h] = skipped[h]
  BY <1>0 DEF fetchVars
<1> DEFINE Loop(p, n, c) == /\ p \in Primary /\ n \in 0 .. NumPrimary
                            /\ \A i \in 0 .. n - 1 : Probe(p, i) \in c
<1>2. pc[f] \in {"pick", "primary"} =>
         Loop(prefer[f], attempt[f], tried[f] \cup skipped[f])
  BY DEF ResortInv, CoverInv, Covered
<1>3. pc[f] = "primary" =>
         /\ attempt[f] < NumPrimary
         /\ Probe(prefer[f], attempt[f]) \in skipped[f] \cup {link[f]}
  BY DEF ResortInv, CoverInv
<1>4. pc[f] \in {"secondary", "fallback"} => Primary \subseteq tried[f] \cup skipped[f]
  BY DEF ResortInv, SecondaryIsLastResort
<1>5. CASE FetchBegin(f)
  <2> DEFINE idx == assignedIdx[GroupOf(f)]
             p == (IF idx < 0 THEN 0 ELSE idx) % NumPrimary
  <2>1. GroupOf(f) \in Groups
    BY Indices, GroupsAssumption DEF GroupOf, Prefetcher, Groups
  <2>2. (IF idx < 0 THEN 0 ELSE idx) \in Nat
    BY <2>1 DEF IInv, TypeOK, secondary
  <2>3. p \in Primary
    BY <1>0, <2>2, Remainder DEF Primary
  <2>4. pc'[f] = "pick" /\ prefer'[f] = p /\ attempt'[f] = 0
    BY <1>0, <1>5
  <2> HIDE DEF p, fetchForGroup, FetchBegin
  <2> QED
    BY <1>0, <1>1, <2>3, <2>4, ResortOfOne
<1>6. CASE FetchPick(f)
  <2> DEFINE s == Probe(prefer[f], attempt[f])
  <2>1. Loop(prefer[f], attempt[f], tried[f] \cup skipped[f]) /\ attempt[f] < NumPrimary
    BY <1>2, <1>6
  <2>2. s \in Primary
    <3>1. prefer[f] + attempt[f] \in Nat
      BY <1>0
    <3> QED
      BY <1>0, <3>1, Remainder DEF Probe, Primary
  <2>3. PICK h \in PickPrimary(s) : link' = [link EXCEPT ![f] = h]
    BY <1>6 DEF Probe
  <2>4. /\ pc'[f] = "primary" /\ prefer'[f] = prefer[f] /\ attempt'[f] = attempt[f]
        /\ link'[f] = h /\ tried'[f] = tried[f]
        /\ skipped'[f] = skipped[f] \cup (dead \cap Primary)
    BY <1>0, <1>6, <2>3
  <2>5. s \in skipped'[f] \cup {link'[f]}
    <3> HIDE DEF s
    <3> QED
      BY <2>2, <2>4, PickOrDead
  <2> HIDE DEF fetchForGroup, FetchPick
  <2>6. /\ prefer'[f] \in Primary /\ attempt'[f] \in 0 .. NumPrimary
        /\ \A i \in 0 .. attempt'[f] - 1 : Probe(prefer'[f], i) \in tried'[f] \cup skipped'[f]
    BY <2>1, <2>4
  <2> QED
    BY <1>1, <2>1, <2>4, <2>5, <2>6, ResortOfOne
<1>7. CASE FetchNoneAlive(f)
  <2>1. pc'[f] = "secondary" /\ skipped'[f] = Primary
    BY <1>0, <1>7
  <2> HIDE DEF fetchForGroup, FetchNoneAlive
  <2> QED
    BY <1>1, <2>1, ResortOfOne
<1>8. CASE FetchLoopEnd(f)
  <2>1. pc'[f] = "secondary" /\ tried'[f] = tried[f] /\ skipped'[f] = skipped[f]
    BY <1>0, <1>8 DEF fetchVars
  <2>2. Loop(prefer[f], attempt[f], tried[f] \cup skipped[f]) /\ attempt[f] = NumPrimary
    BY <1>0, <1>2, <1>8
  <2>3. ASSUME NEW l \in Primary PROVE l \in tried[f] \cup skipped[f]
    <3>1. PICK i \in Primary : Probe(prefer[f], i) = l
      BY <2>2, ProbesAreAll
    <3> QED
      BY <2>2, <3>1 DEF Primary
  <2> HIDE DEF fetchForGroup, FetchLoopEnd
  <2> QED
    BY <1>1, <2>1, <2>3, ResortOfOne
<1>9. CASE PrimaryFail(f)
  <2> DEFINE c == tried[f] \cup skipped[f]
             d == tried'[f] \cup skipped'[f]
  <2>1. /\ pc'[f] = "pick" /\ prefer'[f] = prefer[f] /\ attempt'[f] = attempt[f] + 1
        /\ tried'[f] = tried[f] \cup {link[f]} /\ skipped'[f] = skipped[f]
    BY <1>0, <1>9
  <2>2. Loop(prefer[f], attempt[f], c) /\ attempt[f] < NumPrimary
    BY <1>2, <1>3, <1>9
  <2>3. c \subseteq d /\ Probe(prefer[f], attempt[f]) \in d
    BY <1>3, <1>9, <2>1
  <2>4. \A i \in 0 .. attempt[f] : Probe(prefer[f], i) \in d
    <3> HIDE DEF c, d, fetchForGroup, PrimaryFail
    <3> TAKE i \in 0 .. attempt[f]
    <3>1. CASE i = attempt[f]
      BY <2>3, <3>1
    <3>2. CASE i # attempt[f]
      <4>1. i \in 0 .. attempt[f] - 1
        BY <1>0, <3>2
      <4> QED
        BY <2>2, <2>3, <4>1
    <3> QED
      BY <3>1, <3>2
  <2>5. attempt'[f] \in 0 .. NumPrimary /\ attempt'[f] - 1 = attempt[f]
    BY <1>0, <2>1, <2>2
  <2> HIDE DEF fetchForGroup, PrimaryFail
  <2> QED
    BY <1>1, <2>1, <2>2, <2>4, <2>5, ResortOfOne
<1>10. CASE SecondaryPick(f)
  <2>1. /\ pc'[f] \in {"fallback", "exhausted"} /\ tried'[f] = tried[f]
        /\ skipped'[f] = skipped[f] /\ pc[f] = "secondary"
    BY <1>0, <1>10
  <2> HIDE DEF fetchForGroup, SecondaryPick
  <2> QED
    BY <1>1, <1>4, <2>1, ResortOfOne
<1>11. CASE PrimaryOk(f) \/ SecondaryOk(f) \/ SecondaryFail(f)
  <2>1. pc'[f] \in {"fetched", "exhausted"}
    BY <1>0, <1>11
  <2> HIDE DEF fetchForGroup, PrimaryOk, SecondaryOk, SecondaryFail
  <2> QED
    BY <1>1, <2>1, ResortOfOne
<1> QED
  BY <1>5, <1>6, <1>7, <1>8, <1>9, <1>10, <1>11

\* The steps outside it, none of which enters the loop but by FetchBegin.
LEMMA OtherResort ==
    ASSUME IInv, ResortInv, [Next]_vars, \A f \in Fetchers : ~fetchForGroup(f)
    PROVE  ResortInv'
<1> DEFINE In == {"pick", "primary", "secondary", "fallback"}
<1>0. /\ pc \in [Fetchers -> Points] /\ prefer \in [Fetchers -> Nat]
      /\ attempt \in [Fetchers -> Nat] /\ link \in [Fetchers -> Links \cup {NoLink}]
      /\ tried \in [Fetchers -> SUBSET Links] /\ skipped \in [Fetchers -> SUBSET Links]
  BY DEF IInv, TypeOK
<1>1. ASSUME NEW e \in Fetchers, EndFetch(e), NEW p, p \notin In,
             \A h \in Fetchers \ {e} : pc'[h] \in In => pc'[h] = pc[h],
             pc'[e] = p
      PROVE  ResortInv'
  <2>1. \A h \in Fetchers \ {e} :
           /\ prefer'[h] = prefer[h] /\ attempt'[h] = attempt[h] /\ link'[h] = link[h]
           /\ tried'[h] = tried[h] /\ skipped'[h] = skipped[h]
    BY <1>0, <1>1 DEF EndFetch
  <2> QED
    BY <1>1, <2>1, ResortKept
<1>2. ASSUME UNCHANGED fetchVars, \A h \in Fetchers : pc'[h] \in In => pc'[h] = pc[h]
      PROVE  ResortInv'
  BY <1>2, ResortKept DEF fetchVars
<1>3. ASSUME NEW w \in Workers,
             \/ GetCredsForWorker(w) \/ AcquireWait(w) \/ AcquireBackoff(w)
             \/ AcquireRefresh(w) \/ AcquireValid(w) \/ ReportWorkerError(w)
             \/ ReportMark(w) \/ ReportCheck(w) \/ ReportEnd(w)
      PROVE  ResortInv'
  <2>1. UNCHANGED fetchVars
    BY <1>3 DEF GetCredsForWorker, AcquireWait, AcquireBackoff, AcquireRefresh, AcquireValid,
       ReportWorkerError, ReportMark, ReportCheck, ReportEnd
  <2>2. \A h \in Fetchers : pc'[h] \in In => pc'[h] = pc[h]
    BY <1>0, <1>3, Indices DEF GetCredsForWorker, AcquireWait, AcquireBackoff, AcquireRefresh,
       AcquireValid, ReportWorkerError, ReportMark, ReportCheck, ReportEnd, Goto
  <2> QED
    BY <1>2, <2>1, <2>2
<1>4. ASSUME NEW w \in Workers, Invalidate(w) PROVE ResortInv'
  <2>1. UNCHANGED fetchVars
    BY <1>4 DEF Invalidate
  <2>2. \A h \in Fetchers : pc'[h] \in In => pc'[h] = pc[h]
    BY <1>4 DEF Invalidate, Broadcast
  <2> QED
    BY <1>2, <2>1, <2>2
<1>5. ASSUME NEW w \in Workers, RefreshOk(w) \/ RefreshErr(w) PROVE ResortInv'
  <2>1. w \in Fetchers /\ EndFetch(w) /\ Broadcast(groupForWorker(w), w, "idle")
    BY <1>5, Indices DEF RefreshOk, RefreshErr
  <2>2. pc'[w] = "idle" /\ \A h \in Fetchers \ {w} : pc'[h] \in In => pc'[h] = pc[h]
    BY <2>1 DEF Broadcast
  <2> QED
    BY <1>1, <2>1, <2>2
<1>6. ASSUME NEW g \in Groups, PrefetchOk(g) \/ PrefetchErr(g) PROVE ResortInv'
  <2> DEFINE e == Prefetcher(g)
  <2>1. e \in Fetchers /\ EndFetch(e) /\ pc' = [pc EXCEPT ![e] = "release"]
    BY <1>6, Indices DEF PrefetchOk, PrefetchErr, Goto
  <2> HIDE DEF e
  <2>2. pc'[e] = "release" /\ \A h \in Fetchers \ {e} : pc'[h] \in In => pc'[h] = pc[h]
    BY <1>0, <2>1
  <2> QED
    BY <1>1, <2>1, <2>2
<1>7. ASSUME NEW g \in Groups, PrefetchRelease(g) PROVE ResortInv'
  <2>1. UNCHANGED fetchVars /\ pc' = [pc EXCEPT ![Prefetcher(g)] = "idle"]
    BY <1>7 DEF PrefetchRelease, Goto
  <2>2. \A h \in Fetchers : pc'[h] \in In => pc'[h] = pc[h]
    BY <1>0, <2>1
  <2> QED
    BY <1>2, <2>1, <2>2
<1>8. CASE \/ \E g \in Groups : Age(g) \/ CooldownOver(g)
           \/ \E l \in Links : Revive(l)
           \/ Decay \/ Terminated \/ UNCHANGED vars
  <2>1. UNCHANGED fetchVars /\ UNCHANGED pc
    BY <1>8 DEF Age, CooldownOver, Revive, Decay, Terminated, vars
  <2> QED
    BY <1>2, <2>1
<1> QED
  BY <1>3, <1>4, <1>5, <1>6, <1>7, <1>8 DEF Next, acquire, Report, runPrefetch

-----------------------------------------------------------------------------
\* The variables of groups, links and goroutines keep their types; the index
\* of a group is a natural number or the secondary's.
THEOREM TypeCorrect == Spec => []TypeOK
<1>1. IInv => TypeOK
  BY DEF IInv
<1> QED
  BY <1>1, Invariance, PTL

\* A group never has two refreshes in flight, nor two prefetches, and its
\* flags say whether it has one.
THEOREM FlightIsSingle == Spec => []SingleFlight
<1>1. IInv => SingleFlight
  BY DEF IInv, FlightInv
<1> QED
  BY <1>1, Invariance, PTL

\* A waiting worker always has another to wake it.
THEOREM WakeupsAreNotLost == Spec => []NoLostWakeup
<1>1. IInv => NoLostWakeup
  BY Indices DEF IInv, FlightInv, SingleFlight, WaiterHasRefresh, NoLostWakeup, WorkersOf,
     Fetching
<1> QED
  BY <1>1, Invariance, PTL

\* A cooldown has an error to be answered with.
THEOREM BackoffsHaveCauses == Spec => []BackoffHasCause
<1>1. IInv => BackoffHasCause
  BY DEF IInv
<1> QED
  BY <1>1, Invariance, PTL

\* A report leaves no valid credential of its dead link in the groups it has
\* passed, concurrent fetches aside.
THEOREM InvalidationsAreComplete == Spec => []InvalidationIsComplete
<1>1. IInv => InvalidationIsComplete
  BY DEF IInv
<1> QED
  BY <1>1, Invariance, PTL

\* The secondary link is used only when every primary link has failed during
\* this call, or was out of service at some moment of it, however many there are
\* and whichever die and revive meanwhile.
THEOREM SecondaryComesLast == Spec => []SecondaryIsLastResort
<1>1. Init => ResortInv
  BY DEF Init, ResortInv, CoverInv, SecondaryIsLastResort
<1>2. IInv /\ ResortInv /\ [Next]_vars => ResortInv'
  BY FetchResort, OtherResort
<1>3. ResortInv => SecondaryIsLastResort
  BY DEF ResortInv
<1> QED
  BY <1>1, <1>2, <1>3, Invariance, PTL DEF Spec
=============================================================================
