----------------------------- MODULE CredGroups -----------------------------
(***************************************************************************)
(* TURN credentials for the client's workers                               *)
(* (vk-turn-proxy/client/group_creds.go and link_health.go).               *)
(*                                                                         *)
(* Workers are divided into groups that share one TURN credential.  The    *)
(* first worker that finds it missing fetches a new one through one of the *)
(* VK links while the others wait on the group's condition variable; an    *)
(* ageing credential is replaced in the background (runPrefetch).  Links   *)
(* are taken out of service for a while when fetches through them fail or  *)
(* when workers report errors of connections made with their credentials.  *)
(*                                                                         *)
(* Clock values are abstracted to what the code tells apart: a credential  *)
(* is fresh, past 4/5 of its lifetime or expired, a retry cooldown and a   *)
(* link's deadUntil are in the future or not.  A critical section of a     *)
(* group's mutex, or one operation on a link's atomics, is one step.       *)
(***************************************************************************)
EXTENDS Integers, FiniteSets

CONSTANTS
    NumWorkers,             \* opts.n
    GroupSize,              \* -creds-group-size
    NumGroups,              \* ceilDiv(opts.n, groupSize)
    NumPrimary,             \* len(tracker.primary)
    HasSecondary,           \* tracker.secondary # nil
    indexHint,              \* linkHealth.indexHint of every primary link
    FetchFailureThreshold,  \* linkFetchFailureThreshold
    ErrorThreshold,         \* linkStreamClose/Quota/StunDeathThreshold
    MaxCalls                \* bound: calls of acquire and reports per worker

ASSUME GroupsAssumption ==
    /\ NumWorkers \in Nat \ {0} /\ GroupSize \in Nat \ {0}
    /\ NumGroups \in Nat \ {0} /\ NumPrimary \in Nat \ {0}
    /\ HasSecondary \in BOOLEAN
    /\ indexHint \in [0 .. NumPrimary - 1 -> Nat]
    /\ FetchFailureThreshold \in Nat \ {0}
    /\ ErrorThreshold \in Nat \ {0}
    /\ MaxCalls \in Nat

Workers   == 0 .. NumWorkers - 1
Groups    == 0 .. NumGroups - 1
Primary   == 0 .. NumPrimary - 1
secondary == -1                         \* its indexHint
Links     == Primary \cup IF HasSecondary THEN {secondary} ELSE {}
NoLink    == -2

\* Whoever runs fetchForGroup: a worker that refreshes, or the group's
\* prefetch goroutine.
Prefetcher(g) == NumWorkers + g
Fetchers      == Workers \cup {Prefetcher(g) : g \in Groups}

groupForWorker(w) == (w \div GroupSize) % NumGroups

GroupOf(f) == IF f \in Workers THEN groupForWorker(f) ELSE f - NumWorkers

WorkersOf(g) == {w \in Workers : groupForWorker(w) = g}

VARIABLES
    \* credGroup
    valid, age, refreshing, prefetching, assignedIdx, cooldown, lastErr,
    credLink,   \* the link g.cred was fetched through (isSecondaryLink, url)
    \* linkHealth
    failureCount, errorCount, dead,
    \* goroutines
    pc,         \* of workers and prefetch goroutines
    prefer, attempt, link,      \* locals of fetchForGroup
    tried, skipped,             \* history: links tried, found dead, this call
    blamed, pending,            \* locals of ReportWorkerError
    restored,                   \* history: groups stored to during the report
    calls

groupVars == <<valid, age, refreshing, prefetching, assignedIdx, cooldown,
               lastErr, credLink>>
linkVars  == <<failureCount, errorCount, dead>>
fetchVars == <<prefer, attempt, link, tried, skipped>>
reportVars == <<blamed, pending, restored>>
vars == <<groupVars, linkVars, fetchVars, reportVars, pc, calls>>

-----------------------------------------------------------------------------
Points ==
    {"idle", "acquire", "waiting",
     "fetch", "pick", "primary", "secondary", "fallback", "fetched", "exhausted",
     "release", "mark", "check", "invalidate"}

\* Inside fetchForGroup, or about to store what it returned.
Fetching == {"fetch", "pick", "primary", "secondary", "fallback", "fetched",
             "exhausted"}

TypeOK ==
    /\ valid \in [Groups -> BOOLEAN]
    /\ age \in [Groups -> {"fresh", "ageing", "expired"}]
    /\ refreshing \in [Groups -> BOOLEAN]
    /\ prefetching \in [Groups -> BOOLEAN]
    /\ assignedIdx \in [Groups -> Nat \cup {secondary}]
    /\ cooldown \in [Groups -> BOOLEAN]
    /\ lastErr \in [Groups -> BOOLEAN]
    /\ credLink \in [Groups -> Links \cup {NoLink}]
    /\ failureCount \in [Links -> Nat]
    /\ errorCount \in [Links -> Nat]
    /\ dead \in SUBSET Links
    /\ pc \in [Fetchers -> Points]
    /\ prefer \in [Fetchers -> Nat]
    /\ attempt \in [Fetchers -> Nat]
    /\ link \in [Fetchers -> Links \cup {NoLink}]
    /\ tried \in [Fetchers -> SUBSET Links]
    /\ skipped \in [Fetchers -> SUBSET Links]
    /\ blamed \in [Workers -> Links \cup {NoLink}]
    /\ pending \in [Workers -> SUBSET Groups]
    /\ restored \in [Workers -> SUBSET Groups]
    /\ calls \in [Workers -> Nat]

\* newGroupedCredsManager.
Init ==
    /\ valid = [g \in Groups |-> FALSE]
    /\ age = [g \in Groups |-> "fresh"]
    /\ refreshing = [g \in Groups |-> FALSE]
    /\ prefetching = [g \in Groups |-> FALSE]
    /\ assignedIdx = [g \in Groups |-> g % NumPrimary]
    /\ cooldown = [g \in Groups |-> FALSE]
    /\ lastErr = [g \in Groups |-> FALSE]
    /\ credLink = [g \in Groups |-> NoLink]
    /\ failureCount = [l \in Links |-> 0]
    /\ errorCount = [l \in Links |-> 0]
    /\ dead = {}
    /\ pc = [f \in Fetchers |-> "idle"]
    /\ prefer = [f \in Fetchers |-> 0]
    /\ attempt = [f \in Fetchers |-> 0]
    /\ link = [f \in Fetchers |-> NoLink]
    /\ tried = [f \in Fetchers |-> {}]
    /\ skipped = [f \in Fetchers |-> {}]
    /\ blamed = [w \in Workers |-> NoLink]
    /\ pending = [w \in Workers |-> {}]
    /\ restored = [w \in Workers |-> {}]
    /\ calls = [w \in Workers |-> 0]

Goto(f, p) == pc' = [pc EXCEPT ![f] = p]

\* g.cond.Broadcast() in the same critical section as f's move to p: every
\* waiter of g goes back to the top of acquire's loop.
Broadcast(g, f, p) ==
    pc' = [h \in Fetchers |->
             IF h = f THEN p
             ELSE IF h \in WorkersOf(g) /\ pc[h] = "waiting" THEN "acquire"
             ELSE pc[h]]

-----------------------------------------------------------------------------
(* credGroup.acquire.                                                      *)

\* A worker needs TURN credentials.
GetCredsForWorker(w) ==
    /\ pc[w] = "idle"
    /\ calls[w] < MaxCalls
    /\ calls' = [calls EXCEPT ![w] = @ + 1]
    /\ Goto(w, "acquire")
    /\ UNCHANGED <<groupVars, linkVars, fetchVars, reportVars>>

Usable(g) == valid[g] /\ age[g] # "expired"

shouldPrefetch(g) == valid[g] /\ ~prefetching[g] /\ age[g] = "ageing"

\* Mutant: the flag that keeps a second prefetch from starting is not set.
AcquireValidTwice(w) ==
    /\ pc[w] = "acquire"
    /\ LET g == groupForWorker(w)
       IN  /\ Usable(g)
           /\ pc' = IF shouldPrefetch(g) /\ pc[Prefetcher(g)] = "idle"
                    THEN [pc EXCEPT ![w] = "idle", ![Prefetcher(g)] = "fetch"]
                    ELSE [pc EXCEPT ![w] = "idle"]
    /\ UNCHANGED <<groupVars, linkVars, fetchVars, reportVars, calls>>

\* The credential is returned; an ageing one starts runPrefetch.
AcquireValid(w) ==
    /\ pc[w] = "acquire"
    /\ LET g == groupForWorker(w)
       IN  /\ Usable(g)
           /\ \/ /\ shouldPrefetch(g)
                 /\ prefetching' = [prefetching EXCEPT ![g] = TRUE]
                 /\ pc' = [pc EXCEPT ![w] = "idle", ![Prefetcher(g)] = "fetch"]
              \/ /\ ~shouldPrefetch(g)
                 /\ prefetching' = prefetching
                 /\ Goto(w, "idle")
    /\ UNCHANGED <<valid, age, refreshing, assignedIdx, cooldown, lastErr,
                   credLink, linkVars, fetchVars, reportVars, calls>>

\* g.cond.Wait() while another worker of the group fetches.
AcquireWait(w) ==
    /\ pc[w] = "acquire"
    /\ ~Usable(groupForWorker(w))
    /\ refreshing[groupForWorker(w)]
    /\ Goto(w, "waiting")
    /\ UNCHANGED <<groupVars, linkVars, fetchVars, reportVars, calls>>

\* lastRefreshErr is returned during the cooldown after a failed fetch.
AcquireBackoff(w) ==
    /\ pc[w] = "acquire"
    /\ LET g == groupForWorker(w)
       IN  ~Usable(g) /\ ~refreshing[g] /\ cooldown[g]
    /\ Goto(w, "idle")
    /\ UNCHANGED <<groupVars, linkVars, fetchVars, reportVars, calls>>

\* This worker fetches for its group.
AcquireRefresh(w) ==
    /\ pc[w] = "acquire"
    /\ LET g == groupForWorker(w)
       IN  /\ ~Usable(g) /\ ~refreshing[g] /\ ~cooldown[g]
           /\ refreshing' = [refreshing EXCEPT ![g] = TRUE]
    /\ Goto(w, "fetch")
    /\ UNCHANGED <<valid, age, prefetching, assignedIdx, cooldown, lastErr,
                   credLink, linkVars, fetchVars, reportVars, calls>>

-----------------------------------------------------------------------------
(* fetchForGroup.                                                          *)

\* preferIdx is read from the group under its mutex.
FetchBegin(f) ==
    /\ pc[f] = "fetch"
    /\ LET idx == assignedIdx[GroupOf(f)]
       IN  prefer' = [prefer EXCEPT
             ![f] = (IF idx < 0 THEN 0 ELSE idx) % NumPrimary]
    /\ attempt' = [attempt EXCEPT ![f] = 0]
    /\ tried' = [tried EXCEPT ![f] = {}]
    /\ skipped' = [skipped EXCEPT ![f] = {}]
    /\ Goto(f, "pick")
    /\ UNCHANGED <<groupVars, linkVars, reportVars, link, calls>>

\* Primary links in the order PickPrimary(start) looks at them.
Probe(start, i) == (start + i) % NumPrimary

\* Links PickPrimary(start) may return: the first alive one from start on.
PickPrimary(start) ==
    {Probe(start, i) : i \in {j \in Primary :
        /\ Probe(start, j) \notin dead
        /\ \A k \in 0 .. j - 1 : Probe(start, k) \in dead}}

\* Mutant: every attempt starts at the preferred link.
FetchPickPreferred(f) ==
    /\ pc[f] = "pick"
    /\ attempt[f] < NumPrimary
    /\ \E h \in PickPrimary(prefer[f]) : link' = [link EXCEPT ![f] = h]
    /\ skipped' = [skipped EXCEPT ![f] = @ \cup (dead \cap Primary)]
    /\ Goto(f, "primary")
    /\ UNCHANGED <<groupVars, linkVars, reportVars, prefer, attempt, tried, calls>>

FetchPick(f) ==
    /\ pc[f] = "pick"
    /\ attempt[f] < NumPrimary
    /\ \E h \in PickPrimary((prefer[f] + attempt[f]) % NumPrimary) :
          link' = [link EXCEPT ![f] = h]
    /\ skipped' = [skipped EXCEPT ![f] = @ \cup (dead \cap Primary)]
    /\ Goto(f, "primary")
    /\ UNCHANGED <<groupVars, linkVars, reportVars, prefer, attempt, tried, calls>>

\* No primary link is alive: the loop breaks.
FetchNoneAlive(f) ==
    /\ pc[f] = "pick"
    /\ attempt[f] < NumPrimary
    /\ Primary \subseteq dead
    /\ skipped' = [skipped EXCEPT ![f] = Primary]
    /\ Goto(f, "secondary")
    /\ UNCHANGED <<groupVars, linkVars, reportVars, prefer, attempt, link, tried,
                   calls>>

\* Every attempt of the loop has failed.
FetchLoopEnd(f) ==
    /\ pc[f] = "pick"
    /\ attempt[f] >= NumPrimary
    /\ Goto(f, "secondary")
    /\ UNCHANGED <<groupVars, linkVars, reportVars, fetchVars, calls>>

\* m.fetch through a primary link succeeds: MarkFetchSuccess.
PrimaryOk(f) ==
    /\ pc[f] = "primary"
    /\ failureCount' = [failureCount EXCEPT ![link[f]] = 0]
    /\ Goto(f, "fetched")
    /\ UNCHANGED <<groupVars, errorCount, dead, reportVars, fetchVars, calls>>

\* MarkFetchFailure: the link dies at the threshold.  (The counter is capped
\* there; only the comparison with the threshold reads it.)
CountUp(n, limit) == IF n < limit THEN n + 1 ELSE n

MarkFetchFailure(l) ==
    LET n == CountUp(failureCount[l], FetchFailureThreshold)
    IN  /\ failureCount' = [failureCount EXCEPT ![l] = n]
        /\ dead' = IF n >= FetchFailureThreshold THEN dead \cup {l} ELSE dead

PrimaryFail(f) ==
    /\ pc[f] = "primary"
    /\ MarkFetchFailure(link[f])
    /\ tried' = [tried EXCEPT ![f] = @ \cup {link[f]}]
    /\ attempt' = [attempt EXCEPT ![f] = @ + 1]
    /\ Goto(f, "pick")
    /\ UNCHANGED <<groupVars, errorCount, reportVars, prefer, link, skipped, calls>>

\* The secondary link is used when it exists and is alive.
SecondaryPick(f) ==
    /\ pc[f] = "secondary"
    /\ \/ /\ HasSecondary /\ secondary \notin dead
          /\ link' = [link EXCEPT ![f] = secondary]
          /\ Goto(f, "fallback")
       \/ /\ ~HasSecondary \/ secondary \in dead
          /\ link' = link
          /\ Goto(f, "exhausted")
    /\ UNCHANGED <<groupVars, linkVars, reportVars, prefer, attempt, tried,
                   skipped, calls>>

SecondaryOk(f) ==
    /\ pc[f] = "fallback"
    /\ failureCount' = [failureCount EXCEPT ![secondary] = 0]
    /\ Goto(f, "fetched")
    /\ UNCHANGED <<groupVars, errorCount, dead, reportVars, fetchVars, calls>>

SecondaryFail(f) ==
    /\ pc[f] = "fallback"
    /\ MarkFetchFailure(secondary)
    /\ Goto(f, "exhausted")
    /\ UNCHANGED <<groupVars, errorCount, reportVars, fetchVars, calls>>

fetchForGroup(f) ==
    \/ FetchBegin(f) \/ FetchPick(f) \/ FetchNoneAlive(f) \/ FetchLoopEnd(f)
    \/ PrimaryOk(f) \/ PrimaryFail(f)
    \/ SecondaryPick(f) \/ SecondaryOk(f) \/ SecondaryFail(f)

-----------------------------------------------------------------------------
(* Storing the result: acquire's second critical section, runPrefetch.     *)

Hint(l) == IF l = secondary THEN -1 ELSE indexHint[l]

\* The locals of fetchForGroup go out of scope when it has returned.
EndFetch(f) ==
    /\ prefer' = [prefer EXCEPT ![f] = 0]
    /\ attempt' = [attempt EXCEPT ![f] = 0]
    /\ link' = [link EXCEPT ![f] = NoLink]
    /\ tried' = [tried EXCEPT ![f] = {}]
    /\ skipped' = [skipped EXCEPT ![f] = {}]

Store(g, l) ==
    /\ valid' = [valid EXCEPT ![g] = TRUE]
    /\ age' = [age EXCEPT ![g] = "fresh"]
    /\ credLink' = [credLink EXCEPT ![g] = l]
    /\ assignedIdx' = [assignedIdx EXCEPT ![g] = Hint(l)]
    /\ lastErr' = [lastErr EXCEPT ![g] = FALSE]
    /\ cooldown' = [cooldown EXCEPT ![g] = FALSE]
    /\ restored' = [w \in Workers |-> IF pc[w] = "invalidate"
                                    THEN restored[w] \cup {g} ELSE {}]
    /\ UNCHANGED <<blamed, pending>>

\* Mutant: a successful refresh wakes nobody.
RefreshOkSilent(w) ==
    /\ pc[w] = "fetched"
    /\ LET g == groupForWorker(w)
       IN  /\ Store(g, link[w])
           /\ refreshing' = [refreshing EXCEPT ![g] = FALSE]
    /\ Goto(w, "idle")
    /\ EndFetch(w)
    /\ UNCHANGED <<prefetching, linkVars, calls>>

RefreshOk(w) ==
    /\ pc[w] = "fetched"
    /\ LET g == groupForWorker(w)
       IN  /\ Store(g, link[w])
           /\ refreshing' = [refreshing EXCEPT ![g] = FALSE]
           /\ Broadcast(g, w, "idle")
    /\ EndFetch(w)
    /\ UNCHANGED <<prefetching, linkVars, calls>>

\* Mutant: the error path returns without waking the waiters.
RefreshErrSilent(w) ==
    /\ pc[w] = "exhausted"
    /\ LET g == groupForWorker(w)
       IN  /\ refreshing' = [refreshing EXCEPT ![g] = FALSE]
           /\ lastErr' = [lastErr EXCEPT ![g] = TRUE]
           /\ cooldown' = [cooldown EXCEPT ![g] = TRUE]
    /\ Goto(w, "idle")
    /\ EndFetch(w)
    /\ UNCHANGED <<valid, age, prefetching, assignedIdx, credLink, linkVars,
                   reportVars, calls>>

RefreshErr(w) ==
    /\ pc[w] = "exhausted"
    /\ LET g == groupForWorker(w)
       IN  /\ refreshing' = [refreshing EXCEPT ![g] = FALSE]
           /\ lastErr' = [lastErr EXCEPT ![g] = TRUE]
           /\ cooldown' = [cooldown EXCEPT ![g] = TRUE]
           /\ Broadcast(g, w, "idle")
    /\ EndFetch(w)
    /\ UNCHANGED <<valid, age, prefetching, assignedIdx, credLink, linkVars,
                   reportVars, calls>>

\* runPrefetch stores under the mutex but wakes nobody.
PrefetchOk(g) ==
    /\ pc[Prefetcher(g)] = "fetched"
    /\ Store(g, link[Prefetcher(g)])
    /\ EndFetch(Prefetcher(g))
    /\ Goto(Prefetcher(g), "release")
    /\ UNCHANGED <<refreshing, prefetching, linkVars, calls>>

PrefetchErr(g) ==
    /\ pc[Prefetcher(g)] = "exhausted"
    /\ EndFetch(Prefetcher(g))
    /\ Goto(Prefetcher(g), "release")
    /\ UNCHANGED <<groupVars, linkVars, reportVars, calls>>

\* Its deferred critical section.
PrefetchRelease(g) ==
    /\ pc[Prefetcher(g)] = "release"
    /\ prefetching' = [prefetching EXCEPT ![g] = FALSE]
    /\ Goto(Prefetcher(g), "idle")
    /\ UNCHANGED <<valid, age, refreshing, assignedIdx, cooldown, lastErr,
                   credLink, linkVars, reportVars, fetchVars, calls>>

-----------------------------------------------------------------------------
(* ReportWorkerError.                                                      *)

\* assignedIdx and valid are read under the mutex.  An invalid group and an
\* index outside tracker.primary end the report here.
ReportWorkerError(w) ==
    /\ pc[w] = "idle"
    /\ calls[w] < MaxCalls
    /\ calls' = [calls EXCEPT ![w] = @ + 1]
    /\ LET g == groupForWorker(w)
       IN  IF valid[g] /\ assignedIdx[g] \in Primary
           THEN /\ blamed' = [blamed EXCEPT ![w] = assignedIdx[g]]
                /\ Goto(w, "mark")
           ELSE UNCHANGED <<blamed, pc>>
    /\ UNCHANGED <<groupVars, linkVars, fetchVars, pending, restored>>

\* g.cred.isSecondaryLink is read without the mutex, then MarkWorkerError: a
\* stream-close, quota or STUN error counts, and kills the link at its
\* threshold; a generic error does not.  (One counter stands for the three.)
ReportMark(w) ==
    /\ pc[w] = "mark"
    /\ LET l == IF credLink[groupForWorker(w)] = secondary /\ HasSecondary
                THEN secondary ELSE blamed[w]
           n == errorCount[l] + 1
       IN  /\ blamed' = [blamed EXCEPT ![w] = l]
           /\ \/ /\ errorCount' = [errorCount EXCEPT ![l] = n]
                 /\ dead' = IF n >= ErrorThreshold THEN dead \cup {l} ELSE dead
              \/ UNCHANGED <<errorCount, dead>>
    /\ Goto(w, "check")
    /\ UNCHANGED <<groupVars, failureCount, fetchVars, pending, restored, calls>>

ReportCheck(w) ==
    /\ pc[w] = "check"
    /\ \/ /\ blamed[w] \in dead
          /\ pending' = [pending EXCEPT ![w] = Groups]
          /\ Goto(w, "invalidate")
          /\ blamed' = blamed
       \/ /\ blamed[w] \notin dead
          /\ pending' = pending
          /\ Goto(w, "idle")
          /\ blamed' = [blamed EXCEPT ![w] = NoLink]
    /\ restored' = [restored EXCEPT ![w] = {}]
    /\ UNCHANGED <<groupVars, linkVars, fetchVars, calls>>

\* Whether invalidateGroupsBoundTo(l) finds g bound to l.
BoundTo(g, l) == IF l = secondary THEN credLink[g] = secondary
                                  ELSE assignedIdx[g] = indexHint[l]

\* Mutant: only the reporting worker's own group is invalidated.
InvalidateOwnGroup(w) ==
    /\ pc[w] = "invalidate"
    /\ \E g \in pending[w] :
          /\ \A h \in pending[w] : g <= h
          /\ pending' = [pending EXCEPT ![w] = @ \ {g}]
          /\ valid' = IF BoundTo(g, blamed[w]) /\ g = groupForWorker(w)
                      THEN [valid EXCEPT ![g] = FALSE] ELSE valid
    /\ UNCHANGED <<age, refreshing, prefetching, assignedIdx, cooldown, lastErr,
                   credLink, linkVars, fetchVars, blamed, restored, pc, calls>>

\* One iteration of invalidateGroupsBoundTo: groups in order, each under its
\* own mutex.
Invalidate(w) ==
    /\ pc[w] = "invalidate"
    /\ \E g \in pending[w] :
          /\ \A h \in pending[w] : g <= h
          /\ pending' = [pending EXCEPT ![w] = @ \ {g}]
          /\ \/ /\ BoundTo(g, blamed[w])
                /\ valid' = [valid EXCEPT ![g] = FALSE]
                /\ Broadcast(g, w, "invalidate")
             \/ /\ ~BoundTo(g, blamed[w])
                /\ valid' = valid
                /\ pc' = pc
    /\ UNCHANGED <<age, refreshing, prefetching, assignedIdx, cooldown, lastErr,
                   credLink, linkVars, fetchVars, blamed, restored, calls>>

ReportEnd(w) ==
    /\ pc[w] = "invalidate"
    /\ pending[w] = {}
    /\ blamed' = [blamed EXCEPT ![w] = NoLink]
    /\ restored' = [restored EXCEPT ![w] = {}]
    /\ Goto(w, "idle")
    /\ UNCHANGED <<groupVars, linkVars, fetchVars, pending, calls>>

-----------------------------------------------------------------------------
(* The passage of time.                                                    *)

Age(g) ==
    /\ valid[g]
    /\ \/ age[g] = "fresh" /\ age' = [age EXCEPT ![g] = "ageing"]
       \/ age[g] # "expired" /\ age' = [age EXCEPT ![g] = "expired"]
    /\ UNCHANGED <<valid, refreshing, prefetching, assignedIdx, cooldown, lastErr,
                   credLink, linkVars, fetchVars, reportVars, pc, calls>>

CooldownOver(g) ==
    /\ cooldown[g]
    /\ cooldown' = [cooldown EXCEPT ![g] = FALSE]
    /\ UNCHANGED <<valid, age, refreshing, prefetching, assignedIdx, lastErr,
                   credLink, linkVars, fetchVars, reportVars, pc, calls>>

\* deadUntil passes.
Revive(l) ==
    /\ l \in dead
    /\ dead' = dead \ {l}
    /\ UNCHANGED <<groupVars, failureCount, errorCount, fetchVars, reportVars,
                   pc, calls>>

\* Mutant: counters are decremented without looking at zero.
DecayByOne ==
    /\ \E l \in Links : errorCount[l] > 0
    /\ errorCount' = [l \in Links |-> errorCount[l] - 1]
    /\ UNCHANGED <<groupVars, failureCount, dead, fetchVars, reportVars, pc, calls>>

\* decayCounters, every linkErrorDecayInterval; failureCount does not decay.
Decay ==
    /\ \E l \in Links : errorCount[l] > 0
    /\ errorCount' = [l \in Links |-> errorCount[l] \div 2]
    /\ UNCHANGED <<groupVars, failureCount, dead, fetchVars, reportVars, pc, calls>>

-----------------------------------------------------------------------------
acquire(w) ==
    \/ AcquireValid(w) \/ AcquireWait(w) \/ AcquireBackoff(w) \/ AcquireRefresh(w)
    \/ RefreshOk(w) \/ RefreshErr(w)

runPrefetch(g) == PrefetchOk(g) \/ PrefetchErr(g) \/ PrefetchRelease(g)

Report(w) == ReportMark(w) \/ ReportCheck(w) \/ Invalidate(w) \/ ReportEnd(w)

\* Every worker has used up its calls.
Terminated ==
    /\ \A f \in Fetchers : pc[f] = "idle"
    /\ \A w \in Workers : calls[w] = MaxCalls
    /\ UNCHANGED vars

Next ==
    \/ \E w \in Workers : \/ GetCredsForWorker(w) \/ acquire(w)
                          \/ ReportWorkerError(w) \/ Report(w)
    \/ \E f \in Fetchers : fetchForGroup(f)
    \/ \E g \in Groups : runPrefetch(g) \/ Age(g) \/ CooldownOver(g)
    \/ \E l \in Links : Revive(l)
    \/ Decay
    \/ Terminated

Spec == Init /\ [][Next]_vars

\* Goroutines run, and m.fetch returns: it works under HTTP and captcha
\* timeouts.  Nothing is assumed of the workers' demand or of the clock.
Fairness ==
    /\ \A w \in Workers : WF_vars(acquire(w)) /\ WF_vars(Report(w))
    /\ \A f \in Fetchers : WF_vars(fetchForGroup(f))
    /\ \A g \in Groups : WF_vars(runPrefetch(g))

FairSpec == Spec /\ Fairness

-----------------------------------------------------------------------------
(* Properties.                                                             *)

\* While nobody holds the mutex, refreshing tells exactly whether one worker
\* of the group is between acquire's two critical sections, and prefetching
\* whether runPrefetch is alive: a group never has two refreshes in flight.
SingleFlight ==
    \A g \in Groups :
        /\ refreshing[g] <=> \E w \in WorkersOf(g) : pc[w] \in Fetching
        /\ \A v, w \in WorkersOf(g) :
              pc[v] \in Fetching /\ pc[w] \in Fetching => v = w
        /\ prefetching[g] <=> pc[Prefetcher(g)] # "idle"

\* A worker waits on the condition variable only while another worker of its
\* group is fetching and will Broadcast, on success as on failure; neither
\* the prefetch goroutine nor a report that invalidates the group strands it.
NoLostWakeup ==
    \A w \in Workers :
        pc[w] = "waiting" =>
            \E v \in WorkersOf(groupForWorker(w)) \ {w} : pc[v] \in Fetching

\* The cooldown never starts without the error it is answered with, so the
\* substitute error of acquire is unreachable, whatever prefetch does meanwhile.
BackoffHasCause == \A g \in Groups : cooldown[g] => lastErr[g]

\* fetchForGroup falls back to the secondary link only when each primary link
\* has failed during this call or was out of service at some moment of it.
SecondaryIsLastResort ==
    \A f \in Fetchers :
        pc[f] \in {"secondary", "fallback"} => Primary \subseteq tried[f] \cup skipped[f]

\* A report that has found its link dead leaves no group it has passed with a
\* valid credential of that link, except where a fetch that was already under
\* way has stored one since the report began its pass.
InvalidationIsComplete ==
    \A w \in Workers : pc[w] = "invalidate" =>
        \A g \in Groups \ (pending[w] \cup restored[w]) :
            BoundTo(g, blamed[w]) => ~valid[g]

\* Every acquire returns: with a credential, with the group's last error, or
\* after waiting for another worker's fetch.
AcquireReturns ==
    \A w \in Workers : (pc[w] \in {"acquire", "waiting"}) ~> (pc[w] = "idle")
=============================================================================
