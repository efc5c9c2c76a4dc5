----------------------------- MODULE KeyedCache -----------------------------
(***************************************************************************)
(* PriceService.GetOrCreateLockedAsync: the read-through IMemoryCache with *)
(* one SemaphoreSlim(1, 1) per key that guards every upstream call of the  *)
(* price service ("thundering-herd guard").                                *)
(*                                                                         *)
(* A caller runs one outer call at a time (frame <<c, "outer">>).  The     *)
(* factory of a price key first resolves the exchange's asset ids, which   *)
(* is itself a locked call on the key "currencies:<exchange>" (frame       *)
(* <<c, "inner">>) made while the price key's semaphore is held.  Both     *)
(* frames observe the caller's cancellation token.                         *)
(*                                                                         *)
(* A SemaphoreSlim is modelled by what its documentation promises: a       *)
(* permit, and no order among the waiters.                                 *)
(***************************************************************************)
CONSTANTS
  Callers,     \* the tasks that call the cache
  Keys,        \* sell/buy/currencies/usd cache keys
  Values,      \* non-null values a factory may return
  Nested,      \* [Keys -> Keys \cup {NoKey}]: the key a key's factory reads first
  NoKey, NoValue, Cancelled, NoFrame

Frames == Callers \X {"outer", "inner"}

ASSUME CacheAssumption ==
  /\ NoKey \notin Keys
  /\ NoValue \notin Values
  /\ Cancelled \notin Values \cup {NoValue}
  /\ NoFrame \notin Frames
  /\ Nested \in [Keys -> Keys \cup {NoKey}]
  \* Two levels only: resolving a currency list never reads another key.
  /\ \A k \in Keys : Nested[k] # NoKey => Nested[Nested[k]] = NoKey

VARIABLES
  store,       \* IMemoryCache: Keys -> value or NoValue (absent)
  holder,      \* Keys -> the frame holding the key's permit, or NoFrame
  pc,          \* Frames -> control point
  key,         \* Frames -> the key the frame works on
  result,      \* Frames -> what its call returned (or threw: Cancelled)
  cancelled    \* Callers -> IsCancellationRequested of the caller's token

vars == <<store, holder, pc, key, result, cancelled>>

Owner(f) == f[1]
Inner(f) == <<f[1], "inner">>
IsOuter(f) == f[2] = "outer"

Answers == Values \cup {NoValue, Cancelled}

PCs == {"idle",       \* no call
        "lookup",     \* about to do the unlocked TryGetValue
        "waiting",    \* in sem.WaitAsync(ct)
        "holding",    \* permit held, before the second TryGetValue
        "factory",    \* in the factory, before ResolveExchangeIdsAsync
        "resolving",  \* in the nested call
        "upstream",   \* awaiting the exchange's API
        "faulted",    \* the factory ended in OperationCanceledException
        "releasing",  \* result known, finally not yet run
        "returned"}

InFactory == {"factory", "resolving", "upstream", "faulted"}
HoldsPermit == {"holding", "releasing"} \cup InFactory

TypeOK ==
  /\ store \in [Keys -> Values \cup {NoValue}]
  /\ holder \in [Keys -> Frames \cup {NoFrame}]
  /\ pc \in [Frames -> PCs]
  /\ key \in [Frames -> Keys \cup {NoKey}]
  /\ result \in [Frames -> Answers]
  /\ cancelled \in [Callers -> BOOLEAN]

Init ==
  /\ store = [k \in Keys |-> NoValue]
  /\ holder = [k \in Keys |-> NoFrame]
  /\ pc = [f \in Frames |-> "idle"]
  /\ key = [f \in Frames |-> NoKey]
  /\ result = [f \in Frames |-> NoValue]
  /\ cancelled = [c \in Callers |-> FALSE]

(***************************************************************************)
(* Helpers.                                                                *)
(***************************************************************************)
GoTo(f, point) == pc' = [pc EXCEPT ![f] = point]

\* The frame's call is over: what it returned, and what is left to run.
Finish(f, point, r) ==
  /\ GoTo(f, point)
  /\ result' = [result EXCEPT ![f] = r]

(***************************************************************************)
(* Faulty variants of the actions below, each a slip this code could have  *)
(* made.  No specification uses them; they show that the properties can be *)
(* broken.                                                                 *)
(***************************************************************************)
\* The wait inside the try block: finally releases a permit never obtained.
GiveUpReleasing(f) ==
  /\ pc[f] = "waiting"
  /\ cancelled[Owner(f)]
  /\ Finish(f, "releasing", Cancelled)
  /\ UNCHANGED <<store, holder, key, cancelled>>

\* A new semaphore for every call instead of keyLocks.GetOrAdd.
AcquireOwnSemaphore(f) ==
  /\ pc[f] = "waiting"
  /\ ~cancelled[Owner(f)]
  /\ holder' = [holder EXCEPT ![key[f]] = f]
  /\ GoTo(f, "holding")
  /\ UNCHANGED <<store, key, result, cancelled>>

\* One lock for everything of an exchange: the factory waits for its caller.
ResolveSameLock(f) ==
  /\ pc[f] = "factory"
  /\ IsOuter(f)
  /\ Nested[key[f]] # NoKey
  /\ pc' = [pc EXCEPT ![f] = "resolving", ![Inner(f)] = "lookup"]
  /\ key' = [key EXCEPT ![Inner(f)] = key[f]]
  /\ UNCHANGED <<store, holder, result, cancelled>>

\* No second TryGetValue under the permit.
StartFactoryUnchecked(f) ==
  /\ pc[f] = "holding"
  /\ ~cancelled[Owner(f)]
  /\ GoTo(f, "factory")
  /\ UNCHANGED <<store, holder, key, result, cancelled>>

\* The permit released before the factory is awaited.
StartFactoryUnlocked(f) ==
  /\ pc[f] = "holding"
  /\ store[key[f]] = NoValue
  /\ ~cancelled[Owner(f)]
  /\ GoTo(f, "factory")
  /\ holder' = [holder EXCEPT ![key[f]] = NoFrame]
  /\ UNCHANGED <<store, key, result, cancelled>>

(***************************************************************************)
(* One call.                                                               *)
(***************************************************************************)
\* A task calls the cache with a fresh, not yet cancelled token.
Invoke(c, k) ==
  LET f == <<c, "outer">> IN
  /\ pc[f] = "idle"
  /\ GoTo(f, "lookup")
  /\ key' = [key EXCEPT ![f] = k]
  /\ UNCHANGED <<store, holder, result, cancelled>>

\* if (cache.TryGetValue(key, out T? cached)) return cached;
FastHit(f) ==
  /\ pc[f] = "lookup"
  /\ store[key[f]] # NoValue
  /\ Finish(f, "returned", store[key[f]])
  /\ UNCHANGED <<store, holder, key, cancelled>>

FastMiss(f) ==
  /\ pc[f] = "lookup"
  /\ store[key[f]] = NoValue
  /\ GoTo(f, "waiting")
  /\ UNCHANGED <<store, holder, key, result, cancelled>>

\* await sem.WaitAsync(ct) completes with the permit ...
Acquire(f) ==
  /\ pc[f] = "waiting"
  /\ holder[key[f]] = NoFrame
  /\ ~cancelled[Owner(f)]
  /\ holder' = [holder EXCEPT ![key[f]] = f]
  /\ GoTo(f, "holding")
  /\ UNCHANGED <<store, key, result, cancelled>>

\* ... or throws because the token was cancelled first (no finally: no permit).
GiveUp(f) ==
  /\ pc[f] = "waiting"
  /\ cancelled[Owner(f)]
  /\ Finish(f, "returned", Cancelled)
  /\ UNCHANGED <<store, holder, key, cancelled>>

\* The second look, under the permit: served by whoever fetched meanwhile.
RecheckHit(f) ==
  /\ pc[f] = "holding"
  /\ store[key[f]] # NoValue
  /\ Finish(f, "releasing", store[key[f]])
  /\ UNCHANGED <<store, holder, key, cancelled>>

\* if (ct.IsCancellationRequested) return default;
RecheckCancelled(f) ==
  /\ pc[f] = "holding"
  /\ store[key[f]] = NoValue
  /\ cancelled[Owner(f)]
  /\ Finish(f, "releasing", NoValue)
  /\ UNCHANGED <<store, holder, key, cancelled>>

StartFactory(f) ==
  /\ pc[f] = "holding"
  /\ store[key[f]] = NoValue
  /\ ~cancelled[Owner(f)]
  /\ GoTo(f, "factory")
  /\ UNCHANGED <<store, holder, key, result, cancelled>>

\* ResolveExchangeIdsAsync: a nested locked call, the outer permit still held.
Resolve(f) ==
  /\ pc[f] = "factory"
  /\ IsOuter(f)
  /\ Nested[key[f]] # NoKey
  /\ pc' = [pc EXCEPT ![f] = "resolving", ![Inner(f)] = "lookup"]
  /\ key' = [key EXCEPT ![Inner(f)] = Nested[key[f]]]
  /\ UNCHANGED <<store, holder, result, cancelled>>

\* A currency list, a usd price, or an exchange without a currency API.
NothingToResolve(f) ==
  /\ pc[f] = "factory"
  /\ Nested[key[f]] = NoKey
  /\ GoTo(f, "upstream")
  /\ UNCHANGED <<store, holder, key, result, cancelled>>

\* A null list means an empty one: the factory goes on with the generic ids.
Resolved(f) ==
  /\ pc[f] = "resolving"
  /\ pc[Inner(f)] = "returned"
  /\ result[Inner(f)] # Cancelled
  /\ pc' = [pc EXCEPT ![f] = "upstream", ![Inner(f)] = "idle"]
  /\ key' = [key EXCEPT ![Inner(f)] = NoKey]
  /\ result' = [result EXCEPT ![Inner(f)] = NoValue]
  /\ UNCHANGED <<store, holder, cancelled>>

ResolveCancelled(f) ==
  /\ pc[f] = "resolving"
  /\ pc[Inner(f)] = "returned"
  /\ result[Inner(f)] = Cancelled
  /\ pc' = [pc EXCEPT ![f] = "faulted", ![Inner(f)] = "idle"]
  /\ key' = [key EXCEPT ![Inner(f)] = NoKey]
  /\ result' = [result EXCEPT ![Inner(f)] = NoValue]
  /\ UNCHANGED <<store, holder, cancelled>>

\* if (value is not null) cache.Set(key, value, ...)
UpstreamValue(f) ==
  /\ pc[f] = "upstream"
  /\ \E v \in Values :
       /\ store' = [store EXCEPT ![key[f]] = v]
       /\ Finish(f, "releasing", v)
  /\ UNCHANGED <<holder, key, cancelled>>

\* The API answered null, or threw (catch { return default; }): nothing cached.
UpstreamNothing(f) ==
  /\ pc[f] = "upstream"
  /\ Finish(f, "releasing", NoValue)
  /\ UNCHANGED <<store, holder, key, cancelled>>

\* The API saw the token, or an HttpClient timeout surfaced as a cancellation.
UpstreamCancelled(f) ==
  /\ pc[f] = "upstream"
  /\ GoTo(f, "faulted")
  /\ UNCHANGED <<store, holder, key, result, cancelled>>

\* catch (OperationCanceledException) { throw; }
Rethrow(f) ==
  /\ pc[f] = "faulted"
  /\ Finish(f, "releasing", Cancelled)
  /\ UNCHANGED <<store, holder, key, cancelled>>

\* finally { sem.Release(); }
Release(f) ==
  /\ pc[f] = "releasing"
  /\ holder' = [holder EXCEPT ![key[f]] = NoFrame]
  /\ GoTo(f, "returned")
  /\ UNCHANGED <<store, key, result, cancelled>>

\* The task takes the outer call's outcome and disposes of its token.
Return(c) ==
  LET f == <<c, "outer">> IN
  /\ pc[f] = "returned"
  /\ Finish(f, "idle", NoValue)
  /\ key' = [key EXCEPT ![f] = NoKey]
  /\ cancelled' = [cancelled EXCEPT ![c] = FALSE]
  /\ UNCHANGED <<store, holder>>

(***************************************************************************)
(* The environment.                                                        *)
(***************************************************************************)
\* The per-exchange timeout, or the request's abort, while the call runs.
Cancel(c) ==
  /\ pc[<<c, "outer">>] # "idle"
  /\ ~cancelled[c]
  /\ cancelled' = [cancelled EXCEPT ![c] = TRUE]
  /\ UNCHANGED <<store, holder, pc, key, result>>

\* AbsoluteExpirationRelativeToNow, or cache.Remove by RefreshAndStoreAsync.
Expire(k) ==
  /\ store[k] # NoValue
  /\ store' = [store EXCEPT ![k] = NoValue]
  /\ UNCHANGED <<holder, pc, key, result, cancelled>>

-----------------------------------------------------------------------------
\* What the code does without the environment's help; an upstream call ends
\* because every client of it is bounded by a timeout.
Advance(f) ==
  \/ FastHit(f) \/ FastMiss(f) \/ GiveUp(f)
  \/ RecheckHit(f) \/ RecheckCancelled(f) \/ StartFactory(f)
  \/ Resolve(f) \/ NothingToResolve(f) \/ Resolved(f) \/ ResolveCancelled(f)
  \/ UpstreamValue(f) \/ UpstreamNothing(f) \/ UpstreamCancelled(f)
  \/ Rethrow(f) \/ Release(f)

Next ==
  \/ \E c \in Callers, k \in Keys : Invoke(c, k)
  \/ \E f \in Frames : Advance(f) \/ Acquire(f)
  \/ \E c \in Callers : Return(c) \/ Cancel(c)
  \/ \E k \in Keys : Expire(k)

\* SF on Acquire: SemaphoreSlim serves asynchronous waiters from a queue, so a
\* waiter that keeps seeing the permit come free is eventually given it.
Fairness ==
  \A f \in Frames : WF_vars(Advance(f)) /\ SF_vars(Acquire(f))

Spec == Init /\ [][Next]_vars
FairSpec == Spec /\ Fairness

-----------------------------------------------------------------------------
(***************************************************************************)
(* Properties.                                                             *)
(***************************************************************************)
\* A key's permit is held by exactly the frame that is between WaitAsync and
\* Release on that key, whichever way its wait, recheck or factory ended: no
\* path leaks the permit and none releases one it does not hold.
PermitMatchesHolder ==
  \A f \in Frames, k \in Keys :
    holder[k] = f <=> pc[f] \in HoldsPermit /\ key[f] = k

\* The thundering-herd guard: at most one caller is inside a key's factory, so
\* an exchange never sees two calls at once for one quote.
OneFetchPerKey ==
  \A f, g \in Frames :
    (pc[f] \in InFactory /\ pc[g] \in InFactory /\ key[f] = key[g]) => f = g

\* An exchange is never called for a quote the cache holds: while a factory
\* runs, its entry stays absent, whatever the other callers do meanwhile.
FetchOnlyWhenAbsent ==
  \A f \in Frames : pc[f] \in InFactory => store[key[f]] = NoValue

\* Every call comes back, although it may hold one key's permit while it waits
\* for another's: the order price key, then currency list, cannot deadlock.
EveryCallReturns ==
  \A c \in Callers :
    pc[<<c, "outer">>] = "lookup" ~> pc[<<c, "outer">>] = "returned"

\* The lock and its double check implement the abstract single-flight cache;
\* each frame is one of its clients.
ClientStage ==
  [f \in Frames |->
     CASE pc[f] = "idle" -> "idle"
       [] pc[f] \in {"lookup", "waiting", "holding"} -> "asking"
       [] pc[f] \in InFactory -> "fetching"
       [] OTHER -> "answered"]
Abstract == INSTANCE SingleFlight WITH
  Clients <- Frames, stage <- ClientStage, asked <- key, answer <- result
ImplementsSingleFlight == Abstract!Spec
=============================================================================
