----------------------------- MODULE SwapQuotes -----------------------------
(***************************************************************************)
(* SwapQuoteService.GetQuotesStream: live quotes for an exact amount.      *)
(* Each uncached request asks every exchange at once, inside a gate that   *)
(* admits a few requests at a time; the page's rows are streamed as the    *)
(* exchanges answer, and the list of a finished run is shared with later   *)
(* identical requests for a short time.                                    *)
(*                                                                         *)
(* A query stands for a cache key (direction, asset, amount, rate), a row  *)
(* for the exchange that quoted it.  A client that leaves cancels the      *)
(* token that its gate wait, its sponsor fetch, its exchange calls and its *)
(* response writes observe.                                                *)
(***************************************************************************)
EXTENDS Integers, FiniteSets

CONSTANTS
  Requests,   \* the HTTP requests in flight at a time
  Queries,
  Apis,       \* the exchanges asked for a query
  GateSize,   \* FanOutGate
  NoQuery, NoRequest, NoList

ASSUME SwapAssumption ==
  /\ IsFiniteSet(Requests)
  /\ GateSize \in Nat \ {0}
  /\ NoQuery \notin Queries
  /\ NoRequest \notin Requests

VARIABLES
  cache,         \* "swapq:..." entries of the IMemoryCache
  permits,       \* FanOutGate.CurrentCount
  sponsorsFresh, \* sponsorCachedAt is less than the TTL ago
  sponsorLock,   \* the request that holds sponsorLock
  pc, query,     \* where each request is, and for what
  gone,          \* its client has left: its token is cancelled
  task,          \* its calls: not running, running, or ended with a row or without
  rows,          \* collected
  sent,          \* the rows its client has received (history)
  cut            \* whether a call ended because the client left (history)

request == <<pc, query, gone, task, rows, sent, cut>>
vars == <<cache, permits, sponsorsFresh, sponsorLock, request>>

\* A shared list, with what is known of the run it comes from.
List == [rows : SUBSET Apis, sent : SUBSET Apis, cut : BOOLEAN]

InsideGate == {"sponsors", "sponsorWait", "sponsorFetch", "streaming", "writing"}
PCs == {"idle", "lookup", "gate"} \cup InsideGate

TypeOK ==
  /\ cache \in [Queries -> List \cup {NoList}]
  /\ permits \in 0..GateSize
  /\ sponsorsFresh \in BOOLEAN
  /\ sponsorLock \in Requests \cup {NoRequest}
  /\ pc \in [Requests -> PCs]
  /\ query \in [Requests -> Queries \cup {NoQuery}]
  /\ \A r \in Requests : pc[r] # "idle" => query[r] \in Queries
  /\ gone \in [Requests -> BOOLEAN]
  /\ task \in [Requests -> [Apis -> {"off", "running", "row", "null"}]]
  /\ rows \in [Requests -> SUBSET Apis]
  /\ sent \in [Requests -> SUBSET Apis]
  /\ cut \in [Requests -> BOOLEAN]

Off == [a \in Apis |-> "off"]

Init ==
  /\ cache = [q \in Queries |-> NoList]
  /\ permits = GateSize
  /\ sponsorsFresh = FALSE
  /\ sponsorLock = NoRequest
  /\ pc = [r \in Requests |-> "idle"]
  /\ query = [r \in Requests |-> NoQuery]
  /\ gone = [r \in Requests |-> FALSE]
  /\ task = [r \in Requests |-> Off]
  /\ rows = [r \in Requests |-> {}]
  /\ sent = [r \in Requests |-> {}]
  /\ cut = [r \in Requests |-> FALSE]

GoTo(r, point) == pc' = [pc EXCEPT ![r] = point]

\* The request is over; its calls still in flight end unobserved.
Over(r) ==
  /\ GoTo(r, "idle")
  /\ query' = [query EXCEPT ![r] = NoQuery]
  /\ gone' = [gone EXCEPT ![r] = FALSE]
  /\ task' = [task EXCEPT ![r] = Off]
  /\ rows' = [rows EXCEPT ![r] = {}]
  /\ sent' = [sent EXCEPT ![r] = {}]
  /\ cut' = [cut EXCEPT ![r] = FALSE]

(***************************************************************************)
(* Clients.                                                                *)
(***************************************************************************)
Arrive(r) ==
  /\ pc[r] = "idle"
  /\ \E q \in Queries : query' = [query EXCEPT ![r] = q]
  /\ GoTo(r, "lookup")
  /\ UNCHANGED <<cache, permits, sponsorsFresh, sponsorLock, gone, task, rows, sent, cut>>

Leave(r) ==
  /\ pc[r] # "idle" /\ ~gone[r]
  /\ gone' = [gone EXCEPT ![r] = TRUE]
  /\ UNCHANGED <<cache, permits, sponsorsFresh, sponsorLock, pc, query, task, rows, sent, cut>>

(***************************************************************************)
(* The cache and the gate.                                                 *)
(***************************************************************************)
ServeShared(r) ==
  /\ pc[r] = "lookup" /\ cache[query[r]] # NoList
  /\ Over(r)
  /\ UNCHANGED <<cache, permits, sponsorsFresh, sponsorLock>>

Miss(r) ==
  /\ pc[r] = "lookup" /\ cache[query[r]] = NoList
  /\ GoTo(r, "gate")
  /\ UNCHANGED <<cache, permits, sponsorsFresh, sponsorLock, query, gone, task, rows, sent, cut>>

EnterGate(r) ==
  /\ pc[r] = "gate" /\ permits > 0 /\ ~gone[r]
  /\ permits' = permits - 1
  /\ GoTo(r, "sponsors")
  /\ UNCHANGED <<cache, sponsorsFresh, sponsorLock, query, gone, task, rows, sent, cut>>

\* FanOutWait expires, or the wait observes the cancelled token.
TurnedAway(r) ==
  /\ pc[r] = "gate"
  /\ Over(r)
  /\ UNCHANGED <<cache, permits, sponsorsFresh, sponsorLock>>

(***************************************************************************)
(* GetSponsorsAsync, while the permit of the gate is held.                 *)
(***************************************************************************)
\* The map is fresh, under the lock or without it: the calls start.
StartCalls(r) ==
  /\ task' = [task EXCEPT ![r] = [a \in Apis |-> "running"]]
  /\ GoTo(r, "streaming")
  /\ UNCHANGED <<cache, permits, query, gone, rows, sent, cut>>

SponsorsKnown(r) ==
  /\ pc[r] = "sponsors" /\ sponsorsFresh
  /\ StartCalls(r)
  /\ UNCHANGED <<sponsorsFresh, sponsorLock>>

SponsorsStale(r) ==
  /\ pc[r] = "sponsors" /\ ~sponsorsFresh
  /\ GoTo(r, "sponsorWait")
  /\ UNCHANGED <<cache, permits, sponsorsFresh, sponsorLock, query, gone, task, rows, sent, cut>>

\* The wait ignores the client's token.  Under the lock the map may be fresh
\* after all: the lock is released at once.
LockSponsors(r) ==
  /\ pc[r] = "sponsorWait" /\ sponsorLock = NoRequest
  /\ IF sponsorsFresh
     THEN StartCalls(r) /\ UNCHANGED <<sponsorsFresh, sponsorLock>>
     ELSE /\ sponsorLock' = r
          /\ GoTo(r, "sponsorFetch")
          /\ UNCHANGED <<cache, permits, sponsorsFresh, query, gone, task, rows, sent, cut>>

\* Faulty variant: no finally around the fetch.
SponsorsFetchedLocked(r) ==
  /\ pc[r] = "sponsorFetch"
  /\ sponsorsFresh' = TRUE
  /\ UNCHANGED sponsorLock
  /\ StartCalls(r)

\* The source answers, fails, or the client leaves: the time is set either way.
SponsorsFetched(r) ==
  /\ pc[r] = "sponsorFetch"
  /\ sponsorsFresh' = TRUE
  /\ sponsorLock' = NoRequest
  /\ StartCalls(r)

(***************************************************************************)
(* The exchange calls (FetchOneAsync) and the stream.                      *)
(***************************************************************************)
Calling(r, a) == pc[r] \in {"streaming", "writing"} /\ task[r][a] = "running"

End(r, a, result) == task' = [task EXCEPT ![r][a] = result]

\* The exchange quotes the amount.
Quotes(r, a) ==
  /\ Calling(r, a)
  /\ End(r, a, "row")
  /\ UNCHANGED <<cache, permits, sponsorsFresh, sponsorLock, pc, query, gone, rows, sent, cut>>

\* It declines the amount, fails, or exceeds ExchangeTimeout.
Declines(r, a) ==
  /\ Calling(r, a)
  /\ End(r, a, "null")
  /\ UNCHANGED <<cache, permits, sponsorsFresh, sponsorLock, pc, query, gone, rows, sent, cut>>

\* The client's token cancels the call; the catch-all returns null.
CutOff(r, a) ==
  /\ Calling(r, a) /\ gone[r]
  /\ End(r, a, "null")
  /\ cut' = [cut EXCEPT ![r] = TRUE]
  /\ UNCHANGED <<cache, permits, sponsorsFresh, sponsorLock, pc, query, gone, rows, sent>>

\* Task.WhenAny gives an ended call: nothing to show, or a row to yield.
TakeNull(r, a) ==
  /\ pc[r] = "streaming" /\ task[r][a] = "null"
  /\ End(r, a, "off")
  /\ UNCHANGED <<cache, permits, sponsorsFresh, sponsorLock, pc, query, gone, rows, sent, cut>>

TakeRow(r, a) ==
  /\ pc[r] = "streaming" /\ task[r][a] = "row"
  /\ End(r, a, "off")
  /\ rows' = [rows EXCEPT ![r] = @ \cup {a}]
  /\ GoTo(r, "writing")
  /\ UNCHANGED <<cache, permits, sponsorsFresh, sponsorLock, query, gone, sent, cut>>

\* The endpoint's WriteAsync and FlushAsync: the client receives the row.
Write(r) ==
  /\ pc[r] = "writing" /\ ~gone[r]
  /\ sent' = [sent EXCEPT ![r] = rows[r]]
  /\ GoTo(r, "streaming")
  /\ UNCHANGED <<cache, permits, sponsorsFresh, sponsorLock, query, gone, task, rows, cut>>

\* What a run would leave behind for identical requests.
Shared(r) == [rows |-> rows[r], sent |-> sent[r], cut |-> cut[r]]

\* Faulty variants: the list stored in the finally block; no finally block.
WriteFailsShared(r) ==
  /\ pc[r] = "writing" /\ gone[r]
  /\ cache' = [cache EXCEPT ![query[r]] = Shared(r)]
  /\ permits' = permits + 1
  /\ Over(r)
  /\ UNCHANGED <<sponsorsFresh, sponsorLock>>
WriteFailsLeaking(r) ==
  /\ pc[r] = "writing" /\ gone[r]
  /\ Over(r)
  /\ UNCHANGED <<cache, permits, sponsorsFresh, sponsorLock>>

\* The write throws, the iterator is disposed at its yield, the finally runs.
WriteFails(r) ==
  /\ pc[r] = "writing" /\ gone[r]
  /\ permits' = permits + 1
  /\ Over(r)
  /\ UNCHANGED <<cache, sponsorsFresh, sponsorLock>>

\* No call is left: the list is shared and the permit released.
Complete(r) ==
  /\ pc[r] = "streaming" /\ task[r] = Off
  /\ cache' = [cache EXCEPT ![query[r]] = Shared(r)]
  /\ permits' = permits + 1
  /\ Over(r)
  /\ UNCHANGED <<sponsorsFresh, sponsorLock>>

(***************************************************************************)
(* Time.                                                                   *)
(***************************************************************************)
ListExpires(q) ==
  /\ cache[q] # NoList
  /\ cache' = [cache EXCEPT ![q] = NoList]
  /\ UNCHANGED <<permits, sponsorsFresh, sponsorLock, request>>

SponsorsExpire ==
  /\ sponsorsFresh /\ sponsorsFresh' = FALSE
  /\ UNCHANGED <<cache, permits, sponsorLock, request>>

\* What the service does of its own for a request.
Serve(r) ==
  \/ ServeShared(r) \/ Miss(r) \/ EnterGate(r) \/ TurnedAway(r)
  \/ SponsorsKnown(r) \/ SponsorsStale(r) \/ SponsorsFetched(r)
  \/ \E a \in Apis : TakeNull(r, a) \/ TakeRow(r, a)
  \/ Write(r) \/ WriteFails(r) \/ Complete(r)

Next ==
  \/ \E r \in Requests :
       \/ Arrive(r) \/ Leave(r) \/ Serve(r) \/ LockSponsors(r)
       \/ \E a \in Apis : Quotes(r, a) \/ Declines(r, a) \/ CutOff(r, a)
  \/ \E q \in Queries : ListExpires(q)
  \/ SponsorsExpire

Spec == Init /\ [][Next]_vars

\* The service's own steps and timeouts: the gate's 15 seconds, the sponsor
\* client's 10, an exchange's 9; a semaphore passes over no waiter for ever; a
\* client takes its row or its connection breaks.  No exchange need answer.
Fairness ==
  \A r \in Requests :
    /\ WF_vars(Serve(r))
    /\ SF_vars(LockSponsors(r))
    /\ \A a \in Apis : WF_vars(Declines(r, a))
FairSpec == Spec /\ Fairness

-----------------------------------------------------------------------------
(***************************************************************************)
(* Properties.                                                             *)
(***************************************************************************)
Inside == {r \in Requests : pc[r] \in InsideGate}

\* "At most a few fan-outs run at once": every way out of a run, by its end, a
\* broken write or a cancelled wait, gives back exactly the permit it took.
GateConserved == permits + Cardinality(Inside) = GateSize

\* A list is shared only when its client received all of it: a run abandoned
\* at a yield leaves nothing behind.
SharedWasSent == \A q \in Queries : cache[q] # NoList => cache[q].sent = cache[q].rows

\* A request holds the gate's permit while it waits for the sponsors' lock and
\* for every exchange, and may be turned away; it always ends.
RequestEnds == \A r \in Requests : (pc[r] # "idle") ~> (pc[r] = "idle")

(***************************************************************************)
(* A statement of the code's comments that the code does not keep.         *)
(***************************************************************************)
\* "Only a complete run is shared (a client that disconnected mid-stream never
\* caches a partial list)."
OnlyCompleteIsShared == \A q \in Queries : cache[q] # NoList => ~cache[q].cut
=============================================================================
