-------------------------- MODULE SwapQuotesProofs --------------------------
(***************************************************************************)
(* The gate and the shared lists of SwapQuotes, for any requests, queries, *)
(* exchanges and gate size.                                                *)
(***************************************************************************)
EXTENDS SwapQuotes, FiniteSetTheorems, TLAPS

\* Every row collected has been received, but for the one being written.
StreamedIsSent ==
  \A r \in Requests :
    /\ pc[r] = "streaming" => sent[r] = rows[r]
    /\ pc[r] \notin {"streaming", "writing"} => rows[r] = {} /\ sent[r] = {}

\* TypeOK in two parts: each request's own state, and what they share.
RequestTypes ==
  /\ pc \in [Requests -> PCs]
  /\ query \in [Requests -> Queries \cup {NoQuery}]
  /\ \A r \in Requests : pc[r] # "idle" => query[r] \in Queries
  /\ gone \in [Requests -> BOOLEAN]
  /\ task \in [Requests -> [Apis -> {"off", "running", "row", "null"}]]
  /\ rows \in [Requests -> SUBSET Apis]
  /\ sent \in [Requests -> SUBSET Apis]
  /\ cut \in [Requests -> BOOLEAN]
ServiceTypes ==
  /\ cache \in [Queries -> List \cup {NoList}]
  /\ permits \in 0..GateSize
  /\ sponsorsFresh \in BOOLEAN
  /\ sponsorLock \in Requests \cup {NoRequest}

Inv == RequestTypes /\ ServiceTypes /\ GateConserved /\ StreamedIsSent /\ SharedWasSent

-----------------------------------------------------------------------------
\* How the set of requests inside the gate follows one request's control point.
LEMMA InsideIsFinite == IsFiniteSet(Inside) /\ Cardinality(Inside) \in Nat
<1>1. Inside \subseteq Requests
  BY DEF Inside
<1> QED BY <1>1, SwapAssumption, FS_Subset, FS_CardinalityType DEF SwapAssumption

LEMMA InsideStays ==
  ASSUME pc \in [Requests -> PCs], NEW r \in Requests, NEW p,
         pc' = [pc EXCEPT ![r] = p], pc[r] \in InsideGate <=> p \in InsideGate
  PROVE  Inside' = Inside
BY DEF Inside

LEMMA InsideEntered ==
  ASSUME pc \in [Requests -> PCs], NEW r \in Requests, NEW p,
         pc' = [pc EXCEPT ![r] = p], pc[r] \notin InsideGate, p \in InsideGate
  PROVE  Cardinality(Inside') = Cardinality(Inside) + 1
<1>1. Inside' = Inside \cup {r} /\ r \notin Inside
  BY DEF Inside
<1> QED BY <1>1, InsideIsFinite, FS_AddElement

LEMMA InsideLeft ==
  ASSUME pc \in [Requests -> PCs], NEW r \in Requests, NEW p,
         pc' = [pc EXCEPT ![r] = p], pc[r] \in InsideGate, p \notin InsideGate
  PROVE  Cardinality(Inside') = Cardinality(Inside) - 1
<1>1. Inside' = Inside \ {r} /\ r \in Inside
  BY DEF Inside
<1> QED BY <1>1, InsideIsFinite, FS_RemoveElement

\* A permit taken on entering and one given back on leaving keep the count.
LEMMA GateKept ==
  ASSUME Inv, NEW r \in Requests, NEW p, pc' = [pc EXCEPT ![r] = p],
         \/ permits' = permits /\ (pc[r] \in InsideGate <=> p \in InsideGate)
         \/ permits' = permits - 1 /\ permits > 0 /\ pc[r] \notin InsideGate /\ p \in InsideGate
         \/ permits' = permits + 1 /\ pc[r] \in InsideGate /\ p \notin InsideGate
  PROVE  GateConserved' /\ permits' \in 0..GateSize
<1>1. /\ pc \in [Requests -> PCs] /\ permits \in 0..GateSize /\ GateSize \in Nat
      /\ permits + Cardinality(Inside) = GateSize
  BY SwapAssumption DEF Inv, RequestTypes, ServiceTypes, GateConserved, SwapAssumption
<1>2. Cardinality(Inside) \in Nat
  BY InsideIsFinite
<1>3. CASE permits' = permits /\ (pc[r] \in InsideGate <=> p \in InsideGate)
  <2>1. Inside' = Inside
    BY <1>1, <1>3, InsideStays
  <2> QED BY <1>1, <1>3, <2>1 DEF GateConserved
<1>4. CASE permits' = permits - 1 /\ permits > 0 /\ pc[r] \notin InsideGate /\ p \in InsideGate
  <2>1. Cardinality(Inside') = Cardinality(Inside) + 1
    BY <1>1, <1>4, InsideEntered
  <2> QED BY <1>1, <1>2, <1>4, <2>1 DEF GateConserved
<1>5. CASE permits' = permits + 1 /\ pc[r] \in InsideGate /\ p \notin InsideGate
  <2>1. Cardinality(Inside') = Cardinality(Inside) - 1 /\ Cardinality(Inside) >= 1
    <3>1. Cardinality(Inside') = Cardinality(Inside) - 1
      BY <1>1, <1>5, InsideLeft
    <3>2. r \in Inside /\ Inside # {}
      BY <1>5 DEF Inside
    <3>3. Cardinality(Inside) # 0
      BY <3>2, InsideIsFinite, FS_EmptySet
    <3> QED BY <1>2, <3>1, <3>3
  <2> QED BY <1>1, <1>2, <1>5, <2>1 DEF GateConserved
<1> QED BY <1>3, <1>4, <1>5

\* A request that is over leaves nothing of its own.
LEMMA OverForgets ==
  ASSUME Inv, NEW r \in Requests, Over(r)
  PROVE  RequestTypes' /\ StreamedIsSent' /\ pc' = [pc EXCEPT ![r] = "idle"]
<1>1. Off \in [Apis -> {"off", "running", "row", "null"}]
  BY DEF Off
<1>2. RequestTypes'
  BY <1>1 DEF Inv, RequestTypes, Over, GoTo, PCs
<1> QED BY <1>2 DEF Inv, RequestTypes, StreamedIsSent, Over, GoTo

\* A call that ends changes nothing but itself.
LEMMA CallEnds ==
  ASSUME Inv, NEW r \in Requests, NEW a \in Apis, NEW x \in {"off", "row", "null"}, End(r, a, x),
         UNCHANGED <<cache, permits, sponsorsFresh, sponsorLock, pc, query, gone, rows, sent>>,
         cut' \in [Requests -> BOOLEAN]
  PROVE  Inv'
<1>1. RequestTypes'
  BY DEF Inv, RequestTypes, End
<1>2. ServiceTypes' /\ GateConserved' /\ StreamedIsSent' /\ SharedWasSent'
  BY DEF Inv, ServiceTypes, GateConserved, Inside, StreamedIsSent, SharedWasSent
<1> QED BY <1>1, <1>2 DEF Inv

LEMMA StartPreserves ==
  ASSUME Inv, NEW r \in Requests, pc[r] \in {"sponsors", "sponsorWait", "sponsorFetch"},
         StartCalls(r), sponsorsFresh' \in BOOLEAN, sponsorLock' \in Requests \cup {NoRequest}
  PROVE  Inv'
<1>1. /\ pc' = [pc EXCEPT ![r] = "streaming"] /\ permits' = permits
      /\ UNCHANGED <<cache, query, gone, rows, sent, cut>>
  BY DEF StartCalls, GoTo
<1>2. GateConserved' /\ permits' \in 0..GateSize
  BY <1>1, GateKept DEF InsideGate
<1>3. [a \in Apis |-> "running"] \in [Apis -> {"off", "running", "row", "null"}]
  OBVIOUS
<1>4. RequestTypes' /\ ServiceTypes'
  BY <1>1, <1>2, <1>3 DEF Inv, RequestTypes, ServiceTypes, StartCalls, PCs, InsideGate
<1>5. StreamedIsSent' /\ SharedWasSent'
  BY <1>1 DEF Inv, RequestTypes, StreamedIsSent, SharedWasSent
<1> QED BY <1>2, <1>4, <1>5 DEF Inv

\* A request moves before its calls start, or is served and forgotten.
LEMMA EarlyPreserves ==
  ASSUME Inv, NEW r \in Requests,
         \/ Arrive(r) \/ Leave(r) \/ ServeShared(r) \/ Miss(r) \/ EnterGate(r) \/ TurnedAway(r)
         \/ SponsorsKnown(r) \/ SponsorsStale(r) \/ SponsorsFetched(r) \/ LockSponsors(r)
  PROVE  Inv'
<1>1. CASE Arrive(r)
  <2>1. pc[r] = "idle" /\ pc' = [pc EXCEPT ![r] = "lookup"] /\ permits' = permits
    BY <1>1 DEF Arrive, GoTo
  <2>2. GateConserved'
    BY <2>1, GateKept DEF InsideGate
  <2>3. RequestTypes' /\ ServiceTypes' /\ StreamedIsSent' /\ SharedWasSent'
    BY <1>1 DEF Arrive, GoTo, Inv, RequestTypes, ServiceTypes, StreamedIsSent, SharedWasSent, PCs
  <2> QED BY <2>2, <2>3 DEF Inv
<1>2. CASE Leave(r)
  BY <1>2 DEF Leave, Inv, RequestTypes, ServiceTypes, GateConserved, Inside, StreamedIsSent,
              SharedWasSent
<1>3. CASE ServeShared(r) \/ TurnedAway(r)
  <2>1. /\ Over(r) /\ pc[r] \in {"lookup", "gate"}
        /\ UNCHANGED <<cache, permits, sponsorsFresh, sponsorLock>>
    BY <1>3 DEF ServeShared, TurnedAway
  <2>2. RequestTypes' /\ StreamedIsSent' /\ pc' = [pc EXCEPT ![r] = "idle"]
    BY <2>1, OverForgets
  <2>3. GateConserved'
    BY <2>1, <2>2, GateKept DEF InsideGate
  <2>4. ServiceTypes' /\ SharedWasSent'
    BY <2>1 DEF Inv, ServiceTypes, SharedWasSent
  <2> QED BY <2>2, <2>3, <2>4 DEF Inv
<1>4. CASE Miss(r) \/ SponsorsStale(r)
  <2>1. /\ \/ pc[r] = "lookup" /\ pc' = [pc EXCEPT ![r] = "gate"]
           \/ pc[r] = "sponsors" /\ pc' = [pc EXCEPT ![r] = "sponsorWait"]
        /\ UNCHANGED <<cache, permits, sponsorsFresh, sponsorLock, query, gone, task, rows, sent, cut>>
    BY <1>4 DEF Miss, SponsorsStale, GoTo
  <2>2. GateConserved'
    BY <2>1, GateKept DEF InsideGate
  <2>3. RequestTypes' /\ ServiceTypes' /\ StreamedIsSent' /\ SharedWasSent'
    BY <2>1 DEF Inv, RequestTypes, ServiceTypes, StreamedIsSent, SharedWasSent, PCs, InsideGate
  <2> QED BY <2>2, <2>3 DEF Inv
<1>5. CASE EnterGate(r)
  <2>1. /\ pc[r] = "gate" /\ pc' = [pc EXCEPT ![r] = "sponsors"]
        /\ permits > 0 /\ permits' = permits - 1
        /\ UNCHANGED <<cache, sponsorsFresh, sponsorLock, query, gone, task, rows, sent, cut>>
    BY <1>5 DEF EnterGate, GoTo
  <2>2. GateConserved' /\ permits' \in 0..GateSize
    BY <2>1, GateKept DEF InsideGate
  <2>3. RequestTypes' /\ ServiceTypes' /\ StreamedIsSent' /\ SharedWasSent'
    BY <2>1, <2>2 DEF Inv, RequestTypes, ServiceTypes, StreamedIsSent, SharedWasSent, PCs, InsideGate
  <2> QED BY <2>2, <2>3 DEF Inv
<1>6. CASE SponsorsKnown(r) \/ SponsorsFetched(r)
  BY <1>6, StartPreserves DEF SponsorsKnown, SponsorsFetched, Inv, ServiceTypes
<1>7. CASE LockSponsors(r)
  <2>1. CASE sponsorsFresh
    BY <1>7, <2>1, StartPreserves DEF LockSponsors, Inv, ServiceTypes
  <2>2. CASE ~sponsorsFresh
    <3>1. /\ pc[r] = "sponsorWait" /\ pc' = [pc EXCEPT ![r] = "sponsorFetch"]
          /\ sponsorLock' = r
          /\ UNCHANGED <<cache, permits, sponsorsFresh, query, gone, task, rows, sent, cut>>
      BY <1>7, <2>2 DEF LockSponsors, GoTo
    <3>2. GateConserved'
      BY <3>1, GateKept DEF InsideGate
    <3>3. RequestTypes' /\ ServiceTypes' /\ StreamedIsSent' /\ SharedWasSent'
      BY <3>1 DEF Inv, RequestTypes, ServiceTypes, StreamedIsSent, SharedWasSent, PCs, InsideGate
    <3> QED BY <3>2, <3>3 DEF Inv
  <2> QED BY <2>1, <2>2
<1> QED BY <1>1, <1>2, <1>3, <1>4, <1>5, <1>6, <1>7

\* A request streams its rows; its end shares the list if all of it was sent.
LEMMA StreamPreserves ==
  ASSUME Inv, NEW r \in Requests,
         \/ \E a \in Apis : \/ Quotes(r, a) \/ Declines(r, a) \/ CutOff(r, a)
                           \/ TakeNull(r, a) \/ TakeRow(r, a)
         \/ Write(r) \/ WriteFails(r) \/ Complete(r)
  PROVE  Inv'
<1>1. ASSUME NEW a \in Apis, Quotes(r, a) \/ Declines(r, a) \/ TakeNull(r, a)
      PROVE  Inv'
  BY <1>1, CallEnds DEF Quotes, Declines, TakeNull, Inv, RequestTypes
<1>2. ASSUME NEW a \in Apis, CutOff(r, a) PROVE Inv'
  <2>1. cut' \in [Requests -> BOOLEAN]
    BY <1>2 DEF CutOff, Inv, RequestTypes
  <2> QED BY <1>2, <2>1, CallEnds DEF CutOff
<1>3. ASSUME NEW a \in Apis, TakeRow(r, a) PROVE Inv'
  <2>1. pc[r] = "streaming" /\ pc' = [pc EXCEPT ![r] = "writing"] /\ permits' = permits
    BY <1>3 DEF TakeRow, GoTo
  <2>2. GateConserved'
    BY <2>1, GateKept DEF InsideGate
  <2>3. RequestTypes'
    BY <1>3, <2>1 DEF TakeRow, End, Inv, RequestTypes, PCs, InsideGate
  <2>4. ServiceTypes' /\ StreamedIsSent' /\ SharedWasSent'
    BY <1>3, <2>1 DEF TakeRow, Inv, RequestTypes, ServiceTypes, StreamedIsSent, SharedWasSent
  <2> QED BY <2>2, <2>3, <2>4 DEF Inv
<1>4. CASE Write(r)
  <2>1. pc[r] = "writing" /\ pc' = [pc EXCEPT ![r] = "streaming"] /\ permits' = permits
    BY <1>4 DEF Write, GoTo
  <2>2. GateConserved'
    BY <2>1, GateKept DEF InsideGate
  <2>3. RequestTypes' /\ ServiceTypes' /\ StreamedIsSent' /\ SharedWasSent'
    BY <1>4, <2>1 DEF Write, Inv, RequestTypes, ServiceTypes, StreamedIsSent, SharedWasSent, PCs,
                      InsideGate
  <2> QED BY <2>2, <2>3 DEF Inv
<1>5. CASE WriteFails(r) \/ Complete(r)
  <2>1. /\ Over(r) /\ pc[r] \in {"writing", "streaming"} /\ permits' = permits + 1
        /\ UNCHANGED <<sponsorsFresh, sponsorLock>>
        /\ \/ cache' = cache
           \/ pc[r] = "streaming" /\ cache' = [cache EXCEPT ![query[r]] = Shared(r)]
    BY <1>5 DEF WriteFails, Complete
  <2>2. RequestTypes' /\ StreamedIsSent' /\ pc' = [pc EXCEPT ![r] = "idle"]
    BY <2>1, OverForgets
  <2>3. GateConserved' /\ permits' \in 0..GateSize
    BY <2>1, <2>2, GateKept DEF InsideGate
  <2>4. Shared(r) \in List /\ query[r] \in Queries
    BY <2>1 DEF Shared, List, Inv, RequestTypes
  <2>5. ServiceTypes'
    BY <2>1, <2>3, <2>4 DEF Inv, ServiceTypes
  <2>6. SharedWasSent'
    <3>1. pc[r] = "streaming" => Shared(r).sent = Shared(r).rows
      BY DEF Shared, Inv, StreamedIsSent
    <3> QED BY <2>1, <2>4, <3>1 DEF Inv, ServiceTypes, SharedWasSent
  <2> QED BY <2>2, <2>3, <2>5, <2>6 DEF Inv
<1> QED BY <1>1, <1>2, <1>3, <1>4, <1>5

LEMMA InitInv == Init => Inv
<1> SUFFICES ASSUME Init PROVE Inv
  OBVIOUS
<1>1. Off \in [Apis -> {"off", "running", "row", "null"}]
  BY DEF Off
<1>2. RequestTypes
  BY <1>1 DEF Init, RequestTypes, PCs
<1>2a. ServiceTypes
  <2>1. cache \in [Queries -> List \cup {NoList}]
    BY DEF Init
  <2>2. GateSize \in 0..GateSize
    BY SwapAssumption DEF SwapAssumption
  <2> QED BY <2>1, <2>2 DEF Init, ServiceTypes
<1>2b. StreamedIsSent
  BY DEF Init, StreamedIsSent
<1>2c. SharedWasSent
  BY DEF Init, SharedWasSent
<1>3. Inside = {}
  BY DEF Init, Inside, InsideGate
<1>4. GateConserved
  BY <1>3, FS_EmptySet, SwapAssumption DEF Init, GateConserved, SwapAssumption
<1> QED BY <1>2, <1>2a, <1>2b, <1>2c, <1>4 DEF Inv

LEMMA StepInv == Inv /\ [Next]_vars => Inv'
<1> SUFFICES ASSUME Inv, [Next]_vars PROVE Inv'
  OBVIOUS
<1>1. CASE UNCHANGED vars
  BY <1>1 DEF vars, request, Inv, RequestTypes, ServiceTypes, GateConserved, Inside, StreamedIsSent,
              SharedWasSent
<1>2. CASE \E r \in Requests :
             \/ Arrive(r) \/ Leave(r) \/ Serve(r) \/ LockSponsors(r)
             \/ \E a \in Apis : Quotes(r, a) \/ Declines(r, a) \/ CutOff(r, a)
  BY <1>2, EarlyPreserves, StreamPreserves DEF Serve
<1>3. ASSUME NEW q \in Queries, ListExpires(q) PROVE Inv'
  BY <1>3 DEF ListExpires, request, Inv, RequestTypes, ServiceTypes, GateConserved, Inside,
              StreamedIsSent, SharedWasSent
<1>4. CASE SponsorsExpire
  BY <1>4 DEF SponsorsExpire, request, Inv, RequestTypes, ServiceTypes, GateConserved, Inside,
              StreamedIsSent, SharedWasSent
<1> QED BY <1>1, <1>2, <1>3, <1>4 DEF Next

THEOREM Invariant == Spec => []Inv
BY InitInv, StepInv, PTL DEF Spec

\* Requests, tasks, lists and permits keep their types; the permits stay between
\* none and the size of the gate.
THEOREM TypeCorrect == Spec => []TypeOK
<1>1. Inv => TypeOK
  BY DEF Inv, RequestTypes, ServiceTypes, TypeOK
<1> QED BY <1>1, Invariant, PTL

\* "At most a few fan-outs run at once", for any number of requests: every way
\* out of GetQuotesStream gives back exactly the permit it took.
THEOREM GateIsConserved == Spec => []GateConserved
<1>1. Inv => GateConserved
  BY DEF Inv
<1> QED BY <1>1, Invariant, PTL

\* A run abandoned while it writes a row is never shared, for any exchanges.
THEOREM OnlySentIsShared == Spec => []SharedWasSent
<1>1. Inv => SharedWasSent
  BY DEF Inv
<1> QED BY <1>1, Invariant, PTL

-----------------------------------------------------------------------------
(***************************************************************************)
(* The sponsors' lock.                                                     *)
(***************************************************************************)
\* The lock belongs to the request that fetches, and to no other.
LockIsHeld == \A r \in Requests : sponsorLock = r <=> pc[r] = "sponsorFetch"

LEMMA InitLock == Init => LockIsHeld
BY SwapAssumption DEF Init, LockIsHeld, SwapAssumption

\* A request that moves without the lock neither takes it nor was fetching.
LEMMA LockStays ==
  ASSUME Inv, LockIsHeld, NEW r \in Requests, NEW p, pc' = [pc EXCEPT ![r] = p],
         sponsorLock' = sponsorLock, pc[r] # "sponsorFetch", p # "sponsorFetch"
  PROVE  LockIsHeld'
BY DEF Inv, RequestTypes, LockIsHeld

LEMMA StepLock == Inv /\ LockIsHeld /\ [Next]_vars => LockIsHeld'
<1> SUFFICES ASSUME Inv, LockIsHeld, [Next]_vars PROVE LockIsHeld'
  OBVIOUS
<1>1. CASE UNCHANGED <<pc, sponsorLock>>
  BY <1>1 DEF LockIsHeld
<1>2. ASSUME NEW r \in Requests,
             Arrive(r) \/ ServeShared(r) \/ Miss(r) \/ EnterGate(r) \/ TurnedAway(r)
      PROVE  LockIsHeld'
  BY <1>2, LockStays DEF Arrive, ServeShared, Miss, EnterGate, TurnedAway, Over, GoTo
<1>3. ASSUME NEW r \in Requests, SponsorsKnown(r) \/ SponsorsStale(r)
      PROVE  LockIsHeld'
  BY <1>3, LockStays DEF SponsorsKnown, SponsorsStale, StartCalls, GoTo
<1>4. ASSUME NEW r \in Requests, LockSponsors(r) PROVE LockIsHeld'
  <2>1. CASE sponsorsFresh
    BY <1>4, <2>1, LockStays DEF LockSponsors, StartCalls, GoTo
  <2>2. CASE ~sponsorsFresh
    <3>1. /\ sponsorLock = NoRequest /\ sponsorLock' = r
          /\ pc' = [pc EXCEPT ![r] = "sponsorFetch"]
      BY <1>4, <2>2 DEF LockSponsors, GoTo
    <3> QED BY <3>1, SwapAssumption DEF Inv, RequestTypes, LockIsHeld, SwapAssumption
  <2> QED BY <2>1, <2>2
<1>5. ASSUME NEW r \in Requests, SponsorsFetched(r) PROVE LockIsHeld'
  <2>1. /\ pc[r] = "sponsorFetch" /\ sponsorLock' = NoRequest
        /\ pc' = [pc EXCEPT ![r] = "streaming"]
    BY <1>5 DEF SponsorsFetched, StartCalls, GoTo
  <2> QED BY <2>1, SwapAssumption DEF Inv, RequestTypes, LockIsHeld, SwapAssumption
<1>6. ASSUME NEW r \in Requests, NEW a \in Apis, TakeRow(r, a) PROVE LockIsHeld'
  BY <1>6, LockStays DEF TakeRow, GoTo
<1>7. ASSUME NEW r \in Requests, Write(r) \/ WriteFails(r) \/ Complete(r)
      PROVE  LockIsHeld'
  BY <1>7, LockStays DEF Write, WriteFails, Complete, Over, GoTo
<1>8. CASE \/ \E r \in Requests :
               \/ Leave(r)
               \/ \E a \in Apis :
                    Quotes(r, a) \/ Declines(r, a) \/ CutOff(r, a) \/ TakeNull(r, a)
           \/ (\E q \in Queries : ListExpires(q)) \/ SponsorsExpire \/ UNCHANGED vars
  BY <1>1, <1>8
     DEF Leave, Quotes, Declines, CutOff, TakeNull, ListExpires, SponsorsExpire, request, vars
<1> QED BY <1>2, <1>3, <1>4, <1>5, <1>6, <1>7, <1>8 DEF Next, Serve

\* GetSponsorsAsync fetches once at a time, for any number of requests, and a
\* fetch that ends, well or not, leaves the lock to whoever waits for it.
THEOREM OneSponsorFetch == Spec => []LockIsHeld
BY Invariant, InitLock, StepLock, PTL DEF Spec

-----------------------------------------------------------------------------
(***************************************************************************)
(* When only complete runs are shared.                                     *)
(***************************************************************************)
ClientLeaves == \E r \in Requests : Leave(r)

\* Every client is there, no call was cut off, and no shared list is short.
NobodyLeft ==
  /\ \A r \in Requests : ~gone[r] /\ ~cut[r]
  /\ OnlyCompleteIsShared

LEMMA InitNobodyLeft == Init => NobodyLeft
BY DEF Init, NobodyLeft, OnlyCompleteIsShared

LEMMA StepNobodyLeft ==
  Inv /\ NobodyLeft /\ [Next]_vars /\ [~ClientLeaves]_vars => NobodyLeft'
<1> SUFFICES ASSUME Inv, NobodyLeft, [Next]_vars, [~ClientLeaves]_vars
             PROVE  NobodyLeft'
  OBVIOUS
<1>1. CASE UNCHANGED <<gone, cut, cache>>
  BY <1>1 DEF NobodyLeft, OnlyCompleteIsShared
<1>2. ASSUME NEW r \in Requests, Over(r), cache' = cache PROVE NobodyLeft'
  BY <1>2 DEF Over, Inv, RequestTypes, NobodyLeft, OnlyCompleteIsShared
<1>3. ASSUME NEW r \in Requests, Complete(r) PROVE NobodyLeft'
  <2>1. /\ gone' = [gone EXCEPT ![r] = FALSE] /\ cut' = [cut EXCEPT ![r] = FALSE]
        /\ cache' = [cache EXCEPT ![query[r]] = Shared(r)]
    BY <1>3 DEF Complete, Over
  <2>2. ~Shared(r).cut /\ query[r] \in Queries
    BY <1>3 DEF Complete, Shared, NobodyLeft, Inv, RequestTypes
  <2>3. \A x \in Requests : ~gone'[x] /\ ~cut'[x]
    BY <2>1 DEF Inv, RequestTypes, NobodyLeft
  <2>4. OnlyCompleteIsShared'
    BY <2>1, <2>2 DEF Inv, ServiceTypes, NobodyLeft, OnlyCompleteIsShared
  <2> QED BY <2>3, <2>4 DEF NobodyLeft
<1>4. ASSUME NEW r \in Requests, Leave(r) PROVE FALSE
  <2>1. gone' # gone
    BY <1>4 DEF Leave, Inv, RequestTypes
  <2> QED BY <1>4, <2>1 DEF ClientLeaves, vars, request
<1>5. ASSUME NEW r \in Requests, NEW a \in Apis, CutOff(r, a) PROVE FALSE
  BY <1>5 DEF CutOff, NobodyLeft
<1>6. ASSUME NEW q \in Queries, ListExpires(q) PROVE NobodyLeft'
  BY <1>6 DEF ListExpires, request, Inv, ServiceTypes, NobodyLeft, OnlyCompleteIsShared
<1>7. ASSUME NEW r \in Requests, ServeShared(r) \/ TurnedAway(r) \/ WriteFails(r)
      PROVE  NobodyLeft'
  BY <1>2, <1>7 DEF ServeShared, TurnedAway, WriteFails
<1>8. CASE \/ \E r \in Requests :
               \/ Arrive(r) \/ Miss(r) \/ EnterGate(r) \/ SponsorsKnown(r) \/ SponsorsStale(r)
               \/ LockSponsors(r) \/ SponsorsFetched(r) \/ Write(r)
               \/ \E a \in Apis :
                    Quotes(r, a) \/ Declines(r, a) \/ TakeNull(r, a) \/ TakeRow(r, a)
           \/ SponsorsExpire \/ UNCHANGED vars
  BY <1>1, <1>8
     DEF Arrive, Miss, EnterGate, SponsorsKnown, SponsorsStale, LockSponsors, SponsorsFetched,
         StartCalls, Write, Quotes, Declines, TakeNull, TakeRow, SponsorsExpire, request, vars
<1> QED BY <1>3, <1>4, <1>5, <1>6, <1>7, <1>8 DEF Next, Serve

\* The comment's "only a complete run is shared" holds as long as no client
\* leaves: an exchange's failure or timeout alone never makes a list partial.
THEOREM CompleteUnlessLeft ==
  Spec /\ [][~ClientLeaves]_vars => []OnlyCompleteIsShared
<1>1. NobodyLeft => OnlyCompleteIsShared
  BY DEF NobodyLeft
<1> QED BY <1>1, Invariant, InitNobodyLeft, StepNobodyLeft, PTL DEF Spec
=============================================================================
