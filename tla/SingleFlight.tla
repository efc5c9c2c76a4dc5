---------------------------- MODULE SingleFlight ----------------------------
(***************************************************************************)
(* What a read-through cache with one fetch per key promises its clients,  *)
(* with no lock in sight: a client asks for a key and is answered either   *)
(* by an entry present in the store while it was asking, or by a fetch of  *)
(* its own that began when the store had no entry and nobody else was      *)
(* fetching that key, or with nothing.                                     *)
(*                                                                         *)
(* PriceService.GetOrCreateLockedAsync (module KeyedCache) implements it.  *)
(***************************************************************************)
CONSTANTS Clients, Keys, Values,
          NoValue,     \* a null result, and the content of an absent entry
          Cancelled,   \* the answer of a call that ended in OperationCanceledException
          NoKey

VARIABLES store,    \* Keys -> Values or NoValue
          stage,    \* Clients -> what the client is doing
          asked,    \* Clients -> the key it asks for
          answer    \* Clients -> the answer it got, until it leaves

vars == <<store, stage, asked, answer>>

Answers == Values \cup {NoValue, Cancelled}

Init ==
  /\ store  = [k \in Keys |-> NoValue]
  /\ stage  = [x \in Clients |-> "idle"]
  /\ asked  = [x \in Clients |-> NoKey]
  /\ answer = [x \in Clients |-> NoValue]

Ask(x, k) ==
  /\ stage[x] = "idle"
  /\ stage'  = [stage EXCEPT ![x] = "asking"]
  /\ asked'  = [asked EXCEPT ![x] = k]
  /\ UNCHANGED <<store, answer>>

\* Answered by the entry that is present now.
Hit(x) ==
  /\ stage[x] = "asking"
  /\ store[asked[x]] # NoValue
  /\ stage'  = [stage EXCEPT ![x] = "answered"]
  /\ answer' = [answer EXCEPT ![x] = store[asked[x]]]
  /\ UNCHANGED <<store, asked>>

\* A fetch begins only for an absent entry that nobody is fetching.
Launch(x) ==
  /\ stage[x] = "asking"
  /\ store[asked[x]] = NoValue
  /\ \A y \in Clients : stage[y] = "fetching" => asked[y] # asked[x]
  /\ stage' = [stage EXCEPT ![x] = "fetching"]
  /\ UNCHANGED <<store, asked, answer>>

\* The fetch brings a value: the entry and the answer are that value.
Land(x) ==
  /\ stage[x] = "fetching"
  /\ \E v \in Values :
       /\ store'  = [store EXCEPT ![asked[x]] = v]
       /\ answer' = [answer EXCEPT ![x] = v]
  /\ stage' = [stage EXCEPT ![x] = "answered"]
  /\ UNCHANGED asked

\* The call ends with nothing, before or during a fetch; the entry is untouched.
Miss(x) ==
  /\ stage[x] \in {"asking", "fetching"}
  /\ stage'  = [stage EXCEPT ![x] = "answered"]
  /\ answer' \in {[answer EXCEPT ![x] = a] : a \in {NoValue, Cancelled}}
  /\ UNCHANGED <<store, asked>>

Leave(x) ==
  /\ stage[x] = "answered"
  /\ stage'  = [stage EXCEPT ![x] = "idle"]
  /\ asked'  = [asked EXCEPT ![x] = NoKey]
  /\ answer' = [answer EXCEPT ![x] = NoValue]
  /\ UNCHANGED store

\* The entry's lifetime ends, or it is evicted.
Drop(k) ==
  /\ store' = [store EXCEPT ![k] = NoValue]
  /\ UNCHANGED <<stage, asked, answer>>

Next ==
  \/ \E x \in Clients :
       \/ \E k \in Keys : Ask(x, k)
       \/ Hit(x) \/ Launch(x) \/ Land(x) \/ Miss(x) \/ Leave(x)
  \/ \E k \in Keys : Drop(k)

Spec == Init /\ [][Next]_vars
=============================================================================
