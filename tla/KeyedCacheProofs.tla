-------------------------- MODULE KeyedCacheProofs --------------------------
(***************************************************************************)
(* Proofs about KeyedCache, for any callers, keys and values.              *)
(***************************************************************************)
EXTENDS KeyedCache, TLAPS

\* A frame has a key exactly while it has a call.
BusyHasKey == \A f \in Frames : pc[f] = "idle" <=> key[f] = NoKey

\* The inner frame is in use exactly while its outer frame resolves ids.
InnerServesOuter ==
  \A c \in Callers :
    pc[<<c, "inner">>] # "idle" <=> pc[<<c, "outer">>] = "resolving"

IInv ==
  /\ TypeOK
  /\ BusyHasKey
  /\ InnerServesOuter
  /\ PermitMatchesHolder
  /\ FetchOnlyWhenAbsent

-----------------------------------------------------------------------------
LEMMA FramesFact ==
  /\ \A f \in Frames : /\ Owner(f) \in Callers
                       /\ f = <<Owner(f), "outer">> \/ f = <<Owner(f), "inner">>
                       /\ IsOuter(f) <=> f = <<Owner(f), "outer">>
                       /\ Inner(f) = <<Owner(f), "inner">>
                       /\ Inner(f) \in Frames
  /\ \A c \in Callers : /\ <<c, "outer">> \in Frames /\ <<c, "inner">> \in Frames
                        /\ <<c, "outer">> # <<c, "inner">>
BY DEF Frames, Owner, Inner, IsOuter

\* No two frames can be inside one key's factory when the permit is held by
\* exactly the frame in the critical section.
LEMMA PermitExcludes == PermitMatchesHolder /\ TypeOK /\ BusyHasKey => OneFetchPerKey
<1> SUFFICES ASSUME PermitMatchesHolder, TypeOK, BusyHasKey,
                    NEW f \in Frames, NEW g \in Frames,
                    pc[f] \in InFactory, pc[g] \in InFactory, key[f] = key[g]
             PROVE  f = g
  BY DEF OneFetchPerKey
<1>1. key[f] \in Keys
  BY DEF TypeOK, BusyHasKey, InFactory
<1>2. holder[key[f]] = f /\ holder[key[f]] = g
  BY <1>1 DEF PermitMatchesHolder, HoldsPermit
<1> QED BY <1>2

LEMMA InitIInv == Init => IInv
BY CacheAssumption, FramesFact
   DEF CacheAssumption, Init, IInv, TypeOK, BusyHasKey, InnerServesOuter, PermitMatchesHolder,
       FetchOnlyWhenAbsent, PCs, Answers, HoldsPermit, InFactory

\* One step preserves the invariant: one step of the proof per action.
LEMMA StepIInv == IInv /\ [Next]_vars => IInv'
<1> SUFFICES ASSUME IInv, [Next]_vars PROVE IInv'
  OBVIOUS
<1> USE CacheAssumption, FramesFact
<1> USE DEF IInv, TypeOK, BusyHasKey, InnerServesOuter, PermitMatchesHolder,
            FetchOnlyWhenAbsent, CacheAssumption, PCs, Answers, HoldsPermit,
            InFactory, GoTo, Finish
<1>1. ASSUME NEW c \in Callers, NEW k \in Keys, Invoke(c, k) PROVE IInv'
  <2> DEFINE f == <<c, "outer">>
  <2>1. f \in Frames /\ Owner(f) = c
    BY DEF Frames, Owner
  <2> HIDE DEF f
  <2>2. TypeOK'
    BY <1>1, <2>1 DEF Invoke, f
  <2>3. BusyHasKey'
    BY <1>1, <2>1 DEF Invoke, f
  <2>4. InnerServesOuter'
    <3> SUFFICES ASSUME NEW d \in Callers
                 PROVE  (pc[<<d, "inner">>] # "idle" <=> pc[<<d, "outer">>] = "resolving")'
      BY DEF InnerServesOuter
    <3>1. pc'[<<d, "inner">>] = pc[<<d, "inner">>]
      BY <1>1 DEF Invoke
    <3>2. pc'[<<d, "outer">>] = "resolving" <=> pc[<<d, "outer">>] = "resolving"
      BY <1>1 DEF Invoke
    <3> QED BY <3>1, <3>2
  <2>5. PermitMatchesHolder'
    BY <1>1, <2>1 DEF Invoke, f
  <2>6. FetchOnlyWhenAbsent'
    BY <1>1, <2>1 DEF Invoke, f
  <2> QED BY <2>2, <2>3, <2>4, <2>5, <2>6
<1>2. ASSUME NEW f \in Frames, FastHit(f) PROVE IInv'
  BY <1>2 DEF FastHit
<1>3. ASSUME NEW f \in Frames, FastMiss(f) PROVE IInv'
  BY <1>3 DEF FastMiss
<1>4. ASSUME NEW f \in Frames, Acquire(f) PROVE IInv'
  BY <1>4 DEF Acquire
<1>5. ASSUME NEW f \in Frames, GiveUp(f) PROVE IInv'
  BY <1>5 DEF GiveUp
<1>6. ASSUME NEW f \in Frames, RecheckHit(f) PROVE IInv'
  BY <1>6 DEF RecheckHit
<1>7. ASSUME NEW f \in Frames, RecheckCancelled(f) PROVE IInv'
  BY <1>7 DEF RecheckCancelled
<1>8. ASSUME NEW f \in Frames, StartFactory(f) PROVE IInv'
  BY <1>8 DEF StartFactory
<1>9. ASSUME NEW f \in Frames, Resolve(f) PROVE IInv'
  BY <1>9 DEF Resolve
<1>10. ASSUME NEW f \in Frames, NothingToResolve(f) PROVE IInv'
  BY <1>10 DEF NothingToResolve
<1>11. ASSUME NEW f \in Frames, Resolved(f) PROVE IInv'
  BY <1>11 DEF Resolved
<1>12. ASSUME NEW f \in Frames, ResolveCancelled(f) PROVE IInv'
  BY <1>12 DEF ResolveCancelled
<1>13. ASSUME NEW f \in Frames, UpstreamValue(f) PROVE IInv'
  BY <1>13 DEF UpstreamValue
<1>14. ASSUME NEW f \in Frames, UpstreamNothing(f) PROVE IInv'
  BY <1>14 DEF UpstreamNothing
<1>15. ASSUME NEW f \in Frames, UpstreamCancelled(f) PROVE IInv'
  BY <1>15 DEF UpstreamCancelled
<1>16. ASSUME NEW f \in Frames, Rethrow(f) PROVE IInv'
  BY <1>16 DEF Rethrow
<1>17. ASSUME NEW f \in Frames, Release(f) PROVE IInv'
  BY <1>17 DEF Release
<1>18. ASSUME NEW c \in Callers, Return(c) PROVE IInv'
  <2> DEFINE f == <<c, "outer">>
  <2>1. f \in Frames /\ Owner(f) = c
    BY DEF Frames, Owner
  <2> HIDE DEF f
  <2>2. TypeOK'
    BY <1>18, <2>1 DEF Return, f
  <2>3. BusyHasKey'
    BY <1>18, <2>1 DEF Return, f
  <2>4. InnerServesOuter'
    <3> SUFFICES ASSUME NEW d \in Callers
                 PROVE  (pc[<<d, "inner">>] # "idle" <=> pc[<<d, "outer">>] = "resolving")'
      BY DEF InnerServesOuter
    <3>1. pc'[<<d, "inner">>] = pc[<<d, "inner">>]
      BY <1>18 DEF Return
    <3>2. pc'[<<d, "outer">>] = "resolving" <=> pc[<<d, "outer">>] = "resolving"
      BY <1>18 DEF Return
    <3> QED BY <3>1, <3>2
  <2>5. PermitMatchesHolder'
    BY <1>18, <2>1 DEF Return, f
  <2>6. FetchOnlyWhenAbsent'
    BY <1>18, <2>1 DEF Return, f
  <2> QED BY <2>2, <2>3, <2>4, <2>5, <2>6
<1>19. ASSUME NEW c \in Callers, Cancel(c) PROVE IInv'
  BY <1>19 DEF Cancel
<1>20. ASSUME NEW k \in Keys, Expire(k) PROVE IInv'
  BY <1>20 DEF Expire
<1>21. CASE UNCHANGED vars
  BY <1>21 DEF vars
<1> QED
  BY <1>1, <1>2, <1>3, <1>4, <1>5, <1>6, <1>7, <1>8, <1>9, <1>10, <1>11, <1>12, <1>13, <1>14, <1>15, <1>16, <1>17, <1>18, <1>19, <1>20, <1>21 DEF Next, Advance

-----------------------------------------------------------------------------
\* The invariant behind every safety property of the cache.
THEOREM Invariant == Spec => []IInv
BY InitIInv, StepIInv, PTL DEF Spec

\* Type correctness of the cache, its permits and its calls.
THEOREM TypeCorrect == Spec => []TypeOK
BY Invariant, PTL DEF IInv

\* No path through a call leaks its key's permit or releases another's.
THEOREM PermitConservation == Spec => []PermitMatchesHolder
BY Invariant, PTL DEF IInv

\* The thundering-herd guard: one caller inside a key's factory at a time.
THEOREM SingleFetch == Spec => []OneFetchPerKey
<1>1. IInv => OneFetchPerKey
  BY PermitExcludes DEF IInv
<1> QED BY <1>1, Invariant, PTL

\* While a factory runs, nothing else can have filled its entry.
THEOREM NoRedundantFetch == Spec => []FetchOnlyWhenAbsent
BY Invariant, PTL DEF IInv

-----------------------------------------------------------------------------
(***************************************************************************)
(* Refinement.                                                             *)
(***************************************************************************)
LEMMA InitRefines == Init => Abstract!Init
<1> SUFFICES ASSUME Init PROVE Abstract!Init
  OBVIOUS
<1>1. ASSUME NEW f \in Frames PROVE ClientStage[f] = "idle"
  <2>1. pc[f] = "idle"
    BY DEF Init
  <2> QED BY <2>1 DEF ClientStage, InFactory
<1>2. ClientStage = [f \in Frames |-> "idle"]
  BY <1>1 DEF ClientStage
<1> QED BY <1>2 DEF Init, Abstract!Init

LEMMA StepRefines == IInv /\ [Next]_vars => [Abstract!Next]_(Abstract!vars)
<1> SUFFICES ASSUME IInv, [Next]_vars PROVE [Abstract!Next]_(Abstract!vars)
  OBVIOUS
<1> USE CacheAssumption, FramesFact
<1> USE DEF IInv, TypeOK, PCs, InFactory, GoTo, Finish, ClientStage
<1>1. ASSUME NEW c \in Callers, NEW k \in Keys, Invoke(c, k)
      PROVE  Abstract!Ask(<<c, "outer">>, k)
  BY <1>1 DEF Invoke, Abstract!Ask
<1>2. ASSUME NEW f \in Frames, FastHit(f) PROVE Abstract!Hit(f)
  BY <1>2 DEF FastHit, Abstract!Hit
<1>3. ASSUME NEW f \in Frames, FastMiss(f) PROVE UNCHANGED Abstract!vars
  BY <1>3 DEF FastMiss, Abstract!vars
<1>4. ASSUME NEW f \in Frames, Acquire(f) PROVE UNCHANGED Abstract!vars
  BY <1>4 DEF Acquire, Abstract!vars
<1>5. ASSUME NEW f \in Frames, GiveUp(f) PROVE Abstract!Miss(f)
  BY <1>5 DEF GiveUp, Abstract!Miss
<1>6. ASSUME NEW f \in Frames, RecheckHit(f) PROVE Abstract!Hit(f)
  BY <1>6 DEF RecheckHit, Abstract!Hit
<1>7. ASSUME NEW f \in Frames, RecheckCancelled(f) PROVE Abstract!Miss(f)
  BY <1>7 DEF RecheckCancelled, Abstract!Miss
<1>8. ASSUME NEW f \in Frames, StartFactory(f) PROVE Abstract!Launch(f)
  <2>1. key[f] \in Keys /\ holder[key[f]] = f
    BY <1>8 DEF StartFactory, BusyHasKey, PermitMatchesHolder, HoldsPermit
  <2>2. ASSUME NEW g \in Frames, ClientStage[g] = "fetching" PROVE key[g] # key[f]
    <3>1. pc[g] \in InFactory
      BY <2>2
    <3>2. SUFFICES ASSUME key[g] = key[f] PROVE FALSE
      OBVIOUS
    <3>3. f = g
      BY <2>1, <3>1, <3>2 DEF PermitMatchesHolder, HoldsPermit
    <3> QED BY <1>8, <3>1, <3>3 DEF StartFactory
  <2>3. ClientStage' = [ClientStage EXCEPT ![f] = "fetching"]
    BY <1>8 DEF StartFactory
  <2>4. ClientStage[f] = "asking"
    BY <1>8 DEF StartFactory
  <2> QED BY <1>8, <2>2, <2>3, <2>4 DEF StartFactory, Abstract!Launch
<1>9. ASSUME NEW f \in Frames, Resolve(f) PROVE Abstract!Ask(Inner(f), Nested[key[f]])
  <2>1. pc[Inner(f)] = "idle" /\ key[Inner(f)] = NoKey /\ f # Inner(f)
    BY <1>9 DEF Resolve, InnerServesOuter, BusyHasKey
  <2>2. ClientStage' = [ClientStage EXCEPT ![Inner(f)] = "asking"]
    BY <1>9, <2>1 DEF Resolve
  <2>3. ClientStage[Inner(f)] = "idle"
    BY <2>1
  <2> QED BY <1>9, <2>2, <2>3 DEF Resolve, Abstract!Ask
<1>10. ASSUME NEW f \in Frames, NothingToResolve(f) PROVE UNCHANGED Abstract!vars
  BY <1>10 DEF NothingToResolve, Abstract!vars
<1>11. ASSUME NEW f \in Frames, Resolved(f) PROVE Abstract!Leave(Inner(f))
  BY <1>11 DEF Resolved, Abstract!Leave
<1>12. ASSUME NEW f \in Frames, ResolveCancelled(f) PROVE Abstract!Leave(Inner(f))
  BY <1>12 DEF ResolveCancelled, Abstract!Leave
<1>13. ASSUME NEW f \in Frames, UpstreamValue(f) PROVE Abstract!Land(f)
  <2>1. ClientStage' = [ClientStage EXCEPT ![f] = "answered"]
    BY <1>13 DEF UpstreamValue
  <2>2. ClientStage[f] = "fetching"
    BY <1>13 DEF UpstreamValue
  <2> QED BY <1>13, <2>1, <2>2 DEF UpstreamValue, Abstract!Land
<1>14. ASSUME NEW f \in Frames, UpstreamNothing(f) PROVE Abstract!Miss(f)
  BY <1>14 DEF UpstreamNothing, Abstract!Miss
<1>15. ASSUME NEW f \in Frames, UpstreamCancelled(f) PROVE UNCHANGED Abstract!vars
  BY <1>15 DEF UpstreamCancelled, Abstract!vars
<1>16. ASSUME NEW f \in Frames, Rethrow(f) PROVE Abstract!Miss(f)
  BY <1>16 DEF Rethrow, Abstract!Miss
<1>17. ASSUME NEW f \in Frames, Release(f) PROVE UNCHANGED Abstract!vars
  BY <1>17 DEF Release, Abstract!vars
<1>18. ASSUME NEW c \in Callers, Return(c) PROVE Abstract!Leave(<<c, "outer">>)
  BY <1>18 DEF Return, Abstract!Leave
<1>19. ASSUME NEW c \in Callers, Cancel(c) PROVE UNCHANGED Abstract!vars
  BY <1>19 DEF Cancel, Abstract!vars
<1>20. ASSUME NEW k \in Keys, Expire(k) PROVE Abstract!Drop(k)
  BY <1>20 DEF Expire, Abstract!Drop
<1>21. CASE UNCHANGED vars
  BY <1>21 DEF vars, Abstract!vars
<1>22. ASSUME NEW f \in Frames, Resolve(f) PROVE Nested[key[f]] \in Keys
  BY <1>22 DEF Resolve, BusyHasKey
<1> HIDE DEF IInv, TypeOK, PCs, InFactory, GoTo, Finish, ClientStage
<1>23. ASSUME NEW f \in Frames, Advance(f) \/ Acquire(f)
       PROVE  Abstract!Next \/ UNCHANGED Abstract!vars
  <2>1. ASSUME Resolve(f) PROVE Abstract!Next
    <3>1. Abstract!Ask(Inner(f), Nested[key[f]])
      BY <1>9, <2>1
    <3>2. Inner(f) \in Frames /\ Nested[key[f]] \in Keys
      BY <1>22, <2>1
    <3> QED BY <3>1, <3>2 DEF Abstract!Next
  <2>2. ASSUME Resolved(f) \/ ResolveCancelled(f) PROVE Abstract!Next
    BY <1>11, <1>12, <2>2 DEF Abstract!Next
  <2>3. ASSUME ~Resolve(f), ~Resolved(f), ~ResolveCancelled(f)
        PROVE  \/ Abstract!Hit(f) \/ Abstract!Launch(f) \/ Abstract!Land(f)
               \/ Abstract!Miss(f) \/ UNCHANGED Abstract!vars
    BY <1>23, <2>3, <1>2, <1>3, <1>4, <1>5, <1>6, <1>7, <1>8, <1>10, <1>13, <1>14, <1>15, <1>16, <1>17 DEF Advance
  <2> QED BY <2>1, <2>2, <2>3 DEF Abstract!Next
<1>24. ASSUME NEW c \in Callers, NEW k \in Keys, Invoke(c, k) PROVE Abstract!Next
  BY <1>1, <1>24 DEF Abstract!Next
<1>25. ASSUME NEW c \in Callers, Return(c) \/ Cancel(c)
       PROVE  Abstract!Next \/ UNCHANGED Abstract!vars
  BY <1>18, <1>19, <1>25 DEF Abstract!Next
<1>26. ASSUME NEW k \in Keys, Expire(k) PROVE Abstract!Next
  BY <1>20, <1>26 DEF Abstract!Next
<1> QED
  BY <1>21, <1>23, <1>24, <1>25, <1>26 DEF Next

\* Double-checked locking over the permits implements the abstract cache.
THEOREM Refinement == Spec => ImplementsSingleFlight
BY Invariant, InitRefines, StepRefines, PTL
   DEF Spec, ImplementsSingleFlight, Abstract!Spec
=============================================================================
