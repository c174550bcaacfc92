---------------------- MODULE EvictionRefinementProofs ----------------------
(***************************************************************************)
(* EvictionReconciler implements EvictionProtocol: the initial states map  *)
(* to initial states, and every step to a step of the protocol or to none. *)
(* So it keeps what the protocol promises.                                 *)
(***************************************************************************)
EXTENDS EvictionReconcilerProofs

\* What the step mapping needs to know of the states.
IInv == TypeOK /\ CopiesRunAhead /\ InStep /\ AllTruthful /\ CauseKept

LEMMA NoTurns ==
  /\ Len(Interceptors) \in Nat
  /\ Interceptors = <<>> <=> Len(Interceptors) = 0
BY InterceptorsAssumption

LEMMA InitialStatesMap == Init => Protocol!Init
<1> SUFFICES ASSUME Init
             PROVE  Protocol!Init
  OBVIOUS
<1>1. Index(request) = 0
  BY IndexFacts, InitialObjects DEF Init, CreatedObject
<1> QED
  BY <1>1 DEF Init, CreatedObject, Protocol!Init

\* What a step does to the state the protocol sees.
LEMMA WhatStepsShow ==
  ASSUME TypeOK, [Next]_vars
  PROVE  \/ UNCHANGED <<request, elapsed, failures, evictions>>
         \/ /\ \E i \in Items : pc[i] # "free" /\ Accepts(er[i]) /\ request' = Stored(er[i])
            /\ UNCHANGED <<elapsed, failures, evictions>>
         \/ /\ \E i \in Items : pc[i] \in {"evict", "lateEvict"}
            /\ AcceptEviction
            /\ UNCHANGED <<request, elapsed, failures, faults>>
         \/ /\ \E i \in Items : pc[i] = "evict"
            /\ failures' = failures + 1
            /\ AcceptEviction \/ UNCHANGED evictions
            /\ UNCHANGED <<request, elapsed, faults>>
         \/ OutsideWrite /\ UNCHANGED <<elapsed, failures, evictions, faults>>
         \/ DeadlinePasses
<1>1. ASSUME NEW i \in Items, Worker(i), ~EvictV1Succeeds(i), ~EvictV1Fails(i)
      PROVE  UNCHANGED <<elapsed, failures, evictions>>
  BY <1>1 DEF Worker, ReconcileEvictionRequest, DefaultCancellationPolicy,
              updateEvictionRequestStatus, Perform, RecordSuccess, RecordFailure
<1>2. ASSUME NEW i \in Items, Worker(i), ~EvictV1Succeeds(i), ~EvictV1Fails(i)
      PROVE  \/ UNCHANGED <<request, elapsed, failures, evictions>>
             \/ /\ pc[i] # "free" /\ Accepts(er[i]) /\ request' = Stored(er[i])
                /\ UNCHANGED <<elapsed, failures, evictions>>
  BY <1>1, <1>2, WorkerPlaces, WorkerWrites
<1>3. ASSUME NEW i \in Items, EvictV1Succeeds(i)
      PROVE  /\ pc[i] = "evict" /\ AcceptEviction
             /\ UNCHANGED <<request, elapsed, failures, faults>>
  BY <1>3 DEF EvictV1Succeeds
<1>4. ASSUME NEW i \in Items, EvictV1Fails(i)
      PROVE  /\ pc[i] = "evict" /\ failures' = failures + 1
             /\ AcceptEviction \/ UNCHANGED evictions
             /\ UNCHANGED <<request, elapsed, faults>>
  BY <1>4 DEF EvictV1Fails
<1>5. ASSUME NEW i \in Items, LateCall(i)
      PROVE  \/ UNCHANGED <<request, elapsed, failures, evictions>>
             \/ /\ pc[i] # "free" /\ Accepts(er[i]) /\ request' = Stored(er[i])
                /\ UNCHANGED <<elapsed, failures, evictions>>
             \/ /\ pc[i] = "lateEvict" /\ AcceptEviction
                /\ UNCHANGED <<request, elapsed, failures, faults>>
  BY <1>5, LateCallEffects
<1>6. CASE WatchEvictionRequests \/ Resync \/ WatchPods \/ Restart
  BY <1>6 DEF WatchEvictionRequests, Resync, WatchPods, Restart
<1>7. CASE PodDeleted \/ PodStopped \/ PodRecreated
  BY <1>7 DEF PodDeleted, PodStopped, PodRecreated
<1>8. CASE OutsideWrite
  BY <1>8 DEF OutsideWrite, InterceptorReports, InterceptorCompletes,
              InterceptorForbidsCancellation, WithdrawRequesters, DeleteRequest, Write
<1>9. CASE UNCHANGED vars
  BY <1>9 DEF vars
<1> QED
  BY <1>2, <1>3, <1>4, <1>5, <1>6, <1>7, <1>8, <1>9
  DEF Next, Controller, Environment, OutsideWrite

\* An accepted write, of whatever copy, is a status write of the protocol.
LEMMA WritesMap ==
  ASSUME IInv, NEW i \in Items, pc[i] # "free", Accepts(er[i]), request' = Stored(er[i]),
         UNCHANGED <<elapsed, failures, evictions>>, request' # request,
         faults' \in {faults, faults + 1}
  PROVE  Protocol!WriteStatus
<1> DEFINE copy == er[i]
<1>1. copy \in Objects /\ request \in Objects /\ failures \in Nat /\ faults \in Nat
  BY DEF IInv, TypeOK
<1>2. AheadOf(copy, request, elapsed)
  BY AheadIsAheadOf DEF IInv, CopiesRunAhead, Live, Accepts
<1>3. Truthful(copy)
  BY DEF IInv, AllTruthful, Live
<1>4. Unselected(request)
  BY DEF IInv, CopiesRunAhead, Unselected
<1>5. /\ request'.class = copy.class /\ request'.completed = copy.completed
      /\ request'.heartbeat = copy.heartbeat /\ request'.counter = copy.counter
      /\ request'.policy = copy.policy /\ request'.evicted = copy.evicted
      /\ request'.requested = copy.requested /\ request'.exists = copy.exists
  BY <1>1 DEF Stored, Objects
<1> HIDE DEF copy
<1>6. Index(request') = Index(copy)
  BY <1>5 DEF Index
<1>7. request.exists
  BY DEF Accepts
<1>8. /\ Index(request) \in Nat /\ Index(copy) \in Nat /\ Index(copy) <= Len(Interceptors)
      /\ Index(request) = 0 <=> request.class = NoClass
  BY <1>1, IndexFacts
<1>9. Index(copy) <= Index(request) + 1 + faults
  BY WritesAreInStep DEF IInv, copy
<1>10. \/ request'.completed = request.completed
       \/ Protocol!DeadlinePassed /\ request'.completed = TRUE
  <2>1. request.completed \in BOOLEAN /\ copy.completed \in BOOLEAN
    BY <1>1 DEF Objects
  <2> QED
    BY <1>2, <1>5, <2>1 DEF AheadOf, Protocol!DeadlinePassed
<1>11. Protocol!TurnLasts \/ Protocol!TurnsBegin \/ Protocol!TurnGoesOn
  <2>1. CASE copy.class = request.class
    BY <1>6, <1>10, <2>1 DEF Index, Protocol!TurnLasts
  <2>2. CASE request.class = NoClass /\ Index(copy) = 1
    <3>1. Len(Interceptors) # 0
      BY <1>8, <2>2, NoTurns
    <3>2. ~Protocol!DeadlinePassed
      BY <1>4, <2>2 DEF Unselected, Protocol!DeadlinePassed
    <3> QED
      BY <1>6, <1>8, <1>10, <2>2, <3>1, <3>2 DEF Protocol!TurnsBegin
  <2>3. CASE /\ request.class # NoClass
             /\ copy.completed /\ Index(request) < Index(copy)
    <3>1. Index(request') \in (Index(request) + 1) .. (Index(request) + 1 + faults)
      BY <1>1, <1>6, <1>8, <1>9, <2>3
    <3>2. request.completed \/ Protocol!DeadlinePassed
      BY <1>2, <2>3 DEF AheadOf, Protocol!DeadlinePassed
    <3>3. request'.completed \in BOOLEAN
      BY <1>1, <1>5 DEF Objects
    <3> QED
      BY <1>6, <1>8, <2>3, <3>1, <3>2, <3>3 DEF Protocol!TurnGoesOn
  <2>4. request.class = NoClass /\ Index(copy) = 0 => copy.class = request.class
    BY <1>1, IndexFacts
  <2> QED
    BY <1>2, <2>1, <2>2, <2>3, <2>4 DEF AheadOf
<1>12. Protocol!ClaimsAreTrue
  <2>1. copy.counter \in Nat /\ request.counter \in Nat
    BY <1>1 DEF Objects
  <2> QED
    BY <1>2, <1>3, <1>5, <2>1 DEF AheadOf, Truthful, Protocol!ClaimsAreTrue
<1>13. \/ request'.policy = request.policy
       \/ request.policy = "Unset" /\ request'.policy = "Allow"
  BY <1>2, <1>5 DEF AheadOf
<1>14. UNCHANGED <<Protocol!outside, failures, evictions>>
  BY <1>2, <1>5 DEF AheadOf, Protocol!outside
<1> QED
  BY <1>7, <1>11, <1>12, <1>13, <1>14 DEF Protocol!WriteStatus

\* Everything the protocol calls the status and the outside belongs to the object.
LEMMA SameRequestSameStatus ==
  ASSUME request' = request, elapsed' = elapsed
  PROVE  UNCHANGED Protocol!status /\ UNCHANGED Protocol!outside
BY DEF Protocol!status, Protocol!outside, Index

\* An eviction that the API server accepts is one the protocol allows.
LEMMA EvictionsMap ==
  ASSUME IInv, NEW i \in Items, pc[i] \in {"evict", "lateEvict"}
  PROVE  /\ Protocol!MayEvict
         /\ AcceptEviction => Protocol!EvictPod
<1>1. Protocol!MayEvict
  BY CauseOfEvictions, NoTurns DEF IInv, EvictionHasCause, Protocol!MayEvict
<1>2. AcceptEviction => Protocol!EvictPod
  BY DEF AcceptEviction, Protocol!EvictPod
<1> QED
  BY <1>1, <1>2

\* The writes of interceptors and users are actions of the protocol.
LEMMA OutsideWritesMap ==
  ASSUME IInv, OutsideWrite, UNCHANGED <<elapsed, failures, evictions, faults>>
  PROVE  Protocol!Next
<1>1. request \in Objects
  BY DEF IInv, TypeOK
<1>2. Index(request) = 0 <=> request.class = NoClass
  BY <1>1, IndexFacts
<1>3. request'.class = request.class => Index(request') = Index(request)
  BY DEF Index
<1> USE <1>1, <1>2, <1>3 DEF Write, Objects, Protocol!Next, Protocol!status,
        Protocol!outside, Protocol!history
<1>4. CASE InterceptorReports
  BY <1>4 DEF InterceptorReports, Protocol!Report
<1>5. CASE InterceptorCompletes
  BY <1>5 DEF InterceptorCompletes, Protocol!Complete
<1>6. CASE InterceptorForbidsCancellation
  BY <1>6 DEF InterceptorForbidsCancellation, Protocol!Forbid
<1>7. CASE WithdrawRequesters
  BY <1>7 DEF WithdrawRequesters, Protocol!Withdraw
<1>8. CASE DeleteRequest
  BY <1>8 DEF DeleteRequest, Protocol!Delete
<1> QED
  BY <1>4, <1>5, <1>6, <1>7, <1>8 DEF OutsideWrite

LEMMA StepsMap == IInv /\ [Next]_vars => [Protocol!Next]_(Protocol!vars)
<1> SUFFICES ASSUME IInv, [Next]_vars
             PROVE  Protocol!Next \/ UNCHANGED Protocol!vars
  OBVIOUS
<1>0. faults' \in {faults, faults + 1}
  BY FaultsAreCounted DEF IInv
<1>1. CASE UNCHANGED <<request, elapsed, failures, evictions>>
  <2>1. UNCHANGED <<Protocol!status, Protocol!outside>>
    BY <1>1, SameRequestSameStatus
  <2>2. CASE faults' = faults
    BY <1>1, <2>1, <2>2 DEF Protocol!vars, Protocol!history
  <2>3. CASE faults' = faults + 1
    BY <1>1, <2>1, <2>3 DEF Protocol!Next, Protocol!LoseWrite
  <2> QED
    BY <1>0, <2>2, <2>3
<1>2. ASSUME NEW i \in Items, pc[i] # "free", Accepts(er[i]), request' = Stored(er[i]),
             UNCHANGED <<elapsed, failures, evictions>>
      PROVE  Protocol!Next \/ UNCHANGED Protocol!vars
  BY <1>0, <1>1, <1>2, WritesMap DEF Protocol!Next
<1>3. ASSUME NEW i \in Items, pc[i] \in {"evict", "lateEvict"}, AcceptEviction,
             UNCHANGED <<request, elapsed, failures, faults>>
      PROVE  Protocol!Next
  BY <1>3, EvictionsMap, SameRequestSameStatus DEF Protocol!Next, Protocol!EvictionSucceeds
<1>4. ASSUME NEW i \in Items, pc[i] = "evict", failures' = failures + 1,
             AcceptEviction \/ UNCHANGED evictions, UNCHANGED <<request, elapsed, faults>>
      PROVE  Protocol!Next
  BY <1>4, EvictionsMap, SameRequestSameStatus DEF Protocol!Next, Protocol!EvictionFails
<1>5. CASE OutsideWrite /\ UNCHANGED <<elapsed, failures, evictions, faults>>
  BY <1>5, OutsideWritesMap
<1>6. CASE DeadlinePasses
  BY <1>6 DEF DeadlinePasses, Index, Protocol!Next, Protocol!DeadlinePasses,
              Protocol!status, Protocol!history
<1> QED
  BY <1>1, <1>2, <1>3, <1>4, <1>5, <1>6, WhatStepsShow DEF IInv

\* For every list of interceptors and any number of workers, copies and faults, what
\* the system shows of a request is a behaviour of the protocol.
THEOREM ReconcilerImplementsProtocol == Spec => ImplementsProtocol
<1>1. Spec => []IInv
  BY TypeCorrectness, CopiesNeverFallBehind, CopiesAreInStep, EverythingIsTruthful, CauseIsKept,
     PTL DEF IInv
<1> QED
  BY <1>1, InitialStatesMap, StepsMap, PTL DEF Spec, ImplementsProtocol, Protocol!Spec

-----------------------------------------------------------------------------
(* What EvictionProtocol promises, of the reconciler.                      *)

\* The theorems about EvictionProtocol, of the mapped variables.
Proved == INSTANCE EvictionProtocolProofs WITH
  Turns     <- Len(Interceptors),
  exists    <- request.exists,
  requested <- request.requested,
  policy    <- request.policy,
  turn      <- Index(request),
  completed <- request.completed,
  reports   <- request.heartbeat,
  silent    <- elapsed,
  counter   <- request.counter,
  claim     <- request.evicted,
  failures  <- failures,
  evictions <- evictions,
  lost      <- faults

LEMMA SameProtocol == Protocol!Spec => Proved!Spec
<1>1. Protocol!Init => Proved!Init
  BY DEF Protocol!Init, Proved!Init
<1>2. Protocol!WriteStatus <=> Proved!WriteStatus
  BY DEF Protocol!WriteStatus, Protocol!DeadlinePassed, Protocol!TurnLasts, Protocol!TurnsBegin,
         Protocol!TurnGoesOn, Protocol!ClaimsAreTrue, Protocol!outside,
         Proved!WriteStatus, Proved!DeadlinePassed, Proved!TurnLasts, Proved!TurnsBegin,
         Proved!TurnGoesOn, Proved!ClaimsAreTrue, Proved!outside
<1>3. /\ Protocol!EvictionSucceeds <=> Proved!EvictionSucceeds
      /\ Protocol!EvictionFails <=> Proved!EvictionFails
  BY DEF Protocol!EvictionSucceeds, Protocol!EvictionFails, Protocol!EvictPod, Protocol!MayEvict,
         Protocol!status, Protocol!outside,
         Proved!EvictionSucceeds, Proved!EvictionFails, Proved!EvictPod, Proved!MayEvict,
         Proved!status, Proved!outside
<1>4. /\ Protocol!LoseWrite <=> Proved!LoseWrite
      /\ Protocol!Report <=> Proved!Report
      /\ Protocol!Complete <=> Proved!Complete
      /\ Protocol!Forbid <=> Proved!Forbid
      /\ Protocol!Withdraw <=> Proved!Withdraw
      /\ Protocol!Delete <=> Proved!Delete
      /\ Protocol!DeadlinePasses <=> Proved!DeadlinePasses
  BY DEF Protocol!LoseWrite, Proved!LoseWrite,
         Protocol!Report, Protocol!Complete, Protocol!Forbid, Protocol!Withdraw, Protocol!Delete,
         Protocol!DeadlinePasses, Protocol!status, Protocol!outside, Protocol!history,
         Proved!Report, Proved!Complete, Proved!Forbid, Proved!Withdraw, Proved!Delete,
         Proved!DeadlinePasses, Proved!status, Proved!outside, Proved!history
<1>5. [Protocol!Next]_(Protocol!vars) => [Proved!Next]_(Proved!vars)
  BY <1>2, <1>3, <1>4 DEF Protocol!Next, Proved!Next, Protocol!vars, Proved!vars,
         Protocol!status, Protocol!outside, Protocol!history,
         Proved!status, Proved!outside, Proved!history
<1> QED
  BY <1>1, <1>5, PTL DEF Protocol!Spec, Proved!Spec

\* So no worker, from whatever old copy, calls the eviction API before the first
\* interceptor has had its turn, and has completed it or some deadline has passed.
THEOREM InterceptorsGoFirst == Spec => []Protocol!InterceptorsComeFirst
<1>1. Spec => []Proved!InterceptorsComeFirst
  BY ReconcilerImplementsProtocol, SameProtocol, Proved!NobodyIsOvertaken DEF ImplementsProtocol
<1>2. Proved!InterceptorsComeFirst => Protocol!InterceptorsComeFirst
  BY DEF Proved!InterceptorsComeFirst, Protocol!InterceptorsComeFirst
<1> QED
  BY <1>1, <1>2, PTL

\* And no status update takes back the "Forbid" of an interceptor: the copy a worker
\* sends may still carry the default policy "Allow", but then it is refused.
THEOREM ForbidIsNeverTakenBack == Spec => Protocol!ForbidStays
<1>1. Spec => Proved!ForbidStays
  BY ReconcilerImplementsProtocol, SameProtocol, Proved!ForbidIsKept DEF ImplementsProtocol
<1>2. Proved!ForbidStays => Protocol!ForbidStays
  BY PTL DEF Proved!ForbidStays, Protocol!ForbidStays, Proved!vars, Protocol!vars,
         Proved!status, Protocol!status, Proved!outside,
         Protocol!outside, Proved!history, Protocol!history
<1> QED
  BY <1>1, <1>2
=============================================================================
