---------------------- MODULE EvictionReconcilerProofs ----------------------
(***************************************************************************)
(* Proofs about EvictionReconciler, for every list of interceptors, any    *)
(* number of items, workers, failures, faults and pod incarnations.        *)
(***************************************************************************)
EXTENDS EvictionReconciler, InterceptorHandlerProofs

-----------------------------------------------------------------------------
(* Types.                                                                  *)

\* What the handlers assign keeps an object an object.
LEMMA HandlersKeepObjects ==
  ASSUME NEW obj \in Objects
  PROVE  /\ DefaultPolicy(obj) \in Objects
         /\ [obj EXCEPT !.policy = "Allow"] \in Objects
         /\ markInterceptorAsCompleted(obj) \in Objects
         /\ UpsertCondition(obj, "True") \in Objects
         /\ IncrementFailedEvictionCounter(obj) \in Objects
         /\ Interceptors # <<>> => selectInitialInterceptor(obj) \in Objects
         /\ HasNextInterceptor(obj) => selectNextInterceptor(obj) \in Objects
         /\ Stored(obj) \in Objects \/ Stored(obj) = request
<1>1. \A o \in Objects : /\ DefaultPolicy(o) \in Objects
                         /\ UpsertCondition(o, "True") \in Objects
                         /\ UpsertCondition(o, "False") \in Objects
  <2>1. \A o \in Objects : DefaultPolicy(o) \in Objects
    BY DEF DefaultPolicy, Objects, Policies
  <2>2. \A o \in Objects, s \in Conditions : [o EXCEPT !.evicted = s] \in Objects
    BY DEF Objects
  <2> QED
    BY <2>1, <2>2 DEF UpsertCondition, Conditions
<1>2. [obj EXCEPT !.policy = "Allow"] \in Objects
  BY DEF Objects, Policies
<1>3. markInterceptorAsCompleted(obj) \in Objects
  BY DEF markInterceptorAsCompleted, Objects
<1>4. IncrementFailedEvictionCounter(obj) \in Objects
  <2>1. [obj EXCEPT !.counter = @ + 1] \in Objects
    BY DEF Objects
  <2> QED
    BY <1>1, <2>1 DEF IncrementFailedEvictionCounter
<1>5. Interceptors # <<>> => selectInitialInterceptor(obj) \in Objects
  BY ListDomain, SortedClasses DEF selectInitialInterceptor, Objects
<1>6. HasNextInterceptor(obj) => selectNextInterceptor(obj) \in Objects
  <2> SUFFICES ASSUME HasNextInterceptor(obj)
               PROVE  selectNextInterceptor(obj) \in Objects
    OBVIOUS
  <2>1. obj.class \in Classes \cup {NoClass}
    BY DEF Objects
  <2>2. findInterceptorIndex(obj.class) \in DOMAIN Interceptors
    BY <2>1, FindInterceptorIndex DEF HasNextInterceptor
  <2>3. findInterceptorIndex(obj.class) + 1 \in DOMAIN Interceptors
    BY <2>2, ListDomain DEF HasNextInterceptor
  <2> QED
    BY <2>3, SortedClasses DEF selectNextInterceptor, Objects
<1>7. Stored(obj) \in Objects \/ Stored(obj) = request
  BY DEF Stored, Objects
<1> QED
  BY <1>1, <1>2, <1>3, <1>4, <1>5, <1>6, <1>7

\* Place changes one item.
LEMMA PlaceIsLocal ==
  ASSUME TypeOK, NEW i \in Items, NEW where, NEW obj, Place(i, where, obj)
  PROVE  /\ pc'[i] = where /\ er'[i] = obj
         /\ \A j \in Items : j # i => pc'[j] = pc[j] /\ er'[j] = er[j]
         /\ where \in PC => pc' \in [Items -> PC]
         /\ obj \in Objects => er' \in [Items -> Objects]
BY DEF Place, TypeOK

\* The initial objects are objects.
LEMMA InitialObjects == CreatedObject \in Objects /\ NoObject \in Objects
BY DEF CreatedObject, NoObject, Objects, Policies, Conditions

-----------------------------------------------------------------------------
(* What a step does to the copies and to the stored object.                *)

\* What Handle assigns to a copy.
Handled(old, new) ==
  \/ new = old
  \/ Interceptors # <<>> /\ old.class = NoClass /\ new = selectInitialInterceptor(old)
  \/ old.completed /\ HasNextInterceptor(old) /\ new = selectNextInterceptor(old)
  \/ Expired(old) /\ new = markInterceptorAsCompleted(old)

\* What one step of a worker assigns to the copy of its item.
Assigns(old, new) ==
  \/ Handled(old, new)
  \/ old.policy = "Unset" /\ new = [old EXCEPT !.policy = "Allow"]
  \/ evictions' # {} /\ new = UpsertCondition(old, "True")
  \/ failures' = failures + 1 /\ new = IncrementFailedEvictionCounter(old)

\* The copy has run out of interceptors.
NoneLeft(obj) ==
  \/ Interceptors = <<>>
  \/ obj.class # NoClass /\ obj.completed /\ ~HasNextInterceptor(obj)

\* Handle and Dispatch forget the item or move it on.
LEMMA DispatchPlaces ==
  ASSUME NEW i \in Items, NEW obj \in Objects, Dispatch(i, obj)
  PROVE  \/ Forget(i)
         \/ \E where \in {"update", "perform"}, new \in Objects :
              /\ Place(i, where, new)
              /\ Handled(obj, new)
              /\ where = "perform" => new = obj /\ NoneLeft(obj)
<1>1. CASE Interceptors = <<>>
  BY <1>1 DEF Dispatch, Handled, NoneLeft
<1>2. CASE Interceptors # <<>>
  <2> Handle(i, obj)
    BY <1>2 DEF Dispatch
  <2>1. CASE obj.class = NoClass
    BY <1>2, <2>1, HandlersKeepObjects DEF Handle, Handled
  <2>2. CASE obj.class # NoClass /\ obj.completed
    BY <1>2, <2>2, HandlersKeepObjects
    DEF Handle, handleCompletedInterceptor, Handled, NoneLeft
  <2>3. CASE obj.class # NoClass /\ ~obj.completed
    BY <1>2, <2>3, HandlersKeepObjects DEF Handle, checkInterceptorTimeout, Handled
  <2> QED
    BY <2>1, <2>2, <2>3
<1> QED
  BY <1>1, <1>2

\* A worker forgets its item, or moves it on with one assignment to the copy.  It
\* gets to the eviction only with a copy that has run out of interceptors.
LEMMA WorkerPlaces ==
  ASSUME TypeOK, NEW i \in Items, Worker(i)
  PROVE  /\ pc[i] # "free"
         /\ \/ Forget(i)
            \/ \E where \in PC \ Late, new \in Objects :
                 /\ Place(i, where, new)
                 /\ Assigns(er[i], new)
                 /\ where = "perform" => NoneLeft(new) /\ new = er[i]
                 /\ where = "evict" => pc[i] = "perform" /\ new = er[i]
<1> er[i] \in Objects
  BY DEF TypeOK
<1> {"queued", "policy", "update", "perform", "evict", "succeeded", "failed"} \subseteq PC \ Late
  BY DEF PC, Running, Late
<1>1. CASE ReconcileEvictionRequest(i)
  <2> pc[i] = "queued"
    BY <1>1 DEF ReconcileEvictionRequest, Get
  <2>1. CASE podCache # TargetUID
    BY <1>1, <2>1 DEF ReconcileEvictionRequest
  <2>2. CASE podCache = TargetUID /\ er[i].policy = "Unset"
    BY <1>1, <2>2, HandlersKeepObjects DEF ReconcileEvictionRequest, Assigns
  <2>3. CASE podCache = TargetUID /\ er[i].policy # "Unset"
    <3> Dispatch(i, er[i])
      BY <1>1, <2>3 DEF ReconcileEvictionRequest
    <3> QED
      BY DispatchPlaces DEF Assigns
  <2> QED
    BY <2>1, <2>2, <2>3
<1>2. CASE DefaultCancellationPolicy(i)
  <2>1. CASE Dispatch(i, er[i])
    BY <1>2, <2>1, DispatchPlaces DEF DefaultCancellationPolicy, Assigns
  <2>2. CASE AddRateLimited(i, er[i])
    BY <1>2, <2>2 DEF DefaultCancellationPolicy, AddRateLimited, Assigns, Handled
  <2> QED
    BY <1>2, <2>1, <2>2 DEF DefaultCancellationPolicy
<1>3. CASE updateEvictionRequestStatus(i)
  BY <1>3 DEF updateEvictionRequestStatus, AddRateLimited, Assigns, Handled
<1>4. CASE Perform(i)
  BY <1>4 DEF Perform, Assigns, Handled
<1>5. CASE EvictV1Succeeds(i)
  <2>1. evictions' # {}
    BY <1>5 DEF EvictV1Succeeds, AcceptEviction
  <2> QED
    BY <1>5, <2>1, HandlersKeepObjects DEF EvictV1Succeeds, Assigns
<1>6. CASE EvictV1Fails(i)
  BY <1>6, HandlersKeepObjects DEF EvictV1Fails, Assigns
<1>7. CASE RecordSuccess(i)
  BY <1>7 DEF RecordSuccess
<1>8. CASE RecordFailure(i)
  BY <1>8 DEF RecordFailure, AddRateLimited, Assigns, Handled
<1> QED
  BY <1>1, <1>2, <1>3, <1>4, <1>5, <1>6, <1>7, <1>8 DEF Worker

\* A worker leaves the stored object alone or replaces it by its copy, which is
\* then of the stored version.
LEMMA WorkerWrites ==
  ASSUME NEW i \in Items, Worker(i)
  PROVE  request' = request \/ (Accepts(er[i]) /\ request' = Stored(er[i]))
<1> USE DEF UpdateSucceeds, UpdateFails
<1>1. CASE ReconcileEvictionRequest(i)
  BY <1>1 DEF ReconcileEvictionRequest
<1>2. CASE DefaultCancellationPolicy(i)
  BY <1>2 DEF DefaultCancellationPolicy
<1>3. CASE updateEvictionRequestStatus(i)
  BY <1>3 DEF updateEvictionRequestStatus
<1>4. CASE Perform(i)
  BY <1>4 DEF Perform
<1>5. CASE EvictV1Succeeds(i)
  BY <1>5 DEF EvictV1Succeeds
<1>6. CASE EvictV1Fails(i)
  BY <1>6 DEF EvictV1Fails
<1>7. CASE RecordSuccess(i)
  BY <1>7 DEF RecordSuccess
<1>8. CASE RecordFailure(i)
  BY <1>8 DEF RecordFailure
<1> QED
  BY <1>1, <1>2, <1>3, <1>4, <1>5, <1>6, <1>7, <1>8 DEF Worker

\* The writes of interceptors and users.
OutsideWrite ==
  \/ InterceptorReports
  \/ InterceptorCompletes
  \/ InterceptorForbidsCancellation
  \/ WithdrawRequesters
  \/ DeleteRequest

\* A late call ends its item; it may write the copy, or evict the pod.
LEMMA LateCallEffects ==
  ASSUME TypeOK, NEW i \in Items, LateCall(i)
  PROVE  /\ pc[i] # "free"
         /\ Forget(i)
         /\ \/ request' = request
            \/ Accepts(er[i]) /\ request' = Stored(er[i]) /\ UNCHANGED <<pod, evictions>>
         /\ \/ UNCHANGED <<pod, evictions>>
            \/ pc[i] = "lateEvict" /\ AcceptEviction /\ request' = request
         /\ UNCHANGED <<cache, podCache, elapsed, faults, failures>>
<1>1. pc[i] # "free"
  BY DEF LateCall, Late
<1> QED
  BY <1>1 DEF LateCall

\* A restart keeps the copies of the calls that were sent, and nothing else.
LEMMA RestartKeepsCopies ==
  ASSUME TypeOK, Restart
  PROVE  /\ pc' \in [Items -> PC] /\ er' \in [Items -> Objects]
         /\ \A j \in Items : pc'[j] # "free" =>
              /\ pc[j] \in Calling /\ er'[j] = er[j]
              /\ pc'[j] \in Late
              /\ pc'[j] = "lateEvict" => pc[j] \in {"evict", "lateEvict"}
<1> PICK sent \in SUBSET {i \in Items : pc[i] \in Calling} :
      /\ pc' = [i \in Items |-> IF i \notin sent THEN "free"
                               ELSE IF pc[i] \in {"evict", "lateEvict"} THEN "lateEvict"
                               ELSE "lateWrite"]
      /\ er' = [i \in Items |-> IF i \in sent THEN er[i] ELSE NoObject]
  BY DEF Restart
<1>1. pc' \in [Items -> PC]
  BY DEF PC, Late
<1>2. er' \in [Items -> Objects]
  BY InitialObjects DEF TypeOK
<1>3. ASSUME NEW j \in Items, pc'[j] # "free"
      PROVE  /\ pc[j] \in Calling /\ er'[j] = er[j]
             /\ pc'[j] \in Late
             /\ pc'[j] = "lateEvict" => pc[j] \in {"evict", "lateEvict"}
  <2>1. j \in sent
    BY <1>3
  <2> QED
    BY <2>1 DEF Late
<1> QED
  BY <1>1, <1>2, <1>3

\* Who may change the stored object.
LEMMA RequestAfterStep ==
  ASSUME TypeOK, [Next]_vars
  PROVE  \/ request' = request
         \/ \E i \in Items : pc[i] # "free" /\ Accepts(er[i]) /\ request' = Stored(er[i])
         \/ OutsideWrite
<1>1. CASE \E i \in Items : Worker(i)
  <2> PICK i \in Items : Worker(i)
    BY <1>1
  <2> QED
    BY WorkerPlaces, WorkerWrites
<1>2. CASE WatchEvictionRequests \/ Resync \/ WatchPods \/ Restart
  BY <1>2 DEF WatchEvictionRequests, Resync, WatchPods, Restart
<1>3. CASE PodDeleted \/ PodStopped \/ PodRecreated \/ DeadlinePasses
  BY <1>3 DEF PodDeleted, PodStopped, PodRecreated, DeadlinePasses
<1>4. CASE OutsideWrite
  BY <1>4
<1>5. CASE UNCHANGED vars
  BY <1>5 DEF vars
<1>6. CASE \E i \in Items : LateCall(i)
  BY <1>6, LateCallEffects
<1> QED
  BY <1>1, <1>2, <1>3, <1>4, <1>5, <1>6 DEF Next, Controller, Environment, OutsideWrite

\* Where the informer's copy comes from.
LEMMA CacheAfterStep ==
  ASSUME TypeOK, [Next]_vars
  PROVE  cache' = cache \/ cache' = NoObject \/ (cache' = request /\ request' = request)
<1>1. ASSUME NEW i \in Items, Worker(i)
      PROVE  cache' = cache
  BY <1>1 DEF Worker, ReconcileEvictionRequest, DefaultCancellationPolicy,
              updateEvictionRequestStatus, Perform, EvictV1Succeeds, EvictV1Fails,
              RecordSuccess, RecordFailure
<1>2. CASE WatchEvictionRequests \/ Resync \/ WatchPods \/ Restart
  BY <1>2 DEF WatchEvictionRequests, Resync, WatchPods, Restart
<1>3. CASE Environment
  BY <1>3 DEF Environment, InterceptorReports, InterceptorCompletes,
              InterceptorForbidsCancellation, WithdrawRequesters, DeleteRequest, Write,
              PodDeleted, PodStopped, PodRecreated, DeadlinePasses
<1>4. CASE UNCHANGED vars
  BY <1>4 DEF vars
<1>5. CASE \E i \in Items : LateCall(i)
  BY <1>5, LateCallEffects
<1> QED
  BY <1>1, <1>2, <1>3, <1>4, <1>5 DEF Next, Controller

\* Where the copy of a live item comes from.
LEMMA CopiesAfterStep ==
  ASSUME TypeOK, [Next]_vars, NEW j \in Items, pc'[j] # "free"
  PROVE  \/ pc[j] # "free" /\ Assigns(er[j], er'[j])
         \/ er'[j] = request /\ request' = request
         \/ er'[j] = cache /\ request' = request
<1>1. ASSUME NEW i \in Items, Worker(i)
      PROVE  pc[j] # "free" /\ Assigns(er[j], er'[j])
  <2>1. CASE i = j
    BY <1>1, <2>1, WorkerPlaces, PlaceIsLocal DEF Forget
  <2>2. CASE i # j
    <3> \E where, new : Place(i, where, new)
      BY <1>1, WorkerPlaces DEF Forget
    <3> QED
      BY <2>2, PlaceIsLocal DEF Assigns, Handled
  <2> QED
    BY <2>1, <2>2
<1>2. CASE pc' = pc /\ er' = er
  BY <1>2 DEF Assigns, Handled
<1>3. ASSUME NEW obj, Enqueue(obj)
      PROVE  (pc[j] # "free" /\ Assigns(er[j], er'[j])) \/ er'[j] = obj
  <2> PICK i \in Items : pc[i] = "free" /\ Place(i, "queued", obj)
    BY <1>3 DEF Enqueue
  <2> QED
    BY PlaceIsLocal DEF Assigns, Handled
<1>4. CASE WatchEvictionRequests
  BY <1>2, <1>3, <1>4 DEF WatchEvictionRequests
<1>5. CASE Resync
  BY <1>3, <1>5 DEF Resync
<1>6. CASE WatchPods
  BY <1>2, <1>6 DEF WatchPods
<1>7. CASE Environment
  BY <1>2, <1>7 DEF Environment, InterceptorReports, InterceptorCompletes,
                    InterceptorForbidsCancellation, WithdrawRequesters, DeleteRequest,
                    Write, PodDeleted, PodStopped, PodRecreated, DeadlinePasses
<1>8. CASE UNCHANGED vars
  BY <1>2, <1>8 DEF vars
<1>9. CASE Restart
  BY <1>9, RestartKeepsCopies DEF Calling, Running, Late, Assigns, Handled
<1>10. ASSUME NEW i \in Items, LateCall(i)
       PROVE  pc[j] # "free" /\ Assigns(er[j], er'[j])
  <2>1. Place(i, "free", NoObject)
    BY <1>10, LateCallEffects DEF Forget
  <2>2. i # j
    BY <2>1, PlaceIsLocal
  <2> QED
    BY <2>1, <2>2, PlaceIsLocal DEF Assigns, Handled
<1> QED
  BY <1>1, <1>4, <1>5, <1>6, <1>7, <1>8, <1>9, <1>10 DEF Next, Controller

-----------------------------------------------------------------------------
(* Type correctness.                                                       *)

LEMMA TypesAtInit == Init => TypeOK
BY InitialObjects DEF Init, TypeOK, Pods, PC, TargetUID, NoPod

LEMMA OutsideWritesKeepTypes ==
  ASSUME TypeOK, OutsideWrite
  PROVE  TypeOK'
<1> request \in Objects
  BY DEF TypeOK
<1>1. request' \in Objects
  <2>1. ASSUME NEW obj \in Objects, Write(obj)
        PROVE  request' \in Objects
    BY <2>1 DEF Write, Objects
  <2>2. /\ [request EXCEPT !.heartbeat = request.heartbeat + 1] \in Objects
        /\ [request EXCEPT !.completed = TRUE] \in Objects
        /\ [request EXCEPT !.requested = FALSE] \in Objects
        /\ [request EXCEPT !.exists = FALSE] \in Objects
    <3>1. \A o \in Objects : [o EXCEPT !.heartbeat = o.heartbeat + 1] \in Objects
      BY DEF Objects
    <3>2. \A o \in Objects : [o EXCEPT !.completed = TRUE] \in Objects
      BY DEF Objects
    <3>3. \A o \in Objects : [o EXCEPT !.requested = FALSE] \in Objects
      BY DEF Objects
    <3>4. \A o \in Objects : [o EXCEPT !.exists = FALSE] \in Objects
      BY DEF Objects
    <3> QED
      BY <3>1, <3>2, <3>3, <3>4
  <2>3. [request EXCEPT !.policy = "Forbid"] \in Objects
    BY DEF Objects, Policies
  <2> QED
    BY <2>1, <2>2, <2>3
    DEF OutsideWrite, InterceptorReports, InterceptorCompletes,
        InterceptorForbidsCancellation, WithdrawRequesters, DeleteRequest
<1>2. UNCHANGED <<cache, pod, podCache, pc, er, elapsed, faults, failures, evictions>>
  BY DEF OutsideWrite, InterceptorReports, InterceptorCompletes,
         InterceptorForbidsCancellation, WithdrawRequesters, DeleteRequest, Write
<1> QED
  BY <1>1, <1>2 DEF TypeOK

LEMMA AcceptedEvictionsKeepTypes ==
  ASSUME TypeOK, AcceptEviction
  PROVE  pod' \in Pods /\ evictions' \subseteq Nat
<1>1. pod.uid \in Nat /\ pod' \in Pods
  BY DEF AcceptEviction, TypeOK, Pods
<1>2. evictions' = evictions \cup {pod.uid} /\ evictions \subseteq Nat
  BY DEF AcceptEviction, TypeOK
<1> QED
  BY <1>1, <1>2

LEMMA WorkersKeepTypes ==
  ASSUME TypeOK, NEW i \in Items, Worker(i)
  PROVE  TypeOK'
<1>1. request' \in Objects
  BY WorkerWrites, HandlersKeepObjects DEF TypeOK
<1>2. pc' \in [Items -> PC] /\ er' \in [Items -> Objects]
  BY WorkerPlaces, PlaceIsLocal, InitialObjects DEF Forget, PC
<1>3. /\ cache' = cache /\ podCache' = podCache /\ elapsed' = elapsed
      /\ failures' \in Nat /\ faults' \in Nat /\ pod' \in Pods /\ evictions' \subseteq Nat
  <2> USE DEF TypeOK, UpdateSucceeds, UpdateFails
  <2>1. CASE ReconcileEvictionRequest(i) \/ Perform(i)
    BY <2>1 DEF ReconcileEvictionRequest, Perform
  <2>2. CASE DefaultCancellationPolicy(i)
    BY <2>2 DEF DefaultCancellationPolicy
  <2>3. CASE updateEvictionRequestStatus(i)
    BY <2>3 DEF updateEvictionRequestStatus
  <2>4. CASE EvictV1Succeeds(i) \/ EvictV1Fails(i)
    <3>1. AcceptEviction => pod' \in Pods /\ evictions' \subseteq Nat
      BY AcceptedEvictionsKeepTypes
    <3>2. CASE EvictV1Succeeds(i)
      BY <3>1, <3>2 DEF EvictV1Succeeds
    <3>3. CASE EvictV1Fails(i)
      <4>1. pod' \in Pods /\ evictions' \subseteq Nat
        BY <3>1, <3>3 DEF EvictV1Fails
      <4> QED
        BY <3>3, <4>1 DEF EvictV1Fails
    <3> QED
      BY <2>4, <3>2, <3>3
  <2>5. CASE RecordSuccess(i)
    BY <2>5 DEF RecordSuccess
  <2>6. CASE RecordFailure(i)
    BY <2>6 DEF RecordFailure
  <2> QED
    BY <2>1, <2>2, <2>3, <2>4, <2>5, <2>6 DEF Worker
<1> QED
  BY <1>1, <1>2, <1>3 DEF TypeOK

LEMMA StepsKeepTypes == TypeOK /\ [Next]_vars => TypeOK'
<1> SUFFICES ASSUME TypeOK, [Next]_vars
             PROVE  TypeOK'
  OBVIOUS
<1>1. CASE \E i \in Items : Worker(i)
  BY <1>1, WorkersKeepTypes
<1>2. ASSUME NEW obj \in Objects, Enqueue(obj)
      PROVE  pc' \in [Items -> PC] /\ er' \in [Items -> Objects]
  BY <1>2, PlaceIsLocal DEF Enqueue, PC
<1>3. CASE WatchEvictionRequests
  BY <1>2, <1>3 DEF WatchEvictionRequests, TypeOK
<1>4. CASE Resync
  BY <1>2, <1>4 DEF Resync, TypeOK
<1>5. NamedPod \in Nat
  BY DEF NamedPod, NoPod, TypeOK, Pods
<1>6. CASE WatchPods
  BY <1>5, <1>6 DEF WatchPods, TypeOK
<1>7. CASE Restart
  <2>1. pc' \in [Items -> PC] /\ er' \in [Items -> Objects]
    BY <1>7, RestartKeepsCopies
  <2> QED
    BY <1>5, <1>7, <2>1, InitialObjects DEF Restart, TypeOK
<1>8. CASE OutsideWrite
  BY <1>8, OutsideWritesKeepTypes
<1>9. CASE PodDeleted \/ PodStopped \/ PodRecreated
  BY <1>9 DEF PodDeleted, PodStopped, PodRecreated, TypeOK, Pods
<1>10. CASE DeadlinePasses
  BY <1>10 DEF DeadlinePasses, TypeOK, Objects
<1>11. CASE UNCHANGED vars
  BY <1>11 DEF vars, TypeOK
<1>12. ASSUME NEW i \in Items, LateCall(i)
       PROVE  TypeOK'
  <2>1. /\ Forget(i) /\ (request' = request \/ request' = Stored(er[i]))
        /\ UNCHANGED <<pod, evictions>> \/ AcceptEviction
        /\ UNCHANGED <<cache, podCache, elapsed, faults, failures>>
    BY <1>12, LateCallEffects
  <2>2. pc' \in [Items -> PC] /\ er' \in [Items -> Objects]
    BY <2>1, PlaceIsLocal, InitialObjects DEF Forget, PC
  <2>3. request' \in Objects
    BY <2>1, HandlersKeepObjects DEF TypeOK
  <2>4. pod' \in Pods /\ evictions' \subseteq Nat
    BY <2>1, AcceptedEvictionsKeepTypes DEF TypeOK
  <2> QED
    BY <2>1, <2>2, <2>3, <2>4 DEF TypeOK
<1> QED
  BY <1>1, <1>3, <1>4, <1>6, <1>7, <1>8, <1>9, <1>10, <1>11, <1>12
  DEF Next, Controller, Environment, OutsideWrite

\* Every variable keeps its type, whatever the interceptors, users, faults and
\* interleavings of the workers.
THEOREM TypeCorrectness == Spec => []TypeOK
BY TypesAtInit, StepsKeepTypes, PTL DEF Spec

-----------------------------------------------------------------------------
(* The copies run ahead of the stored object.                              *)

\* Ahead, with the stored object and the clock as parameters.
AheadOf(copy, stored, now) ==
  /\ copy.exists = stored.exists
  /\ copy.requested = stored.requested
  /\ copy.heartbeat = stored.heartbeat
  /\ copy.policy = stored.policy \/ (stored.policy = "Unset" /\ copy.policy = "Allow")
  /\ stored.evicted # "Unset" => copy.evicted # "Unset"
  /\ stored.counter <= copy.counter
  /\ stored.completed => copy.completed
  /\ copy.completed => stored.completed \/ (stored.heartbeat # 0 /\ stored.heartbeat <= now)
  /\ stored.class = NoClass => Index(copy) \in {0, 1}
  /\ stored.class # NoClass => \/ copy.class = stored.class
                               \/ copy.completed /\ Index(stored) < Index(copy)

\* No interceptor has been selected, so none has written anything.
Unselected(stored) == stored.class = NoClass => stored.heartbeat = 0 /\ ~stored.completed

LEMMA AheadIsAheadOf == \A copy : Ahead(copy) <=> AheadOf(copy, request, elapsed)
BY DEF Ahead, AheadOf, Expired

\* The place of a class in the sorted list.
LEMMA IndexFacts ==
  ASSUME NEW obj \in Objects
  PROVE  /\ Index(obj) \in Nat
         /\ Index(obj) = 0 <=> obj.class = NoClass
         /\ Index(obj) <= Len(Interceptors)
         /\ Interceptors # <<>> => Index(selectInitialInterceptor(obj)) = 1
         /\ HasNextInterceptor(obj) => Index(selectNextInterceptor(obj)) = Index(obj) + 1
<1>1. obj.class \in Classes \cup {NoClass}
  BY DEF Objects
<1>2. /\ Index(obj) \in Nat
      /\ Index(obj) = 0 <=> obj.class = NoClass
      /\ Index(obj) <= Len(Interceptors)
  <2>1. NoClass \notin Classes
    BY InterceptorsAssumption
  <2>2. CASE obj.class = NoClass
    BY <2>2, FindInterceptorIndex, ListDomain DEF Index
  <2>3. CASE obj.class \in Classes
    <3> DEFINE n == findInterceptorIndex(obj.class)
    <3>1. n \in DOMAIN Interceptors
      BY <2>3, FindInterceptorIndex
    <3> HIDE DEF n
    <3>2. n \in 1 .. Len(Interceptors) /\ Len(Interceptors) \in Nat
      BY <3>1, ListDomain
    <3>3. n \in Nat /\ n # 0 /\ n <= Len(Interceptors)
      BY <3>2
    <3>4. Index(obj) = n
      BY DEF Index, n
    <3> QED
      BY <2>1, <2>3, <3>3, <3>4
  <2> QED
    BY <1>1, <2>2, <2>3
<1>3. Interceptors # <<>> => Index(selectInitialInterceptor(obj)) = 1
  <2>1. selectInitialInterceptor(obj).class = sortInterceptorsByPriority[1]
    BY DEF selectInitialInterceptor, Objects
  <2> QED
    BY <2>1, FindInterceptorIndex, ListDomain DEF Index
<1>4. HasNextInterceptor(obj) => Index(selectNextInterceptor(obj)) = Index(obj) + 1
  <2> SUFFICES ASSUME HasNextInterceptor(obj)
               PROVE  Index(selectNextInterceptor(obj)) = Index(obj) + 1
    OBVIOUS
  <2>1. Index(obj) + 1 \in DOMAIN Interceptors
    BY <1>2, ListDomain DEF HasNextInterceptor, Index
  <2>2. selectNextInterceptor(obj).class = sortInterceptorsByPriority[Index(obj) + 1]
    BY DEF selectNextInterceptor, Objects, Index
  <2> QED
    BY <2>1, <2>2, FindInterceptorIndex DEF Index
<1> QED
  BY <1>2, <1>3, <1>4

\* An assignment of the handlers keeps a copy ahead of what it was ahead of.
LEMMA AssignsKeepsAhead ==
  ASSUME TypeOK, Unselected(request),
         NEW old \in Objects, NEW new, Assigns(old, new), AheadOf(old, request, elapsed)
  PROVE  /\ new.rv = old.rv
         /\ AheadOf(new, request, elapsed)
<1> request \in Objects
  BY DEF TypeOK
<1> /\ Index(request) \in Nat /\ Index(old) \in Nat
    /\ Index(request) = 0 <=> request.class = NoClass
    /\ Index(old) = 0 <=> old.class = NoClass
    /\ request.counter \in Nat /\ old.counter \in Nat
  BY IndexFacts DEF Objects
<1> USE DEF AheadOf
<1>1. CASE new = old
  BY <1>1
<1>2. CASE Interceptors # <<>> /\ old.class = NoClass /\ new = selectInitialInterceptor(old)
  <2>1. /\ new.rv = old.rv /\ new.exists = old.exists /\ new.requested = old.requested
        /\ new.policy = old.policy /\ new.completed = old.completed
        /\ new.heartbeat = old.heartbeat /\ new.counter = old.counter
        /\ new.evicted = old.evicted
    BY <1>2 DEF selectInitialInterceptor, Objects
  <2>2. Index(new) = 1 /\ Index(old) = 0
    BY <1>2, IndexFacts
  <2>3. request.class = NoClass
    BY <1>2, <2>2
  <2> QED
    BY <2>1, <2>2, <2>3
<1>3. CASE old.completed /\ HasNextInterceptor(old) /\ new = selectNextInterceptor(old)
  <2>1. /\ new.rv = old.rv /\ new.exists = old.exists /\ new.requested = old.requested
        /\ new.policy = old.policy /\ new.completed = old.completed
        /\ new.heartbeat = old.heartbeat /\ new.counter = old.counter
        /\ new.evicted = old.evicted
    BY <1>3 DEF selectNextInterceptor, Objects
  <2>2. Index(new) = Index(old) + 1
    BY <1>3, IndexFacts
  <2>3. request.class # NoClass
    BY <1>3 DEF Unselected
  <2>4. Index(request) <= Index(old)
    <3>1. old.class = request.class => Index(old) = Index(request)
      BY DEF Index
    <3> QED
      BY <2>3, <3>1
  <2>5. Index(request) < Index(new)
    BY <2>2, <2>4
  <2> QED
    BY <1>3, <2>1, <2>3, <2>5
<1>4. CASE Expired(old) /\ new = markInterceptorAsCompleted(old)
  <2>1. /\ new.rv = old.rv /\ new.exists = old.exists /\ new.requested = old.requested
        /\ new.policy = old.policy /\ new.class = old.class /\ new.completed
        /\ new.heartbeat = old.heartbeat /\ new.counter = old.counter
        /\ new.evicted = old.evicted
    BY <1>4 DEF markInterceptorAsCompleted, Objects
  <2> QED
    BY <1>4, <2>1 DEF Expired, Index
<1>5. CASE old.policy = "Unset" /\ new = [old EXCEPT !.policy = "Allow"]
  <2>1. /\ new.rv = old.rv /\ new.exists = old.exists /\ new.requested = old.requested
        /\ new.class = old.class /\ new.completed = old.completed
        /\ new.heartbeat = old.heartbeat /\ new.counter = old.counter
        /\ new.evicted = old.evicted
    BY <1>5 DEF Objects
  <2> QED
    BY <1>5, <2>1 DEF Index
<1>6. ASSUME NEW o \in Objects, NEW s \in {"True", "False"}, AheadOf(o, request, elapsed)
      PROVE  /\ UpsertCondition(o, s).rv = o.rv
             /\ AheadOf(UpsertCondition(o, s), request, elapsed)
  <2> DEFINE up == UpsertCondition(o, s)
  <2>1. /\ up.rv = o.rv /\ up.exists = o.exists /\ up.requested = o.requested
        /\ up.class = o.class /\ up.completed = o.completed
        /\ up.heartbeat = o.heartbeat /\ up.counter = o.counter
        /\ up.evicted = s /\ up.policy = IF o.policy = "Unset" THEN "Allow" ELSE o.policy
    BY DEF UpsertCondition, DefaultPolicy, Objects
  <2> HIDE DEF up
  <2>2. Index(up) = Index(o)
    BY <2>1 DEF Index
  <2>3. up.evicted # "Unset"
    BY <2>1
  <2>4. up.policy = request.policy \/ (request.policy = "Unset" /\ up.policy = "Allow")
    BY <1>6, <2>1
  <2>5. AheadOf(up, request, elapsed)
    BY <1>6, <2>1, <2>2, <2>3, <2>4
  <2> QED
    BY <2>1, <2>5 DEF up
<1>7. CASE new = UpsertCondition(old, "True")
  BY <1>6, <1>7
<1>8. CASE new = IncrementFailedEvictionCounter(old)
  <2> DEFINE o == [old EXCEPT !.counter = @ + 1]
  <2>0. o \in Objects
    BY DEF Objects
  <2>1. /\ o.rv = old.rv /\ o.exists = old.exists /\ o.requested = old.requested
        /\ o.class = old.class /\ o.completed = old.completed
        /\ o.heartbeat = old.heartbeat /\ o.counter = old.counter + 1
        /\ o.evicted = old.evicted /\ o.policy = old.policy
    BY DEF Objects
  <2>2. new = UpsertCondition(o, "False")
    BY <1>8 DEF IncrementFailedEvictionCounter
  <2> HIDE DEF o
  <2>3. Index(o) = Index(old)
    BY <2>1 DEF Index
  <2>4. request.counter <= o.counter
    BY <2>1
  <2>5. AheadOf(o, request, elapsed)
    BY <2>1, <2>3, <2>4
  <2> QED
    BY <1>6, <2>0, <2>1, <2>2, <2>5
<1> QED
  BY <1>1, <1>2, <1>3, <1>4, <1>5, <1>7, <1>8 DEF Assigns, Handled

LEMMA AssignsKeepsVersion ==
  ASSUME NEW old \in Objects, NEW new, Assigns(old, new)
  PROVE  new.rv = old.rv
BY DEF Assigns, Handled, selectInitialInterceptor, selectNextInterceptor,
       markInterceptorAsCompleted, UpsertCondition, DefaultPolicy,
       IncrementFailedEvictionCounter, Objects

LEMMA AheadOfItself ==
  ASSUME TypeOK, Unselected(request)
  PROVE  AheadOf(request, request, elapsed')
BY IndexFacts DEF AheadOf, TypeOK, Objects

LEMMA AheadIsStable ==
  ASSUME TypeOK, NEW c, NEW now \in Nat, elapsed <= now, AheadOf(c, request, elapsed)
  PROVE  AheadOf(c, request, now)
BY DEF AheadOf, TypeOK, Objects

\* A copy of the stored version may be stored: what results is a later version,
\* or the stored object itself, and what was stored before is not undone.
LEMMA StoringACopy ==
  ASSUME TypeOK, Unselected(request), NEW c \in Objects, Accepts(c),
         AheadOf(c, request, elapsed), request' = Stored(c)
  PROVE  /\ request' = request \/ request'.rv = request.rv + 1
         /\ Unselected(request')
<1> request \in Objects
  BY DEF TypeOK
<1>1. CASE c = request
  BY <1>1 DEF Stored
<1>2. CASE c # request
  <2>1. /\ request'.rv = c.rv + 1 /\ request'.class = c.class
        /\ request'.completed = c.completed /\ request'.heartbeat = c.heartbeat
    BY <1>2 DEF Stored, Objects
  <2>2. c.class = NoClass => request.class = NoClass
    BY IndexFacts DEF AheadOf
  <2>3. c.class = NoClass => c.heartbeat = 0 /\ ~c.completed
    BY <2>2 DEF AheadOf, Unselected
  <2> QED
    BY <2>1, <2>3 DEF Unselected, Accepts
<1> QED
  BY <1>1, <1>2

LEMMA WritingAsAnOutsider ==
  ASSUME TypeOK, Unselected(request), OutsideWrite
  PROVE  request'.rv = request.rv + 1 /\ Unselected(request')
<1> request \in Objects
  BY DEF TypeOK
<1> USE DEF Write, Unselected, Objects
<1>1. CASE InterceptorReports
  BY <1>1 DEF InterceptorReports
<1>2. CASE InterceptorCompletes
  BY <1>2 DEF InterceptorCompletes
<1>3. CASE InterceptorForbidsCancellation
  BY <1>3 DEF InterceptorForbidsCancellation
<1>4. CASE WithdrawRequesters
  BY <1>4 DEF WithdrawRequesters
<1>5. CASE DeleteRequest
  BY <1>5 DEF DeleteRequest
<1> QED
  BY <1>1, <1>2, <1>3, <1>4, <1>5 DEF OutsideWrite

LEMMA TimePasses ==
  ASSUME TypeOK, [Next]_vars
  PROVE  elapsed <= elapsed'
<1>1. elapsed \in Nat
  BY DEF TypeOK
<1>2. CASE DeadlinePasses
  BY <1>1, <1>2 DEF DeadlinePasses, TypeOK, Objects
<1>3. CASE ~DeadlinePasses
  <2>1. elapsed' = elapsed
    BY <1>3 DEF Next, Controller, Worker, Environment, vars, Write,
                ReconcileEvictionRequest, DefaultCancellationPolicy,
                updateEvictionRequestStatus, Perform, EvictV1Succeeds, EvictV1Fails,
                RecordSuccess, RecordFailure, WatchEvictionRequests, Resync, WatchPods,
                Restart, LateCall, InterceptorReports, InterceptorCompletes,
                InterceptorForbidsCancellation, WithdrawRequesters, DeleteRequest,
                PodDeleted, PodStopped, PodRecreated
  <2> QED
    BY <1>1, <2>1
<1> QED
  BY <1>2, <1>3

LEMMA CopiesAtInit == Init => CopiesRunAhead
BY DEF Init, CopiesRunAhead, CreatedObject, NoObject, Live

\* The inductive step: a live copy of the stored version is ahead of the stored
\* object; a copy of an older version stays one.
LEMMA StepsKeepCopies == TypeOK /\ CopiesRunAhead /\ [Next]_vars => CopiesRunAhead'
<1> SUFFICES ASSUME TypeOK, CopiesRunAhead, [Next]_vars
             PROVE  CopiesRunAhead'
  OBVIOUS
<1> TypeOK'
  BY StepsKeepTypes
<1> /\ request \in Objects /\ cache \in Objects /\ \A i \in Items : er[i] \in Objects
    /\ request' \in Objects /\ cache' \in Objects /\ \A i \in Items : er'[i] \in Objects
    /\ elapsed \in Nat /\ elapsed' \in Nat
  BY DEF TypeOK
<1>1. Unselected(request)
  BY DEF CopiesRunAhead, Unselected
<1>2. \A i \in Items : pc[i] # "free" =>
         /\ er[i].rv <= request.rv
         /\ er[i].rv = request.rv => AheadOf(er[i], request, elapsed)
  BY AheadIsAheadOf DEF CopiesRunAhead, Live
<1>3. (request' = request \/ request'.rv = request.rv + 1) /\ Unselected(request')
  <2>1. CASE request' = request
    BY <1>1, <2>1
  <2>2. ASSUME NEW i \in Items, pc[i] # "free", Accepts(er[i]), request' = Stored(er[i])
        PROVE  (request' = request \/ request'.rv = request.rv + 1) /\ Unselected(request')
    BY <1>1, <1>2, <2>2, StoringACopy DEF Accepts
  <2>3. CASE OutsideWrite
    BY <1>1, <2>3, WritingAsAnOutsider
  <2> QED
    BY <2>1, <2>2, <2>3, RequestAfterStep
<1>4. request.rv \in Nat /\ request'.rv \in Nat /\ cache.rv \in Nat
  BY DEF Objects
<1>5. 0 < request.rv /\ cache.rv <= request.rv /\ (cache.rv = request.rv => cache = request)
  BY DEF CopiesRunAhead
<1>6. 0 < request'.rv
  BY <1>3, <1>4, <1>5
<1>7. cache'.rv <= request'.rv /\ (cache'.rv = request'.rv => cache' = request')
  <2>1. CASE cache' = cache
    BY <1>3, <1>4, <1>5, <2>1
  <2>2. CASE cache' = NoObject
    <3>1. cache'.rv = 0
      BY <2>2 DEF NoObject, CreatedObject
    <3> QED
      BY <1>4, <1>6, <3>1
  <2>3. CASE cache' = request /\ request' = request
    BY <1>4, <2>3
  <2> QED
    BY <2>1, <2>2, <2>3, CacheAfterStep
<1>8. ASSUME NEW j \in Items, pc'[j] # "free"
      PROVE  /\ er'[j].rv <= request'.rv
             /\ er'[j].rv = request'.rv => AheadOf(er'[j], request', elapsed')
  <2>0. er[j].rv \in Nat
    BY DEF Objects
  <2>1. CASE pc[j] # "free" /\ Assigns(er[j], er'[j])
    <3>1. er'[j].rv = er[j].rv
      BY <2>1, AssignsKeepsVersion
    <3>2. er'[j].rv <= request'.rv
      BY <1>2, <1>3, <1>4, <2>0, <2>1, <3>1
    <3>3. ASSUME er'[j].rv = request'.rv
          PROVE  AheadOf(er'[j], request', elapsed')
      <4>1. request' = request /\ er[j].rv = request.rv
        <5>1. er[j].rv <= request.rv /\ er[j].rv = request'.rv
          BY <1>2, <2>1, <3>1, <3>3
        <5> QED
          BY <1>3, <1>4, <2>0, <5>1
      <4>2. AheadOf(er'[j], request, elapsed)
        BY <1>1, <1>2, <2>1, <4>1, AssignsKeepsAhead
      <4> QED
        BY <4>1, <4>2, TimePasses, AheadIsStable
    <3> QED
      BY <3>2, <3>3
  <2>2. CASE er'[j] = request /\ request' = request
    BY <1>1, <1>4, <2>2, AheadOfItself
  <2>3. CASE er'[j] = cache /\ request' = request
    BY <1>1, <1>4, <1>5, <2>3, AheadOfItself
  <2> QED
    BY <1>8, <2>1, <2>2, <2>3, CopiesAfterStep
<1>9. \A j \in Items : pc'[j] # "free" =>
        /\ er'[j].rv <= request'.rv
        /\ er'[j].rv = request'.rv => AheadOf(er'[j], request', elapsed')
  BY <1>8
<1> QED
  BY <1>3, <1>6, <1>7, <1>9
  DEF CopiesRunAhead, Unselected, Live, Ahead, AheadOf, Expired

\* A copy whose resource version is still the stored one carries everything that
\* is stored, with at most the assignments of the handlers on top: what makes
\* optimistic concurrency enough for a controller that retries stale copies.
THEOREM CopiesNeverFallBehind == Spec => []CopiesRunAhead
<1>1. Init => TypeOK /\ CopiesRunAhead
  BY TypesAtInit, CopiesAtInit
<1>2. TypeOK /\ CopiesRunAhead /\ [Next]_vars => (TypeOK /\ CopiesRunAhead)'
  BY StepsKeepTypes, StepsKeepCopies
<1> QED
  BY <1>1, <1>2, PTL DEF Spec

-----------------------------------------------------------------------------
(* No write is undone.                                                     *)

LEMMA StepsUndoNothing ==
  ASSUME TypeOK, CopiesRunAhead, [Next]_vars
  PROVE  [NothingUndone]_request
<1> request \in Objects /\ \A i \in Items : er[i] \in Objects
  BY DEF TypeOK
<1>1. ASSUME NEW i \in Items, pc[i] # "free", Accepts(er[i]), request' = Stored(er[i]),
             request' # request
      PROVE  NothingUndone
  <2>1. AheadOf(er[i], request, elapsed)
    BY <1>1, AheadIsAheadOf DEF CopiesRunAhead, Live, Accepts
  <2>2. /\ request'.class = er[i].class /\ request'.completed = er[i].completed
        /\ request'.heartbeat = er[i].heartbeat /\ request'.counter = er[i].counter
        /\ request'.policy = er[i].policy /\ request'.evicted = er[i].evicted
        /\ request'.requested = er[i].requested /\ request'.exists = er[i].exists
    BY <1>1 DEF Stored, Objects
  <2>3. Index(request) <= Index(er[i])
    <3>1. /\ Index(request) \in Nat /\ Index(er[i]) \in Nat
          /\ Index(request) = 0 <=> request.class = NoClass
      BY IndexFacts
    <3>2. er[i].class = request.class => Index(er[i]) = Index(request)
      BY DEF Index
    <3> QED
      BY <2>1, <3>1, <3>2 DEF AheadOf
  <2>4. Index(request') = Index(er[i])
    BY <2>2 DEF Index
  <2>5. request.heartbeat \in Nat /\ request.counter \in Nat
    BY DEF Objects
  <2> QED
    BY <2>1, <2>2, <2>3, <2>4, <2>5 DEF NothingUndone, AheadOf
<1>2. CASE OutsideWrite
  <2>1. /\ request'.class = request.class /\ request'.counter = request.counter
        /\ request'.evicted = request.evicted
        /\ request.completed => request'.completed
        /\ request.heartbeat <= request'.heartbeat
        /\ request'.policy \in {request.policy, "Forbid"}
        /\ request'.requested => request.requested
        /\ request'.exists => request.exists
    <3> USE DEF Write, Objects
    <3>1. CASE InterceptorReports
      BY <3>1 DEF InterceptorReports
    <3>2. CASE InterceptorCompletes
      BY <3>2 DEF InterceptorCompletes
    <3>3. CASE InterceptorForbidsCancellation
      BY <3>3 DEF InterceptorForbidsCancellation
    <3>4. CASE WithdrawRequesters
      BY <3>4 DEF WithdrawRequesters
    <3>5. CASE DeleteRequest
      BY <3>5 DEF DeleteRequest
    <3> QED
      BY <1>2, <3>1, <3>2, <3>3, <3>4, <3>5 DEF OutsideWrite
  <2>2. Index(request') = Index(request)
    BY <2>1 DEF Index
  <2>3. Index(request) \in Nat /\ request.counter \in Nat
    BY IndexFacts DEF Objects
  <2> QED
    BY <2>1, <2>2, <2>3 DEF NothingUndone
<1> QED
  BY <1>1, <1>2, RequestAfterStep

\* No write of a stale or retried copy takes back what interceptors, users or the
\* controller stored before.
THEOREM WritesAreNeverUndone == Spec => NoWriteIsUndone
<1>1. TypeOK /\ CopiesRunAhead /\ [Next]_vars => [NothingUndone]_request
  BY StepsUndoNothing
<1> QED
  BY <1>1, TypeCorrectness, CopiesNeverFallBehind, PTL DEF Spec, NoWriteIsUndone

-----------------------------------------------------------------------------
(* The hand-over from interceptor to interceptor.                          *)

\* The priority of a class is that of its place in the sorted list, and the
\* places are in descending priority.
LEMMA PriorityDescends ==
  /\ \A c \in Classes : priority(c) \in Nat
  /\ \A c, d \in Classes :
        findInterceptorIndex(c) <= findInterceptorIndex(d) => priority(d) <= priority(c)
  /\ \A c \in Classes : \A k \in DOMAIN Interceptors :
        findInterceptorIndex(c) = 1 => priority(c) >= Interceptors[k].priority
<1>1. /\ SortOrder \in Permuted
      /\ \A j, k \in DOMAIN Interceptors :
           j < k => Interceptors[SortOrder[j]].priority >= Interceptors[SortOrder[k]].priority
  BY SortOrderIsAnOrder DEF Orders
<1>2. ASSUME NEW k \in DOMAIN Interceptors
      PROVE  priority(Interceptors[k].class) = Interceptors[k].priority
  BY InterceptorsAssumption DEF priority
<1>3. ASSUME NEW c \in Classes
      PROVE  /\ findInterceptorIndex(c) \in DOMAIN Interceptors
             /\ SortOrder[findInterceptorIndex(c)] \in DOMAIN Interceptors
             /\ priority(c) = Interceptors[SortOrder[findInterceptorIndex(c)]].priority
  BY <1>1, <1>2, FindInterceptorIndex DEF sortInterceptorsByPriority, Permuted
<1>4. ASSUME NEW c \in Classes, NEW d \in Classes,
             findInterceptorIndex(c) <= findInterceptorIndex(d)
      PROVE  priority(d) <= priority(c)
  <2>1. CASE findInterceptorIndex(c) = findInterceptorIndex(d)
    BY <1>3, <2>1, ListDomain
  <2>2. CASE findInterceptorIndex(c) < findInterceptorIndex(d)
    BY <1>1, <1>3, <2>2
  <2> QED
    BY <1>3, <1>4, <2>1, <2>2, ListDomain
<1>5. ASSUME NEW c \in Classes, NEW k \in DOMAIN Interceptors, findInterceptorIndex(c) = 1
      PROVE  priority(c) >= Interceptors[k].priority
  <2>1. Interceptors[k].class \in Classes
    BY ListDomain
  <2>2. findInterceptorIndex(c) <= findInterceptorIndex(Interceptors[k].class)
    BY <1>3, <1>5, <2>1, ListDomain
  <2> QED
    BY <1>2, <1>3, <1>4, <2>1, <2>2, ListDomain
<1> QED
  BY <1>3, <1>4, <1>5, ListDomain

\* A copy is at most one turn ahead of the stored object, and only while it waits to
\* be written; each lost call may add a turn.
Reach(place) == IF place \in {"update", "lateWrite"} THEN 1 ELSE 0

InStep ==
  \A i \in Items : Live(i) /\ Accepts(er[i]) =>
    Index(er[i]) <= Index(request) + faults + Reach(pc[i])

LEMMA FaultsAreCounted ==
  ASSUME TypeOK, [Next]_vars
  PROVE  faults' \in {faults, faults + 1}
<1>1. ASSUME NEW i \in Items, Worker(i)
      PROVE  faults' \in {faults, faults + 1}
  BY <1>1 DEF Worker, ReconcileEvictionRequest, DefaultCancellationPolicy,
              updateEvictionRequestStatus, Perform, EvictV1Succeeds, EvictV1Fails,
              RecordSuccess, RecordFailure, UpdateSucceeds, UpdateFails
<1>2. CASE WatchEvictionRequests \/ Resync \/ WatchPods \/ Restart
  BY <1>2 DEF WatchEvictionRequests, Resync, WatchPods, Restart
<1>3. CASE Environment
  BY <1>3 DEF Environment, InterceptorReports, InterceptorCompletes,
              InterceptorForbidsCancellation, WithdrawRequesters, DeleteRequest, Write,
              PodDeleted, PodStopped, PodRecreated, DeadlinePasses
<1>4. CASE UNCHANGED vars
  BY <1>4 DEF vars
<1>5. CASE \E i \in Items : LateCall(i)
  BY <1>5, LateCallEffects
<1> QED
  BY <1>1, <1>2, <1>3, <1>4, <1>5 DEF Next, Controller

LEMMA HandlersTakeOneTurn ==
  ASSUME NEW old \in Objects, NEW new, Handled(old, new)
  PROVE  Index(new) <= Index(old) + 1
<1> Index(old) \in Nat
  BY IndexFacts
<1>1. CASE new.class = old.class
  BY <1>1 DEF Index
<1>2. CASE Interceptors # <<>> /\ new = selectInitialInterceptor(old)
  BY <1>2, IndexFacts
<1>3. CASE HasNextInterceptor(old) /\ new = selectNextInterceptor(old)
  BY <1>3, IndexFacts
<1> QED
  BY <1>1, <1>2, <1>3 DEF Handled, markInterceptorAsCompleted, Objects

\* What a worker does to the copy it holds: unless the write is refused, the copy gets
\* ahead only on its way to a write, or because a call was lost.
LEMMA WorkersTakeOneTurn ==
  ASSUME TypeOK, NEW i \in Items, Worker(i), pc'[i] # "free"
  PROVE  \/ request' = request /\ ~Accepts(er[i])
         \/ Index(er'[i]) + faults + Reach(pc[i]) <= Index(er[i]) + faults' + Reach(pc'[i])
<1> er[i] \in Objects /\ faults \in Nat /\ Index(er[i]) \in Nat
  BY IndexFacts DEF TypeOK
<1> faults' \in {faults, faults + 1}
  BY FaultsAreCounted DEF Next, Controller
<1> DEFINE Slower == Index(er'[i]) + faults + Reach(pc[i]) <= Index(er[i]) + faults' + Reach(pc'[i])
<1>1. ASSUME pc[i] \in {"queued", "policy"}, Dispatch(i, er[i])
      PROVE  Slower
  <2>1. PICK where \in {"update", "perform"}, new \in Objects :
             Place(i, where, new) /\ Handled(er[i], new) /\ (where = "perform" => new = er[i])
    BY <1>1, DispatchPlaces, PlaceIsLocal DEF Forget
  <2>2. pc'[i] = where /\ er'[i] = new
    BY <2>1, PlaceIsLocal
  <2>3. Index(new) \in Nat /\ Index(new) <= Index(er[i]) + 1
    BY <2>1, HandlersTakeOneTurn, IndexFacts
  <2> QED
    BY <1>1, <2>1, <2>2, <2>3 DEF Reach
<1>2. ASSUME NEW where, NEW new, Place(i, where, new), new.class = er[i].class,
             \/ Reach(pc[i]) = 0
             \/ faults' = faults + 1
      PROVE  Slower
  <2>1. Index(er'[i]) = Index(er[i])
    BY <1>2, PlaceIsLocal DEF Index
  <2> QED
    BY <1>2, <2>1 DEF Reach
<1>3. CASE ReconcileEvictionRequest(i)
  <2>1. pc[i] = "queued" /\ Reach(pc[i]) = 0
    BY <1>3 DEF ReconcileEvictionRequest, Get, Reach
  <2>2. CASE podCache # TargetUID
    BY <1>3, <2>2, PlaceIsLocal DEF ReconcileEvictionRequest, Forget
  <2>3. CASE podCache = TargetUID /\ er[i].policy = "Unset"
    <3>1. Place(i, "policy", [er[i] EXCEPT !.policy = "Allow"])
      BY <1>3, <2>3 DEF ReconcileEvictionRequest
    <3>2. [er[i] EXCEPT !.policy = "Allow"].class = er[i].class
      BY DEF Objects
    <3> QED
      BY <1>2, <2>1, <3>1, <3>2
  <2>4. CASE podCache = TargetUID /\ er[i].policy # "Unset"
    BY <1>1, <1>3, <2>1, <2>4 DEF ReconcileEvictionRequest
  <2> QED
    BY <2>2, <2>3, <2>4
<1>4. CASE DefaultCancellationPolicy(i)
  <2>1. pc[i] = "policy" /\ Reach(pc[i]) = 0
    BY <1>4 DEF DefaultCancellationPolicy, Reach
  <2>2. CASE Dispatch(i, er[i])
    BY <1>1, <2>1, <2>2
  <2>3. CASE AddRateLimited(i, er[i])
    BY <1>2, <2>1, <2>3 DEF AddRateLimited
  <2> QED
    BY <1>4, <2>2, <2>3 DEF DefaultCancellationPolicy
<1>5. CASE updateEvictionRequestStatus(i)
  <2>1. UpdateFails(er[i]) /\ Place(i, "queued", er[i])
    BY <1>5, PlaceIsLocal DEF updateEvictionRequestStatus, Forget, AddRateLimited
  <2>2. (request' = request /\ ~Accepts(er[i])) \/ faults' = faults + 1
    BY <2>1 DEF UpdateFails
  <2> QED
    BY <1>2, <2>1, <2>2
<1>6. CASE Perform(i)
  <2>1. pc[i] = "perform" /\ Reach(pc[i]) = 0 /\ Place(i, "evict", er[i])
    BY <1>6, PlaceIsLocal DEF Perform, Forget, Reach
  <2> QED
    BY <1>2, <2>1
<1>7. CASE EvictV1Succeeds(i)
  <2>1. Reach(pc[i]) = 0 /\ Place(i, "succeeded", UpsertCondition(er[i], "True"))
    BY <1>7 DEF EvictV1Succeeds, Reach
  <2>2. UpsertCondition(er[i], "True").class = er[i].class
    BY DEF UpsertCondition, DefaultPolicy, Objects
  <2> QED
    BY <1>2, <2>1, <2>2
<1>8. CASE EvictV1Fails(i)
  <2>1. Reach(pc[i]) = 0 /\ Place(i, "failed", IncrementFailedEvictionCounter(er[i]))
    BY <1>8 DEF EvictV1Fails, Reach
  <2>2. IncrementFailedEvictionCounter(er[i]).class = er[i].class
    BY DEF IncrementFailedEvictionCounter, UpsertCondition, DefaultPolicy, Objects
  <2> QED
    BY <1>2, <2>1, <2>2
<1>9. CASE RecordSuccess(i)
  BY <1>9, PlaceIsLocal DEF RecordSuccess, Forget
<1>10. CASE RecordFailure(i)
  <2>1. Reach(pc[i]) = 0 /\ Place(i, "queued", er[i])
    BY <1>10 DEF RecordFailure, AddRateLimited, Reach
  <2> QED
    BY <1>2, <2>1
<1> QED
  BY <1>3, <1>4, <1>5, <1>6, <1>7, <1>8, <1>9, <1>10 DEF Worker

\* The same of every step and every copy; new copies are as they are stored or cached.
LEMMA StepsTakeOneTurn ==
  ASSUME TypeOK, [Next]_vars, NEW j \in Items, pc'[j] # "free"
  PROVE  \/ pc[j] # "free" /\ er'[j].rv = er[j].rv /\ request' = request /\ ~Accepts(er[j])
         \/ /\ pc[j] # "free" /\ er'[j].rv = er[j].rv
            /\ Index(er'[j]) + faults + Reach(pc[j]) <= Index(er[j]) + faults' + Reach(pc'[j])
         \/ er'[j] \in {request, cache} /\ request' = request
<1> er[j] \in Objects /\ faults \in Nat /\ Index(er[j]) \in Nat
  BY IndexFacts DEF TypeOK
<1>1. faults' \in {faults, faults + 1}
  BY FaultsAreCounted
<1>2. CASE pc[j] # "free" /\ pc'[j] = pc[j] /\ er'[j] = er[j]
  BY <1>1, <1>2 DEF Reach
<1>3. ASSUME NEW i \in Items, Worker(i), i # j
      PROVE  pc[j] # "free" /\ pc'[j] = pc[j] /\ er'[j] = er[j]
  <2> \E where, new : Place(i, where, new)
    BY <1>3, WorkerPlaces DEF Forget
  <2> QED
    BY <1>3, PlaceIsLocal
<1>4. CASE Worker(j)
  <2>1. pc[j] # "free" /\ er'[j].rv = er[j].rv
    BY <1>4, WorkerPlaces, PlaceIsLocal, AssignsKeepsVersion DEF Forget
  <2> QED
    BY <1>4, <2>1, WorkersTakeOneTurn
<1>5. ASSUME NEW obj, Enqueue(obj)
      PROVE  (pc[j] # "free" /\ pc'[j] = pc[j] /\ er'[j] = er[j]) \/ er'[j] = obj
  <2> PICK i \in Items : pc[i] = "free" /\ Place(i, "queued", obj)
    BY <1>5 DEF Enqueue
  <2> QED
    BY PlaceIsLocal
<1>6. CASE WatchEvictionRequests
  BY <1>2, <1>5, <1>6 DEF WatchEvictionRequests
<1>7. CASE Resync
  BY <1>2, <1>5, <1>7 DEF Resync
<1>8. CASE pc' = pc /\ er' = er
  BY <1>2, <1>8
<1>9. CASE WatchPods \/ Environment \/ UNCHANGED vars
  BY <1>8, <1>9 DEF WatchPods, Environment, InterceptorReports, InterceptorCompletes,
                    InterceptorForbidsCancellation, WithdrawRequesters, DeleteRequest,
                    Write, PodDeleted, PodStopped, PodRecreated, DeadlinePasses, vars
<1>10. CASE Restart
  <2>1. pc[j] # "free" /\ er'[j] = er[j]
    BY <1>10, RestartKeepsCopies DEF Calling, Late, Running
  <2>2. faults' = faults + 1
    BY <1>10 DEF Restart
  <2> QED
    BY <2>1, <2>2 DEF Reach
<1>11. ASSUME NEW i \in Items, LateCall(i)
       PROVE  pc[j] # "free" /\ pc'[j] = pc[j] /\ er'[j] = er[j]
  <2>1. Place(i, "free", NoObject)
    BY <1>11, LateCallEffects DEF Forget
  <2> QED
    BY <2>1, PlaceIsLocal
<1> QED
  BY <1>2, <1>3, <1>4, <1>6, <1>7, <1>9, <1>10, <1>11 DEF Next, Controller

LEMMA StepsKeepInStep ==
  TypeOK /\ CopiesRunAhead /\ InStep /\ [Next]_vars => InStep'
<1> SUFFICES ASSUME TypeOK, CopiesRunAhead, InStep, [Next]_vars,
                    NEW j \in Items, pc'[j] # "free", request'.exists, er'[j].rv = request'.rv
             PROVE  Index(er'[j]) <= Index(request') + faults' + Reach(pc'[j])
  BY DEF InStep, Live, Accepts
<1> TypeOK'
  BY StepsKeepTypes
<1> /\ request \in Objects /\ \A i \in Items : er[i] \in Objects /\ er'[i] \in Objects
    /\ faults \in Nat /\ faults' \in Nat /\ Reach(pc[j]) \in Nat /\ Reach(pc'[j]) \in Nat
    /\ Index(request) \in Nat /\ Index(er[j]) \in Nat /\ Index(er'[j]) \in Nat
    /\ request.rv \in Nat
  BY IndexFacts DEF TypeOK, Objects, Reach
<1>1. CASE pc[j] # "free" /\ er'[j].rv = er[j].rv
  <2>1. er[j].rv <= request.rv
    BY <1>1 DEF CopiesRunAhead, Live
  <2>2. request' = request
    <3>1. Unselected(request)
      BY DEF CopiesRunAhead, Unselected
    <3>2. request' = request \/ request'.rv = request.rv + 1
      <4>1. ASSUME NEW i \in Items, pc[i] # "free", Accepts(er[i]), request' = Stored(er[i])
            PROVE  request' = request \/ request'.rv = request.rv + 1
        <5>1. AheadOf(er[i], request, elapsed)
          BY <4>1, AheadIsAheadOf DEF CopiesRunAhead, Live, Accepts
        <5> QED
          BY <3>1, <4>1, <5>1, StoringACopy
      <4> QED
        BY <3>1, <4>1, WritingAsAnOutsider, RequestAfterStep
    <3> QED
      BY <1>1, <2>1, <3>2
  <2>3. Accepts(er[j])
    BY <1>1, <2>2 DEF Accepts
  <2>4. Index(er[j]) <= Index(request) + faults + Reach(pc[j])
    BY <1>1, <2>3 DEF InStep, Live
  <2>5. Index(er'[j]) + faults + Reach(pc[j]) <= Index(er[j]) + faults' + Reach(pc'[j])
        \/ er'[j] \in {request, cache}
    BY <2>3, StepsTakeOneTurn
  <2>6. er'[j] \in {request, cache} => er'[j] = request
    BY <2>2 DEF CopiesRunAhead
  <2> QED
    BY <2>2, <2>4, <2>5, <2>6
<1>2. CASE er'[j] \in {request, cache} /\ request' = request
  <2>1. er'[j] = request
    BY <1>2 DEF CopiesRunAhead
  <2> QED
    BY <1>2, <2>1
<1> QED
  BY <1>1, <1>2, StepsTakeOneTurn

LEMMA CopiesAreInStep == Spec => []InStep
<1>1. Init => InStep
  BY DEF Init, InStep, Live
<1>2. TypeOK /\ CopiesRunAhead /\ InStep /\ [Next]_vars => InStep'
  BY StepsKeepInStep
<1> QED
  BY <1>1, <1>2, TypeCorrectness, CopiesNeverFallBehind, PTL DEF Spec

\* So a write that is accepted names the next interceptor, but for lost calls.
LEMMA WritesAreInStep ==
  ASSUME TypeOK, InStep, NEW i \in Items, pc[i] # "free", Accepts(er[i])
  PROVE  Index(er[i]) <= Index(request) + 1 + faults
<1>1. /\ Index(request) \in Nat /\ Index(er[i]) \in Nat /\ faults \in Nat
      /\ Reach(pc[i]) \in {0, 1}
  BY IndexFacts DEF TypeOK, Reach
<1>2. Index(er[i]) <= Index(request) + faults + Reach(pc[i])
  BY DEF InStep, Live
<1> QED
  BY <1>1, <1>2

LEMMA StepsHandOverWithCause ==
  ASSUME TypeOK, CopiesRunAhead, InStep, [Next]_vars, request'.class # request.class
  PROVE  Selection \/ HandOver
<1> request \in Objects /\ \A i \in Items : er[i] \in Objects
  BY DEF TypeOK
<1>1. ~OutsideWrite
  BY DEF OutsideWrite, InterceptorReports, InterceptorCompletes,
         InterceptorForbidsCancellation, WithdrawRequesters, DeleteRequest, Write, Objects
<1>2. PICK i \in Items : pc[i] # "free" /\ Accepts(er[i]) /\ request' = Stored(er[i])
  BY <1>1, RequestAfterStep
<1>3. AheadOf(er[i], request, elapsed)
  BY <1>2, AheadIsAheadOf DEF CopiesRunAhead, Live, Accepts
<1>4. request'.class = er[i].class
  BY <1>2 DEF Stored, Objects
<1>5. /\ er[i].class \in Classes \cup {NoClass} /\ request.class \in Classes \cup {NoClass}
      /\ Index(er[i]) \in Nat /\ Index(request) \in Nat
      /\ Index(er[i]) = 0 <=> er[i].class = NoClass
      /\ Index(request) = 0 <=> request.class = NoClass
  BY IndexFacts DEF Objects
<1>6. CASE request.class = NoClass
  <2>1. Index(er[i]) = 1 /\ er[i].class \in Classes
    BY <1>3, <1>4, <1>5, <1>6 DEF AheadOf
  <2> QED
    BY <1>4, <1>6, <2>1, PriorityDescends DEF Selection, Index
<1>7. CASE request.class # NoClass
  <2>1. er[i].completed /\ Index(request) < Index(er[i])
    BY <1>3, <1>4, <1>7 DEF AheadOf
  <2>2. er[i].class \in Classes /\ request.class \in Classes
    BY <1>5, <1>7, <2>1
  <2>3. request.completed \/ Expired(request)
    BY <1>3, <2>1 DEF AheadOf, Expired
  <2>4. findInterceptorIndex(request.class) <= findInterceptorIndex(er[i].class)
    BY <1>5, <2>1 DEF Index
  <2>5. Index(request') \in (Index(request) + 1) .. (Index(request) + 1 + faults)
    <3>1. Index(request') = Index(er[i]) /\ faults \in Nat
      BY <1>4 DEF Index, TypeOK
    <3>2. Index(er[i]) <= Index(request) + 1 + faults
      BY <1>2, WritesAreInStep
    <3> QED
      BY <1>5, <2>1, <3>1, <3>2
  <2> QED
    BY <1>4, <1>7, <2>2, <2>3, <2>4, <2>5, PriorityDescends DEF HandOver
<1> QED
  BY <1>6, <1>7

\* The first interceptor named has the highest priority, and is left only after it
\* completed or let its deadline pass.  From there the request goes from one to the
\* next, down in priority; only a lost call makes it pass over one.
THEOREM HandOversHaveCause == Spec => HandOverHasCause
<1>1. TypeOK /\ CopiesRunAhead /\ InStep /\ [Next]_vars
        => [request'.class # request.class => Selection \/ HandOver]_vars
  BY StepsHandOverWithCause
<1> QED
  BY <1>1, TypeCorrectness, CopiesNeverFallBehind, CopiesAreInStep, PTL
     DEF Spec, HandOverHasCause

-----------------------------------------------------------------------------
(* The status tells what happened.                                         *)

\* What an object says of the evictions so far is true.
Truthful(obj) ==
  /\ obj.counter <= failures
  /\ obj.evicted = "True" => evictions # {}
  /\ obj.evicted = "False" => obj.counter > 0
  /\ obj.counter > 0 => obj.evicted # "Unset"

\* The stored object, the cached one and every copy are truthful.
AllTruthful ==
  /\ Truthful(request)
  /\ Truthful(cache)
  /\ \A i \in Items : Live(i) => Truthful(er[i])

LEMMA HistoryGrows ==
  ASSUME TypeOK, [Next]_vars
  PROVE  failures <= failures' /\ evictions \subseteq evictions'
<1> failures \in Nat
  BY DEF TypeOK
<1>1. ASSUME NEW i \in Items, Worker(i)
      PROVE  failures' \in {failures, failures + 1} /\ evictions \subseteq evictions'
  <2>1. CASE EvictV1Succeeds(i)
    BY <2>1 DEF EvictV1Succeeds, AcceptEviction
  <2>2. CASE EvictV1Fails(i)
    <3>1. evictions \subseteq evictions'
      BY <2>2 DEF EvictV1Fails, AcceptEviction
    <3> QED
      BY <2>2, <3>1 DEF EvictV1Fails
  <2>3. CASE ~EvictV1Succeeds(i) /\ ~EvictV1Fails(i)
    BY <1>1, <2>3 DEF Worker, ReconcileEvictionRequest, DefaultCancellationPolicy,
                      updateEvictionRequestStatus, Perform, RecordSuccess, RecordFailure
  <2> QED
    BY <2>1, <2>2, <2>3
<1>2. CASE WatchEvictionRequests \/ Resync \/ WatchPods \/ Restart
  BY <1>2 DEF WatchEvictionRequests, Resync, WatchPods, Restart
<1>3. CASE Environment
  BY <1>3 DEF Environment, InterceptorReports, InterceptorCompletes,
              InterceptorForbidsCancellation, WithdrawRequesters, DeleteRequest, Write,
              PodDeleted, PodStopped, PodRecreated, DeadlinePasses
<1>4. CASE UNCHANGED vars
  BY <1>4 DEF vars
<1>5. ASSUME NEW i \in Items, LateCall(i)
      PROVE  failures' = failures /\ evictions \subseteq evictions'
  BY <1>5, LateCallEffects DEF AcceptEviction
<1> QED
  BY <1>1, <1>2, <1>3, <1>4, <1>5 DEF Next, Controller

\* Truth lasts, and what a worker assigns after a call of EvictV1 is true.
LEMMA TruthLasts ==
  ASSUME TypeOK, [Next]_vars, NEW old \in Objects, Truthful(old)
  PROVE  /\ old.counter <= failures'
         /\ old.evicted = "True" => evictions' # {}
<1>1. old.counter \in Nat /\ failures \in Nat /\ failures' \in Nat
  BY StepsKeepTypes DEF TypeOK, Objects
<1>2. failures <= failures' /\ evictions \subseteq evictions'
  BY HistoryGrows
<1>3. old.counter <= failures /\ (old.evicted = "True" => evictions # {})
  BY DEF Truthful
<1>4. old.counter <= failures'
  BY <1>1, <1>2, <1>3
<1>5. old.evicted = "True" => evictions' # {}
  BY <1>2, <1>3
<1> QED
  BY <1>4, <1>5

LEMMA AssignsIsTruthful ==
  ASSUME TypeOK, [Next]_vars, NEW old \in Objects, NEW new,
         Truthful(old), Assigns(old, new)
  PROVE  /\ new.counter <= failures'
         /\ new.evicted = "True" => evictions' # {}
         /\ new.evicted = "False" => new.counter > 0
         /\ new.counter > 0 => new.evicted # "Unset"
<1> old.counter \in Nat /\ failures \in Nat
  BY DEF TypeOK, Objects
<1>1. CASE new.counter = old.counter /\ new.evicted = old.evicted
  BY <1>1, TruthLasts DEF Truthful
<1>2. CASE Handled(old, new) \/ (old.policy = "Unset" /\ new = [old EXCEPT !.policy = "Allow"])
  <2>1. new.counter = old.counter /\ new.evicted = old.evicted
    BY <1>2 DEF Handled, selectInitialInterceptor, selectNextInterceptor,
                markInterceptorAsCompleted, Objects
  <2> QED
    BY <1>1, <2>1
<1>3. CASE evictions' # {} /\ new = UpsertCondition(old, "True")
  <2>1. new.counter = old.counter /\ new.evicted = "True"
    BY <1>3 DEF UpsertCondition, DefaultPolicy, Objects
  <2> QED
    BY <1>3, <2>1, TruthLasts
<1>4. CASE failures' = failures + 1 /\ new = IncrementFailedEvictionCounter(old)
  <2>1. new.counter = old.counter + 1 /\ new.evicted = "False"
    BY <1>4 DEF IncrementFailedEvictionCounter, UpsertCondition, DefaultPolicy, Objects
  <2>2. old.counter <= failures
    BY DEF Truthful
  <2> QED
    BY <1>4, <2>1, <2>2
<1> QED
  BY <1>2, <1>3, <1>4 DEF Assigns

LEMMA TruthAtInit == Init => AllTruthful
BY DEF Init, AllTruthful, Truthful, CreatedObject, NoObject, Live

LEMMA StepsKeepTruth == TypeOK /\ AllTruthful /\ [Next]_vars => AllTruthful'
<1> SUFFICES ASSUME TypeOK, AllTruthful, [Next]_vars
             PROVE  AllTruthful'
  OBVIOUS
<1> /\ request \in Objects /\ cache \in Objects /\ \A i \in Items : er[i] \in Objects
    /\ failures' \in Nat
  BY StepsKeepTypes DEF TypeOK
<1> DEFINE True(obj) == /\ obj.counter <= failures'
                        /\ obj.evicted = "True" => evictions' # {}
                        /\ obj.evicted = "False" => obj.counter > 0
                        /\ obj.counter > 0 => obj.evicted # "Unset"
<1>1. \A obj \in Objects : Truthful(obj) => True(obj)
  BY TruthLasts DEF Truthful
<1>2. True(request) /\ True(cache) /\ \A i \in Items : Live(i) => True(er[i])
  BY <1>1 DEF AllTruthful
<1>3. True(request')
  <2>1. ASSUME NEW i \in Items, pc[i] # "free", request' = Stored(er[i])
        PROVE  True(request')
    <3>1. \/ request' = request
          \/ request'.counter = er[i].counter /\ request'.evicted = er[i].evicted
      BY <2>1 DEF Stored, Objects
    <3> QED
      BY <1>2, <2>1, <3>1 DEF Live
  <2>2. CASE OutsideWrite
    <3>1. request'.counter = request.counter /\ request'.evicted = request.evicted
      BY <2>2 DEF OutsideWrite, InterceptorReports, InterceptorCompletes,
                  InterceptorForbidsCancellation, WithdrawRequesters, DeleteRequest,
                  Write, Objects
    <3> QED
      BY <1>2, <3>1
  <2> QED
    BY <1>2, <2>1, <2>2, RequestAfterStep
<1>4. True(cache')
  <2>1. True(NoObject)
    BY DEF NoObject, CreatedObject
  <2> QED
    BY <1>2, <2>1, CacheAfterStep
<1>5. ASSUME NEW j \in Items, pc'[j] # "free"
      PROVE  True(er'[j])
  <2>1. CASE pc[j] # "free" /\ Assigns(er[j], er'[j])
    BY <2>1, AssignsIsTruthful DEF AllTruthful, Live
  <2>2. CASE er'[j] = request \/ er'[j] = cache
    BY <1>2, <2>2
  <2> QED
    BY <1>5, <2>1, <2>2, CopiesAfterStep
<1> QED
  BY <1>3, <1>4, <1>5 DEF AllTruthful, Truthful, Live

\* Whatever object may be stored next tells the truth, not only the stored one.
LEMMA EverythingIsTruthful == Spec => []AllTruthful
<1>1. Init => TypeOK /\ AllTruthful
  BY TypesAtInit, TruthAtInit
<1>2. TypeOK /\ AllTruthful /\ [Next]_vars => (TypeOK /\ AllTruthful)'
  BY StepsKeepTypes, StepsKeepTruth
<1> QED
  BY <1>1, <1>2, PTL DEF Spec

\* The stored counter never claims a failed eviction that did not happen.
THEOREM CounterIsTruthful == Spec => []CounterNeverOvercounts
<1>1. AllTruthful => CounterNeverOvercounts
  BY DEF AllTruthful, Truthful, CounterNeverOvercounts
<1> QED
  BY <1>1, EverythingIsTruthful, PTL

\* The stored condition claims an eviction only if one was accepted, a failure only
\* if there was one, and hides none that is counted.
THEOREM StatusIsTruthful == Spec => []StatusTellsWhatHappened
<1>1. AllTruthful => StatusTellsWhatHappened
  BY DEF AllTruthful, Truthful, StatusTellsWhatHappened
<1> QED
  BY <1>1, EverythingIsTruthful, PTL

-----------------------------------------------------------------------------
(* The eviction has a cause.                                               *)

\* An interceptor has completed, or some report was not followed by another.
Cause == request.completed \/ elapsed > 0

\* Nobody holds an object that shows completion without a cause, and an item gets
\* to the eviction only when it has run out of interceptors.
CauseKept ==
  /\ cache.completed => Cause
  /\ \A i \in Items : Live(i) =>
        /\ er[i].completed => Cause
        /\ pc[i] \in {"perform", "evict", "lateEvict"} => NoneLeft(er[i])

LEMMA CauseLasts ==
  ASSUME TypeOK, CopiesRunAhead, [Next]_vars, Cause
  PROVE  Cause'
<1>1. request.completed => request'.completed
  BY StepsUndoNothing DEF NothingUndone
<1>2. elapsed > 0 => elapsed' > 0
  BY TimePasses, StepsKeepTypes DEF TypeOK
<1> QED
  BY <1>1, <1>2 DEF Cause

LEMMA AssignsHasCause ==
  ASSUME TypeOK, NEW old \in Objects, NEW new, Assigns(old, new), new.completed
  PROVE  old.completed \/ elapsed > 0
<1>1. CASE Expired(old)
  BY <1>1 DEF Expired, TypeOK, Objects
<1>2. CASE ~Expired(old)
  BY <1>2 DEF Assigns, Handled, selectInitialInterceptor, selectNextInterceptor,
              UpsertCondition, DefaultPolicy, IncrementFailedEvictionCounter, Objects
<1> QED
  BY <1>1, <1>2

LEMMA StepsKeepCause ==
  TypeOK /\ CopiesRunAhead /\ CauseKept /\ [Next]_vars => CauseKept'
<1> SUFFICES ASSUME TypeOK, CopiesRunAhead, CauseKept, [Next]_vars
             PROVE  CauseKept'
  OBVIOUS
<1> \A i \in Items : er[i] \in Objects
  BY DEF TypeOK
<1>1. request.completed => Cause'
  BY CauseLasts DEF Cause
<1>2. cache.completed => Cause'
  BY CauseLasts DEF CauseKept
<1>3. cache'.completed => Cause'
  BY <1>1, <1>2, CacheAfterStep DEF NoObject, CreatedObject
<1>4. ASSUME NEW j \in Items, pc'[j] # "free", er'[j].completed
      PROVE  Cause'
  <2>1. CASE pc[j] # "free" /\ Assigns(er[j], er'[j])
    <3>1. er[j].completed \/ elapsed > 0
      BY <1>4, <2>1, AssignsHasCause
    <3> QED
      BY <2>1, <3>1, CauseLasts DEF CauseKept, Live, Cause
  <2> QED
    BY <1>1, <1>2, <1>4, <2>1, CopiesAfterStep
<1>5. ASSUME NEW j \in Items, pc'[j] \in {"perform", "evict", "lateEvict"}
      PROVE  NoneLeft(er'[j])
  <2>1. CASE pc'[j] = pc[j] /\ er'[j] = er[j]
    BY <1>5, <2>1 DEF CauseKept, Live
  <2>2. ASSUME NEW i \in Items, Worker(i)
        PROVE  NoneLeft(er'[j])
    <3>1. CASE Forget(i)
      BY <1>5, <2>1, <3>1, PlaceIsLocal DEF Forget
    <3>2. ASSUME NEW where \in PC \ Late, NEW new \in Objects, Place(i, where, new),
                 where = "perform" => NoneLeft(new) /\ new = er[i],
                 where = "evict" => pc[i] = "perform" /\ new = er[i]
          PROVE  NoneLeft(er'[j])
      <4>1. CASE i = j
        BY <1>5, <3>2, <4>1, PlaceIsLocal DEF CauseKept, Live, Late
      <4>2. CASE i # j
        BY <2>1, <3>2, <4>2, PlaceIsLocal
      <4> QED
        BY <4>1, <4>2
    <3> QED
      BY <2>2, <3>1, <3>2, WorkerPlaces
  <2>3. ASSUME NEW obj, Enqueue(obj)
        PROVE  NoneLeft(er'[j])
    <3> PICK i \in Items : Place(i, "queued", obj)
      BY <2>3 DEF Enqueue
    <3>1. i # j
      BY <1>5, PlaceIsLocal
    <3> QED
      BY <2>1, <3>1, PlaceIsLocal
  <2>4. CASE pc' = pc /\ er' = er
    BY <2>1, <2>4
  <2>5. CASE WatchEvictionRequests \/ Resync
    BY <2>3, <2>4, <2>5 DEF WatchEvictionRequests, Resync
  <2>6. CASE WatchPods
    BY <2>4, <2>6 DEF WatchPods
  <2>7. CASE Environment
    BY <2>4, <2>7 DEF Environment, InterceptorReports, InterceptorCompletes,
                      InterceptorForbidsCancellation, WithdrawRequesters, DeleteRequest,
                      Write, PodDeleted, PodStopped, PodRecreated, DeadlinePasses
  <2>8. CASE UNCHANGED vars
    BY <2>4, <2>8 DEF vars
  <2>9. CASE Restart
    <3>1. pc'[j] \in Late /\ er'[j] = er[j] /\ pc[j] \in {"evict", "lateEvict"}
      BY <1>5, <2>9, RestartKeepsCopies DEF Late
    <3> QED
      BY <3>1 DEF CauseKept, Live
  <2>10. ASSUME NEW i \in Items, LateCall(i)
         PROVE  NoneLeft(er'[j])
    BY <1>5, <2>1, <2>10, LateCallEffects, PlaceIsLocal DEF Forget
  <2> QED
    BY <2>2, <2>5, <2>6, <2>7, <2>8, <2>9, <2>10 DEF Next, Controller
<1> QED
  BY <1>3, <1>4, <1>5 DEF CauseKept, Live

\* The invariant behind EvictionHasCause.
LEMMA CauseIsKept == Spec => []CauseKept
<1>1. Init => CauseKept
  BY DEF Init, CauseKept, CreatedObject, NoObject, Live
<1>2. TypeOK /\ CopiesRunAhead /\ CauseKept /\ [Next]_vars => CauseKept'
  BY StepsKeepCause
<1> QED
  BY <1>1, <1>2, TypeCorrectness, CopiesNeverFallBehind, PTL DEF Spec

LEMMA CauseOfEvictions == TypeOK /\ CauseKept => EvictionHasCause
<1> SUFFICES ASSUME TypeOK, CauseKept, Interceptors # <<>>,
                    NEW i \in Items, pc[i] \in {"perform", "evict", "lateEvict"}
             PROVE  Index(er[i]) = Len(Interceptors) /\ (request.completed \/ elapsed > 0)
  BY DEF EvictionHasCause
<1>1. er[i] \in Objects
  BY DEF TypeOK
<1>2. er[i].class # NoClass /\ er[i].completed /\ ~HasNextInterceptor(er[i])
  BY DEF CauseKept, Live, NoneLeft
<1>3. er[i].completed => Cause
  BY DEF CauseKept, Live
<1>4. Index(er[i]) = Len(Interceptors)
  BY <1>1, <1>2, IndexFacts, ListDomain DEF HasNextInterceptor, Index
<1> QED
  BY <1>2, <1>3, <1>4 DEF Cause

\* The eviction API is called only after the interceptors, down to the one of the
\* lowest priority, and only if one completed or let its deadline pass; a call that
\* is still on its way when another process leads is no exception.
THEOREM EvictionsHaveCause == Spec => []EvictionHasCause
BY CauseOfEvictions, TypeCorrectness, CauseIsKept, PTL
=============================================================================
