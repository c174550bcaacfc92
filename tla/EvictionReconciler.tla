------------------------- MODULE EvictionReconciler -------------------------
(***************************************************************************)
(* One EvictionRequest and the pod it names, reconciled by a pool of       *)
(* workers that share a work queue, against an API server that checks      *)
(* resource versions, with informer caches that lag the server.            *)
(*                                                                         *)
(* worker.Enqueue adds a deep copy of the object: the queue compares its   *)
(* items by pointer, so every event makes an item of its own, and several  *)
(* items for the same request may be processed at the same time.  An item  *)
(* keeps its copy, with what the handlers assigned to it, when it is put   *)
(* back on the queue after an error.  A worker only matters through the    *)
(* item it holds, so the position in the code is kept per item.            *)
(*                                                                         *)
(* A step runs from one access to shared state (the queue, a lister, the   *)
(* API server) to the next.                                                *)
(***************************************************************************)
EXTENDS InterceptorHandler, StatusHandler, FiniteSets

CONSTANTS
  Items,         \* bound: the work items that can be alive at the same time
  WorkerCount,   \* _workerCount
  MaxBeats,      \* bound: heartbeats the interceptors report
  MaxFailures,   \* bound: calls of EvictV1 that fail
  MaxFaults,     \* bound: lost status calls and restarts of the controller
  MaxUID,        \* bound: incarnations of the pod
  Outside        \* what users and interceptors do, out of OutsideEvents

OutsideEvents == {"complete", "policy", "delete", "withdraw", "podLost"}

ASSUME BoundsAssumption ==
  /\ WorkerCount \in Nat \ {0}
  /\ MaxBeats \in Nat /\ MaxFailures \in Nat /\ MaxFaults \in Nat
  /\ MaxUID \in Nat \ {0}
  /\ Outside \subseteq OutsideEvents

VARIABLES
  request,    \* the object stored by the API server
  cache,      \* the informer's copy of it; NoObject when it holds none
  pod,        \* the pod with the target's name, in the API server
  podCache,   \* the incarnation the pod lister returns, or NoPod
  pc,         \* where the processing of each work item stands
  er,         \* the object each work item carries
  elapsed,    \* the last heartbeat report whose deadline has passed
  faults,     \* status calls lost and restarts so far
  failures,   \* history: calls of EvictV1 that failed so far
  evictions   \* history: incarnations of the pod the API server evicted

vars == <<request, cache, pod, podCache, pc, er, elapsed, faults, failures, evictions>>

\* "free": no such item.  "queued": in the queue or in its rate limiter.
\* Running: held by a worker that is about to make that call.
\* Late: a call on its way from a process that no longer leads.
Running == {"policy", "update", "perform", "evict", "succeeded", "failed"}
Late    == {"lateWrite", "lateEvict"}
PC      == {"free", "queued"} \cup Running \cup Late

Pods == [uid : Nat, phase : {"running", "terminating", "gone"}]

TypeOK ==
  /\ request \in Objects
  /\ cache \in Objects
  /\ pod \in Pods
  /\ podCache \in Nat
  /\ pc \in [Items -> PC]
  /\ er \in [Items -> Objects]
  /\ elapsed \in Nat
  /\ faults \in Nat
  /\ failures \in Nat
  /\ evictions \subseteq Nat

Init ==
  /\ request = CreatedObject
  /\ cache = NoObject
  /\ pod = [uid |-> TargetUID, phase |-> "running"]
  /\ podCache \in {NoPod, TargetUID}
  /\ pc = [i \in Items |-> "free"]
  /\ er = [i \in Items |-> NoObject]
  /\ elapsed = 0
  /\ faults = 0
  /\ failures = 0
  /\ evictions = {}

-----------------------------------------------------------------------------
(* The work queue, as worker.go uses it.                                   *)

Place(i, where, obj) ==
  /\ pc' = [pc EXCEPT ![i] = where]
  /\ er' = [er EXCEPT ![i] = obj]

\* A deep copy of the object becomes a new item.
Enqueue(obj) ==
  \E i \in Items : pc[i] = "free" /\ Place(i, "queued", obj)

Get(i) ==
  /\ pc[i] = "queued"
  /\ Cardinality({j \in Items : pc[j] \in Running}) < WorkerCount

\* Slip: a conflict is answered by taking over the latest resource version.
AddLatestVersion(i, obj) == Place(i, "queued", [obj EXCEPT !.rv = request.rv])

\* The same pointer, with its copy as the handlers left it.
AddRateLimited(i, obj) == Place(i, "queued", obj)

Forget(i) == Place(i, "free", NoObject)

-----------------------------------------------------------------------------
(* UpdateStatus on the API server.                                         *)

\* Optimistic concurrency: the version of the copy must be the stored one.
Accepts(obj) == request.exists /\ obj.rv = request.rv

\* A write that changes nothing makes no new version.
Stored(obj) == IF obj = request THEN request ELSE [obj EXCEPT !.rv = @ + 1]

UpdateSucceeds(obj) ==
  /\ Accepts(obj)
  /\ request' = Stored(obj)
  /\ UNCHANGED faults

\* A conflict or a deleted object, or a call lost before or after the write.
UpdateFails(obj) ==
  \/ ~Accepts(obj) /\ UNCHANGED <<request, faults>>
  \/ /\ faults < MaxFaults
     /\ faults' = faults + 1
     /\ \/ UNCHANGED request
        \/ Accepts(obj) /\ request' = Stored(obj)

-----------------------------------------------------------------------------
(* The reconciler.  Handle and Dispatch continue the step that calls them, *)
(* with obj the copy of item i as that step left it.                       *)

\* Slip: a heartbeat that is nil counts as one of long ago.
ExpiredOrNil(obj) == obj.heartbeat <= elapsed

Expired(obj) == obj.heartbeat # 0 /\ obj.heartbeat <= elapsed

\* Slip: nothing is left to do after the last interceptor.
stopAtLastInterceptor(i, obj) ==
  \/ HasNextInterceptor(obj) /\ Place(i, "update", selectNextInterceptor(obj))
  \/ ~HasNextInterceptor(obj) /\ Forget(i)

handleCompletedInterceptor(i, obj) ==
  \/ HasNextInterceptor(obj) /\ Place(i, "update", selectNextInterceptor(obj))
  \/ ~HasNextInterceptor(obj) /\ Place(i, "perform", obj)

\* Slip: the deadline is not looked at.
waitForInterceptor(i, obj) == Forget(i)

checkInterceptorTimeout(i, obj) ==
  \/ Expired(obj) /\ Place(i, "update", markInterceptorAsCompleted(obj))
  \/ ~Expired(obj) /\ Forget(i)

\* Slip: an active interceptor is taken to have completed.
HandleAsCompleted(i, obj) ==
  \/ obj.class = NoClass /\ Place(i, "update", selectInitialInterceptor(obj))
  \/ obj.class # NoClass /\ handleCompletedInterceptor(i, obj)

Handle(i, obj) ==
  \/ obj.class = NoClass /\ Place(i, "update", selectInitialInterceptor(obj))
  \/ obj.class # NoClass /\ obj.completed /\ handleCompletedInterceptor(i, obj)
  \/ obj.class # NoClass /\ ~obj.completed /\ checkInterceptorTimeout(i, obj)

Dispatch(i, obj) ==
  \/ Interceptors # <<>> /\ Handle(i, obj)
  \/ Interceptors = <<>> /\ Place(i, "perform", obj)

\* Slip: a pod that is not found is an error like any other.
ReconcileOrRetry(i) ==
  /\ Get(i)
  /\ \/ podCache # TargetUID /\ AddRateLimited(i, er[i])
     \/ /\ podCache = TargetUID
        /\ er[i].policy = "Unset"
        /\ Place(i, "policy", [er[i] EXCEPT !.policy = "Allow"])
     \/ podCache = TargetUID /\ er[i].policy # "Unset" /\ Dispatch(i, er[i])
  /\ UNCHANGED <<request, cache, pod, podCache, elapsed, faults, failures, evictions>>

\* A worker takes an item and looks the pod up in the lister.
ReconcileEvictionRequest(i) ==
  /\ Get(i)
  /\ \/ podCache # TargetUID /\ Forget(i)
     \/ /\ podCache = TargetUID
        /\ er[i].policy = "Unset"
        /\ Place(i, "policy", [er[i] EXCEPT !.policy = "Allow"])
     \/ podCache = TargetUID /\ er[i].policy # "Unset" /\ Dispatch(i, er[i])
  /\ UNCHANGED <<request, cache, pod, podCache, elapsed, faults, failures, evictions>>

\* The first status write.  The object UpdateStatus returns is dropped, so the
\* copy keeps its old resource version.
DefaultCancellationPolicy(i) ==
  /\ pc[i] = "policy"
  /\ \/ UpdateSucceeds(er[i]) /\ Dispatch(i, er[i])
     \/ UpdateFails(er[i]) /\ AddRateLimited(i, er[i])
  /\ UNCHANGED <<cache, pod, podCache, elapsed, failures, evictions>>

\* The status write that ends the interceptor handler.
updateEvictionRequestStatus(i) ==
  /\ pc[i] = "update"
  /\ \/ UpdateSucceeds(er[i]) /\ Forget(i)
     \/ UpdateFails(er[i]) /\ AddRateLimited(i, er[i])
  /\ UNCHANGED <<cache, pod, podCache, elapsed, failures, evictions>>

\* EvictV1 fails with "not found" until the pod lister notices that the pod is
\* gone.  The calls in progress stay within the bound on failures.
Evicting == {i \in Items : pc[i] = "evict"}
RoomToFail(n) == failures + Cardinality(Evicting) + n <= MaxFailures

\* Perform looks the pod up a second time, by name only.
Perform(i) ==
  /\ pc[i] = "perform"
  /\ \/ podCache = NoPod /\ Forget(i)
     \/ /\ podCache # NoPod
        /\ pod.phase = "gone" => RoomToFail(1)
        /\ Place(i, "evict", er[i])
  /\ UNCHANGED <<request, cache, pod, podCache, elapsed, faults, failures, evictions>>

\* The API server starts a graceful deletion of whatever pod has the name.
AcceptEviction ==
  /\ pod.phase # "gone"
  /\ pod' = [pod EXCEPT !.phase = "terminating"]
  /\ evictions' = evictions \cup {pod.uid}

EvictV1Succeeds(i) ==
  /\ pc[i] = "evict"
  /\ AcceptEviction
  /\ Place(i, "succeeded", UpsertCondition(er[i], "True"))
  /\ UNCHANGED <<request, cache, podCache, elapsed, faults, failures>>

\* Refused by a disruption budget, not found, or the call was lost, before or
\* after the server acted on it.
EvictV1Fails(i) ==
  /\ pc[i] = "evict"
  /\ failures < MaxFailures
  /\ failures' = failures + 1
  /\ AcceptEviction \/ UNCHANGED <<pod, evictions>>
  /\ Place(i, "failed", IncrementFailedEvictionCounter(er[i]))
  /\ UNCHANGED <<request, cache, podCache, elapsed, faults>>

\* Perform ignores the error of UpsertCondition and returns nil.
RecordSuccess(i) ==
  /\ pc[i] = "succeeded"
  /\ UpdateSucceeds(er[i]) \/ UpdateFails(er[i])
  /\ Forget(i)
  /\ UNCHANGED <<cache, pod, podCache, elapsed, failures, evictions>>

\* Perform ignores the error of IncrementFailedEvictionCounter and returns the
\* error of EvictV1.
RecordFailure(i) ==
  /\ pc[i] = "failed"
  /\ UpdateSucceeds(er[i]) \/ UpdateFails(er[i])
  /\ AddRateLimited(i, er[i])
  /\ UNCHANGED <<cache, pod, podCache, elapsed, failures, evictions>>

Worker(i) ==
  \/ ReconcileEvictionRequest(i)
  \/ DefaultCancellationPolicy(i)
  \/ updateEvictionRequestStatus(i)
  \/ Perform(i)
  \/ EvictV1Succeeds(i)
  \/ EvictV1Fails(i)
  \/ RecordSuccess(i)
  \/ RecordFailure(i)

-----------------------------------------------------------------------------
(* The informers.                                                          *)

\* Add and update events enqueue the object; there is no delete handler.
\* Versions that were replaced before the event was handled may be skipped.
WatchEvictionRequests ==
  /\ cache.rv # request.rv
  /\ cache' = request
  /\ \/ request.exists /\ Enqueue(request)
     \/ ~request.exists /\ UNCHANGED <<pc, er>>
  /\ UNCHANGED <<request, pod, podCache, elapsed, faults, failures, evictions>>

\* Slip: the informer is created with a resync interval of zero.
NoResync == FALSE /\ UNCHANGED vars

\* Every DefaultResyncInterval the update handler is called with the cached object.
Resync ==
  /\ cache.exists
  /\ Enqueue(cache)
  /\ UNCHANGED <<request, cache, pod, podCache, elapsed, faults, failures, evictions>>

NamedPod == IF pod.phase = "gone" THEN NoPod ELSE pod.uid

WatchPods ==
  /\ podCache # NamedPod
  /\ podCache' = NamedPod
  /\ UNCHANGED <<request, cache, pod, pc, er, elapsed, faults, failures, evictions>>

\* A call of the worker is, or may be, on its way.
Calling == Late \cup (Running \ {"perform"})

\* The controller stops (or loses its lease) and starts anew, here or in another
\* replica: the queue is lost, and the caches are filled again, the pods first.
\* With the context cancelled no new call leaves the old process, but nothing
\* recalls the calls it has sent.
Restart ==
  /\ faults < MaxFaults
  /\ faults' = faults + 1
  /\ \E sent \in SUBSET {i \in Items : pc[i] \in Calling} :
       /\ pc' = [i \in Items |-> IF i \notin sent THEN "free"
                                ELSE IF pc[i] \in {"evict", "lateEvict"} THEN "lateEvict"
                                ELSE "lateWrite"]
       /\ er' = [i \in Items |-> IF i \in sent THEN er[i] ELSE NoObject]
  /\ cache' = NoObject
  /\ podCache' = NamedPod
  /\ UNCHANGED <<request, pod, elapsed, failures, evictions>>

\* A call of the old process gets to the API server after all, or never.
LateCall(i) ==
  /\ pc[i] \in Late
  /\ \/ /\ pc[i] = "lateWrite" /\ Accepts(er[i])
        /\ request' = Stored(er[i])
        /\ UNCHANGED <<pod, evictions>>
     \/ pc[i] = "lateEvict" /\ AcceptEviction /\ UNCHANGED request
     \/ UNCHANGED <<request, pod, evictions>>
  /\ Forget(i)
  /\ UNCHANGED <<cache, podCache, elapsed, faults, failures>>

-----------------------------------------------------------------------------
(* Interceptors, users, the kubelet and the clock.                         *)

\* A write by someone else: a new version of the stored object.
Write(obj) ==
  /\ request.exists
  /\ request' = [obj EXCEPT !.rv = @ + 1]
  /\ UNCHANGED <<cache, pod, podCache, pc, er, elapsed, faults, failures, evictions>>

InterceptorReports ==
  /\ request.class # NoClass
  /\ request.heartbeat < MaxBeats
  /\ Write([request EXCEPT !.heartbeat = @ + 1])

InterceptorCompletes ==
  /\ "complete" \in Outside
  /\ request.class # NoClass
  /\ ~request.completed
  /\ Write([request EXCEPT !.completed = TRUE])

InterceptorForbidsCancellation ==
  /\ "policy" \in Outside
  /\ request.class # NoClass
  /\ request.policy # "Forbid"
  /\ Write([request EXCEPT !.policy = "Forbid"])

\* The API documents that nobody withdraws or deletes a request whose cancellation
\* is forbidden (types.go:76-79, 218-219), but nothing enforces it.
WithdrawRequesters ==
  /\ "withdraw" \in Outside
  /\ request.requested
  /\ Write([request EXCEPT !.requested = FALSE])

DeleteRequest ==
  /\ "delete" \in Outside
  /\ Write([request EXCEPT !.exists = FALSE])

\* The pod is deleted by someone other than this controller.
PodDeleted ==
  /\ "podLost" \in Outside
  /\ pod.phase = "running"
  /\ pod' = [pod EXCEPT !.phase = "terminating"]
  /\ UNCHANGED <<request, cache, podCache, pc, er, elapsed, faults, failures, evictions>>

PodStopped ==
  /\ pod.phase = "terminating"
  /\ RoomToFail(0)
  /\ pod' = [pod EXCEPT !.phase = "gone"]
  /\ UNCHANGED <<request, cache, podCache, pc, er, elapsed, faults, failures, evictions>>

\* A pod of the same name is created, as a StatefulSet does.
PodRecreated ==
  /\ pod.phase = "gone"
  /\ pod.uid < MaxUID
  /\ pod' = [uid |-> pod.uid + 1, phase |-> "running"]
  /\ UNCHANGED <<request, cache, podCache, pc, er, elapsed, faults, failures, evictions>>

\* heartbeatDeadlineSeconds go by after the report numbered elapsed'.
DeadlinePasses ==
  /\ elapsed' \in (elapsed + 1) .. request.heartbeat
  /\ UNCHANGED <<request, cache, pod, podCache, pc, er, faults, failures, evictions>>

Environment ==
  \/ InterceptorReports
  \/ InterceptorCompletes
  \/ InterceptorForbidsCancellation
  \/ WithdrawRequesters
  \/ DeleteRequest
  \/ PodDeleted
  \/ PodStopped
  \/ PodRecreated
  \/ DeadlinePasses

Controller ==
  \/ \E i \in Items : Worker(i)
  \/ WatchEvictionRequests
  \/ Resync
  \/ WatchPods
  \/ Restart
  \/ \E i \in Items : LateCall(i)

Next == Controller \/ Environment

Spec == Init /\ [][Next]_vars

(***************************************************************************)
(* Fairness.  Every worker goes on, and client-go's queue is first-in      *)
(* first-out, so a queued item is taken; a call that was sent arrives or   *)
(* is lost; the watch and the resync go on; the kubelet stops a            *)
(* terminating pod; time passes.  In the code Enqueue always finds room:   *)
(* strong fairness makes up for the bound on Items, and for the bound on   *)
(* failures in PodStopped.                                                 *)
(***************************************************************************)
Fairness ==
  /\ \A i \in Items : WF_vars(Worker(i)) /\ WF_vars(LateCall(i))
  /\ SF_vars(WatchEvictionRequests)
  /\ SF_vars(Resync)
  /\ WF_vars(WatchPods)
  /\ SF_vars(PodStopped)
  /\ WF_vars(DeadlinePasses)

FairSpec == Spec /\ Fairness

-----------------------------------------------------------------------------
(* Safety.                                                                 *)

Index(obj) == findInterceptorIndex(obj.class)

Live(i) == pc[i] # "free"

\* The handlers assign to the copy before the write is known to succeed, so a
\* copy may be ahead of the version it was taken from; it is never behind it,
\* and it is ahead only for a cause the stored object shows.
Ahead(copy) ==
  /\ copy.exists = request.exists
  /\ copy.requested = request.requested
  /\ copy.heartbeat = request.heartbeat
  /\ copy.policy = request.policy \/ (request.policy = "Unset" /\ copy.policy = "Allow")
  /\ request.evicted # "Unset" => copy.evicted # "Unset"
  /\ request.counter <= copy.counter
  /\ request.completed => copy.completed
  /\ copy.completed => request.completed \/ Expired(request)
  /\ request.class = NoClass => Index(copy) \in {0, 1}
  /\ request.class # NoClass =>
        \/ copy.class = request.class
        \/ copy.completed /\ Index(request) < Index(copy)

\* A copy whose resource version is still the stored one is the stored object
\* with, at most, the assignments of one handler chain on top of it.  This is
\* what makes the version check of UpdateStatus protect everybody's fields.
CopiesRunAhead ==
  /\ 0 < request.rv
  /\ request.class = NoClass => request.heartbeat = 0 /\ ~request.completed
  /\ cache.rv <= request.rv
  /\ cache.rv = request.rv => cache = request
  /\ \A i \in Items : Live(i) =>
        /\ er[i].rv <= request.rv
        /\ er[i].rv = request.rv => Ahead(er[i])

\* The persisted counter never claims more failed evictions than there were,
\* whatever retries, duplicate items and lost writes happened in between.
CounterNeverOvercounts == request.counter <= failures

\* The status never claims what did not happen: the Evicted condition is True
\* only if an eviction was accepted, and False only if a call failed; a counted
\* failure shows in the condition until a success replaces it.
StatusTellsWhatHappened ==
  /\ request.evicted = "True" => evictions # {}
  /\ request.evicted = "False" => request.counter > 0
  /\ request.counter > 0 => request.evicted # "Unset"

\* The eviction API is called only when the interceptors were done with in some
\* way: there are none, or one has completed, or a deadline has passed.  It is
\* called for a copy that shows the lowest-priority interceptor, and that holds
\* for the calls of a process that no longer leads.
EvictionHasCause ==
  \A i \in Items : pc[i] \in {"perform", "evict", "lateEvict"} /\ Interceptors # <<>> =>
    /\ Index(er[i]) = Len(Interceptors)
    /\ request.completed \/ elapsed > 0

\* No write of the controller, made from a stale or retried copy, takes back
\* what the interceptors, the users or the controller itself stored before.
NothingUndone ==
  /\ Index(request) <= Index(request')
  /\ request.completed => request'.completed
  /\ request.heartbeat <= request'.heartbeat
  /\ request.counter <= request'.counter
  /\ request.policy # "Unset" => request'.policy \in {request.policy, "Forbid"}
  /\ request.evicted # "Unset" => request'.evicted # "Unset"
  /\ request'.requested => request.requested
  /\ request'.exists => request.exists

NoWriteIsUndone == [][NothingUndone]_request

\* The stored object names an interceptor of the highest priority first.  It leaves that
\* one only after it completed or let its own deadline pass, never goes to one of
\* higher priority, and goes to the next in order: with n status calls lost, a
\* hand-over that is repeated passes over n interceptors at most.  Nothing is said of
\* the cause for leaving a later one, which may be what the first left behind
\* (HandOverStartsAfresh).
priority(class) ==
  Interceptors[CHOOSE k \in DOMAIN Interceptors : Interceptors[k].class = class].priority

Selection ==
  /\ request.class = NoClass
  /\ \A k \in DOMAIN Interceptors : priority(request'.class) >= Interceptors[k].priority

HandOver ==
  /\ request.class # NoClass
  /\ Index(request) = 1 => request.completed \/ Expired(request)
  /\ Index(request') \in (Index(request) + 1) .. (Index(request) + 1 + faults)
  /\ priority(request'.class) <= priority(request.class)

HandOverHasCause == [][request'.class # request.class => Selection \/ HandOver]_vars

-----------------------------------------------------------------------------
(* Refinement.                                                             *)

Protocol == INSTANCE EvictionProtocol WITH
  Turns     <- Len(Interceptors),
  exists    <- request.exists,
  requested <- request.requested,
  policy    <- request.policy,
  turn      <- Index(request),
  completed <- request.completed,
  reports   <- request.heartbeat,
  silent    <- elapsed,
  counter   <- request.counter,
  claim     <- request.evicted,
  failures  <- failures,
  evictions <- evictions,
  lost      <- faults

\* Seen from outside, the workers, their copies and retries, the lagging caches and
\* the restarts are one controller that writes a status nobody need doubt: every
\* step is one the protocol allows, or changes nothing anyone can see.
ImplementsProtocol == Protocol!Spec

-----------------------------------------------------------------------------
(* Liveness.                                                               *)

\* The pod has left the node or is leaving it, or the request was cancelled.
Settled ==
  \/ ~request.exists
  \/ pod.uid # TargetUID
  \/ pod.phase # "running"

\* A request is acted on even if the pod was not yet in the lister's cache when
\* its event was handled, and even if the first status writes were lost.
EventuallyPickedUp ==
  <>(Settled \/ (Interceptors # <<>> /\ request.class # NoClass))

\* Once the active interceptor has completed, the pod is evicted, in spite of
\* refused evictions, lost writes and restarts.
CompletionLeadsToEviction == request.completed ~> Settled

\* An interceptor that stops reporting does not hold up the eviction.
ExpiryLeadsToEviction == Expired(request) ~> (Settled \/ ~Expired(request))

\* Nothing takes the items of a deleted request off the queue: each of its writes
\* is refused and retried.  The work ends all the same, once the pod goes.
DeletedRequestsDrain ==
  ~request.exists /\ pod.phase # "running" ~> \A i \in Items : pc[i] = "free"
=============================================================================
