# The EvictionRequest controller in TLA+

The repository is a Kubernetes controller for `EvictionRequest` objects (KEP-4563): before a
pod is evicted, a list of *interceptors* gets a turn, one after the other, in the order of
their priorities; when the last one has completed or has stopped reporting, the controller
calls the eviction API. This directory holds a model of the controller, checked by TLC on
small instances, and proofs about it, checked by TLAPS for every instance.

Run from this directory: `tlc -config X.cfg M` for the runs listed below, `tlapm M.tla` for
the modules whose name ends in `Proofs`.

## 1. The system

| part | state | operations | talks to |
|---|---|---|---|
| `EvictionRequest` object (`apis/.../types.go`, CRD) | spec: target pod, requesters, interceptors, deadline; status: policy, active class, completed flag, heartbeat time, failure counter, conditions; resource version | create, update of spec, `UpdateStatus`, delete | everybody, through the API server |
| reconciler (`reconciler.go`) | none of its own; the copy in the work item | `ReconcileEvictionRequest` | pod lister, API server, interceptor handler, performer |
| interceptor handler (`interceptor.go`) | none; the copy | `Handle`: select the first, hand over, check the deadline | API server, performer |
| eviction performer (`eviction.go`) | none; the copy | `Perform` | pod lister, eviction API, status handler |
| status handler (`status.go`) | none; the copy | `UpsertCondition`, `IncrementFailedEvictionCounter` | API server |
| worker pool (`worker.go`) | rate-limited work queue of *pointers to deep copies*; ten workers | `Enqueue`, `Start`, `processNextWorkItem` | reconciler |
| controller (`controller.go`) | lease identity, `stopCh`, context of the term | event handlers, `onStartedLeading`, `onStoppedLeading`, `startInformers` | informers, worker pool, client-go's leader election |
| informers (`factory.go`, client-go) | caches of requests and of pods, lagging the server | list and watch, resync every hour | API server, event handlers |
| clients, wiring, configuration (`main.go`, `clients.go`, generated code) | none at run time | start-up | - |
| interceptors, users, kubelet, workload controllers | outside the repository | report, complete, forbid cancellation, withdraw, delete; stop and recreate the pod | API server |

### How a request travels

An add, update or resync event makes `Enqueue` put a deep copy on the queue. The queue
compares items by pointer, so nothing is merged: as many items as there were events may be
alive, each with a copy of another age, and several workers may hold items for the same
request. A reconcile looks the pod up in the lister's cache, writes the default policy if
none is set, and then takes one step of the interceptor protocol or calls the eviction API.
After an error the same item, with the copy *as the handlers left it*, goes back to the queue.

Three facts about the code decide most of its behaviour:

1. Handlers assign to the copy before the write is known to succeed, and retries start from it.
2. The object `UpdateStatus` returns is dropped, so after a successful write the copy's
   resource version is stale; a later write of the same item always conflicts, also on retry.
3. The version check of the API server is therefore the only thing that keeps one item from
   overwriting what others stored.

### What is hard, and what makes each part correct

| part | hard because of | correct means | property |
|---|---|---|---|
| worker pool + reconciler | concurrent items, stale copies, retries from assigned copies | a write that is accepted never takes anything back; items of a deleted request are dropped in the end | `CopiesRunAhead`, `NoWriteIsUndone`, `DeletedRequestsDrain` |
| interceptor handler | writes or answers that are lost, retries from copies that have taken the step, deadlines checked on copies | turns follow the priorities one at a time, the first ends only for a cause of its own, and the eviction comes after the last | `HandOverHasCause`, `EvictionHasCause` |
| performer + status handler | ignored errors of status writes, lost answers of the eviction API | the status tells only what happened | `CounterNeverOvercounts`, `StatusTellsWhatHappened` |
| deep copies + status handler | a list that is written in place, shared with other writers, sent whole and sent again | the informer's object is never written to, nobody's entry is lost, the list stays a map, transition times are right, and readers see one map that goes on | `CacheIsReadOnly`, `InterceptorsEntriesSurvive`, `TypesAreUnique`, `TransitionTimesAreRight`, `ImplementsMap` |
| the whole | cache lag, lost events and writes, restarts, calls that arrive after a restart, refused evictions | every step is one the interceptor protocol allows, and a request makes progress to the eviction | `ImplementsProtocol`, `EventuallyPickedUp`, `CompletionLeadsToEviction`, `ExpiryLeadsToEviction` |
| controller, informer factories | election, starter, informers and workers in goroutines of their own; informers are registered, started and waited for in different functions | workers start on synced caches; one process leads at a time; a term that is over only drains; another process takes over | `LiveWorkersHaveSyncedCaches`, `EventsFindPods`, `ImplementsTerms`, `WorkersEnd`, `WorkGoesOn` |

The full list of hazards, each at its line, is in `PROJECT.json`.

## 2. The modules

| module | models | extends |
|---|---|---|
| `EvictionRequestAPI` | the object: the fields the controller reads or writes, the schema's constraints on the interceptor list | |
| `InterceptorHandler` | what `interceptor.go` does to a copy: the sort, indices, the assignment of each state | `EvictionRequestAPI` |
| `StatusHandler` | what `status.go` does to a copy, as far as the reconciler's behaviour depends on it | `EvictionRequestAPI` |
| `EvictionReconciler` | the system around one request and one pod name: API server, caches, queue, workers, reconcile, eviction, interceptors, users, time | the two above |
| `EvictionProtocol` | abstract: what interceptors, requesters and whoever waits for the pod may rely on, without workers, copies, caches, versions, retries or restarts | |
| `DocumentedBehaviour` | statements of the API documentation and of comments that the code does not keep | `EvictionReconciler` |
| `StatusConditions` | `.status.conditions` entry by entry, in the memory of the informer's object and of the copies, and in the API server | |
| `ConditionMap` | abstract: what readers of the conditions may rely on, a map from types to entries, without lists, copies, versions or retries | |
| `ControllerLifecycle` | the processes: election, start-up, informers and their factories, queue shutdown, workers, panics | |
| `LeaderTerms` | abstract: the terms of the processes and what each has at hand, without lease, callbacks, channel, informers or workers | |
| `MCEvictionReconciler`, `MCStatusConditions`, `MCControllerLifecycle` | values for TLC | |
| `InterceptorHandlerProofs`, `EvictionReconcilerProofs`, `StatusConditionsProofs`, `ControllerLifecycleProofs` | theorems about the module of that name | that module |
| `EvictionProtocolProofs`, `ConditionMapProofs`, `LeaderTermsProofs` | what the abstract modules promise | the abstract module |
| `EvictionRefinementProofs` | the reconciler implements the protocol, and so keeps its promises | `EvictionReconcilerProofs` |

`EvictionReconciler` takes `EvictionProtocol` as an instance, `Protocol`, and states
`ImplementsProtocol == Protocol!Spec`. The mapping is direct: the protocol's turn is the index
of the stored active class in the sorted list, its reports and its silence are `heartbeat` and
`elapsed`, its claims are the stored counter and Evicted condition, and the writes it calls
lost are `faults` (lost status calls, and restarts, which may lose some). Copies, caches, the
queue, the pod and its cache have no counterpart: a step that only touches them is a stutter.

The protocol lets a turn pass on (`TurnGoesOn`) only when the status says that it is done or its
deadline has passed, and to the next one; the code's hand-over that is repeated after a lost
write is the reason why it may go further by as many turns as writes were lost. It leaves open
whether the new turn starts with the completed flag cleared. The API says it does, the code
says it does not (`doc_handover`), and the protocol is right for both: it is not a
specification of the flag that is left over.

`StatusConditions` states in the same way `ImplementsMap == Map!Spec`: the entry of a type is
the one the stored list has for it (`EntryOf`), and the time of the last write is `storedAt`.
The heap, the copies and their versions have no counterpart. `ControllerLifecycle` states
`ImplementsTerms == Terms!Spec`: a process is on standby, leading, closing or over (`Stage`)
as its context has not been made, is live, is cancelled, or its queue is shut down; it has at
hand (`AtHand`) what is queued or in a worker. The starter, `stopCh` and the informers have no
counterpart: that they run on in a process whose term is over is no concern of the others.

`ControllerLifecycle` and `EvictionReconciler` meet in two places. `Restart` of the second
(queue lost, caches filled again, pods first, calls possibly still on their way) is what a
change of leader in the first amounts to for one request. `EventsFindPods` is the reason why
`Restart` may fill the pod cache before any event is handled.

`StatusConditions` looks into what `EvictionReconciler` takes for granted, in two respects. There a
copy is a value; here it is a struct with a pointer to a list, and `CacheIsReadOnly` shows
that the deep copy in `Enqueue` makes values a fair picture. There a write carries one
condition; here it carries the list with everybody's entries.

Some definitions are preceded by a variant of the same signature whose comment begins with
*Slip*. Nothing uses them: each is a plausible mistake in the definition it precedes (a
condition that is not set, a bound off by one, a wait that is forgotten) and is there to be put
in its place, in order to see that the property named in `PROJECT.json` notices.

### State and steps of `EvictionReconciler`

`request` is the stored object, `cache` the informer's, `pod` the pod with the target's name
and `podCache` what the lister returns. For each work item `i`, `er[i]` is its copy and
`pc[i]` where it stands: `free`, `queued`, or the call a worker is about to make with it.
A step runs from one access to shared state to the next: everything a handler does to its copy
between two calls is one step, because no other goroutine can see the copy. So
`ReconcileEvictionRequest` takes an item, looks the pod up and goes as far as the next call;
`DefaultCancellationPolicy`, `updateEvictionRequestStatus`, `RecordSuccess` and `RecordFailure`
are one `UpdateStatus` each, with all that follows; `Perform` is the second pod lookup,
`EvictV1Succeeds` and `EvictV1Fails` the call of the eviction API.

A status write succeeds if the version matches. It fails on a conflict or a deleted object, or
because the call or its answer is lost, in which case the write may have been stored. An
eviction fails because a disruption budget refuses it, because the pod is gone, or because the
call or its answer is lost, in which case the pod may be evicted.

`Restart` stops the controller, or moves it to another replica. A process that is killed, or
whose term ends, cancels its context and sends nothing more, but nothing recalls what it has
sent: any subset of the calls in progress stays on its way (`lateWrite`, `lateEvict`), and
`LateCall` lets each of them reach the API server, or get lost, while the next leader works.
Nothing else of an old process matters: with a cancelled context each call of its workers
fails at once, so its queue and its caches lead to nothing the API server sees. This is why
one queue and one pair of caches are enough for any number of replicas.

Times are not modelled: `heartbeat` counts the reports, and `elapsed` is the last report whose
deadline has passed, so a report is fresh until `DeadlinePasses` reaches it. A copy with an
older report expires with that report, as in the code.

The condition list is reduced to the status of its Evicted entry: it is the only one that
reachable code writes. `StatusConditions` has the list.

### State and steps of `StatusConditions`

`heap` has the list at each address, `at` the address each holder refers to: the informer's
cache, and each work item. `Watch` hands over a newer object, `Enqueue` makes a deep copy,
`Record` is `UpsertCondition` on the copy, in place if the entry is there and in a new array
if it is appended. `UpdateStatus` sends the list with the version of the copy; it is stored,
refused or lost, stored with its answer lost too, and the item is forgotten or tried again
with the same copy. `InterceptorShares` is an entry somebody else writes. Lists nobody refers
to are emptied, so that addresses can be used again.

### State and steps of `ControllerLifecycle`

Each process is a record: where the election, `onStartedLeading` and `worker.Start` stand, the
context of the term, `stopCh`, both informers, the queue, and what each worker holds.
`RunOrDie` runs `onStartedLeading` in a goroutine, and at the end of a term first cancels the
context and then calls `onStoppedLeading`; the two callbacks share `stopCh` without a lock. An
informer is `off` until its factory is asked for it (`InformerFor`), `registered` until the
factory is started, and then runs until the channel closes; `Start` passes over, and
`WaitForCacheSync` does not wait for, an informer nobody has asked for. The pod informer is
registered when fx builds the pod lister, the one of eviction requests only in
`setupEventHandlers`. A request is in the queue or not: the
copies that `EvictionReconciler` tells apart are one here, and reconciling it succeeds, fails
or panics.

## 3. The runs

| run | instance | question |
|---|---|---|
| `safety_none` | no interceptors, 2 items, 2 workers, 2 failed evictions, 1 fault, with fairness; delete, pod lost | is the stored status true and never rolled back, does the code implement the protocol, are items of a deleted request dropped? |
| `safety_two` | 2 interceptors, 2 items, 2 workers, 1 report, 1 failure, 1 fault, 2 incarnations of the pod; complete, forbid | do concurrent, retried and late copies ever take anything back or leave the protocol? |
| `safety_three` | 3 interceptors, two of equal priority, 2 items, 1 worker, 1 report, 1 fault; complete, forbid, delete, withdraw | do hand-overs follow the priorities one at a time, past one only after a lost call, as in the protocol? |
| `liveness_two` | as `safety_two` with fairness; complete | does a request get to the eviction? |
| `conditions` | 2 types, one of them the controller's, 2 statuses, 1 text, 2 items, 4 addresses, 3 writes, 1 tick | is the list kept right in memory and in the API server, and do readers see a map that only goes on? |
| `lifecycle` | 2 processes, 1 worker each, 2 requests, one without podRef, 2 faults, with fairness | do terms start and end in order, is every step one of a term (`LeaderTerms`), and does the work go on? |
| `doc_handover` | 2 interceptors | `HandOverStartsAfresh` fails: the next interceptor's turn starts with the completed flag of the last one set (`interceptor.go:112`) |
| `doc_heartbeat` | 1 interceptor, 2 reports | `ReportingInterceptorKeepsThePod` fails: a retry evicts in spite of a fresh report (`interceptor.go:135`) |
| `doc_pod_uid` | no interceptors, 2 incarnations | `EvictsOnlyTheNamedPod` fails: `Perform` looks up the name again and not the UID (`eviction.go:61`) |
| `doc_silence` | 1 interceptor that never reports | `SilentInterceptorIsPassedOver` fails: without a first report there is no deadline (`interceptor.go:118`) |
| `doc_informers` | 1 process that loses its lease early | `InformersStop` fails: the channel is made after `onStoppedLeading` looked for it (`controller.go:155`) |
| `doc_pod_ref` | 1 request without podRef | `MissingPodRefIsAnError` fails: the process panics before the test for nil (`reconciler.go:62`) |

The last six state what the documentation or a comment says; the quotations are with the
properties and in the findings of `PROJECT.json`. While modelling, smaller divergences of the
same kind were met that no run pins down: requesters are never read, so a withdrawn request is
processed (`types.go:70-74`); a deleted request goes on to be reconciled from queued copies, as
there is no `DeleteFunc`, and its pod may still be evicted; the Complete condition is never set and `activeInterceptorClass` never cleared
(`types.go:193`); failures and successes of the eviction may never be stored, because the
errors of those status writes are ignored (`eviction.go:83,88`), and an eviction that was
accepted may so never show in the status; after a lost write a retried hand-over may pass an
interceptor that was never named. A copy whose writes are refused is retried all the same, and
goes through the remaining interceptors in memory, one per retry, down to the eviction: none of
them was ever named in the stored object. A request whose cancellation is forbidden may
be withdrawn and deleted: the API says that neither will be accepted (`types.go:76-79`,
`218-219`), but no rule of the CRD, webhook, finalizer or code of the controller sees to it, so
`WithdrawRequesters` and `DeleteRequest` do not look at the policy.

What `HandOverHasCause` says of causes is limited by the first finding. Flag and heartbeat are
not reset at a hand-over, so the second interceptor and those after it can be left, and are left
at the next event, because of what the first did. Only for the first is the flag or the heartbeat
certainly its own (before it is named there is neither, see `CopiesRunAhead`), and so only for
the first does the property demand one.

### Bounds

Every bound is a constant that only guards the action it limits.

- `Items`: two copies are enough for every pair of ages to meet: one item that decides on a
  stale copy and one that changes the object under it. When no item is free an event waits,
  which only delays it (see fairness).
- `WorkerCount`: 2 for two calls in progress at the same time; 1 in `safety_three`, where the
  interleaving of interest is between a retried item and a newer one.
- `MaxBeats`: with one report there is a fresh and an expired state, with two a copy that
  shows an older report than the stored object. `MaxFailures` 2 lets a copy count twice.
- `MaxFaults` counts lost status calls and restarts together: 1 suffices for each of them to
  hit any state (in `safety_three` also for a retry that passes over the second of three
  interceptors), and a restart leaves up to `WorkerCount` late calls; in `lifecycle`, 2 let
  both processes lose their lease.
- `MaxUID` 2 (`safety_two`, `doc_pod_uid`) gives the pod one successor of the same name.
  `RoomToFail` keeps calls in
  progress within `MaxFailures`, so that a pod does not disappear under a call which then could
  neither succeed nor fail: a bound, not a behaviour.
- `conditions`: an entry of the controller and one of somebody else are all that
  `UpsertCondition` tells apart; two statuses give a change and none; three writes let an item
  with a copy of the first meet a third. Four addresses are one more than the lists that three
  holders can refer to, so that memory never runs out. One tick tells
  a time before the last write from one since.
- Items are interchangeable, as are addresses, and symmetry over them is used in safety runs
  only.

Deadlock is checked except where the system really comes to rest: once the request is deleted
and its items are done with, or when every process has lost its lease.

### Fairness

`EvictionReconciler!Fairness`: workers run on (weak fairness per item; a worker never waits for
another, and client-go's queue is first-in first-out, so an item that is queued is taken); a
late call arrives or is lost; watches and the hourly resync go on; the kubelet stops a
terminating pod; time passes. Watch, resync and `PodStopped` get strong fairness only to make
up for the bounds: in the code `Enqueue` always finds room. Nothing is assumed of interceptors
and users, and no fairness is assumed for a success of the eviction API beyond the bound on its
failures, nor for faults.

`ControllerLifecycle!Fairness`: every goroutine runs on, lists are answered, and an unrenewed
lease expires and is taken over (weak fairness).

## 4. What is proved

All theorems hold for every value of the constants under the named assumptions of the modules:
the interceptor list is a map by class with natural priorities (`InterceptorsAssumption`, what
the schema enforces), bounds are naturals (`BoundsAssumption`), and small sanity conditions on sets and model values
(`ProcessAssumption`, `TypesAssumption`, `HoldersAssumption`, `NoneAssumption`). In
`StatusConditions` memory does not run out (`MemoryAssumption`). TLC evaluates each of them in
the runs.

**The core argument.** No safety property of `EvictionReconciler` is inductive without knowing
what an accepted write may contain. `CopiesRunAhead` says it: a copy whose version is the
stored one is the stored object, except for assignments that handlers made on top, and these
have a cause the stored object shows (the flag only after the deadline or the completion, a
later class only with the flag, a counter only higher). It is inductive together with the
types: a step of the controller assigns to one copy only (`Assigns`), and every write makes a
new version, so all copies but fresh ones fall out of its scope.

**How far ahead.** `CopiesRunAhead` does not say how many interceptors a copy may be ahead,
which `HandOverHasCause` and the protocol need. `InStep` does: a copy that would be accepted
is at most `faults` turns ahead, and one more while it waits to be written. A handler takes one
turn and goes on to the write (`HandlersTakeOneTurn`). The item comes back to the queue
without it either because the write was refused, in which case the copy's version is not the
stored one and never will be again, or because a call was lost, which counts as a fault
(`WorkersTakeOneTurn`). So a conflict, however often it is retried, never passes over anybody
in the stored object.

**The refinement.** Every step of `EvictionReconciler` shows the protocol one status write, one
write that is lost, one eviction, one act of somebody outside, or nothing (`WhatStepsShow`). For
a write the accepted copy has the stored version, so `CopiesRunAhead` and `InStep` bound what
it may contain, which is the protocol's `WriteStatus`; that its claims are true comes from `AllTruthful`, which
says of every copy what `CounterNeverOvercounts` and `StatusTellsWhatHappened` say of the stored object; that an eviction is permitted comes from `CauseKept`, which extends
`EvictionHasCause` to copies that carry a completed flag, those of late calls included.

**Promises.** Each abstract module states what it is good for: `EvictionProtocol` that the
first turn is not overtaken by the eviction, that claims hold and that no status write takes a
Forbid back; `ConditionMap` that
transition times are past and entries go on; `LeaderTerms` that one process leads and an ended
term only drains. These are proved there, where the invariants are short, and carried over to
the detailed module by its refinement: `Proved` is an instance of the abstract module's proofs
under the refinement mapping, and the detailed theorem is the instantiated one after
`SameProtocol`, `SameMap` or `SameTerms`, which say that both instances mean the same
specification. No run checks these promises, as they follow from the refinements the runs check.

**Conditions in memory.** The invariant `ConditionsInv` of `StatusConditionsProofs` adds to
the three invariants of the run: no two holders refer to one list (`Separate`), versions and
times are in order (`InOrder`), every list in memory is a map (`ListsAreMaps`), and a copy with
the stored version differs from the stored list only in the controller's entries, and there
only in types that are `flipped` or with status and time unchanged (`CopiesFollow`).
`Separate` is what the deep copy is for: without it a `Record` would write into the list of
another holder, and none of the others would be inductive. For the refinement, `Follows` also
says that a copy misses no entry of the stored list, and `StoredTimesPast` bounds the stored
times by the last write: that is what makes a turned entry, which is new since that write, one
whose time does not go back. Lists that are maps are equal to functions from types to entries
(`ListsAsMaps`).

**Processes.** `Sound` speaks of one process at a time: informers are registered before they
are waited for, what was waited for is synced unless the channel is closed, and while the
context is live the channel is not closed. For the refinement it also says that the queue is
shut down only after the context was cancelled, and that nothing is queued or in a worker
before the term. What relates the processes is `LeaderHoldsLease`: whoever leads holds the
lease, so two leaders are one. A step is an election, a step within a term, the end of a term,
or a restart (`ElectionMaps`, `TermMaps`, `RestartMaps`), and of the many steps within a term
the abstract specification sees only what they add to or take from what is at hand.

**The sort.** `sort.Slice` is not stable, so the model allows every order that descends by
priority (`Orders`). That there is one, for a list of any length, is `OrdersExist`, by
selection sort with the least-number principle (`LeastNumber`, from `WFMin` of the library) in
place of induction; that there is only one if no two priorities are equal is
`PrioritiesFixTheOrder`. So the API's order of turns is determined by the object in that case,
and left to the sort only among equals.

| theorem | module | states |
|---|---|---|
| `PrioritiesFixTheOrder` | `InterceptorHandlerProofs` | with distinct priorities `Orders` has one element |
| `TypeCorrectness` | `EvictionReconcilerProofs` | `[]TypeOK` |
| `CopiesNeverFallBehind` | same | `[]CopiesRunAhead` |
| `WritesAreNeverUndone` | same | `NoWriteIsUndone`, from `CopiesRunAhead` at the step that writes |
| `HandOversHaveCause` | same | `HandOverHasCause`, from `CopiesRunAhead` and `InStep`; needs that the sort puts priorities in descending order (`PriorityDescends`) |
| `CounterIsTruthful`, `StatusIsTruthful` | same | `[]CounterNeverOvercounts`, `[]StatusTellsWhatHappened`, from `AllTruthful`: any copy may be stored next |
| `EvictionsHaveCause` | same | `[]EvictionHasCause`, from `CauseKept` |
| `NobodyIsOvertaken`, `TheStatusIsTrue` | `EvictionProtocolProofs` | of the protocol: `[]InterceptorsComeFirst`, `[]ClaimsHold` |
| `ReconcilerImplementsProtocol` | `EvictionRefinementProofs` | `ImplementsProtocol` |
| `InterceptorsGoFirst`, `ForbidIsNeverTakenBack` | same | so the reconciler keeps `InterceptorsComeFirst`, and `ForbidStays`: no write of a copy with the default policy takes back a Forbid |
| `NoFutureTimes`, `EntriesOnlyGoOn` | `ConditionMapProofs` | of the map: `[]TimesArePast`, `EntriesGoOn` |
| `TypeCorrectness`, `ConditionsAreAMap`, `CopiesAreDeep`, `OthersEntriesSurvive`, `ConditionsAreRight` | `StatusConditionsProofs` | `[]TypeOK`, `[]TypesAreUnique`, `[]CacheIsReadOnly`, `[]InterceptorsEntriesSurvive`, `TransitionTimesAreRight` |
| `ConditionsImplementMap`, `StoredTimesAreDue`, `StoredEntriesGoOn` | same | `ImplementsMap`, and so `TimesArePast` and `EntriesGoOn` of the stored list |
| `LeadersAreAlone`, `EndedTermsStayEnded` | `LeaderTermsProofs` | of the terms: `[]OneLeads`, `TermsEnd` |
| `TypeCorrectness`, `TermsStartInOrder`, `PodsAreKnownFirst` | `ControllerLifecycleProofs` | `[]TypeOK`, `[]LiveWorkersHaveSyncedCaches`, `[]EventsFindPods` |
| `LifecycleImplementsTerms`, `OneProcessLeads`, `EndedTermsOnlyDrain` | same | `ImplementsTerms`, and so `OneLeads` and `TermsEnd` of the processes |

**Only model-checked**: the liveness properties (`EventuallyPickedUp`,
`CompletionLeadsToEviction`, `ExpiryLeadsToEviction`, `DeletedRequestsDrain`, `WorkersEnd`,
`WorkGoesOn`), since the proof system does not handle fairness and ENABLED. That liveness is
not part of `EvictionProtocol` has the same reason: the runs check it on the detailed model.

## 5. What is not modelled

- Durations: the backoff of the queue, the hour of the resync, lease times. An item in backoff
  is queued. A lease expires only after its holder gave up (10 s against 15 s), which is what
  client-go's protocol gives when clocks run at about the same speed and no process is paused;
  the protocol itself is client-go's and not modelled. What would follow if it failed is bounded
  by the late calls: two leaders' writes meet at the version check like two workers' writes.
- Several requests for the same pod. Requests have no state in common but the pod and the ten
  workers. For one request, another's eviction of the pod looks like `PodDeleted`, which is in
  `safety_none`.
- Expected finish time, type and role, and the message of a condition other than as a text:
  never read. Schema validation of what users write.
- Changes of the spec's target and interceptors. The API documents both as immutable
  (`types.go:65-119`), nothing in the repository enforces it, and the model assumes it: they are
  constants. So the active class is always in the list, and the branch for one that is not
  (`currentIndex` = -1 in `interceptor.go:90`, straight to the eviction) is never taken.
- Errors of the lister other than "not found": it reads a cache in memory.
- The generated clientset and listers: no state of their own. A status update is
  `UpdateSucceeds` or `UpdateFails`, a lister returns what the cache holds. The fake clientset
  serves tests only. Of the generated deep copies only the condition list is modelled in
  memory, as nothing writes into the other lists of a copy (the sort works on a list of its
  own).
- Customisation, `ForResource` and `Shutdown` of the informer factory: never called. Reading
  the kubeconfig: once, before the controller starts.

## 6. Plan

Done: the core (`EvictionReconciler` and what it extends) with late calls of stopped
processes, `StatusConditions` in memory, `ControllerLifecycle` with the registration of
informers, an abstract specification of each of the three with the refinement proved, the
safety theorems of all, and the sort without assumptions.

Dropped, with the reason:

- An abstract store with optimistic concurrency, as a second thing to implement:
  `CopiesRunAhead` is stronger than what it would promise, and the protocol uses it.
- Two replicas with queues and caches of their own: see `Restart` in section 2.

Left, should the code grow into it: the lease protocol with its three durations, once they can
be configured; an action that clears `activeInterceptorClass` and one that sets the Complete
condition, once the code has them (`HandOverHasCause` and the protocol's `TurnGoesOn` then
change); several requests for a pod, once requests are to know of each other.
