------------------------- MODULE ControllerLifecycle -------------------------
(***************************************************************************)
(* The processes of the controller: leader election, the informers, the    *)
(* work queue and the workers, from the start of a process to its end.     *)
(* What reconciling does to a request is EvictionReconciler; here it       *)
(* succeeds or fails, or ends the process.                                 *)
(*                                                                         *)
(* In a process run, at the same time, the election (RunOrDie), the        *)
(* callback onStartedLeading, which the election starts in a goroutine of  *)
(* its own, worker.Start, the workers and the informers.  They share the   *)
(* field stopCh, which no lock protects, and the work queue.               *)
(***************************************************************************)
EXTENDS Naturals

CONSTANTS
  Replicas,   \* the processes
  Workers,    \* the workers of each, _workerCount of them
  Requests,   \* the requests in the API server; all items for one are one here
  NoPodRef,   \* those whose spec.target has no podRef
  NoHolder,   \* the lease is held by nobody
  MaxFaults   \* bound: terms that end early and processes that are killed

WorkerStates == {"none", "idle", "ended"}

ASSUME ProcessAssumption ==
  /\ NoPodRef \subseteq Requests
  /\ Requests \cap WorkerStates = {}
  /\ NoHolder \notin Replicas
  /\ MaxFaults \in Nat

VARIABLES
  proc,    \* the state of each process
  lease,   \* whose identity the lease names
  faults   \* terms that ended early and processes killed so far

vars == <<proc, lease, faults>>

(***************************************************************************)
(* election -- where RunOrDie stands                                       *)
(* starter  -- where onStartedLeading stands                               *)
(* ctx      -- the context of the term                                     *)
(* stopCh   -- the field of the controller                                 *)
(* pods     -- the informer of pods, in the factory of Kubernetes          *)
(* evreqs   -- the informer of eviction requests, in the generated factory *)
(* queue    -- the work queue, with what waits in its rate limiter         *)
(* shutdown -- ShutDown of the queue was called                            *)
(* pool     -- where worker.Start stands                                   *)
(* held     -- the request each worker holds, or its state                 *)
(***************************************************************************)
InformerStates == {"off", "registered", "started", "synced"}

Processes ==
  [election : {"acquiring", "leading", "stopping", "ended"},
   starter  : {"none", "begin", "syncPods", "syncEvreqs", "done"},
   ctx      : {"none", "live", "cancelled"},
   stopCh   : {"nil", "open", "closed"},
   pods     : InformerStates,
   evreqs   : InformerStates,
   queue    : SUBSET Requests,
   shutdown : BOOLEAN,
   pool     : {"none", "starting", "waiting", "done"},
   held     : [Workers -> Requests \cup WorkerStates]]

\* newPodLister registers the informer of pods when the process is wired; nothing
\* asks fx for the lister of eviction requests.
NewProcess ==
  [election |-> "acquiring", starter |-> "none", ctx |-> "none",
   stopCh |-> "nil", pods |-> "registered", evreqs |-> "off",
   queue |-> {}, shutdown |-> FALSE,
   pool |-> "none", held |-> [w \in Workers |-> "none"]]

TypeOK ==
  /\ proc \in [Replicas -> Processes]
  /\ lease \in Replicas \cup {NoHolder}
  /\ faults \in Nat

Init ==
  /\ proc = [r \in Replicas |-> NewProcess]
  /\ lease = NoHolder
  /\ faults = 0

\* Process r goes on with p.
Becomes(r, p) == proc' = [proc EXCEPT ![r] = p]

-----------------------------------------------------------------------------
(* Leader election: RunOrDie of client-go, and the callback it ends with.  *)

\* The term starts; the callback goes its own way.
Acquire(r) ==
  /\ proc[r].election = "acquiring"
  /\ lease = NoHolder
  /\ lease' = r
  /\ Becomes(r, [proc[r] EXCEPT !.election = "leading", !.starter = "begin", !.ctx = "live"])
  /\ UNCHANGED faults

\* The lease could not be renewed before the deadline, or OnStop cancelled the
\* election.  RunOrDie cancels the context of the term before it calls back.
LoseLease(r) ==
  /\ proc[r].election = "leading"
  /\ faults < MaxFaults
  /\ faults' = faults + 1
  /\ Becomes(r, [proc[r] EXCEPT !.election = "stopping", !.ctx = "cancelled"])
  /\ UNCHANGED lease

\* The channel is closed if there is one by now: the field is read without a lock,
\* and yields nil or the channel.  Then RunOrDie returns; nothing calls it again.
onStoppedLeading(r) ==
  /\ proc[r].election = "stopping"
  /\ Becomes(r, [proc[r] EXCEPT !.election = "ended",
                                !.stopCh = IF @ = "open" THEN "closed" ELSE @])
  /\ UNCHANGED <<lease, faults>>

\* Slip: the lease is taken away from a holder that still renews it.
LeaseTaken ==
  /\ lease # NoHolder
  /\ lease' = NoHolder
  /\ UNCHANGED <<proc, faults>>

\* Others see the lease expire only after its holder has given up, because the
\* renew deadline is shorter than the lease duration.
LeaseExpires ==
  /\ lease # NoHolder
  /\ proc[lease].election # "leading"
  /\ lease' = NoHolder
  /\ UNCHANGED <<proc, faults>>

-----------------------------------------------------------------------------
(* onStartedLeading, and the informers it starts.                          *)

\* The informer of the factory: made when it is first asked for.
InformerFor(informer) == IF informer = "off" THEN "registered" ELSE informer

\* Start runs what is registered and does not run yet, and does not wait.
Start(informer) == IF informer = "registered" THEN "started" ELSE informer

\* Slip: the factory's Start is taken to wait for the cache.
NoWait(p, informer) == TRUE

\* WaitForCacheSync waits for what was started, not for what was not.
Waited(p, informer) == informer # "started" \/ p.stopCh = "closed"

\* Slip: both factories are started before the first wait.
StartBoth(r) ==
  /\ proc[r].starter = "begin"
  /\ Becomes(r, [proc[r] EXCEPT !.starter = "syncPods", !.stopCh = "open",
                                !.pods = Start(@), !.evreqs = Start(InformerFor(@))])
  /\ UNCHANGED <<lease, faults>>

\* Slip: the event handlers are left to be set up when the informers have started.
HandlersLate(r) ==
  /\ proc[r].starter = "begin"
  /\ Becomes(r, [proc[r] EXCEPT !.starter = "syncPods", !.stopCh = "open", !.pods = Start(@)])
  /\ UNCHANGED <<lease, faults>>

\* setupEventHandlers registers the informer it adds handlers to; then the channel,
\* and the start of the pod informer.
BeginTerm(r) ==
  /\ proc[r].starter = "begin"
  /\ Becomes(r, [proc[r] EXCEPT !.starter = "syncPods", !.stopCh = "open",
                                !.pods = Start(@), !.evreqs = InformerFor(@)])
  /\ UNCHANGED <<lease, faults>>

\* Slip: the wait comes before the start of what is waited for.
StartAfterWait(r) ==
  /\ proc[r].starter = "syncPods"
  /\ Waited(proc[r], proc[r].pods)
  /\ proc[r].evreqs = "synced" \/ proc[r].stopCh = "closed"
  /\ Becomes(r, [proc[r] EXCEPT !.starter = "syncEvreqs", !.evreqs = Start(@)])
  /\ UNCHANGED <<lease, faults>>

StartEvictionRequestInformer(r) ==
  /\ proc[r].starter = "syncPods"
  /\ Waited(proc[r], proc[r].pods)
  /\ Becomes(r, [proc[r] EXCEPT !.starter = "syncEvreqs", !.evreqs = Start(@)])
  /\ UNCHANGED <<lease, faults>>

\* The workers are started even if a cache has not synced.
StartPool(r) ==
  /\ proc[r].starter = "syncEvreqs"
  /\ Waited(proc[r], proc[r].evreqs)
  /\ Becomes(r, [proc[r] EXCEPT !.starter = "done", !.pool = "starting"])
  /\ UNCHANGED <<lease, faults>>

\* An informer runs from Start until its channel is closed.
PodsSync(r) ==
  /\ proc[r].pods = "started" /\ proc[r].stopCh = "open"
  /\ Becomes(r, [proc[r] EXCEPT !.pods = "synced"])
  /\ UNCHANGED <<lease, faults>>

EvictionRequestsSync(r) ==
  /\ proc[r].evreqs = "started" /\ proc[r].stopCh = "open"
  /\ Becomes(r, [proc[r] EXCEPT !.evreqs = "synced"])
  /\ UNCHANGED <<lease, faults>>

\* Slip: the queue takes what comes after ShutDown.
AddAnyTime(p, q) == p.queue \cup {q}

\* Slip: something that is not an eviction request is added.
AddAny(p, q) == IF p.shutdown THEN p.queue ELSE p.queue \cup {"none"}

\* Nothing is added to a queue that was shut down.
Add(p, q) == IF p.shutdown THEN p.queue ELSE p.queue \cup {q}

\* An add, update or resync event, from the first list on.
HandleEvent(r, q) ==
  /\ proc[r].evreqs \in {"started", "synced"} /\ proc[r].stopCh = "open"
  /\ Becomes(r, [proc[r] EXCEPT !.queue = Add(proc[r], q)])
  /\ UNCHANGED <<lease, faults>>

-----------------------------------------------------------------------------
(* The worker pool.                                                        *)

StartWorkers(r) ==
  /\ proc[r].pool = "starting"
  /\ Becomes(r, [proc[r] EXCEPT !.pool = "waiting", !.held = [w \in Workers |-> "idle"]])
  /\ UNCHANGED <<lease, faults>>

\* Slip: the deferred call of ShutDown is forgotten.
NoShutDown(r) ==
  /\ proc[r].pool = "waiting"
  /\ proc[r].ctx = "cancelled"
  /\ Becomes(r, [proc[r] EXCEPT !.pool = "done"])
  /\ UNCHANGED <<lease, faults>>

\* Items in the queue are left to the workers, those in the rate limiter are lost.
ShutDown(r) ==
  /\ proc[r].pool = "waiting"
  /\ proc[r].ctx = "cancelled"
  /\ \E left \in SUBSET proc[r].queue :
        Becomes(r, [proc[r] EXCEPT !.pool = "done", !.shutdown = TRUE, !.queue = left])
  /\ UNCHANGED <<lease, faults>>

Get(r, w) ==
  /\ proc[r].held[w] = "idle"
  /\ \/ \E q \in proc[r].queue :
          Becomes(r, [proc[r] EXCEPT !.queue = @ \ {q}, !.held[w] = q])
     \/ /\ proc[r].shutdown /\ proc[r].queue = {}
        /\ Becomes(r, [proc[r] EXCEPT !.held[w] = "ended"])
  /\ UNCHANGED <<lease, faults>>

\* The item is forgotten, or it is put back after an error.
Reconciled(r, w) ==
  /\ proc[r].held[w] \in Requests \ NoPodRef
  /\ \E q \in {proc[r].queue, Add(proc[r], proc[r].held[w])} :
        Becomes(r, [proc[r] EXCEPT !.queue = q, !.held[w] = "idle"])
  /\ UNCHANGED <<lease, faults>>

\* The reconciler dereferences podRef.  No worker recovers from the panic: the
\* process ends and is started again, under a new identity.
Panics(r, w) ==
  /\ proc[r].held[w] \in NoPodRef
  /\ Becomes(r, NewProcess)
  /\ UNCHANGED <<lease, faults>>

\* The process is killed, or ends after OnStop, and is started again.
Restart(r) ==
  /\ faults < MaxFaults
  /\ faults' = faults + 1
  /\ Becomes(r, NewProcess)
  /\ UNCHANGED lease

-----------------------------------------------------------------------------
Starter(r) ==
  BeginTerm(r) \/ StartEvictionRequestInformer(r) \/ StartPool(r)

Pool(r) == StartWorkers(r) \/ ShutDown(r)

Worker(r, w) == Get(r, w) \/ Reconciled(r, w) \/ Panics(r, w)

Next ==
  \/ LeaseExpires
  \/ \E r \in Replicas :
       \/ Acquire(r) \/ LoseLease(r) \/ onStoppedLeading(r)
       \/ Starter(r) \/ Pool(r)
       \/ PodsSync(r) \/ EvictionRequestsSync(r)
       \/ \E q \in Requests : HandleEvent(r, q)
       \/ \E w \in Workers : Worker(r, w)
       \/ Restart(r)

Spec == Init /\ [][Next]_vars

\* Every goroutine goes on, the API server answers lists, and a lease that is not
\* renewed expires and is taken over.
Fairness ==
  /\ WF_vars(LeaseExpires)
  /\ \A r \in Replicas :
       /\ WF_vars(Acquire(r)) /\ WF_vars(onStoppedLeading(r))
       /\ WF_vars(Starter(r)) /\ WF_vars(Pool(r))
       /\ WF_vars(PodsSync(r)) /\ WF_vars(EvictionRequestsSync(r))
       /\ \A w \in Workers : WF_vars(Worker(r, w))

FairSpec == Spec /\ Fairness

-----------------------------------------------------------------------------

\* onStartedLeading starts the workers even if a cache did not sync.  That happens
\* only when the term is over: while its context is live, workers see both caches
\* synced and the informers running.
LiveWorkersHaveSyncedCaches ==
  \A r \in Replicas :
    proc[r].pool # "none" /\ proc[r].ctx = "live" =>
      /\ proc[r].pods = "synced" /\ proc[r].evreqs = "synced"
      /\ proc[r].stopCh = "open"

\* The reconciler drops a request whose pod the lister does not know.  So no event
\* of a live term is queued before the pods are known, be it handled early.
EventsFindPods ==
  \A r \in Replicas :
    proc[r].queue # {} /\ proc[r].ctx = "live" => proc[r].pods = "synced"

\* Whenever the term ends, before, during or after the start of the workers, they
\* drain the queue and end, although handlers may still add to it.
WorkersEnd ==
  \A r \in Replicas :
    proc[r].ctx = "cancelled" ~>
      proc[r].ctx = "none" \/ \A w \in Workers : proc[r].held[w] = "ended"

\* As long as some process has not lost its lease, some live term has its workers,
\* again and again, whatever ends the other processes.
WorkGoesOn ==
  []<>(\/ \E r \in Replicas : proc[r].pool = "waiting" /\ proc[r].ctx = "live"
       \/ \A r \in Replicas : proc[r].election = "ended")

-----------------------------------------------------------------------------
(* Refinement.                                                             *)

Stage(p) ==
  IF p.shutdown THEN "over"
  ELSE [none |-> "standby", live |-> "leading", cancelled |-> "closing"][p.ctx]

AtHand(p) == p.queue \cup {q \in Requests : \E w \in Workers : p.held[w] = q}

Terms == INSTANCE LeaderTerms WITH
  term <- [r \in Replicas |-> Stage(proc[r])],
  work <- [r \in Replicas |-> AtHand(proc[r])]

\* Whatever the order in which election, starter, informers and workers of a process
\* get to their steps, and although informers of an ended term may never stop: one
\* process leads at a time, and one whose term is over only works off what it has.
ImplementsTerms == Terms!Spec

-----------------------------------------------------------------------------
(* What the comments say, and the code does not do.                        *)

\* controller.go:150-154: onStoppedLeading "handles the logic when the controller
\* stops being the leader", "shutting down informers".  So no informer of a term
\* that is over runs for ever.
InformersStop ==
  \A r \in Replicas : proc[r].ctx = "cancelled" ~> proc[r].stopCh # "open"

\* eviction.go:58: a request without podRef is an error, "pod reference cannot be
\* nil".  So the worker that took it puts it back, and goes on.
MissingPodRefIsAnError ==
  [][\A r \in Replicas, w \in Workers :
       proc[r].held[w] \in NoPodRef =>
         \/ proc'[r].held[w] = proc[r].held[w]
         \/ proc[r].held[w] \in proc'[r].queue]_vars
=============================================================================
