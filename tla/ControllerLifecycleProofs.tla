----------------------- MODULE ControllerLifecycleProofs -----------------------
(***************************************************************************)
(* The safety properties of ControllerLifecycle, for any set of processes, *)
(* workers and requests, and that it implements LeaderTerms.  Most of the  *)
(* invariant is about each process by itself; what relates the processes   *)
(* is that only the holder of the lease leads.                             *)
(***************************************************************************)
EXTENDS ControllerLifecycle, TLAPS

-----------------------------------------------------------------------------
(* Types.                                                                  *)

\* The action replaces the state of process r and leaves the others alone.
Moves(r) == proc' = [proc EXCEPT ![r] = proc'[r]]

LEMMA BecomesMoves ==
  ASSUME TypeOK, NEW r \in Replicas, NEW p, Becomes(r, p)
  PROVE  Moves(r) /\ proc'[r] = p
BY DEF TypeOK, Becomes, Moves

LEMMA StepsMove ==
  ASSUME TypeOK, NEW r \in Replicas,
         \/ Acquire(r) \/ LoseLease(r) \/ onStoppedLeading(r)
         \/ Starter(r) \/ Pool(r) \/ PodsSync(r) \/ EvictionRequestsSync(r)
         \/ \E q \in Requests : HandleEvent(r, q)
         \/ \E w \in Workers : Worker(r, w)
         \/ Restart(r)
  PROVE  Moves(r) /\ lease' \in {lease, r} /\ faults' \in {faults, faults + 1}
<1>1. CASE Acquire(r) \/ LoseLease(r) \/ onStoppedLeading(r)
  BY <1>1, BecomesMoves DEF Acquire, LoseLease, onStoppedLeading
<1>2. CASE Starter(r) \/ Pool(r)
  BY <1>2, BecomesMoves DEF Starter, BeginTerm, StartEvictionRequestInformer, StartPool,
                            Pool, StartWorkers, ShutDown
<1>3. CASE PodsSync(r) \/ EvictionRequestsSync(r) \/ Restart(r)
  BY <1>3, BecomesMoves DEF PodsSync, EvictionRequestsSync, Restart
<1>4. CASE \E q \in Requests : HandleEvent(r, q)
  BY <1>4, BecomesMoves DEF HandleEvent
<1>5. CASE \E w \in Workers : Worker(r, w)
  BY <1>5, BecomesMoves DEF Worker, Get, Reconciled, Panics
<1> QED
  BY <1>1, <1>2, <1>3, <1>4, <1>5

LEMMA NewProcessType == NewProcess \in Processes
BY DEF NewProcess, Processes, WorkerStates, InformerStates

\* Only requests are queued.
LEMMA AddType ==
  ASSUME NEW p \in Processes, NEW q \in Requests
  PROVE  Add(p, q) \in SUBSET Requests
BY DEF Add, Processes

LEMMA TypesAtInit == Init => TypeOK
BY NewProcessType, ProcessAssumption DEF Init, TypeOK

\* The queue and what one worker holds are replaced.
LEMMA PutAndHold ==
  ASSUME NEW p \in Processes, NEW w \in Workers,
         NEW q \in SUBSET Requests, NEW h \in Requests \cup WorkerStates,
         NEW np, np = [p EXCEPT !.queue = q, !.held[w] = h]
  PROVE  np \in Processes
BY DEF Processes

LEMMA GetTakes ==
  ASSUME TypeOK, NEW r \in Replicas, NEW w \in Workers, Get(r, w)
  PROVE  \E q \in SUBSET proc[r].queue, h \in Requests \cup WorkerStates :
           proc'[r] = [proc[r] EXCEPT !.queue = q, !.held[w] = h]
<1> proc[r] \in Processes /\ proc \in [Replicas -> Processes]
  BY DEF TypeOK
<1>1. CASE \E q \in proc[r].queue :
             Becomes(r, [proc[r] EXCEPT !.queue = @ \ {q}, !.held[w] = q])
  <2>1. PICK q \in proc[r].queue :
          proc'[r] = [proc[r] EXCEPT !.queue = proc[r].queue \ {q}, !.held[w] = q]
    BY <1>1 DEF Becomes
  <2>2. proc[r].queue \ {q} \in SUBSET proc[r].queue /\ q \in Requests \cup WorkerStates
    BY DEF Processes
  <2> QED
    BY <2>1, <2>2
<1>2. CASE Becomes(r, [proc[r] EXCEPT !.held[w] = "ended"])
  <2>1. proc'[r] = [proc[r] EXCEPT !.queue = proc[r].queue, !.held[w] = "ended"]
    BY <1>2 DEF Becomes, Processes
  <2>2. "ended" \in Requests \cup WorkerStates /\ proc[r].queue \in SUBSET proc[r].queue
    BY DEF WorkerStates
  <2> QED
    BY <2>1, <2>2
<1> QED
  BY <1>1, <1>2 DEF Get

\* What an action makes of a process of the right type has the right type.
LEMMA StepsKeepProcesses ==
  ASSUME TypeOK, NEW r \in Replicas,
         \/ Acquire(r) \/ LoseLease(r) \/ onStoppedLeading(r)
         \/ Starter(r) \/ Pool(r) \/ PodsSync(r) \/ EvictionRequestsSync(r)
         \/ \E q \in Requests : HandleEvent(r, q)
         \/ \E w \in Workers : Worker(r, w)
         \/ Restart(r)
  PROVE  proc'[r] \in Processes
<1> proc[r] \in Processes /\ proc \in [Replicas -> Processes]
  BY DEF TypeOK
<1>1. CASE Acquire(r) \/ LoseLease(r) \/ onStoppedLeading(r)
  <2>1. CASE Acquire(r)
    BY <2>1 DEF Acquire, Becomes, Processes
  <2>2. CASE LoseLease(r)
    BY <2>2 DEF LoseLease, Becomes, Processes
  <2>3. CASE onStoppedLeading(r)
    BY <2>3 DEF onStoppedLeading, Becomes, Processes
  <2> QED
    BY <1>1, <2>1, <2>2, <2>3
<1>2. CASE Starter(r)
  <2>1. CASE BeginTerm(r)
    BY <2>1 DEF BeginTerm, Start, InformerFor, Becomes, Processes, InformerStates
  <2>2. CASE StartEvictionRequestInformer(r)
    BY <2>2 DEF StartEvictionRequestInformer, Start, Becomes, Processes, InformerStates
  <2>3. CASE StartPool(r)
    BY <2>3 DEF StartPool, Becomes, Processes
  <2> QED
    BY <1>2, <2>1, <2>2, <2>3 DEF Starter
<1>3. CASE StartWorkers(r)
  BY <1>3 DEF StartWorkers, Becomes, Processes, WorkerStates
<1>4. CASE ShutDown(r)
  <2>1. PICK left \in SUBSET proc[r].queue :
          proc'[r] = [proc[r] EXCEPT !.pool = "done", !.shutdown = TRUE, !.queue = left]
    BY <1>4 DEF ShutDown, Becomes
  <2>2. left \in SUBSET Requests
    BY DEF Processes
  <2> QED
    BY <2>1, <2>2 DEF Processes
<1>5. CASE PodsSync(r) \/ EvictionRequestsSync(r)
  BY <1>5 DEF PodsSync, EvictionRequestsSync, Becomes, Processes, InformerStates
<1>6. ASSUME NEW q \in Requests, HandleEvent(r, q)
      PROVE  proc'[r] \in Processes
  <2>1. Add(proc[r], q) \in SUBSET Requests
    BY AddType
  <2> QED
    BY <1>6, <2>1 DEF HandleEvent, Becomes, Processes
<1>7. ASSUME NEW w \in Workers, Get(r, w)
      PROVE  proc'[r] \in Processes
  <2>1. PICK q \in SUBSET proc[r].queue, h \in Requests \cup WorkerStates :
          proc'[r] = [proc[r] EXCEPT !.queue = q, !.held[w] = h]
    BY <1>7, GetTakes
  <2>2. q \in SUBSET Requests
    BY DEF Processes
  <2> QED
    BY <2>1, <2>2, PutAndHold
<1>8. ASSUME NEW w \in Workers, Reconciled(r, w)
      PROVE  proc'[r] \in Processes
  <2>1. Add(proc[r], proc[r].held[w]) \in SUBSET Requests
    BY <1>8, AddType DEF Reconciled
  <2>2. PICK q \in {proc[r].queue, Add(proc[r], proc[r].held[w])} :
          proc'[r] = [proc[r] EXCEPT !.queue = q, !.held[w] = "idle"]
    BY <1>8 DEF Reconciled, Becomes
  <2>3. q \in SUBSET Requests
    BY <2>1 DEF Processes
  <2>4. "idle" \in Requests \cup WorkerStates
    BY DEF WorkerStates
  <2> QED
    BY <2>2, <2>3, <2>4, PutAndHold
<1>9. CASE (\E w \in Workers : Panics(r, w)) \/ Restart(r)
  BY <1>9, NewProcessType, BecomesMoves DEF Panics, Restart
<1> QED
  BY <1>1, <1>2, <1>3, <1>4, <1>5, <1>6, <1>7, <1>8, <1>9 DEF Pool, Worker

LEMMA StepsKeepTypes == TypeOK /\ [Next]_vars => TypeOK'
<1> SUFFICES ASSUME TypeOK, [Next]_vars PROVE TypeOK'
  OBVIOUS
<1>1. CASE UNCHANGED vars
  BY <1>1 DEF vars, TypeOK
<1>2. CASE LeaseExpires
  BY <1>2 DEF LeaseExpires, TypeOK
<1>3. ASSUME NEW r \in Replicas,
             \/ Acquire(r) \/ LoseLease(r) \/ onStoppedLeading(r)
             \/ Starter(r) \/ Pool(r) \/ PodsSync(r) \/ EvictionRequestsSync(r)
             \/ \E q \in Requests : HandleEvent(r, q)
             \/ \E w \in Workers : Worker(r, w)
             \/ Restart(r)
      PROVE  TypeOK'
  <2>1. proc'[r] \in Processes
    BY <1>3, StepsKeepProcesses
  <2>2. Moves(r) /\ lease' \in {lease, r} /\ faults' \in {faults, faults + 1}
    BY <1>3, StepsMove
  <2> QED
    BY <2>1, <2>2 DEF Moves, TypeOK
<1> QED
  BY <1>1, <1>2, <1>3 DEF Next

\* The variables of every process keep their types, for any number of processes.
THEOREM TypeCorrectness == Spec => []TypeOK
BY TypesAtInit, StepsKeepTypes, PTL DEF Spec

-----------------------------------------------------------------------------
(* What holds of a process.                                                *)

\* Before its term a process has started nothing.  An informer is registered before
\* the starter comes to its factory, and what the starter has passed is synced unless
\* the term is over; the channel is closed only after the context was cancelled.
Sound(p) ==
  /\ p.election = "acquiring" => p = NewProcess
  /\ p.election = "acquiring" <=> p.ctx = "none"
  /\ p.election = "leading" <=> p.ctx = "live"
  /\ p.stopCh = "closed" => p.ctx = "cancelled"
  /\ p.stopCh = "nil" <=> p.starter \in {"none", "begin"}
  /\ p.starter \in {"none", "begin"} => p.pods = "registered" /\ p.evreqs = "off"
  /\ p.starter \notin {"none", "begin"} => p.pods \in {"started", "synced"}
  /\ p.starter = "syncPods" <=> p.evreqs = "registered"
  /\ p.starter \in {"syncEvreqs", "done"} <=> p.evreqs \in {"started", "synced"}
  /\ p.pool # "none" => p.starter = "done"
  /\ p.pool \in {"none", "starting"} => \A w \in Workers : p.held[w] = "none"
  /\ p.shutdown <=> p.pool = "done"
  /\ p.shutdown => p.ctx = "cancelled"
  /\ p.evreqs \in {"off", "registered"} => p.queue = {}
  /\ p.evreqs \in {"started", "synced"} /\ p.ctx = "live" => p.pods = "synced"
  /\ p.starter = "done" /\ p.ctx = "live" => p.evreqs = "synced"

AllSound == \A r \in Replicas : Sound(proc[r])

LEMMA NewProcessIsSound == Sound(NewProcess)
BY DEF Sound, NewProcess

\* One step per action: what it makes of a sound process is sound.
LEMMA StepsKeepOneSound ==
  ASSUME TypeOK, NEW r \in Replicas, Sound(proc[r]),
         \/ Acquire(r) \/ LoseLease(r) \/ onStoppedLeading(r)
         \/ Starter(r) \/ Pool(r) \/ PodsSync(r) \/ EvictionRequestsSync(r)
         \/ \E q \in Requests : HandleEvent(r, q)
         \/ \E w \in Workers : Worker(r, w)
         \/ Restart(r)
  PROVE  Sound(proc'[r])
<1> proc[r] \in Processes /\ proc \in [Replicas -> Processes]
  BY DEF TypeOK
<1>1. CASE Acquire(r)
  BY <1>1 DEF Acquire, NewProcess, Becomes, Sound, Processes
<1>2. CASE LoseLease(r)
  BY <1>2 DEF LoseLease, NewProcess, Becomes, Sound, Processes
<1>3. CASE onStoppedLeading(r)
  BY <1>3 DEF onStoppedLeading, NewProcess, Becomes, Sound, Processes
<1>4. CASE BeginTerm(r)
  BY <1>4 DEF BeginTerm, Start, InformerFor, NewProcess, Becomes, Sound, Processes, InformerStates
<1>5. CASE StartEvictionRequestInformer(r)
  BY <1>5 DEF StartEvictionRequestInformer, Start, Waited, NewProcess, Becomes, Sound, Processes,
           InformerStates
<1>6. CASE StartPool(r)
  BY <1>6 DEF StartPool, Waited, NewProcess, Becomes, Sound, Processes, InformerStates
<1>7. CASE StartWorkers(r)
  BY <1>7 DEF StartWorkers, NewProcess, Becomes, Sound, Processes
<1>8. CASE ShutDown(r)
  BY <1>8 DEF ShutDown, NewProcess, Becomes, Sound, Processes
<1>9. CASE PodsSync(r)
  BY <1>9 DEF PodsSync, NewProcess, Becomes, Sound, Processes
<1>10. CASE EvictionRequestsSync(r)
  BY <1>10 DEF EvictionRequestsSync, NewProcess, Becomes, Sound, Processes
<1>11. ASSUME NEW q \in Requests, HandleEvent(r, q)
       PROVE  Sound(proc'[r])
  BY <1>11 DEF HandleEvent, Becomes, Sound, Processes, NewProcess
<1>12. ASSUME NEW w \in Workers, Get(r, w)
       PROVE  Sound(proc'[r])
  <2>1. proc[r].held[w] # "none"
    BY <1>12 DEF Get
  <2>2. proc[r].evreqs \in {"started", "synced"} /\ proc[r].pool # "none" /\ proc[r].election # "acquiring"
    BY <2>1 DEF Sound, NewProcess, Processes
  <2>4. proc[r].pool # "starting"
    BY <2>1 DEF Sound
  <2>3. PICK q \in SUBSET proc[r].queue, h \in Requests \cup WorkerStates :
          proc'[r] = [proc[r] EXCEPT !.queue = q, !.held[w] = h]
    BY <1>12, GetTakes
  <2> QED
    BY <2>2, <2>3, <2>4 DEF Sound, Processes
<1>13. ASSUME NEW w \in Workers, Reconciled(r, w)
       PROVE  Sound(proc'[r])
  BY <1>13, ProcessAssumption DEF Reconciled, Becomes, Sound, Processes, WorkerStates, NewProcess
<1>14. CASE (\E w \in Workers : Panics(r, w)) \/ Restart(r)
  BY <1>14, NewProcessIsSound, BecomesMoves DEF Panics, Restart
<1> QED
  BY <1>1, <1>2, <1>3, <1>4, <1>5, <1>6, <1>7, <1>8, <1>9, <1>10, <1>11, <1>12, <1>13, <1>14
     DEF Starter, Pool, Worker

LEMMA StepsKeepSound == TypeOK /\ AllSound /\ [Next]_vars => AllSound'
<1> SUFFICES ASSUME TypeOK, AllSound, [Next]_vars, NEW s \in Replicas
             PROVE  Sound(proc'[s])
  BY DEF AllSound, Sound
<1>1. CASE UNCHANGED vars \/ LeaseExpires
  BY <1>1 DEF vars, LeaseExpires, AllSound
<1>2. ASSUME NEW r \in Replicas,
             \/ Acquire(r) \/ LoseLease(r) \/ onStoppedLeading(r)
             \/ Starter(r) \/ Pool(r) \/ PodsSync(r) \/ EvictionRequestsSync(r)
             \/ \E q \in Requests : HandleEvent(r, q)
             \/ \E w \in Workers : Worker(r, w)
             \/ Restart(r)
      PROVE  Sound(proc'[s])
  <2>1. Sound(proc'[r])
    BY <1>2, StepsKeepOneSound DEF AllSound
  <2>2. s # r => proc'[s] = proc[s]
    BY <1>2, StepsMove DEF Moves, TypeOK
  <2> QED
    BY <2>1, <2>2 DEF AllSound
<1> QED
  BY <1>1, <1>2 DEF Next

LEMMA SoundAtInit == Init => AllSound
BY NewProcessIsSound DEF Init, AllSound

LEMMA ProcessesStaySound == Spec => []AllSound
BY SoundAtInit, StepsKeepSound, TypeCorrectness, PTL DEF Spec

\* While a term lasts, its workers see both caches synced and the informers
\* running, although onStartedLeading goes on after a failed sync.
THEOREM TermsStartInOrder == Spec => []LiveWorkersHaveSyncedCaches
<1>1. TypeOK /\ AllSound => LiveWorkersHaveSyncedCaches
  BY DEF TypeOK, AllSound, Sound, Processes, InformerStates, LiveWorkersHaveSyncedCaches
<1> QED
  BY <1>1, ProcessesStaySound, TypeCorrectness, PTL

\* Nothing is queued in a live term before the pods are known, for any number of
\* processes: the two factories are started one after the other.
THEOREM PodsAreKnownFirst == Spec => []EventsFindPods
<1>1. TypeOK /\ AllSound => EventsFindPods
  BY DEF TypeOK, AllSound, Sound, Processes, InformerStates, EventsFindPods
<1> QED
  BY <1>1, ProcessesStaySound, TypeCorrectness, PTL

-----------------------------------------------------------------------------
(* Who leads.                                                              *)

\* The actions that are no step of the election and do not end the process.
WithinTerm(r) ==
  \/ Starter(r) \/ Pool(r) \/ PodsSync(r) \/ EvictionRequestsSync(r)
  \/ \E q \in Requests : HandleEvent(r, q)
  \/ \E w \in Workers : Get(r, w) \/ Reconciled(r, w)

\* They do not touch where the election and the context of the term stand, and of
\* them only ShutDown shuts the queue down.
LEMMA TheTermGoesOn ==
  ASSUME TypeOK, NEW r \in Replicas, WithinTerm(r)
  PROVE  /\ proc'[r].election = proc[r].election
         /\ proc'[r].ctx = proc[r].ctx
         /\ ShutDown(r) \/ proc'[r].shutdown = proc[r].shutdown
         /\ lease' = lease
<1> proc[r] \in Processes /\ proc \in [Replicas -> Processes]
  BY DEF TypeOK
<1>1. CASE BeginTerm(r)
  BY <1>1 DEF BeginTerm, Becomes, Processes
<1>2. CASE StartEvictionRequestInformer(r)
  BY <1>2 DEF StartEvictionRequestInformer, Becomes, Processes
<1>3. CASE StartPool(r)
  BY <1>3 DEF StartPool, Becomes, Processes
<1>4. CASE StartWorkers(r)
  BY <1>4 DEF StartWorkers, Becomes, Processes
<1>5. CASE ShutDown(r)
  <2>1. PICK left \in SUBSET proc[r].queue :
          proc'[r] = [proc[r] EXCEPT !.pool = "done", !.shutdown = TRUE, !.queue = left]
    BY <1>5 DEF ShutDown, Becomes
  <2> QED
    BY <1>5, <2>1 DEF ShutDown, Processes
<1>6. CASE PodsSync(r)
  BY <1>6 DEF PodsSync, Becomes, Processes
<1>7. CASE EvictionRequestsSync(r)
  BY <1>7 DEF EvictionRequestsSync, Becomes, Processes
<1>8. ASSUME NEW q \in Requests, HandleEvent(r, q)
      PROVE  /\ proc'[r].election = proc[r].election /\ proc'[r].ctx = proc[r].ctx
             /\ proc'[r].shutdown = proc[r].shutdown /\ lease' = lease
  BY <1>8 DEF HandleEvent, Becomes, Processes
<1>9. ASSUME NEW w \in Workers, Get(r, w)
      PROVE  /\ proc'[r].election = proc[r].election /\ proc'[r].ctx = proc[r].ctx
             /\ proc'[r].shutdown = proc[r].shutdown /\ lease' = lease
  <2>1. PICK q \in SUBSET proc[r].queue, h \in Requests \cup WorkerStates :
          proc'[r] = [proc[r] EXCEPT !.queue = q, !.held[w] = h]
    BY <1>9, GetTakes
  <2> QED
    BY <1>9, <2>1 DEF Get, Processes
<1>10. ASSUME NEW w \in Workers, Reconciled(r, w)
       PROVE  /\ proc'[r].election = proc[r].election /\ proc'[r].ctx = proc[r].ctx
              /\ proc'[r].shutdown = proc[r].shutdown /\ lease' = lease
  BY <1>10 DEF Reconciled, Becomes, Processes
<1> QED
  BY <1>1, <1>2, <1>3, <1>4, <1>5, <1>6, <1>7, <1>8, <1>9, <1>10 DEF WithinTerm, Starter, Pool

LeaderHoldsLease == \A r \in Replicas : proc[r].election = "leading" => lease = r

\* A process leads from Acquire on, and the lease is not taken over while it does.
LEMMA StepsKeepLease == TypeOK /\ LeaderHoldsLease /\ [Next]_vars => LeaderHoldsLease'
<1> SUFFICES ASSUME TypeOK, LeaderHoldsLease, [Next]_vars,
                    NEW s \in Replicas, proc'[s].election = "leading"
             PROVE  lease' = s
  BY DEF LeaderHoldsLease
<1>1. CASE UNCHANGED vars
  BY <1>1 DEF vars, LeaderHoldsLease
<1>2. CASE LeaseExpires
  BY <1>2 DEF LeaseExpires, LeaderHoldsLease
<1>3. ASSUME NEW r \in Replicas, Acquire(r)
      PROVE  lease' = s
  <2>1. s # r => proc[s].election = "leading"
    BY <1>3, BecomesMoves DEF Acquire, Moves, TypeOK
  <2> QED
    BY <1>3, <2>1, ProcessAssumption DEF Acquire, LeaderHoldsLease
<1>4. ASSUME NEW r \in Replicas,
             \/ LoseLease(r) \/ onStoppedLeading(r) \/ WithinTerm(r)
             \/ (\E w \in Workers : Panics(r, w)) \/ Restart(r)
      PROVE  lease' = s
  <2>1. lease' = lease
    BY <1>4, TheTermGoesOn DEF LoseLease, onStoppedLeading, Panics, Restart
  <2>2. s # r => proc'[s] = proc[s]
    BY <1>4, StepsMove DEF Moves, TypeOK, Worker, WithinTerm
  <2>3. proc'[r].election = "leading" => proc[r].election = "leading"
    <3> proc[r] \in Processes /\ proc \in [Replicas -> Processes]
      BY DEF TypeOK
    <3>1. CASE LoseLease(r) \/ onStoppedLeading(r)
      <4>1. LoseLease(r) => proc[r].election = "leading"
        BY DEF LoseLease
      <4>2. onStoppedLeading(r) => proc'[r].election = "ended"
        BY DEF onStoppedLeading, Becomes, Processes
      <4> QED
        BY <3>1, <4>1, <4>2
    <3>2. CASE WithinTerm(r)
      BY <3>2, TheTermGoesOn
    <3>3. CASE (\E w \in Workers : Panics(r, w)) \/ Restart(r)
      BY <3>3, BecomesMoves DEF Panics, Restart, NewProcess
    <3> QED
      BY <1>4, <3>1, <3>2, <3>3
  <2> QED
    BY <2>1, <2>2, <2>3 DEF LeaderHoldsLease
<1> QED
  BY <1>1, <1>2, <1>3, <1>4 DEF Next, WithinTerm, Worker

LEMMA NobodyLeadsAtInit == Init => LeaderHoldsLease
BY DEF Init, LeaderHoldsLease, NewProcess

LEMMA LeadersHoldTheLease == Spec => []LeaderHoldsLease
BY NobodyLeadsAtInit, StepsKeepLease, TypeCorrectness, PTL DEF Spec

-----------------------------------------------------------------------------
(* The refinement.                                                         *)

\* What an action that moves process r does to the mapped variables.
LEMMA MovesMap ==
  ASSUME TypeOK, NEW r \in Replicas, Moves(r)
  PROVE  /\ [x \in Replicas |-> Stage(proc'[x])] =
              [[x \in Replicas |-> Stage(proc[x])] EXCEPT ![r] = Stage(proc'[r])]
         /\ [x \in Replicas |-> AtHand(proc'[x])] =
              [[x \in Replicas |-> AtHand(proc[x])] EXCEPT ![r] = AtHand(proc'[r])]
<1>1. \A x \in Replicas : x # r => proc'[x] = proc[x]
  BY DEF Moves, TypeOK
<1> QED
  BY <1>1

\* The stage of a term, by what the process is at.
LEMMA Stages ==
  ASSUME NEW p \in Processes, Sound(p)
  PROVE  /\ Stage(p) = "standby" <=> p.election = "acquiring"
         /\ Stage(p) = "leading" <=> p.election = "leading"
         /\ Stage(p) = "closing" <=> p.ctx = "cancelled" /\ ~p.shutdown
         /\ Stage(p) = "over" <=> p.shutdown
         /\ Stage(p) \in {"standby", "leading", "closing", "over"}
<1>1. p.ctx \in {"none", "live", "cancelled"} /\ p.shutdown \in BOOLEAN
  BY DEF Processes
<1>2. p.shutdown => p.ctx = "cancelled"
  BY DEF Sound
<1>3. (p.election = "acquiring" <=> p.ctx = "none") /\ (p.election = "leading" <=> p.ctx = "live")
  BY DEF Sound
<1>4. CASE p.ctx = "none"
  <2>1. Stage(p) = "standby"
    BY <1>2, <1>4 DEF Stage
  <2> QED
    BY <1>2, <1>3, <1>4, <2>1
<1>5. CASE p.ctx = "live"
  <2>1. Stage(p) = "leading"
    BY <1>5, <1>2 DEF Stage
  <2> QED
    BY <1>2, <1>3, <1>5, <2>1
<1>6. CASE p.ctx = "cancelled" /\ ~p.shutdown
  <2>1. Stage(p) = "closing"
    BY <1>6 DEF Stage
  <2> QED
    BY <1>3, <1>6, <2>1
<1>7. CASE p.ctx = "cancelled" /\ p.shutdown
  <2>1. Stage(p) = "over"
    BY <1>7 DEF Stage
  <2> QED
    BY <1>3, <1>7, <2>1
<1> QED
  BY <1>1, <1>4, <1>5, <1>6, <1>7

\* Steps of the starter and the informers, which the term and its work do not show.
LEMMA SameStage ==
  ASSUME NEW p \in Processes, NEW q \in Processes,
         q.ctx = p.ctx, q.shutdown = p.shutdown
  PROVE  Stage(q) = Stage(p)
BY DEF Stage

LEMMA SameAtHand ==
  ASSUME NEW p \in Processes, NEW q \in Processes, q.queue = p.queue, q.held = p.held
  PROVE  AtHand(q) = AtHand(p)
BY DEF AtHand

LEMMA NewProcessMaps == Stage(NewProcess) = "standby" /\ AtHand(NewProcess) = {}
<1>1. Stage(NewProcess) = "standby"
  BY DEF Stage, NewProcess
<1>2. \A q \in Requests : q # "none"
  BY ProcessAssumption DEF WorkerStates
<1> QED
  BY <1>1, <1>2 DEF AtHand, NewProcess

LEMMA InitMaps == Init => Terms!Init
BY NewProcessMaps DEF Init, Terms!Init

\* One lemma for each kind of step: a step of the election, ...
LEMMA ElectionMaps ==
  ASSUME TypeOK, AllSound, AllSound', LeaderHoldsLease, NEW r \in Replicas,
         Acquire(r) \/ LoseLease(r) \/ onStoppedLeading(r)
  PROVE  [Terms!Next]_(Terms!vars)
<1> DEFINE term  == [x \in Replicas |-> Stage(proc[x])]
           termN == [x \in Replicas |-> Stage(proc'[x])]
           work  == [x \in Replicas |-> AtHand(proc[x])]
           workN == [x \in Replicas |-> AtHand(proc'[x])]
<1>1. proc \in [Replicas -> Processes] /\ proc[r] \in Processes /\ proc'[r] \in Processes
  BY StepsKeepProcesses DEF TypeOK
<1>2. termN = [term EXCEPT ![r] = Stage(proc'[r])] /\ workN = [work EXCEPT ![r] = AtHand(proc'[r])]
  BY StepsMove, MovesMap
<1>3. \A x \in Replicas : Stage(proc[x]) = "leading" <=> proc[x].election = "leading"
  BY <1>1, Stages DEF AllSound
<1>4. Sound(proc[r]) /\ Sound(proc'[r])
  BY DEF AllSound
<1>5. CASE Acquire(r)
  <2>1. proc'[r].election = "leading" /\ proc'[r].queue = proc[r].queue /\ proc'[r].held = proc[r].held
    BY <1>1, <1>5 DEF Acquire, Becomes, Processes
  <2>2. Stage(proc[r]) = "standby" /\ Stage(proc'[r]) = "leading"
    BY <1>1, <1>4, <1>5, <2>1, Stages DEF Acquire
  <2>3. \A x \in Replicas : Stage(proc[x]) # "leading"
    BY <1>3, <1>5, ProcessAssumption DEF Acquire, LeaderHoldsLease
  <2>4. AtHand(proc'[r]) = AtHand(proc[r])
    BY <1>1, <2>1, SameAtHand
  <2>5. workN = work
    BY <1>2, <2>4
  <2>6. Terms!Lead(r)
    BY <1>2, <2>2, <2>3, <2>5 DEF Terms!Lead, Terms!Goes
  <2> QED
    BY <2>6 DEF Terms!Next
<1>6. CASE LoseLease(r)
  <2>1. /\ proc'[r].ctx = "cancelled" /\ proc'[r].shutdown = proc[r].shutdown
        /\ proc'[r].queue = proc[r].queue /\ proc'[r].held = proc[r].held
    BY <1>1, <1>6 DEF LoseLease, Becomes, Processes
  <2>2. proc[r].ctx = "live" /\ ~proc[r].shutdown
    BY <1>4, <1>6 DEF LoseLease, Sound
  <2>3. Stage(proc[r]) = "leading" /\ Stage(proc'[r]) = "closing"
    BY <2>1, <2>2 DEF Stage
  <2>4. AtHand(proc'[r]) = AtHand(proc[r])
    BY <1>1, <2>1, SameAtHand
  <2>5. workN = work
    BY <1>2, <2>4
  <2>6. Terms!LoseTerm(r)
    BY <1>2, <2>3, <2>5 DEF Terms!LoseTerm, Terms!Goes
  <2> QED
    BY <2>6 DEF Terms!Next
<1>7. CASE onStoppedLeading(r)
  <2>1. /\ proc'[r].ctx = proc[r].ctx /\ proc'[r].shutdown = proc[r].shutdown
        /\ proc'[r].queue = proc[r].queue /\ proc'[r].held = proc[r].held
    BY <1>1, <1>7 DEF onStoppedLeading, Becomes, Processes
  <2>2. Stage(proc'[r]) = Stage(proc[r]) /\ AtHand(proc'[r]) = AtHand(proc[r])
    BY <1>1, <2>1, SameStage, SameAtHand
  <2>3. termN = term /\ workN = work
    BY <1>2, <2>2
  <2> QED
    BY <2>3 DEF Terms!vars
<1> QED
  BY <1>5, <1>6, <1>7

\* ... a step within the term, ...
LEMMA TermMaps ==
  ASSUME TypeOK, AllSound, AllSound', NEW r \in Replicas, WithinTerm(r)
  PROVE  [Terms!Next]_(Terms!vars)
<1> DEFINE term  == [x \in Replicas |-> Stage(proc[x])]
           termN == [x \in Replicas |-> Stage(proc'[x])]
           work  == [x \in Replicas |-> AtHand(proc[x])]
           workN == [x \in Replicas |-> AtHand(proc'[x])]
<1>1. proc \in [Replicas -> Processes] /\ proc[r] \in Processes /\ proc'[r] \in Processes
  BY StepsKeepProcesses DEF TypeOK, WithinTerm, Worker
<1>2. termN = [term EXCEPT ![r] = Stage(proc'[r])] /\ workN = [work EXCEPT ![r] = AtHand(proc'[r])]
  BY StepsMove, MovesMap DEF WithinTerm, Worker
<1>3. Sound(proc[r]) /\ Sound(proc'[r])
  BY DEF AllSound
<1>4. CASE ~ShutDown(r)
  <2>1. Stage(proc'[r]) = Stage(proc[r])
    BY <1>1, <1>4, TheTermGoesOn, SameStage
  <2>2. termN = term
    BY <1>2, <2>1
  <2>3. SUFFICES ASSUME AtHand(proc'[r]) # AtHand(proc[r])
                 PROVE  Terms!Next
    <3>1. AtHand(proc'[r]) = AtHand(proc[r]) => workN = work
      BY <1>2
    <3> QED
      BY <2>2, <2>3, <3>1 DEF Terms!vars
  <2>4. ~BeginTerm(r) /\ ~StartEvictionRequestInformer(r) /\ ~StartPool(r)
    <3>1. ASSUME BeginTerm(r) \/ StartEvictionRequestInformer(r) \/ StartPool(r)
          PROVE  proc'[r].queue = proc[r].queue /\ proc'[r].held = proc[r].held
      <4>1. CASE BeginTerm(r)
        BY <1>1, <4>1 DEF BeginTerm, Becomes, Processes
      <4>2. CASE StartEvictionRequestInformer(r)
        BY <1>1, <4>2 DEF StartEvictionRequestInformer, Becomes, Processes
      <4>3. CASE StartPool(r)
        BY <1>1, <4>3 DEF StartPool, Becomes, Processes
      <4> QED
        BY <3>1, <4>1, <4>2, <4>3
    <3> QED
      BY <1>1, <2>3, <3>1, SameAtHand
  <2>5. ~PodsSync(r) /\ ~EvictionRequestsSync(r)
    <3>1. ASSUME PodsSync(r) \/ EvictionRequestsSync(r)
          PROVE  proc'[r].queue = proc[r].queue /\ proc'[r].held = proc[r].held
      <4>1. CASE PodsSync(r)
        BY <1>1, <4>1 DEF PodsSync, Becomes, Processes
      <4>2. CASE EvictionRequestsSync(r)
        BY <1>1, <4>2 DEF EvictionRequestsSync, Becomes, Processes
      <4> QED
        BY <3>1, <4>1, <4>2
    <3> QED
      BY <1>1, <2>3, <3>1, SameAtHand
  <2>6. ~StartWorkers(r)
    <3>1. ASSUME StartWorkers(r)
          PROVE  AtHand(proc'[r]) = AtHand(proc[r])
      <4>1. /\ proc'[r].queue = proc[r].queue
            /\ \A w \in Workers : proc'[r].held[w] = "idle" /\ proc[r].held[w] = "none"
        BY <1>1, <1>3, <3>1 DEF StartWorkers, Becomes, Processes, Sound
      <4>2. "idle" \notin Requests /\ "none" \notin Requests
        BY ProcessAssumption DEF WorkerStates
      <4> QED
        BY <4>1, <4>2 DEF AtHand
    <3> QED
      BY <2>3, <3>1
  <2>7. ASSUME NEW w \in Workers, Get(r, w)
        PROVE  AtHand(proc'[r]) = AtHand(proc[r])
    <3>1. "idle" \notin Requests /\ "ended" \notin Requests /\ proc[r].held[w] = "idle"
      BY <2>7, ProcessAssumption DEF WorkerStates, Get
    <3>2. CASE \E q \in proc[r].queue :
                 Becomes(r, [proc[r] EXCEPT !.queue = @ \ {q}, !.held[w] = q])
      <4>1. PICK q \in proc[r].queue :
              /\ proc'[r].queue = proc[r].queue \ {q}
              /\ proc'[r].held = [proc[r].held EXCEPT ![w] = q]
        BY <1>1, <3>2 DEF Becomes, Processes
      <4>2. /\ proc'[r].held[w] = q /\ q \in Requests
            /\ \A v \in Workers : v # w => proc'[r].held[v] = proc[r].held[v]
        BY <1>1, <4>1 DEF Processes
      <4> QED
        BY <3>1, <4>1, <4>2 DEF AtHand
    <3>3. CASE Becomes(r, [proc[r] EXCEPT !.held[w] = "ended"])
      <4>1. /\ proc'[r].queue = proc[r].queue
            /\ proc'[r].held = [proc[r].held EXCEPT ![w] = "ended"]
        BY <1>1, <3>3 DEF Becomes, Processes
      <4>2. /\ proc'[r].held[w] = "ended"
            /\ \A v \in Workers : v # w => proc'[r].held[v] = proc[r].held[v]
        BY <1>1, <4>1 DEF Processes
      <4> QED
        BY <3>1, <4>1, <4>2 DEF AtHand
    <3> QED
      BY <2>7, <3>2, <3>3 DEF Get
  <2>8. ASSUME NEW q \in Requests, HandleEvent(r, q)
        PROVE  Terms!Next
    <3>1. proc'[r].queue = Add(proc[r], q) /\ proc'[r].held = proc[r].held
      BY <1>1, <2>8 DEF HandleEvent, Becomes, Processes
    <3>2. ~proc[r].shutdown
      BY <1>1, <2>3, <3>1, SameAtHand DEF Add
    <3>3. AtHand(proc'[r]) = AtHand(proc[r]) \cup {q}
      BY <3>1, <3>2 DEF AtHand, Add
    <3>4. proc[r].election # "acquiring"
      BY <2>8, <1>3 DEF HandleEvent, Sound, NewProcess
    <3>5. Stage(proc[r]) \in {"leading", "closing"}
      BY <1>1, <1>3, <3>2, <3>4, Stages
    <3>6. Terms!TakeUp(r, q)
      BY <1>2, <2>2, <3>3, <3>5 DEF Terms!TakeUp
    <3> QED
      BY <3>6 DEF Terms!Next
  <2>9. ASSUME NEW w \in Workers, Reconciled(r, w)
        PROVE  Terms!Next
    <3> DEFINE q == proc[r].held[w]
    <3>1. PICK left \in {proc[r].queue, Add(proc[r], q)} :
            proc'[r].queue = left /\ proc'[r].held = [proc[r].held EXCEPT ![w] = "idle"]
      BY <1>1, <2>9 DEF Reconciled, Becomes, Processes
    <3>2. q \in Requests /\ "idle" \notin Requests
      BY <2>9, ProcessAssumption DEF Reconciled, WorkerStates
    <3>3. /\ proc'[r].held[w] = "idle"
          /\ \A v \in Workers : v # w => proc'[r].held[v] = proc[r].held[v]
      BY <1>1, <3>1 DEF Processes
    <3>4. left \in {proc[r].queue, proc[r].queue \cup {q}}
      BY <3>1 DEF Add
    <3> HIDE DEF q
    <3>5. AtHand(proc'[r]) \in {AtHand(proc[r]), AtHand(proc[r]) \ {q}}
      <4> DEFINE busy  == {x \in Requests : \E v \in Workers : proc[r].held[v] = x}
                 busyN == {x \in Requests : \E v \in Workers : proc'[r].held[v] = x}
      <4>1. proc[r].held[w] = q
        BY DEF q
      <4>2. busyN \in {busy, busy \ {q}}
        BY <3>2, <3>3, <4>1
      <4>3. AtHand(proc[r]) = proc[r].queue \cup busy /\ AtHand(proc'[r]) = proc'[r].queue \cup busyN
        BY DEF AtHand
      <4>4. q \in busy
        BY <3>2, <4>1
      <4> HIDE DEF busy, busyN
      <4> QED
        BY <3>1, <3>4, <4>2, <4>3, <4>4
    <3>6. Terms!Finish(r, q)
      BY <1>2, <2>2, <2>3, <3>5 DEF Terms!Finish
    <3> QED
      BY <3>2, <3>6 DEF Terms!Next
  <2> QED
    BY <1>4, <2>3, <2>4, <2>5, <2>6, <2>7, <2>8, <2>9 DEF WithinTerm, Starter, Pool
<1>5. CASE ShutDown(r)
  <2>1. PICK left \in SUBSET proc[r].queue :
          proc'[r] = [proc[r] EXCEPT !.pool = "done", !.shutdown = TRUE, !.queue = left]
    BY <1>1, <1>5 DEF ShutDown, Becomes
  <2>2. proc'[r].shutdown /\ proc'[r].queue \subseteq proc[r].queue /\ proc'[r].held = proc[r].held
    BY <1>1, <2>1 DEF Processes
  <2>3. proc[r].ctx = "cancelled" /\ ~proc[r].shutdown
    BY <1>3, <1>5 DEF ShutDown, Sound
  <2>4. Stage(proc[r]) = "closing" /\ Stage(proc'[r]) = "over"
    BY <1>1, <1>3, <2>2, <2>3, Stages
  <2>5. AtHand(proc'[r]) \in SUBSET AtHand(proc[r])
    BY <2>2 DEF AtHand
  <2>6. Terms!Close(r)
    BY <1>2, <2>4, <2>5 DEF Terms!Close, Terms!Goes
  <2> QED
    BY <2>6 DEF Terms!Next
<1> QED
  BY <1>4, <1>5

\* ... and the end of a process.
LEMMA RestartMaps ==
  ASSUME TypeOK, NEW r \in Replicas, (\E w \in Workers : Panics(r, w)) \/ Restart(r)
  PROVE  [Terms!Next]_(Terms!vars)
<1> DEFINE term  == [x \in Replicas |-> Stage(proc[x])]
           termN == [x \in Replicas |-> Stage(proc'[x])]
           work  == [x \in Replicas |-> AtHand(proc[x])]
           workN == [x \in Replicas |-> AtHand(proc'[x])]
<1>1. Moves(r) /\ proc'[r] = NewProcess
  BY BecomesMoves DEF Panics, Restart
<1>2. termN = [term EXCEPT ![r] = "standby"] /\ workN = [work EXCEPT ![r] = {}]
  BY <1>1, MovesMap, NewProcessMaps
<1>3. Terms!Restart(r)
  BY <1>2 DEF Terms!Restart, Terms!Goes
<1> QED
  BY <1>3 DEF Terms!Next

LEMMA StepsMap ==
  TypeOK /\ AllSound /\ AllSound' /\ LeaderHoldsLease /\ [Next]_vars => [Terms!Next]_(Terms!vars)
<1> SUFFICES ASSUME TypeOK, AllSound, AllSound', LeaderHoldsLease, [Next]_vars
             PROVE  [Terms!Next]_(Terms!vars)
  OBVIOUS
<1>1. CASE LeaseExpires \/ UNCHANGED vars
  BY <1>1 DEF LeaseExpires, vars, Terms!vars
<1>2. ASSUME NEW r \in Replicas, Acquire(r) \/ LoseLease(r) \/ onStoppedLeading(r)
      PROVE  [Terms!Next]_(Terms!vars)
  BY <1>2, ElectionMaps
<1>3. ASSUME NEW r \in Replicas, WithinTerm(r)
      PROVE  [Terms!Next]_(Terms!vars)
  BY <1>3, TermMaps
<1>4. ASSUME NEW r \in Replicas, (\E w \in Workers : Panics(r, w)) \/ Restart(r)
      PROVE  [Terms!Next]_(Terms!vars)
  BY <1>4, RestartMaps
<1> QED
  BY <1>1, <1>2, <1>3, <1>4 DEF Next, WithinTerm, Worker

\* The lifecycle implements LeaderTerms, for any number of processes and workers:
\* however election, starter, informers and workers interleave, and although the
\* informers of an ended term may go on, the handover is that of one leader at a time.
THEOREM LifecycleImplementsTerms == Spec => ImplementsTerms
<1>1. Init => Terms!Init
  BY InitMaps
<1>2. TypeOK /\ AllSound /\ AllSound' /\ LeaderHoldsLease /\ [Next]_vars => [Terms!Next]_(Terms!vars)
  BY StepsMap
<1>3. Spec => []TypeOK /\ []AllSound /\ []LeaderHoldsLease
  BY TypeCorrectness, ProcessesStaySound, LeadersHoldTheLease
<1> QED
  BY <1>1, <1>2, <1>3, PTL DEF Spec, ImplementsTerms, Terms!Spec

-----------------------------------------------------------------------------
(* What LeaderTerms promises, of the processes.                            *)

\* The theorems about LeaderTerms, of the mapped variables.
Proved == INSTANCE LeaderTermsProofs WITH
  term <- [r \in Replicas |-> Stage(proc[r])],
  work <- [r \in Replicas |-> AtHand(proc[r])]

LEMMA SameTerms == Terms!Spec => Proved!Spec
<1>1. Terms!Init => Proved!Init
  BY DEF Terms!Init, Proved!Init
<1>2. Terms!Next <=> Proved!Next
  BY DEF Terms!Next, Terms!Lead, Terms!LoseTerm, Terms!Close, Terms!Restart, Terms!TakeUp,
         Terms!Finish, Terms!Goes, Proved!Next, Proved!Lead, Proved!LoseTerm, Proved!Close,
         Proved!Restart, Proved!TakeUp, Proved!Finish, Proved!Goes
<1>3. [Terms!Next]_(Terms!vars) => [Proved!Next]_(Proved!vars)
  BY <1>2 DEF Terms!vars, Proved!vars
<1> QED
  BY <1>1, <1>3, PTL DEF Terms!Spec, Proved!Spec

\* So one process leads at a time, and one that has not had the lease yet holds and
\* queues no request: a standby does not reconcile.
THEOREM OneProcessLeads == Spec => []Terms!OneLeads
<1>1. Spec => []Proved!OneLeads
  BY LifecycleImplementsTerms, SameTerms, Proved!LeadersAreAlone DEF ImplementsTerms
<1>2. Proved!OneLeads => Terms!OneLeads
  BY DEF Proved!OneLeads, Terms!OneLeads
<1> QED
  BY <1>1, <1>2, PTL

\* And once worker.Start of a process has shut the queue down, its workers only finish
\* what is there, though handlers still call Add, until the process is started again.
THEOREM EndedTermsOnlyDrain == Spec => Terms!TermsEnd
<1>1. Spec => Proved!TermsEnd
  BY LifecycleImplementsTerms, SameTerms, Proved!EndedTermsStayEnded DEF ImplementsTerms
<1>2. Proved!TermsEnd => Terms!TermsEnd
  BY PTL DEF Proved!TermsEnd, Terms!TermsEnd, Proved!vars, Terms!vars
<1> QED
  BY <1>1, <1>2
=============================================================================
