-------------------------- MODULE StatusConditions --------------------------
(***************************************************************************)
(* The list .status.conditions, entry by entry, in the memory of the       *)
(* controller and in the API server: the informer's object, the copies the *)
(* work items hold, the UpsertCondition of pkg/reconciler/status, which    *)
(* writes into the list of a copy, and the interceptors, which share       *)
(* information in entries of their own.  EvictionReconciler keeps only the *)
(* status of the Evicted entry, and its copies are values; here the rest   *)
(* of the list, the transition times and the sharing of memory are kept.   *)
(***************************************************************************)
EXTENDS Naturals, Sequences

CONSTANTS
  Types,      \* the types of conditions
  OwnTypes,   \* the types the controller writes: Ready and Evicted
  Statuses,   \* True, False, Unknown
  Reasons,    \* the texts that come with a status: reason and message
  Items,      \* work items of the request
  Addresses,  \* where lists are in memory
  None,       \* no list, no entry
  MaxTime,    \* bound: when the clock stops
  MaxWrites   \* bound: how often the status is written

\* What refers to a list: the informer's cache, and the items.
Holders == {"cache"} \cup Items

Condition == [Type : Types, Status : Statuses, Reason : Reasons, LastTransitionTime : Nat]

ASSUME TypesAssumption   == OwnTypes \subseteq Types
ASSUME BoundsAssumption  == MaxTime \in Nat /\ MaxWrites \in Nat
ASSUME HoldersAssumption == "cache" \notin Items /\ None \notin Addresses
ASSUME NoneAssumption    == None \notin Condition
\* Memory does not run out.
ASSUME MemoryAssumption  ==
  \A used \in [Holders -> Addresses \cup {None}] :
    \E a \in Addresses : \A h \in Holders : used[h] # a

VARIABLES
  stored,    \* the API server's object: its resource version and its conditions
  heap,      \* the list at each address
  at,        \* where the list of each holder is
  version,   \* the resource version of each holder's object
  pc,        \* where the worker that has the item stands
  now,       \* the clock, in the seconds that metav1.Time keeps
  storedAt,  \* history: when the status was last written
  flipped,   \* history: the types whose status changed since the copy was made
  shared,    \* history: the last entry an interceptor wrote, for each type
  seen       \* history: the list that the watch last delivered

vars == <<stored, heap, at, version, pc, now, storedAt, flipped, shared, seen>>

Has(list, type)    == \E k \in DOMAIN list : list[k].Type = type
Unique(list)       == \A j, k \in DOMAIN list : list[j].Type = list[k].Type => j = k

\* The first entry of the type; the loop breaks there.
First(list, type) ==
  CHOOSE k \in DOMAIN list : /\ list[k].Type = type
                             /\ \A j \in DOMAIN list : list[j].Type = type => k <= j

StatusOf(list, type) == list[First(list, type)].Status

\* Slip: two strings are swapped.
swappedCondition(type, status, reason, time) ==
  [Type |-> type, Status |-> reason, Reason |-> status, LastTransitionTime |-> time]

condition(type, status, reason, time) ==
  [Type |-> type, Status |-> status, Reason |-> reason, LastTransitionTime |-> time]

\* Slip: the transition time of an entry found is kept, whatever its status.
KeptTime(list, type, status) == list[First(list, type)].LastTransitionTime

\* The transition time of an entry found with the same status is kept.
TransitionTime(list, type, status) ==
  IF StatusOf(list, type) # status THEN now
  ELSE list[First(list, type)].LastTransitionTime

\* Slip: the entry found is not looked for.
AppendCondition(list, type, status, reason) ==
  Append(list, condition(type, status, reason, now))

\* Slip: the transition time is always now.
StampCondition(list, type, status, reason) ==
  IF Has(list, type)
  THEN [list EXCEPT ![First(list, type)] = condition(type, status, reason, now)]
  ELSE Append(list, condition(type, status, reason, now))

UpsertCondition(list, type, status, reason) ==
  IF Has(list, type)
  THEN [list EXCEPT ![First(list, type)] =
          condition(type, status, reason, TransitionTime(list, type, status))]
  ELSE Append(list, condition(type, status, reason, now))

-----------------------------------------------------------------------------
(* Memory.                                                                 *)

List(h) == heap[at[h]]

\* Where make and append put a new list.
Fresh == {a \in Addresses : \A h \in Holders : at[h] # a}

\* The lists are now those in lists, at the addresses in places.  What nobody refers
\* to is collected.
Memory(lists, places) ==
  /\ at' = places
  /\ heap' = [a \in Addresses |->
                IF \E h \in Holders : places[h] = a THEN lists[a] ELSE <<>>]

\* Slip: the struct is copied, and what it points to is not.
ShallowCopy(i) == Memory(heap, [at EXCEPT ![i] = at["cache"]])

\* A new list, with the entries of the informer's object, for item i.
DeepCopy(i) ==
  \E a \in Fresh : Memory([heap EXCEPT ![a] = List("cache")], [at EXCEPT ![i] = a])

TypeOK ==
  /\ stored \in [version : Nat, conditions : Seq(Condition)]
  /\ heap \in [Addresses -> Seq(Condition)]
  /\ at \in [Holders -> Addresses \cup {None}]
  /\ version \in [Holders -> Nat]
  /\ pc \in [Items -> {"free", "perform", "update"}]
  /\ now \in Nat /\ storedAt \in Nat
  /\ flipped \in [Items -> SUBSET Types]
  /\ shared \in [Types -> Condition \cup {None}]
  /\ seen \in Seq(Condition)

Init ==
  /\ stored = [version |-> 0, conditions |-> <<>>]
  /\ heap = [a \in Addresses |-> <<>>]
  /\ at \in {f \in [Holders -> Addresses \cup {None}] :
               f["cache"] # None /\ \A i \in Items : f[i] = None}
  /\ version = [h \in Holders |-> 0]
  /\ pc = [i \in Items |-> "free"]
  /\ now = 0 /\ storedAt = 0
  /\ flipped = [i \in Items |-> {}]
  /\ shared = [t \in Types |-> None]
  /\ seen = <<>>

-----------------------------------------------------------------------------
(* The controller.                                                         *)

\* The watch hands over a newer object; its list is one of its own.
Watch ==
  /\ version["cache"] # stored.version
  /\ version' = [version EXCEPT !["cache"] = stored.version]
  /\ \E a \in Fresh :
       Memory([heap EXCEPT ![a] = stored.conditions], [at EXCEPT !["cache"] = a])
  /\ seen' = stored.conditions
  /\ UNCHANGED <<stored, pc, now, storedAt, flipped, shared>>

\* A handler queues a deep copy, and a worker takes it.
Enqueue(i) ==
  /\ pc[i] = "free"
  /\ pc' = [pc EXCEPT ![i] = "perform"]
  /\ DeepCopy(i)
  /\ version' = [version EXCEPT ![i] = version["cache"]]
  /\ flipped' = [flipped EXCEPT ![i] = {}]
  /\ UNCHANGED <<stored, now, storedAt, shared, seen>>

\* Perform knows an outcome.  The entry found is replaced in the list that the copy
\* refers to; append makes a new list, as make left no room in the old one.
Record(i, type, status, reason) ==
  /\ pc[i] = "perform"
  /\ type \in OwnTypes
  /\ pc' = [pc EXCEPT ![i] = "update"]
  /\ LET new == UpsertCondition(List(i), type, status, reason) IN
       IF Has(List(i), type)
       THEN Memory([heap EXCEPT ![at[i]] = new], at)
       ELSE \E a \in Fresh : Memory([heap EXCEPT ![a] = new], [at EXCEPT ![i] = a])
  /\ flipped' = [flipped EXCEPT ![i] =
       IF Has(List(i), type) /\ StatusOf(List(i), type) = status THEN @ ELSE @ \cup {type}]
  /\ UNCHANGED <<stored, version, now, storedAt, shared, seen>>

\* The API server stores what was sent.  The answer may be lost.
Stores(list) ==
  /\ stored.version < MaxWrites
  /\ stored' = [version |-> stored.version + 1, conditions |-> list]
  /\ storedAt' = now

\* Slip: the copy is given the latest resource version before it is sent.
SendLatest(i) == Stores(List(i)) \/ UNCHANGED <<stored, storedAt>>

\* The write is stored, or it is refused as the copy is old, or it is lost.
Send(i) ==
  \/ version[i] = stored.version /\ Stores(List(i))
  \/ UNCHANGED <<stored, storedAt>>

\* Then, as Perform answers, the item is forgotten, or it is tried again with the
\* same copy.
UpdateStatus(i) ==
  /\ pc[i] = "update"
  /\ Send(i)
  /\ \/ /\ pc' = [pc EXCEPT ![i] = "perform"]
        /\ UNCHANGED <<heap, at>>
     \/ /\ pc' = [pc EXCEPT ![i] = "free"]
        /\ Memory(heap, [at EXCEPT ![i] = None])
  /\ UNCHANGED <<version, now, flipped, shared, seen>>

\* The pod is gone: nothing is recorded.
Skip(i) ==
  /\ pc[i] = "perform"
  /\ pc' = [pc EXCEPT ![i] = "free"]
  /\ Memory(heap, [at EXCEPT ![i] = None])
  /\ UNCHANGED <<stored, version, now, storedAt, flipped, shared, seen>>

-----------------------------------------------------------------------------
(* Others.                                                                 *)

\* An interceptor writes an entry of its own.
InterceptorShares(type, status, reason) ==
  /\ type \notin OwnTypes
  /\ LET new == UpsertCondition(stored.conditions, type, status, reason) IN
       /\ Stores(new)
       /\ shared' = [shared EXCEPT ![type] = new[First(new, type)]]
  /\ UNCHANGED <<heap, at, version, pc, now, flipped, seen>>

Tick ==
  /\ now < MaxTime
  /\ now' = now + 1
  /\ UNCHANGED <<stored, heap, at, version, pc, storedAt, flipped, shared, seen>>

Next ==
  \/ Watch
  \/ \E i \in Items :
       \/ Enqueue(i) \/ UpdateStatus(i) \/ Skip(i)
       \/ \E t \in Types, s \in Statuses, r \in Reasons : Record(i, t, s, r)
  \/ \E t \in Types, s \in Statuses, r \in Reasons : InterceptorShares(t, s, r)
  \/ Tick

Spec == Init /\ [][Next]_vars

-----------------------------------------------------------------------------

\* The list stays a map by type, as listMapKey=type in the schema demands: the API
\* server would refuse the whole status otherwise.
TypesAreUnique == Unique(stored.conditions)

\* UpsertCondition writes into the list it finds, and workers run side by side: only
\* the deep copy of Enqueue keeps the informer's object, which everybody reads, as
\* the watch delivered it.
CacheIsReadOnly == List("cache") = seen

\* UpdateStatus sends the whole list.  However old the copy, and however often it is
\* sent again, no entry an interceptor wrote is lost, or replaced by an older one.
InterceptorsEntriesSurvive ==
  \A t \in Types \ OwnTypes :
    IF shared[t] = None THEN ~Has(stored.conditions, t)
    ELSE \E k \in DOMAIN stored.conditions : stored.conditions[k] = shared[t]

\* lastTransitionTime through retries: an entry of the controller keeps its status and
\* its time, or an item has changed the status since the previous write, and the time
\* is one since then; never one from a copy that is older than what it replaces.
TransitionTimesAreRight ==
  [][\A k \in DOMAIN stored'.conditions :
       LET new == stored'.conditions[k] IN
       new.Type \in OwnTypes =>
         \/ /\ Has(stored.conditions, new.Type)
            /\ LET old == stored.conditions[First(stored.conditions, new.Type)] IN
                 /\ new.Status = old.Status
                 /\ new.LastTransitionTime = old.LastTransitionTime
         \/ /\ \E i \in Items : pc[i] = "update" /\ new.Type \in flipped[i]
            /\ new.LastTransitionTime \in storedAt..now]_stored

-----------------------------------------------------------------------------
(* Refinement.                                                             *)

EntryOf(list, type) == IF Has(list, type) THEN list[First(list, type)] ELSE None

Map == INSTANCE ConditionMap WITH
  entry     <- [t \in Types |-> EntryOf(stored.conditions, t)],
  writtenAt <- storedAt

\* Whatever copies are written into, sent, refused and sent again, by however many
\* items: to a reader of the object the list is a map from types to entries, each of
\* which only its owner changes, none of which vanishes, and whose times fit.
ImplementsMap == Map!Spec
=============================================================================
