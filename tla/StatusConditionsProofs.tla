----------------------- MODULE StatusConditionsProofs -----------------------
(***************************************************************************)
(* Proofs about StatusConditions, for any types, statuses and reasons, and *)
(* lists of any length; and that it implements ConditionMap.               *)
(***************************************************************************)
EXTENDS StatusConditions, TLAPS

\* In a list without duplicates the first entry of a type is the only one.
LEMMA TheFirstIsTheOnly ==
  ASSUME NEW list \in Seq(Condition), Unique(list), NEW k \in DOMAIN list
  PROVE  First(list, list[k].Type) = k
<1> DEFINE IsFirst(m) == /\ list[m].Type = list[k].Type
                         /\ \A j \in DOMAIN list : list[j].Type = list[k].Type => m <= j
<1>1. DOMAIN list \subseteq Nat
  OBVIOUS
<1>2. IsFirst(k)
  BY <1>1 DEF Unique
<1>3. \A m \in DOMAIN list : IsFirst(m) => m = k
  BY DEF Unique
<1> QED
  BY <1>2, <1>3 DEF First

LEMMA FoundEntry ==
  ASSUME NEW list \in Seq(Condition), Unique(list), NEW type, Has(list, type)
  PROVE  First(list, type) \in DOMAIN list /\ list[First(list, type)].Type = type
BY TheFirstIsTheOnly DEF Has

\* What UpsertCondition does to a list without duplicates: at place n it leaves the
\* entry of the type, and it changes nothing else.
LEMMA UpsertedList ==
  ASSUME NEW list \in Seq(Condition), Unique(list), now \in Nat,
         NEW type \in Types, NEW status \in Statuses, NEW reason \in Reasons
  PROVE  LET new == UpsertCondition(list, type, status, reason) IN
         /\ new \in Seq(Condition)
         /\ Unique(new)
         /\ DOMAIN list \subseteq DOMAIN new
         /\ \A k \in DOMAIN list : new[k].Type = list[k].Type
         /\ \A k \in DOMAIN list : list[k].Type # type => new[k] = list[k]
         /\ \E n \in DOMAIN new :
              /\ new[n].Type = type /\ new[n].Status = status
              /\ new[n].LastTransitionTime =
                   IF Has(list, type) THEN TransitionTime(list, type, status) ELSE now
              /\ \A k \in DOMAIN new : k # n => k \in DOMAIN list /\ list[k].Type # type
<1> DEFINE new == UpsertCondition(list, type, status, reason)
<1>1. \A time \in Nat : condition(type, status, reason, time) \in Condition
  BY DEF condition, Condition
<1>2. CASE Has(list, type)
  <2> DEFINE n     == First(list, type)
             entry == condition(type, status, reason, TransitionTime(list, type, status))
  <2>1. n \in DOMAIN list /\ list[n].Type = type
    BY <1>2, FoundEntry
  <2>2. list[n] \in Condition
    BY <2>1
  <2>3. TransitionTime(list, type, status) \in Nat
    BY <2>2 DEF TransitionTime, Condition
  <2>4. entry \in Condition
    BY <1>1, <2>3
  <2>5. /\ entry.Type = type /\ entry.Status = status
        /\ entry.LastTransitionTime = TransitionTime(list, type, status)
    BY DEF condition
  <2> HIDE DEF n, entry
  <2>6. new = [list EXCEPT ![n] = entry]
    BY <1>2 DEF UpsertCondition, n, entry
  <2>7. new \in Seq(Condition) /\ DOMAIN new = DOMAIN list
    BY <2>1, <2>4, <2>6
  <2>8. new[n] = entry /\ \A k \in DOMAIN list : k # n => new[k] = list[k]
    BY <2>1, <2>6
  <2> HIDE DEF new
  <2>9. \A k \in DOMAIN list : k # n => list[k].Type # type
    BY <2>1 DEF Unique
  <2>10. \A k \in DOMAIN list : new[k].Type = list[k].Type
    BY <2>1, <2>5, <2>8
  <2>11. Unique(new)
    BY <2>7, <2>10 DEF Unique
  <2> QED
    BY <1>2, <2>1, <2>5, <2>7, <2>8, <2>9, <2>10, <2>11 DEF new
<1>3. CASE ~Has(list, type)
  <2> DEFINE n     == Len(list) + 1
             entry == condition(type, status, reason, now)
  <2>1. entry \in Condition
    BY <1>1
  <2>2. /\ entry.Type = type /\ entry.Status = status /\ entry.LastTransitionTime = now
    BY DEF condition
  <2> HIDE DEF entry
  <2>3. new = Append(list, entry)
    BY <1>3 DEF UpsertCondition, entry
  <2>4. /\ new \in Seq(Condition) /\ n \in DOMAIN new /\ new[n] = entry
        /\ DOMAIN list \subseteq DOMAIN new
        /\ \A k \in DOMAIN list : new[k] = list[k]
        /\ \A k \in DOMAIN new : k # n => k \in DOMAIN list
    BY <2>1, <2>3
  <2>5. \A k \in DOMAIN list : list[k].Type # type
    BY <1>3 DEF Has
  <2> HIDE DEF new, n
  <2>6. Unique(new)
    BY <2>2, <2>4, <2>5 DEF Unique
  <2> QED
    BY <1>3, <2>2, <2>4, <2>5, <2>6 DEF new
<1> QED
  BY <1>2, <1>3

-----------------------------------------------------------------------------
(* Memory.                                                                 *)

\* No list has two holders; the cache has one, and so has every item in a worker.
Separate ==
  /\ \A g, h \in Holders : at[g] = at[h] /\ at[g] # None => g = h
  /\ at["cache"] # None
  /\ \A i \in Items : at[i] = None <=> pc[i] = "free"

\* A step gives holder h a list of its own, and leaves the others theirs.
Gives(h, list) ==
  /\ heap' \in [Addresses -> Seq(Condition)]
  /\ at' \in [Holders -> Addresses \cup {None}]
  /\ at'[h] # None /\ List(h)' = list
  /\ \A g \in Holders \ {h} : at'[g] = at[g] /\ (at[g] # None => List(g)' = List(g))
  /\ \A f, g \in Holders : at'[f] = at'[g] /\ at'[f] # None => f = g

LEMMA AddressesAreSome == ASSUME NEW a \in Addresses PROVE a # None
BY HoldersAssumption

LEMMA ListsHaveTypes ==
  ASSUME TypeOK, NEW h \in Holders, at[h] # None
  PROVE  at[h] \in Addresses /\ List(h) \in Seq(Condition)
BY DEF TypeOK, List

\* A new list is nobody else's.
LEMMA AllocationGives ==
  ASSUME TypeOK, Separate, NEW h \in Holders, NEW a \in Fresh, NEW list \in Seq(Condition),
         Memory([heap EXCEPT ![a] = list], [at EXCEPT ![h] = a])
  PROVE  Gives(h, list)
<1> /\ heap \in [Addresses -> Seq(Condition)] /\ at \in [Holders -> Addresses \cup {None}]
    /\ a \in Addresses /\ a # None /\ \A g \in Holders : at[g] # a
  BY AddressesAreSome DEF TypeOK, Fresh
<1> DEFINE lists  == [heap EXCEPT ![a] = list]
           places == [at EXCEPT ![h] = a]
<1>1. /\ lists \in [Addresses -> Seq(Condition)] /\ lists[a] = list
      /\ \A b \in Addresses : b # a => lists[b] = heap[b]
  OBVIOUS
<1>2. /\ places \in [Holders -> Addresses \cup {None}] /\ places[h] = a
      /\ \A g \in Holders \ {h} : places[g] = at[g]
  OBVIOUS
<1>3. at' = places
  BY DEF Memory
<1>4. heap' = [b \in Addresses |-> IF \E g \in Holders : places[g] = b THEN lists[b] ELSE <<>>]
  BY DEF Memory
<1> HIDE DEF lists, places
<1>5. heap' \in [Addresses -> Seq(Condition)]
  BY <1>1, <1>4
<1>6. \A g \in Holders : places[g] # None => heap'[places[g]] = lists[places[g]]
  BY <1>2, <1>4
<1>7. List(h)' = list
  BY <1>1, <1>2, <1>3, <1>6 DEF List
<1>8. ASSUME NEW g \in Holders \ {h}
      PROVE  at'[g] = at[g] /\ (at[g] # None => List(g)' = List(g))
  BY <1>1, <1>2, <1>3, <1>6 DEF List
<1>9. \A f, g \in Holders : at'[f] = at'[g] /\ at'[f] # None => f = g
  BY <1>2, <1>3 DEF Separate
<1> QED
  BY <1>2, <1>3, <1>5, <1>7, <1>8, <1>9 DEF Gives

\* Writing into a list is seen by its holder alone.
LEMMA OverwritingGives ==
  ASSUME TypeOK, Separate, NEW h \in Holders, at[h] # None, NEW list \in Seq(Condition),
         Memory([heap EXCEPT ![at[h]] = list], at)
  PROVE  Gives(h, list)
<1> /\ heap \in [Addresses -> Seq(Condition)] /\ at \in [Holders -> Addresses \cup {None}]
    /\ at[h] \in Addresses
  BY ListsHaveTypes DEF TypeOK
<1> DEFINE lists == [heap EXCEPT ![at[h]] = list]
<1>1. /\ lists \in [Addresses -> Seq(Condition)] /\ lists[at[h]] = list
      /\ \A b \in Addresses : b # at[h] => lists[b] = heap[b]
  OBVIOUS
<1>2. at' = at
  BY DEF Memory
<1>3. heap' = [b \in Addresses |-> IF \E g \in Holders : at[g] = b THEN lists[b] ELSE <<>>]
  BY DEF Memory
<1> HIDE DEF lists
<1>4. heap' \in [Addresses -> Seq(Condition)]
  BY <1>1, <1>3
<1>5. \A g \in Holders : at[g] # None => heap'[at[g]] = lists[at[g]]
  BY <1>3
<1>6. List(h)' = list
  BY <1>1, <1>2, <1>5 DEF List
<1>7. ASSUME NEW g \in Holders \ {h}
      PROVE  at'[g] = at[g] /\ (at[g] # None => List(g)' = List(g))
  BY <1>1, <1>2, <1>5 DEF List, Separate
<1>8. \A f, g \in Holders : at'[f] = at'[g] /\ at'[f] # None => f = g
  BY <1>2 DEF Separate
<1> QED
  BY <1>2, <1>4, <1>6, <1>7, <1>8 DEF Gives

\* Item i lets go of its list.
Drops(i) ==
  /\ heap' \in [Addresses -> Seq(Condition)]
  /\ at' = [at EXCEPT ![i] = None]
  /\ \A g \in Holders \ {i} : at'[g] = at[g] /\ (at[g] # None => List(g)' = List(g))

LEMMA ReleaseDrops ==
  ASSUME TypeOK, NEW i \in Items, Memory(heap, [at EXCEPT ![i] = None])
  PROVE  Drops(i)
<1> /\ heap \in [Addresses -> Seq(Condition)] /\ at \in [Holders -> Addresses \cup {None}]
    /\ i \in Holders /\ <<>> \in Seq(Condition)
  BY DEF TypeOK, Holders
<1> DEFINE places == [at EXCEPT ![i] = None]
<1>1. \A g \in Holders \ {i} : places[g] = at[g]
  OBVIOUS
<1>2. at' = places
  BY DEF Memory
<1>3. heap' = [b \in Addresses |-> IF \E g \in Holders : places[g] = b THEN heap[b] ELSE <<>>]
  BY DEF Memory
<1> HIDE DEF places
<1>4. heap' \in [Addresses -> Seq(Condition)]
  BY <1>3
<1>5. \A g \in Holders : places[g] \in Addresses => heap'[places[g]] = heap[places[g]]
  BY <1>3
<1>6. \A g \in Holders \ {i} : at'[g] = at[g] /\ (at[g] # None => List(g)' = List(g))
  BY <1>1, <1>2, <1>5 DEF List
<1> QED
  BY <1>2, <1>4, <1>6 DEF Drops, places

-----------------------------------------------------------------------------
(* The invariant.                                                          *)

\* The list base has the entry, but perhaps for the texts.
Kept(base, e) ==
  \E k \in DOMAIN base :
    /\ base[k].Type = e.Type
    /\ base[k].Status = e.Status
    /\ base[k].LastTransitionTime = e.LastTransitionTime

\* The list is base, but for entries of the controller with types that have turned,
\* at one of the times; no entry is missing.
Follows(base, times, list, types) ==
  /\ \A k \in DOMAIN base : \E j \in DOMAIN list : list[j].Type = base[k].Type
  /\ \A k \in DOMAIN base :
       base[k].Type \notin OwnTypes => \E j \in DOMAIN list : list[j] = base[k]
  /\ \A j \in DOMAIN list :
       list[j].Type \notin OwnTypes => \E k \in DOMAIN base : base[k] = list[j]
  /\ \A j \in DOMAIN list :
       list[j].Type \in OwnTypes =>
         \/ Kept(base, list[j])
         \/ list[j].Type \in types /\ list[j].LastTransitionTime \in times

Turned(h) == IF h = "cache" THEN {} ELSE flipped[h]

CopiesFollow ==
  \A h \in Holders :
    at[h] # None /\ version[h] = stored.version =>
      Follows(stored.conditions, storedAt..now, List(h), Turned(h))

ListsAreMaps ==
  Unique(stored.conditions) /\ \A h \in Holders : at[h] # None => Unique(List(h))

InOrder == storedAt <= now /\ \A h \in Holders : version[h] <= stored.version

EntriesHaveTypes == \A t \in Types : shared[t] # None => shared[t].Type = t

\* The version of an object that lags is no longer the stored one, so the server
\* refuses it; and the copies that it accepts follow what is stored.
ConditionsInv ==
  /\ TypeOK /\ Separate /\ InOrder /\ ListsAreMaps /\ CopiesFollow
  /\ CacheIsReadOnly /\ InterceptorsEntriesSurvive /\ EntriesHaveTypes

LEMMA HoldersAre == "cache" \in Holders /\ \A i \in Items : i \in Holders /\ i # "cache"
BY HoldersAssumption DEF Holders

LEMMA EveryListFollowsItself ==
  ASSUME NEW list, NEW times, NEW types
  PROVE  Follows(list, times, list, types)
BY DEF Follows, Kept

LEMMA FollowingLasts ==
  ASSUME NEW base, NEW times, NEW later, times \subseteq later,
         NEW list, NEW types, Follows(base, times, list, types)
  PROVE  Follows(base, later, list, types)
BY DEF Follows

\* UpsertCondition turns at most its own type.
LEMMA UpsertingFollows ==
  ASSUME NEW list \in Seq(Condition), Unique(list), NEW types, NEW base, NEW times,
         Follows(base, times, list, types), now \in Nat, now \in times,
         NEW type \in Types, type \in OwnTypes, NEW status \in Statuses, NEW reason \in Reasons
  PROVE  Follows(base, times, UpsertCondition(list, type, status, reason),
                 IF Has(list, type) /\ StatusOf(list, type) = status
                 THEN types ELSE types \cup {type})
<1> DEFINE new    == UpsertCondition(list, type, status, reason)
           turned == IF Has(list, type) /\ StatusOf(list, type) = status
                     THEN types ELSE types \cup {type}
<1>1. /\ DOMAIN list \subseteq DOMAIN new
      /\ \A k \in DOMAIN list : list[k].Type # type => new[k] = list[k]
  BY UpsertedList
<1>7. \A k \in DOMAIN list : k \in DOMAIN new /\ new[k].Type = list[k].Type
  BY UpsertedList
<1>2. PICK n \in DOMAIN new :
        /\ new[n].Type = type /\ new[n].Status = status
        /\ new[n].LastTransitionTime =
             IF Has(list, type) THEN TransitionTime(list, type, status) ELSE now
        /\ \A k \in DOMAIN new : k # n => k \in DOMAIN list /\ list[k].Type # type
  BY UpsertedList
<1> HIDE DEF new
<1>3. \A k \in DOMAIN new : k # n => k \in DOMAIN list /\ new[k] = list[k]
  BY <1>1, <1>2
<1>4. types \subseteq turned
  OBVIOUS
<1>5. Kept(base, new[n]) \/ (type \in turned /\ new[n].LastTransitionTime \in times)
  <2>1. CASE Has(list, type) /\ StatusOf(list, type) = status
    <3> DEFINE f == First(list, type)
    <3>1. f \in DOMAIN list /\ list[f].Type = type /\ list[f].Status = status
      BY <2>1, FoundEntry DEF StatusOf
    <3>2. new[n].LastTransitionTime = list[f].LastTransitionTime
      BY <1>2, <2>1 DEF TransitionTime, StatusOf
    <3>3. Kept(base, list[f]) \/ (type \in types /\ list[f].LastTransitionTime \in times)
      BY <3>1 DEF Follows
    <3>4. Kept(base, list[f]) => Kept(base, new[n])
      BY <1>2, <3>1, <3>2 DEF Kept
    <3> QED
      BY <1>4, <3>2, <3>3, <3>4
  <2>2. CASE ~(Has(list, type) /\ StatusOf(list, type) = status)
    <3>1. new[n].LastTransitionTime = now
      BY <1>2, <2>2 DEF TransitionTime, StatusOf
    <3> QED
      BY <2>2, <3>1
  <2> QED
    BY <2>1, <2>2
<1> HIDE DEF turned
<1>6. Follows(base, times, new, turned)
  <2>1. ASSUME NEW k \in DOMAIN base, base[k].Type \notin OwnTypes
        PROVE  \E j \in DOMAIN new : new[j] = base[k]
    <3>1. PICK j \in DOMAIN list : list[j] = base[k]
      BY <2>1 DEF Follows
    <3> QED
      BY <1>1, <2>1, <3>1
  <2>2. ASSUME NEW j \in DOMAIN new, new[j].Type \notin OwnTypes
        PROVE  \E k \in DOMAIN base : base[k] = new[j]
    BY <1>2, <1>3, <2>2 DEF Follows
  <2>3. ASSUME NEW j \in DOMAIN new, new[j].Type \in OwnTypes
        PROVE  \/ Kept(base, new[j])
               \/ new[j].Type \in turned /\ new[j].LastTransitionTime \in times
    <3>1. CASE j = n
      BY <1>2, <1>5, <3>1
    <3>2. CASE j # n
      BY <1>3, <1>4, <2>3, <3>2 DEF Follows
    <3> QED
      BY <3>1, <3>2
  <2>4. ASSUME NEW k \in DOMAIN base
        PROVE  \E j \in DOMAIN new : new[j].Type = base[k].Type
    <3>1. PICK j \in DOMAIN list : list[j].Type = base[k].Type
      BY DEF Follows
    <3> QED
      BY <1>7, <3>1
  <2> QED
    BY <2>1, <2>2, <2>3, <2>4 DEF Follows
<1> QED
  BY <1>6 DEF new, turned

-----------------------------------------------------------------------------
(* Steps that give holder h a list, and store nothing.                     *)

LEMMA GivingKeeps ==
  ASSUME ConditionsInv, NEW h \in Holders, NEW list \in Seq(Condition), NEW types,
         Gives(h, list), Turned(h)' = types,
         UNCHANGED <<stored, storedAt, now, shared>>,
         version' = [version EXCEPT ![h] = version'[h]],
         version'[h] \in Nat, version'[h] <= stored.version,
         pc' \in [Items -> {"free", "perform", "update"}],
         \A i \in Items \ {h} : pc'[i] = pc[i],
         h \in Items => pc'[h] # "free",
         flipped' \in [Items -> SUBSET Types],
         \A i \in Items \ {h} : flipped'[i] = flipped[i],
         seen' = IF h = "cache" THEN list ELSE seen,
         Unique(list),
         version'[h] = stored.version => Follows(stored.conditions, storedAt..now, list, types)
  PROVE  ConditionsInv'
<1> /\ TypeOK /\ Separate /\ InOrder /\ ListsAreMaps /\ CopiesFollow
    /\ CacheIsReadOnly /\ InterceptorsEntriesSurvive /\ EntriesHaveTypes
  BY DEF ConditionsInv
<1> version \in [Holders -> Nat] /\ "cache" \in Holders
  BY HoldersAre DEF TypeOK
<1>1. \A g \in Holders \ {h} : version'[g] = version[g] /\ Turned(g)' = Turned(g)
  BY HoldersAre DEF Turned, Holders
<1>2. TypeOK'
  BY DEF TypeOK, Gives
<1>3. Separate'
  BY HoldersAre DEF Separate, Gives, Holders
<1>4. InOrder'
  BY <1>1 DEF InOrder
<1>5. ListsAreMaps'
  <2>1. Unique(stored'.conditions)
    BY DEF ListsAreMaps
  <2>2. ASSUME NEW g \in Holders, at'[g] # None
        PROVE  Unique(List(g)')
    <3>1. CASE g = h
      BY <3>1 DEF Gives
    <3>2. CASE g # h
      BY <2>2, <3>2 DEF Gives, ListsAreMaps
    <3> QED
      BY <3>1, <3>2
  <2> QED
    BY <2>1, <2>2 DEF ListsAreMaps, Unique
<1>6. CopiesFollow'
  <2> SUFFICES ASSUME NEW g \in Holders, at'[g] # None, version'[g] = stored.version
               PROVE  Follows(stored.conditions, storedAt..now, List(g)', Turned(g)')
    BY DEF CopiesFollow
  <2>1. CASE g = h
    BY <2>1 DEF Gives
  <2>2. CASE g # h
    BY <1>1, <2>2 DEF CopiesFollow, Gives
  <2> QED
    BY <2>1, <2>2
<1>7. CacheIsReadOnly'
  BY DEF CacheIsReadOnly, Gives, Separate
<1>8. InterceptorsEntriesSurvive' /\ EntriesHaveTypes'
  BY DEF InterceptorsEntriesSurvive, EntriesHaveTypes, Has
<1> QED
  BY <1>2, <1>3, <1>4, <1>5, <1>6, <1>7, <1>8 DEF ConditionsInv

LEMMA WatchKeepsInv == ASSUME ConditionsInv, Watch PROVE ConditionsInv'
<1> /\ TypeOK /\ Separate /\ InOrder /\ ListsAreMaps
  BY DEF ConditionsInv
<1> "cache" \in Holders /\ version \in [Holders -> Nat]
  BY HoldersAre DEF TypeOK
<1> stored.conditions \in Seq(Condition) /\ stored.version \in Nat
  BY DEF TypeOK
<1>1. Gives("cache", stored.conditions)
  BY AllocationGives DEF Watch
<1>2. Turned("cache")' = {}
  BY DEF Turned
<1>3. version' = [version EXCEPT !["cache"] = version'["cache"]] /\ version'["cache"] = stored.version
  BY DEF Watch
<1>4. Follows(stored.conditions, storedAt..now, stored.conditions, {})
  BY EveryListFollowsItself
<1>5. Unique(stored.conditions)
  BY DEF ListsAreMaps
<1>6. /\ UNCHANGED <<stored, storedAt, now, shared>> /\ pc' = pc /\ flipped' = flipped
      /\ seen' = stored.conditions
  BY DEF Watch
<1>7. /\ pc' \in [Items -> {"free", "perform", "update"}]
      /\ flipped' \in [Items -> SUBSET Types]
      /\ stored.version <= stored.version
  BY <1>6 DEF TypeOK
<1> QED
  BY <1>1, <1>2, <1>3, <1>4, <1>5, <1>6, <1>7, HoldersAssumption, GivingKeeps

LEMMA EnqueueKeepsInv == ASSUME ConditionsInv, NEW i \in Items, Enqueue(i) PROVE ConditionsInv'
<1> /\ TypeOK /\ Separate /\ InOrder /\ ListsAreMaps /\ CopiesFollow
  BY DEF ConditionsInv
<1> "cache" \in Holders /\ i \in Holders /\ i # "cache" /\ version \in [Holders -> Nat]
  BY HoldersAre DEF TypeOK
<1> DEFINE list == List("cache")
<1>1. at["cache"] # None /\ list \in Seq(Condition)
  BY ListsHaveTypes DEF Separate
<1>2. Unique(list)
  BY <1>1 DEF ListsAreMaps
<1>3. version["cache"] = stored.version => Follows(stored.conditions, storedAt..now, list, {})
  BY <1>1 DEF CopiesFollow, Turned
<1> HIDE DEF list
<1>4. Gives(i, list)
  BY <1>1, AllocationGives DEF Enqueue, DeepCopy, list
<1>5. /\ UNCHANGED <<stored, storedAt, now, shared, seen>>
      /\ pc' = [pc EXCEPT ![i] = "perform"] /\ flipped' = [flipped EXCEPT ![i] = {}]
      /\ version' = [version EXCEPT ![i] = version["cache"]]
  BY DEF Enqueue
<1>6. Turned(i)' = {}
  BY <1>5 DEF Turned, TypeOK
<1>7. /\ version' = [version EXCEPT ![i] = version'[i]] /\ version'[i] = version["cache"]
      /\ version'[i] \in Nat /\ version'[i] <= stored.version
  BY <1>5 DEF InOrder
<1>8. /\ pc' \in [Items -> {"free", "perform", "update"}] /\ pc'[i] # "free"
      /\ flipped' \in [Items -> SUBSET Types]
      /\ \A j \in Items \ {i} : pc'[j] = pc[j] /\ flipped'[j] = flipped[j]
  BY <1>5 DEF TypeOK
<1> QED
  BY <1>1, <1>2, <1>3, <1>4, <1>5, <1>6, <1>7, <1>8, GivingKeeps

LEMMA RecordKeepsInv ==
  ASSUME ConditionsInv, NEW i \in Items, NEW type \in Types, NEW status \in Statuses,
         NEW reason \in Reasons, Record(i, type, status, reason)
  PROVE  ConditionsInv'
<1> /\ TypeOK /\ Separate /\ InOrder /\ ListsAreMaps /\ CopiesFollow
  BY DEF ConditionsInv
<1> i \in Holders /\ i # "cache" /\ version \in [Holders -> Nat] /\ type \in OwnTypes
  BY HoldersAre DEF TypeOK, Record
<1> DEFINE new   == UpsertCondition(List(i), type, status, reason)
           types == IF Has(List(i), type) /\ StatusOf(List(i), type) = status
                    THEN flipped[i] ELSE flipped[i] \cup {type}
<1>1. pc[i] = "perform" /\ at[i] # None
  BY DEF Record, Separate
<1>2. List(i) \in Seq(Condition) /\ Unique(List(i))
  BY <1>1, ListsHaveTypes DEF ListsAreMaps
<1>3. now \in Nat /\ now \in storedAt..now
  BY DEF TypeOK, InOrder
<1>4. new \in Seq(Condition) /\ Unique(new)
  BY <1>2, <1>3, UpsertedList
<1>5. version[i] = stored.version => Follows(stored.conditions, storedAt..now, new, types)
  <2> SUFFICES ASSUME version[i] = stored.version
               PROVE  Follows(stored.conditions, storedAt..now, new, types)
    OBVIOUS
  <2>1. Follows(stored.conditions, storedAt..now, List(i), flipped[i])
    BY <1>1 DEF CopiesFollow, Turned
  <2> QED
    BY <1>2, <1>3, <2>1, UpsertingFollows
<1>6. types \in SUBSET Types
  BY DEF TypeOK
<1>7. /\ UNCHANGED <<stored, version, storedAt, now, shared, seen>>
      /\ pc' = [pc EXCEPT ![i] = "update"] /\ flipped' = [flipped EXCEPT ![i] = types]
  BY DEF Record
<1>8. Gives(i, new)
  <2>1. CASE Has(List(i), type)
    <3>1. Memory([heap EXCEPT ![at[i]] = new], at)
      BY <2>1 DEF Record
    <3> HIDE DEF new
    <3> QED
      BY <1>1, <1>4, <3>1, OverwritingGives
  <2>2. CASE ~Has(List(i), type)
    <3>1. PICK a \in Fresh : Memory([heap EXCEPT ![a] = new], [at EXCEPT ![i] = a])
      BY <2>2 DEF Record
    <3> HIDE DEF new
    <3> QED
      BY <1>4, <3>1, AllocationGives
  <2> QED
    BY <2>1, <2>2
<1> HIDE DEF new, types
<1>9. Turned(i)' = types
  BY <1>7 DEF Turned, TypeOK
<1>10. /\ version' = [version EXCEPT ![i] = version'[i]] /\ version'[i] = version[i]
       /\ version'[i] \in Nat /\ version'[i] <= stored.version
  BY <1>7 DEF InOrder
<1>11. /\ pc' \in [Items -> {"free", "perform", "update"}] /\ pc'[i] # "free"
       /\ flipped' \in [Items -> SUBSET Types]
       /\ \A j \in Items \ {i} : pc'[j] = pc[j] /\ flipped'[j] = flipped[j]
  BY <1>6, <1>7 DEF TypeOK
<1> QED
  BY <1>4, <1>5, <1>7, <1>8, <1>9, <1>10, <1>11, GivingKeeps

-----------------------------------------------------------------------------
(* Steps that give nobody a list.                                          *)

Lingers ==
  /\ heap' \in [Addresses -> Seq(Condition)]
  /\ at' \in [Holders -> Addresses \cup {None}]
  /\ \A h \in Holders : at'[h] # None => at'[h] = at[h] /\ List(h)' = List(h)
  /\ pc' \in [Items -> {"free", "perform", "update"}]
  /\ Separate'

\* What the API server stores, or leaves.
Storage ==
  /\ stored' \in [version : Nat, conditions : Seq(Condition)]
  /\ shared' \in [Types -> Condition \cup {None}]
  /\ Unique(stored'.conditions) /\ InterceptorsEntriesSurvive' /\ EntriesHaveTypes'
  /\ \/ stored' = stored /\ storedAt' = storedAt /\ now' \in {now, now + 1}
     \/ stored'.version = stored.version + 1 /\ storedAt' = now /\ now' = now

LEMMA LingeringKeeps ==
  ASSUME ConditionsInv, Lingers, Storage, UNCHANGED <<version, flipped, seen>>
  PROVE  ConditionsInv'
<1> /\ TypeOK /\ Separate /\ InOrder /\ ListsAreMaps /\ CopiesFollow
    /\ CacheIsReadOnly /\ InterceptorsEntriesSurvive /\ EntriesHaveTypes
  BY DEF ConditionsInv
<1> /\ version \in [Holders -> Nat] /\ "cache" \in Holders /\ now \in Nat /\ storedAt \in Nat
    /\ stored.version \in Nat
  BY HoldersAre DEF TypeOK
<1>1. TypeOK'
  BY DEF TypeOK, Lingers, Storage
<1>2. Separate' /\ InterceptorsEntriesSurvive' /\ EntriesHaveTypes'
  BY DEF Lingers, Storage
<1>3. InOrder'
  BY DEF InOrder, Storage
<1>4. ListsAreMaps'
  <2>1. Unique(stored'.conditions)
    BY DEF Storage
  <2>2. \A g \in Holders : at'[g] # None => Unique(List(g)')
    BY DEF Lingers, ListsAreMaps
  <2> QED
    BY <2>1, <2>2 DEF ListsAreMaps, Unique
<1>5. CopiesFollow'
  <2> SUFFICES ASSUME NEW h \in Holders, at'[h] # None, version'[h] = stored'.version
               PROVE  Follows(stored'.conditions, storedAt'..now', List(h)', Turned(h)')
    BY DEF CopiesFollow
  <2>1. stored' = stored /\ storedAt' = storedAt /\ now' \in {now, now + 1}
    BY DEF Storage, InOrder
  <2>2. storedAt..now \subseteq storedAt'..now'
    BY <2>1
  <2>3. List(h)' = List(h) /\ Turned(h)' = Turned(h) /\ at[h] # None
    BY DEF Lingers, Turned
  <2>4. Follows(stored.conditions, storedAt..now, List(h), Turned(h))
    BY <2>1, <2>3 DEF CopiesFollow
  <2> QED
    BY <2>1, <2>2, <2>3, <2>4, FollowingLasts
<1>6. CacheIsReadOnly'
  BY <1>2 DEF CacheIsReadOnly, Lingers, Separate
<1> QED
  BY <1>1, <1>2, <1>3, <1>4, <1>5, <1>6 DEF ConditionsInv

LEMMA KeepingLingers ==
  ASSUME ConditionsInv, UNCHANGED <<heap, at>>,
         pc' \in [Items -> {"free", "perform", "update"}],
         \A i \in Items : pc'[i] = "free" <=> pc[i] = "free"
  PROVE  Lingers
BY DEF ConditionsInv, TypeOK, Separate, Lingers, List

LEMMA DroppingLingers ==
  ASSUME ConditionsInv, NEW i \in Items, Memory(heap, [at EXCEPT ![i] = None]),
         pc' = [pc EXCEPT ![i] = "free"]
  PROVE  Lingers
<1> TypeOK /\ Separate
  BY DEF ConditionsInv
<1> i \in Holders /\ i # "cache" /\ at \in [Holders -> Addresses \cup {None}] /\ "cache" \in Holders
  BY HoldersAre DEF TypeOK
<1>1. Drops(i)
  BY ReleaseDrops
<1>2. /\ at' \in [Holders -> Addresses \cup {None}] /\ at'[i] = None
      /\ \A g \in Holders \ {i} : at'[g] = at[g]
  BY <1>1 DEF Drops
<1>3. \A h \in Holders : at'[h] # None => at'[h] = at[h] /\ List(h)' = List(h)
  BY <1>1, <1>2 DEF Drops
<1>4. pc' \in [Items -> {"free", "perform", "update"}]
  BY DEF TypeOK
<1>5. Separate'
  <2>1. \A g, h \in Holders : at'[g] = at'[h] /\ at'[g] # None => g = h
    BY <1>2 DEF Separate
  <2>2. at'["cache"] # None
    BY <1>2 DEF Separate
  <2>3. \A j \in Items : at'[j] = None <=> pc'[j] = "free"
    BY <1>2, HoldersAre DEF Separate, TypeOK
  <2> QED
    BY <2>1, <2>2, <2>3 DEF Separate
<1> QED
  BY <1>1, <1>3, <1>4, <1>5 DEF Lingers, Drops, Holders

LEMMA StorageStays ==
  ASSUME ConditionsInv, UNCHANGED <<stored, storedAt, shared>>, now' \in {now, now + 1}
  PROVE  Storage
BY DEF ConditionsInv, TypeOK, ListsAreMaps, Storage, InterceptorsEntriesSurvive, EntriesHaveTypes, Has

\* The server accepts only copies that follow what is stored, with every entry of
\* the interceptors.
LEMMA CopiesAreStored ==
  ASSUME ConditionsInv, NEW i \in Items, pc[i] = "update",
         version[i] = stored.version, Stores(List(i)), UNCHANGED <<now, shared>>
  PROVE  Storage
<1> /\ TypeOK /\ Separate /\ ListsAreMaps /\ CopiesFollow
    /\ InterceptorsEntriesSurvive /\ EntriesHaveTypes
  BY DEF ConditionsInv
<1> i \in Holders /\ stored.version \in Nat /\ shared \in [Types -> Condition \cup {None}]
  BY HoldersAre DEF TypeOK
<1>1. at[i] # None
  BY DEF Separate
<1>2. List(i) \in Seq(Condition) /\ Unique(List(i))
  BY <1>1, ListsHaveTypes DEF ListsAreMaps
<1>3. Follows(stored.conditions, storedAt..now, List(i), Turned(i))
  BY <1>1 DEF CopiesFollow
<1>4. /\ stored' = [version |-> stored.version + 1, conditions |-> List(i)]
      /\ storedAt' = now
  BY DEF Stores
<1>5. ASSUME NEW t \in Types \ OwnTypes
      PROVE  IF shared[t] = None THEN ~Has(List(i), t)
             ELSE \E k \in DOMAIN List(i) : List(i)[k] = shared[t]
  <2>1. CASE shared[t] = None
    <3>1. ~Has(stored.conditions, t)
      BY <2>1 DEF InterceptorsEntriesSurvive
    <3> QED
      BY <1>3, <2>1, <3>1 DEF Follows, Has
  <2>2. CASE shared[t] # None
    <3>1. PICK k \in DOMAIN stored.conditions : stored.conditions[k] = shared[t]
      BY <2>2 DEF InterceptorsEntriesSurvive
    <3>2. shared[t].Type = t
      BY <2>2 DEF EntriesHaveTypes
    <3> QED
      BY <1>3, <2>2, <3>1, <3>2 DEF Follows
  <2> QED
    BY <2>1, <2>2
<1>6. InterceptorsEntriesSurvive'
  BY <1>4, <1>5 DEF InterceptorsEntriesSurvive, Has
<1> QED
  BY <1>2, <1>4, <1>6 DEF Storage, EntriesHaveTypes

LEMMA SharingStores ==
  ASSUME ConditionsInv, NEW type \in Types, NEW status \in Statuses, NEW reason \in Reasons,
         InterceptorShares(type, status, reason)
  PROVE  Storage
<1> DEFINE new == UpsertCondition(stored.conditions, type, status, reason)
           n   == First(new, type)
<1> /\ TypeOK /\ ListsAreMaps /\ InterceptorsEntriesSurvive /\ EntriesHaveTypes
  BY DEF ConditionsInv
<1> /\ stored.conditions \in Seq(Condition) /\ Unique(stored.conditions) /\ now \in Nat
    /\ stored.version \in Nat /\ shared \in [Types -> Condition \cup {None}]
  BY DEF TypeOK, ListsAreMaps
<1>1. /\ new \in Seq(Condition) /\ Unique(new)
      /\ DOMAIN stored.conditions \subseteq DOMAIN new
      /\ \A k \in DOMAIN stored.conditions :
           stored.conditions[k].Type # type => new[k] = stored.conditions[k]
  BY UpsertedList
<1>2. PICK m \in DOMAIN new :
        /\ new[m].Type = type
        /\ \A k \in DOMAIN new :
             k # m => k \in DOMAIN stored.conditions /\ stored.conditions[k].Type # type
  BY UpsertedList
<1>3. /\ stored' = [version |-> stored.version + 1, conditions |-> new]
      /\ storedAt' = now /\ now' = now
      /\ shared' = [shared EXCEPT ![type] = new[n]]
  BY DEF InterceptorShares, Stores
<1> HIDE DEF new
<1>4. n = m
  BY <1>1, <1>2, TheFirstIsTheOnly
<1>5. new[n] \in Condition /\ new[n].Type = type
  BY <1>1, <1>2, <1>4
<1>6. shared' \in [Types -> Condition \cup {None}]
  BY <1>3, <1>5
<1>7. ASSUME NEW t \in Types \ OwnTypes
      PROVE  IF shared'[t] = None THEN ~Has(new, t)
             ELSE \E k \in DOMAIN new : new[k] = shared'[t]
  <2>1. CASE t = type
    <3>1. n \in DOMAIN new /\ shared'[t] = new[n]
      BY <1>2, <1>3, <1>4, <2>1
    <3> QED
      BY <1>5, <3>1, NoneAssumption
  <2>2. CASE t # type
    <3>1. shared'[t] = shared[t]
      BY <1>3, <2>2
    <3>2. CASE shared[t] = None
      <4>1. ~Has(stored.conditions, t)
        BY <3>2 DEF InterceptorsEntriesSurvive
      <4> QED
        BY <1>1, <1>2, <2>2, <3>1, <3>2, <4>1 DEF Has
    <3>3. CASE shared[t] # None
      <4>1. PICK k \in DOMAIN stored.conditions : stored.conditions[k] = shared[t]
        BY <3>3 DEF InterceptorsEntriesSurvive
      <4>2. shared[t].Type = t
        BY <3>3 DEF EntriesHaveTypes
      <4> QED
        BY <1>1, <2>2, <3>1, <3>3, <4>1, <4>2
    <3> QED
      BY <3>2, <3>3
  <2> QED
    BY <2>1, <2>2
<1>8. InterceptorsEntriesSurvive'
  BY <1>3, <1>7 DEF InterceptorsEntriesSurvive, Has
<1>9. EntriesHaveTypes'
  BY <1>3, <1>5 DEF EntriesHaveTypes
<1> QED
  BY <1>1, <1>3, <1>6, <1>8, <1>9 DEF Storage

-----------------------------------------------------------------------------
(* The theorems.                                                           *)

LEMMA InvAtInit == Init => ConditionsInv
<1> SUFFICES ASSUME Init PROVE ConditionsInv
  OBVIOUS
<1> "cache" \in Holders /\ \A i \in Items : i \in Holders /\ i # "cache"
  BY HoldersAre
<1>1. /\ stored = [version |-> 0, conditions |-> <<>>] /\ now = 0 /\ storedAt = 0 /\ seen = <<>>
      /\ heap = [a \in Addresses |-> <<>>] /\ version = [h \in Holders |-> 0]
      /\ pc = [i \in Items |-> "free"] /\ flipped = [i \in Items |-> {}]
      /\ shared = [t \in Types |-> None]
      /\ at \in [Holders -> Addresses \cup {None}] /\ at["cache"] # None
      /\ \A i \in Items : at[i] = None
  BY DEF Init
<1>2. <<>> \in Seq(Condition)
  OBVIOUS
<1>3. TypeOK
  BY <1>1, <1>2 DEF TypeOK
<1>4. Separate
  BY <1>1 DEF Separate, Holders
<1>5. at["cache"] \in Addresses /\ List("cache") = <<>>
  BY <1>1 DEF List
<1>6. InOrder /\ ListsAreMaps /\ CacheIsReadOnly
  BY <1>1, <1>5 DEF InOrder, ListsAreMaps, CacheIsReadOnly, Unique, Holders
<1>7. CopiesFollow
  BY <1>1, <1>5 DEF CopiesFollow, Follows, Holders
<1>8. InterceptorsEntriesSurvive /\ EntriesHaveTypes
  BY <1>1 DEF InterceptorsEntriesSurvive, EntriesHaveTypes, Has
<1> QED
  BY <1>3, <1>4, <1>6, <1>7, <1>8 DEF ConditionsInv

LEMMA StepsKeepInv == ConditionsInv /\ [Next]_vars => ConditionsInv'
<1> SUFFICES ASSUME ConditionsInv, [Next]_vars
             PROVE  ConditionsInv'
  OBVIOUS
<1> TypeOK
  BY DEF ConditionsInv
<1>1. CASE Watch
  BY <1>1, WatchKeepsInv
<1>2. ASSUME NEW i \in Items, Enqueue(i)
      PROVE  ConditionsInv'
  BY <1>2, EnqueueKeepsInv
<1>3. ASSUME NEW i \in Items, NEW t \in Types, NEW s \in Statuses, NEW r \in Reasons,
             Record(i, t, s, r)
      PROVE  ConditionsInv'
  BY <1>3, RecordKeepsInv
<1>4. ASSUME NEW i \in Items, UpdateStatus(i)
      PROVE  ConditionsInv'
  <2>1. UNCHANGED <<version, now, flipped, shared, seen>> /\ pc[i] = "update"
    BY <1>4 DEF UpdateStatus
  <2>2. Lingers
    <3>1. CASE pc' = [pc EXCEPT ![i] = "perform"] /\ UNCHANGED <<heap, at>>
      <4>1. /\ pc' \in [Items -> {"free", "perform", "update"}]
            /\ \A j \in Items : pc'[j] = "free" <=> pc[j] = "free"
        BY <2>1, <3>1 DEF TypeOK
      <4> QED
        BY <3>1, <4>1, KeepingLingers
    <3>2. CASE pc' = [pc EXCEPT ![i] = "free"] /\ Memory(heap, [at EXCEPT ![i] = None])
      BY <3>2, DroppingLingers
    <3> QED
      BY <1>4, <3>1, <3>2 DEF UpdateStatus
  <2>3. Storage
    <3>1. CASE version[i] = stored.version /\ Stores(List(i))
      BY <2>1, <3>1, CopiesAreStored
    <3>2. CASE UNCHANGED <<stored, storedAt>>
      BY <2>1, <3>2, StorageStays
    <3> QED
      BY <1>4, <3>1, <3>2 DEF UpdateStatus, Send
  <2> QED
    BY <2>1, <2>2, <2>3, LingeringKeeps
<1>5. ASSUME NEW i \in Items, Skip(i)
      PROVE  ConditionsInv'
  <2>1. Lingers
    BY <1>5, DroppingLingers DEF Skip
  <2>2. Storage
    BY <1>5, StorageStays DEF Skip
  <2> QED
    BY <1>5, <2>1, <2>2, LingeringKeeps DEF Skip
<1>6. ASSUME NEW t \in Types, NEW s \in Statuses, NEW r \in Reasons, InterceptorShares(t, s, r)
      PROVE  ConditionsInv'
  <2>1. UNCHANGED <<heap, at, version, pc, now, flipped, seen>>
    BY <1>6 DEF InterceptorShares
  <2>2. Lingers
    BY <2>1, KeepingLingers DEF TypeOK
  <2>3. Storage
    BY <1>6, SharingStores
  <2> QED
    BY <2>1, <2>2, <2>3, LingeringKeeps
<1>7. CASE Tick \/ UNCHANGED vars
  <2>1. UNCHANGED <<stored, heap, at, version, pc, storedAt, flipped, shared, seen>>
    BY <1>7 DEF Tick, vars
  <2>2. now' \in {now, now + 1}
    BY <1>7 DEF Tick, vars
  <2>3. Lingers
    BY <2>1, KeepingLingers DEF TypeOK
  <2>4. Storage
    BY <2>1, <2>2, StorageStays
  <2> QED
    BY <2>1, <2>3, <2>4, LingeringKeeps
<1> QED
  BY <1>1, <1>2, <1>3, <1>4, <1>5, <1>6, <1>7 DEF Next

LEMMA InvHolds == Spec => []ConditionsInv
BY InvAtInit, StepsKeepInv, PTL DEF Spec

\* All variables keep their types, for any types, statuses, items and bounds.
THEOREM TypeCorrectness == Spec => []TypeOK
<1>1. ConditionsInv => TypeOK
  BY DEF ConditionsInv
<1> QED
  BY <1>1, InvHolds, PTL

\* The stored list stays a map by type, whichever copies are written into and sent.
THEOREM ConditionsAreAMap == Spec => []TypesAreUnique
<1>1. ConditionsInv => TypesAreUnique
  BY DEF ConditionsInv, ListsAreMaps, TypesAreUnique
<1> QED
  BY <1>1, InvHolds, PTL

\* No worker writes into the list of the informer's object, however many there are.
THEOREM CopiesAreDeep == Spec => []CacheIsReadOnly
<1>1. ConditionsInv => CacheIsReadOnly
  BY DEF ConditionsInv
<1> QED
  BY <1>1, InvHolds, PTL

\* No write of the controller loses or turns back an entry of an interceptor.
THEOREM OthersEntriesSurvive == Spec => []InterceptorsEntriesSurvive
<1>1. ConditionsInv => InterceptorsEntriesSurvive
  BY DEF ConditionsInv
<1> QED
  BY <1>1, InvHolds, PTL

\* The transition times stored are those at which the status changed, through any
\* number of copies, conflicts and retries.
THEOREM ConditionsAreRight == Spec => TransitionTimesAreRight
<1> DEFINE Right(k) ==
       LET new == stored'.conditions[k] IN
       new.Type \in OwnTypes =>
         \/ /\ Has(stored.conditions, new.Type)
            /\ LET old == stored.conditions[First(stored.conditions, new.Type)] IN
                 /\ new.Status = old.Status
                 /\ new.LastTransitionTime = old.LastTransitionTime
         \/ /\ \E i \in Items : pc[i] = "update" /\ new.Type \in flipped[i]
            /\ new.LastTransitionTime \in storedAt..now
<1>1. ConditionsInv /\ [Next]_vars => [\A k \in DOMAIN stored'.conditions : Right(k)]_stored
  <2> SUFFICES ASSUME ConditionsInv, Next, stored' # stored, NEW k \in DOMAIN stored'.conditions,
                      stored'.conditions[k].Type \in OwnTypes
               PROVE  Right(k)
    BY DEF vars
  <2> /\ TypeOK /\ Separate /\ ListsAreMaps /\ CopiesFollow
    BY DEF ConditionsInv
  <2> /\ stored.conditions \in Seq(Condition) /\ Unique(stored.conditions) /\ now \in Nat
    BY DEF TypeOK, ListsAreMaps
  <2>1. \/ \E i \in Items : UpdateStatus(i)
        \/ \E t \in Types, s \in Statuses, r \in Reasons : InterceptorShares(t, s, r)
    BY DEF Next, Watch, Enqueue, Record, Skip, Tick
  <2>2. ASSUME NEW m \in DOMAIN stored.conditions,
               stored.conditions[m].Type = stored'.conditions[k].Type,
               stored.conditions[m].Status = stored'.conditions[k].Status,
               stored.conditions[m].LastTransitionTime = stored'.conditions[k].LastTransitionTime
        PROVE  Right(k)
    BY <2>2, TheFirstIsTheOnly DEF Has
  <2>3. ASSUME NEW i \in Items, UpdateStatus(i)
        PROVE  Right(k)
    <3>1. /\ pc[i] = "update" /\ version[i] = stored.version /\ stored'.conditions = List(i)
      BY <2>3 DEF UpdateStatus, Send, Stores
    <3>2. i \in Holders /\ i # "cache" /\ at[i] # None
      BY <3>1, HoldersAre DEF Separate
    <3>3. Follows(stored.conditions, storedAt..now, List(i), flipped[i])
      BY <3>1, <3>2 DEF CopiesFollow, Turned
    <3>4. \/ Kept(stored.conditions, stored'.conditions[k])
          \/ /\ stored'.conditions[k].Type \in flipped[i]
             /\ stored'.conditions[k].LastTransitionTime \in storedAt..now
      BY <3>1, <3>3 DEF Follows
    <3>5. CASE Kept(stored.conditions, stored'.conditions[k])
      BY <2>2, <3>5 DEF Kept
    <3> QED
      BY <3>1, <3>4, <3>5
  <2>4. ASSUME NEW t \in Types, NEW s \in Statuses, NEW r \in Reasons, InterceptorShares(t, s, r)
        PROVE  Right(k)
    <3> DEFINE new == UpsertCondition(stored.conditions, t, s, r)
    <3>1. stored'.conditions = new /\ t \notin OwnTypes
      BY <2>4 DEF InterceptorShares, Stores
    <3>2. \A j \in DOMAIN stored.conditions :
            stored.conditions[j].Type # t => new[j] = stored.conditions[j]
      BY UpsertedList
    <3>3. PICK n \in DOMAIN new :
            /\ new[n].Type = t
            /\ \A j \in DOMAIN new :
                 j # n => j \in DOMAIN stored.conditions /\ stored.conditions[j].Type # t
      BY UpsertedList
    <3> HIDE DEF new
    <3>4. k # n
      BY <3>1, <3>3
    <3>5. k \in DOMAIN stored.conditions /\ stored'.conditions[k] = stored.conditions[k]
      BY <3>1, <3>2, <3>3, <3>4
    <3> QED
      BY <2>2, <3>5
  <2> QED
    BY <2>1, <2>3, <2>4
<1> QED
  BY <1>1, InvHolds, PTL DEF Spec, TransitionTimesAreRight

-----------------------------------------------------------------------------
(* The refinement.                                                         *)

Entry(t) == EntryOf(stored.conditions, t)

\* A list without duplicates, read as a map.
LEMMA ListsAsMaps ==
  ASSUME NEW list \in Seq(Condition), Unique(list)
  PROVE  /\ \A k \in DOMAIN list : EntryOf(list, list[k].Type) = list[k]
         /\ \A t : EntryOf(list, t) # None =>
              \E k \in DOMAIN list : list[k] = EntryOf(list, t) /\ list[k].Type = t
         /\ \A t : EntryOf(list, t) = None <=> ~Has(list, t)
<1>1. ASSUME NEW k \in DOMAIN list
      PROVE  EntryOf(list, list[k].Type) = list[k]
  BY TheFirstIsTheOnly DEF EntryOf, Has
<1>2. ASSUME NEW t, Has(list, t)
      PROVE  EntryOf(list, t) # None /\ \E k \in DOMAIN list : list[k] = EntryOf(list, t) /\ list[k].Type = t
  <2>1. First(list, t) \in DOMAIN list /\ list[First(list, t)].Type = t
    BY <1>2, FoundEntry
  <2>2. list[First(list, t)] \in Condition
    BY <2>1
  <2> QED
    BY <1>2, <2>1, <2>2, NoneAssumption DEF EntryOf
<1>3. \A t : ~Has(list, t) => EntryOf(list, t) = None
  BY DEF EntryOf
<1> QED
  BY <1>1, <1>2, <1>3

\* The times of what is stored are not after the write that stored it.
StoredTimesPast ==
  \A k \in DOMAIN stored.conditions : stored.conditions[k].LastTransitionTime <= storedAt

\* A write that the server accepts, as ConditionMap sees it.
LEMMA CopiesMap ==
  ASSUME ConditionsInv, StoredTimesPast, NEW i \in Items, pc[i] = "update",
         version[i] = stored.version, Stores(List(i)), UNCHANGED now
  PROVE  Map!ControllerWrites /\ StoredTimesPast'
<1> /\ TypeOK /\ Separate /\ ListsAreMaps /\ CopiesFollow /\ InOrder
  BY DEF ConditionsInv
<1> DEFINE base == stored.conditions
           list == List(i)
<1>1. i \in Holders /\ at[i] # None /\ now \in Nat /\ storedAt \in Nat /\ storedAt <= now
  BY HoldersAre DEF Separate, TypeOK, InOrder
<1>2. /\ base \in Seq(Condition) /\ Unique(base)
      /\ list \in Seq(Condition) /\ Unique(list)
  BY <1>1, ListsHaveTypes DEF TypeOK, ListsAreMaps
<1>3. Follows(base, storedAt..now, list, Turned(i))
  BY <1>1 DEF CopiesFollow
<1>4. stored' = [version |-> stored.version + 1, conditions |-> list] /\ storedAt' = now
  BY DEF Stores
<1>5. stored'.conditions = list
  BY <1>4
<1>6. ASSUME NEW k \in DOMAIN base
      PROVE  base[k].LastTransitionTime \in Nat /\ base[k].LastTransitionTime <= storedAt
  <2>1. base[k] \in Condition
    BY <1>2
  <2>2. base[k].LastTransitionTime \in Nat
    BY <2>1 DEF Condition
  <2> QED
    BY <2>2 DEF StoredTimesPast
<1> HIDE DEF base, list
<1>7. ASSUME NEW j \in DOMAIN list, list[j].Type \in OwnTypes
      PROVE  \/ \E k \in DOMAIN base : /\ base[k].Type = list[j].Type
                                      /\ base[k].Status = list[j].Status
                                      /\ base[k].LastTransitionTime = list[j].LastTransitionTime
             \/ list[j].LastTransitionTime \in storedAt..now
  BY <1>3, <1>7 DEF Follows, Kept
<1>8. ASSUME NEW j \in DOMAIN list
      PROVE  list[j].LastTransitionTime \in 0..now
  <2>1. CASE list[j].Type \in OwnTypes
    BY <1>1, <1>6, <1>7, <2>1
  <2>2. CASE list[j].Type \notin OwnTypes
    <3>1. PICK k \in DOMAIN base : base[k] = list[j]
      BY <1>3, <2>2 DEF Follows
    <3> QED
      BY <1>1, <1>6, <3>1
  <2> QED
    BY <2>1, <2>2
<1>9. StoredTimesPast'
  BY <1>4, <1>5, <1>8 DEF StoredTimesPast
<1>10. ASSUME NEW t \in OwnTypes
       PROVE  Map!MayBecome(t, EntryOf(list, t))
  <2>1. t \in Types
    BY TypesAssumption
  <2>2. CASE EntryOf(list, t) = None
    <3>1. \A j \in DOMAIN list : list[j].Type # t
      BY <1>2, <2>2, ListsAsMaps DEF Has
    <3>2. \A k \in DOMAIN base : base[k].Type # t
      BY <1>3, <3>1 DEF Follows
    <3>3. EntryOf(base, t) = None
      BY <3>2 DEF EntryOf, Has
    <3> QED
      BY <2>1, <2>2, <3>3 DEF Map!MayBecome, base
  <2>3. CASE EntryOf(list, t) # None
    <3>1. PICK j \in DOMAIN list : list[j] = EntryOf(list, t) /\ list[j].Type = t
      BY <1>2, <2>3, ListsAsMaps
    <3>2. list[j] \in Map!Entries(t)
      <4>1. list[j] \in Condition /\ list[j].LastTransitionTime \in 0..now
        BY <1>2, <1>8
      <4> QED
        BY <3>1, <4>1 DEF Map!Entries, Condition
    <3>3. Map!Lasts(EntryOf(base, t), list[j]) \/ list[j].LastTransitionTime >= storedAt
      <4>1. CASE list[j].LastTransitionTime \in storedAt..now
        BY <1>1, <4>1
      <4>2. ASSUME NEW k \in DOMAIN base,
                   base[k].Type = list[j].Type, base[k].Status = list[j].Status,
                   base[k].LastTransitionTime = list[j].LastTransitionTime
            PROVE  Map!Lasts(EntryOf(base, t), list[j])
        <5>1. EntryOf(base, t) = base[k]
          BY <1>2, <3>1, <4>2, ListsAsMaps
        <5>2. base[k] # None
          BY <1>2, NoneAssumption
        <5> QED
          BY <4>2, <5>1, <5>2 DEF Map!Lasts
      <4> QED
        BY <1>7, <3>1, <4>1, <4>2
    <3> QED
      BY <2>1, <2>3, <3>1, <3>2, <3>3 DEF Map!MayBecome, base
  <2> QED
    BY <2>2, <2>3
<1>11. ASSUME NEW t \in Types \ OwnTypes
       PROVE  EntryOf(list, t) = EntryOf(base, t)
  <2>1. CASE Has(list, t)
    <3>1. PICK j \in DOMAIN list : list[j].Type = t
      BY <2>1 DEF Has
    <3>2. PICK k \in DOMAIN base : base[k] = list[j]
      BY <1>3, <1>11, <3>1 DEF Follows
    <3>3. EntryOf(list, t) = list[j] /\ EntryOf(base, t) = base[k]
      BY <1>2, <3>1, <3>2, ListsAsMaps
    <3> QED
      BY <3>2, <3>3
  <2>2. CASE ~Has(list, t)
    <3>1. ~Has(base, t)
      BY <1>3, <2>2 DEF Follows, Has
    <3> QED
      BY <2>2, <3>1 DEF EntryOf
  <2> QED
    BY <2>1, <2>2
<1>12. Map!Write(OwnTypes)
  BY <1>4, <1>5, <1>10, <1>11, TypesAssumption DEF Map!Write, base
<1> QED
  BY <1>9, <1>12 DEF Map!ControllerWrites

\* An entry that an interceptor writes, as ConditionMap sees it.
LEMMA SharingMaps ==
  ASSUME ConditionsInv, StoredTimesPast, NEW type \in Types, NEW status \in Statuses,
         NEW reason \in Reasons, InterceptorShares(type, status, reason)
  PROVE  Map!InterceptorWrites(type) /\ StoredTimesPast'
<1> /\ TypeOK /\ ListsAreMaps /\ InOrder
  BY DEF ConditionsInv
<1> DEFINE base == stored.conditions
           new  == UpsertCondition(base, type, status, reason)
<1>1. now \in Nat /\ storedAt \in Nat /\ storedAt <= now /\ base \in Seq(Condition) /\ Unique(base)
  BY DEF TypeOK, InOrder, ListsAreMaps
<1>2. stored'.conditions = new /\ storedAt' = now /\ now' = now /\ type \notin OwnTypes
  BY DEF InterceptorShares, Stores
<1>3. /\ new \in Seq(Condition) /\ Unique(new)
      /\ DOMAIN base \subseteq DOMAIN new
      /\ \A k \in DOMAIN base : base[k].Type # type => new[k] = base[k]
  BY <1>1, UpsertedList
<1>4. PICK n \in DOMAIN new :
        /\ new[n].Type = type /\ new[n].Status = status
        /\ new[n].LastTransitionTime =
             IF Has(base, type) THEN TransitionTime(base, type, status) ELSE now
        /\ \A k \in DOMAIN new : k # n => k \in DOMAIN base /\ base[k].Type # type
  BY <1>1, UpsertedList
<1>5. ASSUME NEW k \in DOMAIN base
      PROVE  base[k].LastTransitionTime \in Nat /\ base[k].LastTransitionTime <= storedAt
  <2>1. base[k] \in Condition
    BY <1>1
  <2>2. base[k].LastTransitionTime \in Nat
    BY <2>1 DEF Condition
  <2> QED
    BY <2>2 DEF StoredTimesPast
<1> HIDE DEF base, new
<1>6. \/ Map!Lasts(EntryOf(base, type), new[n]) /\ new[n].LastTransitionTime \in 0..now
      \/ new[n].LastTransitionTime = now
  <2>1. CASE Has(base, type) /\ StatusOf(base, type) = status
    <3> DEFINE f == First(base, type)
    <3>1. f \in DOMAIN base /\ base[f].Type = type /\ base[f].Status = status
      BY <1>1, <2>1, FoundEntry DEF StatusOf
    <3>2. new[n].LastTransitionTime = base[f].LastTransitionTime
      BY <1>4, <2>1 DEF TransitionTime
    <3>3. EntryOf(base, type) = base[f] /\ base[f] # None
      <4>1. base[f] \in Condition
        BY <1>1, <3>1
      <4> QED
        BY <2>1, <4>1, NoneAssumption DEF EntryOf
    <3>4. base[f].LastTransitionTime \in 0..now
      BY <1>1, <1>5, <3>1
    <3> QED
      BY <1>4, <3>1, <3>2, <3>3, <3>4 DEF Map!Lasts
  <2>2. CASE ~(Has(base, type) /\ StatusOf(base, type) = status)
    BY <1>4, <2>2 DEF TransitionTime
  <2> QED
    BY <2>1, <2>2
<1>7. new[n].LastTransitionTime \in 0..now
  BY <1>1, <1>6
<1>8. EntryOf(new, type) = new[n] /\ new[n] # None
  <2>1. new[n] \in Condition
    BY <1>3
  <2> QED
    BY <1>3, <1>4, <2>1, ListsAsMaps, NoneAssumption
<1>9. Map!MayBecome(type, EntryOf(new, type))
  <2>1. new[n] \in Map!Entries(type)
    <3>1. new[n] \in Condition
      BY <1>3
    <3> QED
      BY <1>4, <1>7, <3>1 DEF Map!Entries, Condition
  <2>2. Map!Lasts(EntryOf(base, type), new[n]) \/ new[n].LastTransitionTime >= storedAt
    BY <1>1, <1>6
  <2> QED
    BY <1>8, <2>1, <2>2 DEF Map!MayBecome, base
<1>10. ASSUME NEW t \in Types \ {type}
       PROVE  EntryOf(new, t) = EntryOf(base, t)
  <2>1. CASE Has(base, t)
    <3>1. PICK k \in DOMAIN base : base[k].Type = t
      BY <2>1 DEF Has
    <3>2. k \in DOMAIN new /\ new[k] = base[k]
      BY <1>3, <3>1
    <3>3. EntryOf(new, t) = new[k] /\ EntryOf(base, t) = base[k]
      BY <1>1, <1>3, <3>1, <3>2, ListsAsMaps
    <3> QED
      BY <3>2, <3>3
  <2>2. CASE ~Has(base, t)
    <3>1. ~Has(new, t)
      BY <1>3, <1>4, <2>2 DEF Has
    <3> QED
      BY <2>2, <3>1 DEF EntryOf
  <2> QED
    BY <2>1, <2>2
<1>11. Map!Write({type})
  BY <1>2, <1>9, <1>10 DEF Map!Write, base
<1>12. StoredTimesPast'
  <2>1. ASSUME NEW k \in DOMAIN new
        PROVE  new[k].LastTransitionTime <= now
    <3>1. CASE k = n
      BY <1>1, <1>7, <3>1
    <3>2. CASE k # n
      <4>1. k \in DOMAIN base /\ new[k] = base[k]
        BY <1>3, <1>4, <3>2
      <4> QED
        BY <1>1, <1>5, <4>1
    <3> QED
      BY <3>1, <3>2
  <2> QED
    BY <1>2, <2>1 DEF StoredTimesPast
<1> QED
  BY <1>2, <1>11, <1>12 DEF Map!InterceptorWrites

LEMMA StepsMap ==
  ConditionsInv /\ StoredTimesPast /\ [Next]_vars => [Map!Next]_(Map!vars) /\ StoredTimesPast'
<1> SUFFICES ASSUME ConditionsInv, StoredTimesPast, [Next]_vars
             PROVE  [Map!Next]_(Map!vars) /\ StoredTimesPast'
  OBVIOUS
<1>1. CASE UNCHANGED <<stored, storedAt, now>>
  BY <1>1 DEF StoredTimesPast, Map!vars
<1>2. CASE UNCHANGED vars
  BY <1>1, <1>2 DEF vars
<1>3. CASE Watch
  BY <1>1, <1>3 DEF Watch
<1>4. CASE \E i \in Items : Enqueue(i) \/ Skip(i)
  BY <1>1, <1>4 DEF Enqueue, Skip
<1>5. CASE \E i \in Items, t \in Types, s \in Statuses, r \in Reasons : Record(i, t, s, r)
  BY <1>1, <1>5 DEF Record
<1>6. ASSUME NEW i \in Items, UpdateStatus(i)
      PROVE  [Map!Next]_(Map!vars) /\ StoredTimesPast'
  <2>1. pc[i] = "update" /\ now' = now
    BY <1>6 DEF UpdateStatus
  <2>2. CASE version[i] = stored.version /\ Stores(List(i))
    BY <2>1, <2>2, CopiesMap DEF Map!Next
  <2>3. CASE UNCHANGED <<stored, storedAt>>
    BY <1>1, <2>1, <2>3
  <2> QED
    BY <1>6, <2>2, <2>3 DEF UpdateStatus, Send
<1>7. ASSUME NEW t \in Types, NEW s \in Statuses, NEW r \in Reasons, InterceptorShares(t, s, r)
      PROVE  [Map!Next]_(Map!vars) /\ StoredTimesPast'
  BY <1>7, SharingMaps DEF Map!Next
<1>8. CASE Tick
  <2>1. now' = now + 1 /\ stored' = stored /\ storedAt' = storedAt
    BY <1>8 DEF Tick
  <2>2. Map!Tick
    BY <2>1 DEF Map!Tick
  <2> QED
    BY <2>1, <2>2 DEF StoredTimesPast, Map!Next
<1> QED
  BY <1>2, <1>3, <1>4, <1>5, <1>6, <1>7, <1>8 DEF Next

\* The list of conditions, its copies and the retries implement ConditionMap, for any
\* number of work items, lists of any length and any order of the writes.
THEOREM ConditionsImplementMap == Spec => ImplementsMap
<1>1. Init => Map!Init /\ StoredTimesPast
  BY DEF Init, Map!Init, StoredTimesPast, EntryOf, Has
<1>2. ConditionsInv /\ StoredTimesPast /\ [Next]_vars => [Map!Next]_(Map!vars) /\ StoredTimesPast'
  BY StepsMap
<1> QED
  BY <1>1, <1>2, InvHolds, PTL DEF Spec, ImplementsMap, Map!Spec

-----------------------------------------------------------------------------
(* What ConditionMap promises, of the stored list.                         *)

\* The theorems about ConditionMap, of the mapped variables.
Proved == INSTANCE ConditionMapProofs WITH
  entry     <- [t \in Types |-> EntryOf(stored.conditions, t)],
  writtenAt <- storedAt

LEMMA SameMap == Map!Spec => Proved!Spec
<1>1. Map!Init => Proved!Init
  BY DEF Map!Init, Proved!Init
<1>2. Map!Next <=> Proved!Next
  BY DEF Map!Next, Map!ControllerWrites, Map!InterceptorWrites, Map!Write, Map!Tick,
         Map!MayBecome, Map!Lasts, Map!Entries,
         Proved!Next, Proved!ControllerWrites, Proved!InterceptorWrites, Proved!Write,
         Proved!Tick, Proved!MayBecome, Proved!Lasts, Proved!Entries
<1>3. [Map!Next]_(Map!vars) => [Proved!Next]_(Proved!vars)
  BY <1>2 DEF Map!vars, Proved!vars
<1> QED
  BY <1>1, <1>3, PTL DEF Map!Spec, Proved!Spec

\* So the stored lastTransitionTime of a type is never later than the write it came
\* with, though it was read from the clock when an old copy was written into.
THEOREM StoredTimesAreDue == Spec => []Map!TimesArePast
<1>1. Spec => []Proved!TimesArePast
  BY ConditionsImplementMap, SameMap, Proved!NoFutureTimes DEF ImplementsMap
<1>2. Proved!TimesArePast => Map!TimesArePast
  BY DEF Proved!TimesArePast, Map!TimesArePast
<1> QED
  BY <1>1, <1>2, PTL

\* And no stored entry, of whatever owner, is dropped or turned back in time by a
\* status update that was computed from an older object.
THEOREM StoredEntriesGoOn == Spec => Map!EntriesGoOn
<1>1. Spec => Proved!EntriesGoOn
  BY ConditionsImplementMap, SameMap, Proved!EntriesOnlyGoOn DEF ImplementsMap
<1>2. Proved!EntriesGoOn => Map!EntriesGoOn
  BY PTL DEF Proved!EntriesGoOn, Map!EntriesGoOn, Proved!vars, Map!vars
<1> QED
  BY <1>1, <1>2
=============================================================================
