---------------------- MODULE InterceptorHandlerProofs ----------------------
(***************************************************************************)
(* What the order of the interceptors guarantees, for every list of them.  *)
(***************************************************************************)
EXTENDS InterceptorHandler, WellFoundedInduction, TLAPS

\* The length of the list and its domain.
LEMMA ListDomain ==
  /\ Len(Interceptors) \in Nat
  /\ DOMAIN Interceptors = 1 .. Len(Interceptors)
  /\ \A k \in DOMAIN Interceptors :
        /\ Interceptors[k].class \in Classes
        /\ Interceptors[k].priority \in Nat
  /\ Interceptors # <<>> => 1 \in DOMAIN Interceptors
<1> DEFINE Entries == [class : Classes, priority : Nat]
<1>1. Interceptors \in Seq(Entries)
  BY InterceptorsAssumption
<1> HIDE DEF Entries
<1>2. Len(Interceptors) \in Nat /\ DOMAIN Interceptors = 1 .. Len(Interceptors)
  BY <1>1
<1>3. \A k \in DOMAIN Interceptors : Interceptors[k] \in Entries
  BY <1>1
<1>4. Interceptors # <<>> => 1 \in DOMAIN Interceptors
  BY <1>1, <1>2
<1> QED
  BY <1>2, <1>3, <1>4 DEF Entries

-----------------------------------------------------------------------------
(* Sorting.                                                                *)

\* Every set of numbers has a least one: the form in which induction is used here.
LEMMA LeastNumber ==
  ASSUME NEW S \in SUBSET Nat, S # {}
  PROVE  \E n \in S : \A k \in S : n <= k
<1>1. \E n \in S : \A k \in S : <<k, n>> \notin OpToRel(<, Nat)
  BY WFMin, NatLessThanWellFounded
<1>2. \A k, n \in S : <<k, n>> \notin OpToRel(<, Nat) => n <= k
  BY DEF OpToRel
<1> QED
  BY <1>1, <1>2

\* Among some neighbours in an array of numbers one is largest.
LEMMA LargestExists ==
  ASSUME NEW N \in Nat, NEW f, \A k \in 1 .. N : f[k] \in Nat, NEW m \in 1 .. N
  PROVE  \E l \in m .. N : \A k \in m .. N : f[k] <= f[l]
<1> DEFINE Largest(n) == \E l \in m .. n : \A k \in m .. n : f[k] <= f[l]
           Failing    == {n \in m .. N : ~Largest(n)}
<1>1. Failing = {}
  <2> SUFFICES ASSUME Failing # {} PROVE FALSE
    OBVIOUS
  <2>1. PICK n \in Failing : \A k \in Failing : n <= k
    <3>1. Failing \in SUBSET Nat
      OBVIOUS
    <3> QED
      BY <3>1, LeastNumber
  <2>2. n # m
    <3>1. Largest(m)
      OBVIOUS
    <3> QED
      BY <2>1, <3>1
  <2>3. n - 1 \in m .. N /\ n - 1 \notin Failing
    <3>1. n \in Nat /\ n \in m .. N /\ m \in Nat
      OBVIOUS
    <3>2. n - 1 \in m .. N /\ ~(n <= n - 1)
      BY <2>2, <3>1
    <3> QED
      BY <2>1, <3>2
  <2>4. PICK l \in m .. (n - 1) : \A k \in m .. (n - 1) : f[k] <= f[l]
    BY <2>3
  <2>5. \A k \in m .. n : k \in m .. (n - 1) \/ k = n
    BY <2>1
  <2>6. f[l] \in Nat /\ f[n] \in Nat /\ \A k \in m .. (n - 1) : f[k] \in Nat
    BY <2>1, <2>4
  <2>7. l \in m .. n /\ n \in m .. n
    BY <2>1, <2>4
  <2>8. CASE f[n] <= f[l]
    <3>1. Largest(n)
      BY <2>4, <2>5, <2>7, <2>8
    <3> QED
      BY <2>1, <3>1
  <2>9. CASE f[l] <= f[n]
    <3>1. \A k \in m .. (n - 1) : f[k] <= f[n]
      BY <2>4, <2>6, <2>9
    <3>2. f[n] <= f[n]
      BY <2>6
    <3>3. \A k \in m .. n : f[k] <= f[n]
      BY <2>5, <3>1, <3>2
    <3> QED
      BY <2>1, <2>7, <3>3
  <2> QED
    BY <2>6, <2>8, <2>9
<1>2. N \in m .. N
  OBVIOUS
<1> QED
  BY <1>1, <1>2

\* Two places of an order are exchanged.
Exchanged(p, m, l) == [p EXCEPT ![m] = p[l], ![l] = p[m]]

LEMMA ExchangedIsPermuted ==
  ASSUME NEW p \in Permuted, NEW m \in DOMAIN Interceptors, NEW l \in DOMAIN Interceptors
  PROVE  /\ Exchanged(p, m, l) \in Permuted
         /\ Exchanged(p, m, l)[m] = p[l] /\ Exchanged(p, m, l)[l] = p[m]
         /\ \A k \in DOMAIN Interceptors : k # m /\ k # l => Exchanged(p, m, l)[k] = p[k]
<1> DEFINE D == DOMAIN Interceptors
           q == Exchanged(p, m, l)
<1>1. /\ p \in [D -> D]
      /\ \A j, k \in D : p[j] = p[k] => j = k
      /\ \A k \in D : \E j \in D : p[j] = k
  BY DEF Permuted
<1>2. /\ q \in [D -> D]
      /\ q[m] = p[l] /\ q[l] = p[m]
      /\ \A k \in D : k # m /\ k # l => q[k] = p[k]
  BY <1>1 DEF Exchanged
<1> HIDE DEF q, D
<1>3. m \in D /\ l \in D
  BY DEF D
<1>4. \A j, k \in D : q[j] = q[k] => j = k
  BY <1>1, <1>2, <1>3
<1>5. \A k \in D : \E j \in D : q[j] = k
  BY <1>1, <1>2, <1>3
<1>6. q \in Permuted
  BY <1>2, <1>4, <1>5 DEF Permuted, D
<1> QED
  BY <1>2, <1>6 DEF q, D

\* The priority at place k of the list in order p.
Priority(p, k) == Interceptors[p[k]].priority

\* The first n places of p are in order, and nothing behind them belongs before them.
SortedTo(p, n) ==
  \A j, k \in DOMAIN Interceptors :
    j < k /\ j <= n => Priority(p, j) >= Priority(p, k)

\* By selection: the largest of what is left is brought to the next place.
LEMMA AnyPrefixCanBeSorted ==
  \A n \in 0 .. Len(Interceptors) : \E p \in Permuted : SortedTo(p, n)
<1> DEFINE N == Len(Interceptors)
           D == DOMAIN Interceptors
           Sortable(n) == \E p \in Permuted : SortedTo(p, n)
           Failing == {n \in 0 .. N : ~Sortable(n)}
<1>1. N \in Nat /\ D = 1 .. N
  BY ListDomain
<1>2. Sortable(0)
  <2> DEFINE p == [k \in D |-> k]
  <2>1. p \in Permuted
    BY DEF Permuted
  <2>2. SortedTo(p, 0)
    BY <1>1 DEF SortedTo
  <2> QED
    BY <2>1, <2>2
<1>3. Failing = {}
  <2> SUFFICES ASSUME Failing # {} PROVE FALSE
    OBVIOUS
  <2>1. PICK m \in Failing : \A k \in Failing : m <= k
    <3>1. Failing \in SUBSET Nat
      BY <1>1
    <3> HIDE DEF Failing
    <3> QED
      BY <3>1, LeastNumber
  <2>2. m \in Nat /\ m \in 0 .. N /\ ~Sortable(m)
    BY <1>1
  <2>3. m # 0
    BY <1>2, <2>2
  <2>4. m - 1 \in 0 .. N /\ ~(m <= m - 1) /\ m \in 1 .. N
    BY <1>1, <2>2, <2>3
  <2>5. Sortable(m - 1)
    BY <2>1, <2>4
  <2>6. PICK p \in Permuted : SortedTo(p, m - 1)
    BY <2>5
  <2>7. \A j \in D : p[j] \in D /\ Priority(p, j) \in Nat
    BY ListDomain DEF Permuted, Priority
  <2>8. PICK l \in m .. N : \A k \in m .. N : Priority(p, k) <= Priority(p, l)
    <3> DEFINE f == [k \in D |-> Priority(p, k)]
    <3>1. \A k \in 1 .. N : f[k] = Priority(p, k) /\ f[k] \in Nat
      BY <1>1, <2>7
    <3>2. \E l \in m .. N : \A k \in m .. N : f[k] <= f[l]
      <4> HIDE DEF f, N
      <4> QED
        BY <1>1, <2>4, <3>1, LargestExists
    <3>3. \A k \in m .. N : k \in 1 .. N
      BY <1>1, <2>4
    <3> QED
      BY <3>1, <3>2, <3>3
  <2>9. m \in D /\ l \in D
    BY <1>1, <2>4
  <2> DEFINE q == Exchanged(p, m, l)
  <2>10. /\ q \in Permuted
         /\ Priority(q, m) = Priority(p, l) /\ Priority(q, l) = Priority(p, m)
         /\ \A k \in D : k # m /\ k # l => Priority(q, k) = Priority(p, k)
    <3>1. /\ q \in Permuted
          /\ q[m] = p[l] /\ q[l] = p[m]
          /\ \A k \in D : k # m /\ k # l => q[k] = p[k]
      BY <2>9, ExchangedIsPermuted
    <3> HIDE DEF q
    <3> QED
      BY <3>1 DEF Priority
  <2>11. SortedTo(q, m)
    <3> HIDE DEF q, Failing, Sortable
    <3> SUFFICES ASSUME NEW j \in D, NEW k \in D, j < k, j <= m
                 PROVE  Priority(q, k) <= Priority(q, j)
      BY <2>7, <2>9, <2>10 DEF SortedTo
    <3>1. j \in 1 .. N /\ k \in 1 .. N /\ l \in m .. N
      BY <1>1
    <3> HIDE DEF N
    <3>2. CASE j = m
      <4>1. k # m /\ k \in m .. N /\ m \in m .. N
        BY <1>1, <2>4, <3>1, <3>2
      <4>2. CASE k = l
        BY <2>8, <2>10, <3>2, <4>1, <4>2
      <4>3. CASE k # l
        BY <2>8, <2>10, <3>2, <4>1, <4>3
      <4> QED
        BY <4>2, <4>3
    <3>3. CASE j # m
      <4>1. j # l /\ j < m /\ j <= m - 1
        BY <1>1, <2>2, <2>4, <3>1, <3>3
      <4>2. Priority(q, j) = Priority(p, j)
        BY <2>10, <3>3, <4>1
      <4>3. \A i \in D : j < i => Priority(p, i) <= Priority(p, j)
        BY <2>6, <2>7, <4>1 DEF SortedTo
      <4>4. j < l /\ j < m
        BY <1>1, <2>4, <3>1, <4>1
      <4>5. CASE k = m
        BY <2>9, <2>10, <4>2, <4>3, <4>4, <4>5
      <4>6. CASE k = l
        BY <2>9, <2>10, <4>2, <4>3, <4>4, <4>6
      <4>7. CASE k # m /\ k # l
        BY <2>10, <4>2, <4>3, <4>7
      <4> QED
        BY <4>5, <4>6, <4>7
    <3> QED
      BY <3>2, <3>3
  <2> QED
    BY <2>2, <2>10, <2>11
<1> QED
  BY <1>3

\* Every finite list can be sorted.
LEMMA OrdersExist == Orders # {}
<1>1. Len(Interceptors) \in Nat /\ DOMAIN Interceptors = 1 .. Len(Interceptors)
  BY ListDomain
<1>2. PICK p \in Permuted : SortedTo(p, Len(Interceptors))
  BY <1>1, AnyPrefixCanBeSorted
<1>3. \A j, k \in DOMAIN Interceptors :
        j < k => Interceptors[p[j]].priority >= Interceptors[p[k]].priority
  BY <1>1, <1>2 DEF SortedTo, Priority
<1> QED
  BY <1>2, <1>3 DEF Orders

\* sort.Slice returns one of the admissible orders.
LEMMA SortOrderIsAnOrder == SortOrder \in Orders
BY OrdersExist DEF SortOrder

\* sort.Slice is not stable, and the code sorts anew in every reconcile: interceptors
\* of equal priority are all that the order may differ in.
THEOREM PrioritiesFixTheOrder ==
  ASSUME \A j, k \in DOMAIN Interceptors :
           Interceptors[j].priority = Interceptors[k].priority => j = k
  PROVE  \A p, q \in Orders : p = q
<1> SUFFICES ASSUME NEW p \in Orders, NEW q \in Orders, p # q
             PROVE  FALSE
  OBVIOUS
<1> DEFINE D      == DOMAIN Interceptors
           Differ == {k \in D : p[k] # q[k]}
<1>1. D = 1 .. Len(Interceptors) /\ Len(Interceptors) \in Nat
  BY ListDomain
<1>2. \A o \in {p, q} :
        /\ o \in [D -> D]
        /\ \A j, k \in D : o[j] = o[k] => j = k
        /\ \A k \in D : \E j \in D : o[j] = k
        /\ \A j, k \in D : j < k => Priority(o, j) >= Priority(o, k)
        /\ \A k \in D : Priority(o, k) \in Nat
  BY ListDomain DEF Orders, Permuted, Priority
<1>3. PICK k \in Differ : \A j \in Differ : k <= j
  <2>1. Differ # {}
    BY <1>2
  <2>2. Differ \in SUBSET Nat
    BY <1>1
  <2> HIDE DEF Differ
  <2> QED
    BY <2>1, <2>2, LeastNumber
<1>4. k \in D /\ p[k] # q[k] /\ \A j \in D : j < k => p[j] = q[j]
  BY <1>1, <1>3
<1> HIDE DEF Differ, D
\* What one order has at place k, the other has further back.
<1>5. ASSUME NEW o \in {p, q}, NEW r \in {p, q}, o # r
      PROVE  Priority(o, k) <= Priority(r, k)
  <2>1. PICK j \in D : r[j] = o[k]
    BY <1>2, <1>4
  <2>2. o[k] # r[k] /\ \A i \in D : i < k => o[i] = r[i]
    BY <1>4, <1>5
  <2>3. j # k /\ ~(j < k)
    <3>1. j # k
      BY <2>1, <2>2
    <3>2. ASSUME j < k PROVE FALSE
      <4>1. o[j] = o[k]
        BY <2>1, <2>2, <3>2
      <4>2. \A i, l \in D : o[i] = o[l] => i = l
        BY <1>2
      <4> QED
        BY <1>4, <3>1, <4>1, <4>2
    <3> QED
      BY <3>1, <3>2
  <2>4. k < j
    BY <1>1, <1>4, <2>3
  <2>5. Priority(r, j) <= Priority(r, k) /\ Priority(r, j) = Priority(o, k)
    BY <1>2, <1>4, <2>1, <2>4 DEF Priority
  <2> QED
    BY <2>5
<1>6. Priority(p, k) = Priority(q, k)
  <2>1. Priority(p, k) <= Priority(q, k) /\ Priority(q, k) <= Priority(p, k)
    BY <1>5
  <2>2. Priority(p, k) \in Nat /\ Priority(q, k) \in Nat
    BY <1>2, <1>4
  <2> QED
    BY <2>1, <2>2
<1>7. p[k] \in D /\ q[k] \in D
  BY <1>2, <1>4
<1> QED
  BY <1>4, <1>6, <1>7 DEF Priority, D

\* The sorted list holds every class, and each of them once.
LEMMA SortedClasses ==
  /\ \A k \in DOMAIN Interceptors : sortInterceptorsByPriority[k] \in Classes
  /\ \A j, k \in DOMAIN Interceptors :
        sortInterceptorsByPriority[j] = sortInterceptorsByPriority[k] => j = k
  /\ \A c \in Classes : \E k \in DOMAIN Interceptors : sortInterceptorsByPriority[k] = c
<1>1. SortOrder \in Permuted
  BY SortOrderIsAnOrder DEF Orders
<1>2. \A k \in DOMAIN Interceptors : SortOrder[k] \in DOMAIN Interceptors
  BY <1>1 DEF Permuted
<1>3. \A k \in DOMAIN Interceptors :
        sortInterceptorsByPriority[k] = Interceptors[SortOrder[k]].class
  BY DEF sortInterceptorsByPriority
<1>4. \A j, k \in DOMAIN Interceptors :
        sortInterceptorsByPriority[j] = sortInterceptorsByPriority[k] => j = k
  BY <1>1, <1>2, <1>3, InterceptorsAssumption DEF Permuted
<1>5. \A c \in Classes : \E k \in DOMAIN Interceptors : sortInterceptorsByPriority[k] = c
  BY <1>1, <1>3 DEF Permuted, Classes
<1> QED
  BY <1>2, <1>3, <1>4, <1>5 DEF Classes

\* findInterceptorIndex inverts the sorted list, and finds exactly its classes.
LEMMA FindInterceptorIndex ==
  /\ \A c \in Classes : /\ findInterceptorIndex(c) \in DOMAIN Interceptors
                        /\ sortInterceptorsByPriority[findInterceptorIndex(c)] = c
  /\ \A k \in DOMAIN Interceptors :
        findInterceptorIndex(sortInterceptorsByPriority[k]) = k
  /\ findInterceptorIndex(NoClass) = 0
<1>1. ASSUME NEW c \in Classes
      PROVE  /\ findInterceptorIndex(c) \in DOMAIN Interceptors
             /\ sortInterceptorsByPriority[findInterceptorIndex(c)] = c
  BY SortedClasses DEF findInterceptorIndex
<1>2. ASSUME NEW k \in DOMAIN Interceptors
      PROVE  findInterceptorIndex(sortInterceptorsByPriority[k]) = k
  BY <1>1, SortedClasses
<1>3. findInterceptorIndex(NoClass) = 0
  BY SortedClasses, InterceptorsAssumption DEF findInterceptorIndex
<1> QED
  BY <1>1, <1>2, <1>3
=============================================================================
