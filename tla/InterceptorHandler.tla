------------------------- MODULE InterceptorHandler -------------------------
(***************************************************************************)
(* What pkg/reconciler/interceptor does to the object in memory: the order *)
(* of the interceptors, the place of a class in it, and the field each     *)
(* state of Handle assigns.  The calls to the API server that follow are   *)
(* actions of EvictionReconciler.                                          *)
(***************************************************************************)
EXTENDS EvictionRequestAPI

(***************************************************************************)
(* sort.Slice puts the list in descending priority.  It is not stable, so  *)
(* interceptors of equal priority come in an order that the comparison     *)
(* does not fix; but it is a function of the list, and the list does not   *)
(* change, so every call returns the same one of the admissible orders.    *)
(***************************************************************************)
Permuted == {p \in [DOMAIN Interceptors -> DOMAIN Interceptors] :
               /\ \A j, k \in DOMAIN Interceptors : p[j] = p[k] => j = k
               /\ \A k \in DOMAIN Interceptors : \E j \in DOMAIN Interceptors : p[j] = k}

Orders == {p \in Permuted :
             \A j, k \in DOMAIN Interceptors :
                j < k => Interceptors[p[j]].priority >= Interceptors[p[k]].priority}

\* Every finite list can be sorted, so there is one (InterceptorHandlerProofs).
SortOrder == CHOOSE p \in Orders : TRUE

\* Slip: the list is not sorted.
unsortedInterceptors == [k \in DOMAIN Interceptors |-> Interceptors[k].class]

\* The sorted list; only the classes are read after the sort.
sortInterceptorsByPriority ==
  [k \in DOMAIN Interceptors |-> Interceptors[SortOrder[k]].class]

\* Indices count from 1, and 0 stands for the code's -1.
findInterceptorIndex(class) ==
  IF \E k \in DOMAIN Interceptors : sortInterceptorsByPriority[k] = class
  THEN CHOOSE k \in DOMAIN Interceptors : sortInterceptorsByPriority[k] = class
  ELSE 0

selectInitialInterceptor(obj) ==
  [obj EXCEPT !.class = sortInterceptorsByPriority[1]]

\* Slip: the bound on the index is off by one.
HasNextButOne(obj) ==
  /\ findInterceptorIndex(obj.class) > 0
  /\ findInterceptorIndex(obj.class) + 1 < Len(Interceptors)

HasNextInterceptor(obj) ==
  /\ findInterceptorIndex(obj.class) > 0
  /\ findInterceptorIndex(obj.class) < Len(Interceptors)

\* Slip: the last interceptor takes over from whichever was active.
selectLastInterceptor(obj) ==
  [obj EXCEPT !.class = sortInterceptorsByPriority[Len(Interceptors)]]

\* Neither activeInterceptorCompleted nor heartbeatTime is reset.
selectNextInterceptor(obj) ==
  [obj EXCEPT !.class = sortInterceptorsByPriority[findInterceptorIndex(obj.class) + 1]]

markInterceptorAsCompleted(obj) == [obj EXCEPT !.completed = TRUE]
=============================================================================
