------------------------- MODULE EvictionRequestAPI -------------------------
(***************************************************************************)
(* The EvictionRequest object (apis/evictionrequest/v1alpha1/types.go), as *)
(* the controller, the interceptors and the API server see it.  A value of *)
(* Objects is one version of the object: the stored one, the copy in the   *)
(* informer's cache, or the deep copy a work item carries.                 *)
(*                                                                         *)
(* Fields of .spec that the controller reads are constants: the target pod *)
(* and the list of interceptors.  The API documents them as immutable      *)
(* (types.go:65-119), but nothing enforces it: this is an assumption.      *)
(***************************************************************************)
EXTENDS Naturals, Sequences

CONSTANTS
  Interceptors,   \* .spec.interceptors, a sequence of [class, priority]
  NoClass         \* a nil or empty .status.activeInterceptorClass

Classes == {Interceptors[k].class : k \in DOMAIN Interceptors}

\* What the CRD schema enforces: the list is a map keyed by interceptorClass,
\* and priorities are non-negative.
ASSUME InterceptorsAssumption ==
  /\ Interceptors \in Seq([class : Classes, priority : Nat])
  /\ NoClass \notin Classes
  /\ \A j, k \in DOMAIN Interceptors :
        Interceptors[j].class = Interceptors[k].class => j = k

\* The pod incarnation .spec.target.podRef.uid names.  Incarnations of the pod
\* with the target's name are numbered from 1; 0 stands for "no such pod".
TargetUID == 1
NoPod     == 0

Policies   == {"Unset", "Allow", "Forbid"}   \* "Unset" is the empty string
Conditions == {"Unset", "True", "False"}     \* the Evicted condition

(***************************************************************************)
(* exists    -- the object has not been deleted                            *)
(* rv        -- .metadata.resourceVersion; versions are numbered from 1    *)
(* requested -- .spec.requesters is not empty                              *)
(* policy    -- .status.evictionRequestCancellationPolicy                  *)
(* class     -- .status.activeInterceptorClass                             *)
(* completed -- .status.activeInterceptorCompleted                         *)
(* heartbeat -- .status.heartbeatTime, as the number of the report that    *)
(*              wrote it; 0 when nil                                       *)
(* counter   -- .status.podEvictionStatus.failedAPIEvictionCounter         *)
(* evicted   -- status of the Evicted entry of .status.conditions          *)
(***************************************************************************)
Objects ==
  [exists : BOOLEAN, rv : Nat, requested : BOOLEAN,
   policy : Policies, class : Classes \cup {NoClass}, completed : BOOLEAN,
   heartbeat : Nat, counter : Nat, evicted : Conditions]

\* A freshly created request: the API server drops .status on creation, so no
\* schema default is applied to it.
CreatedObject ==
  [exists |-> TRUE, rv |-> 1, requested |-> TRUE,
   policy |-> "Unset", class |-> NoClass, completed |-> FALSE,
   heartbeat |-> 0, counter |-> 0, evicted |-> "Unset"]

NoObject == [CreatedObject EXCEPT !.exists = FALSE, !.rv = 0]
=============================================================================
