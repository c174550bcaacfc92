---------------------------- MODULE StatusHandler ----------------------------
(***************************************************************************)
(* What pkg/reconciler/status does to the object in memory before it calls *)
(* UpdateStatus.  Of .status.conditions only the Evicted entry is written  *)
(* by code that can run.  UpsertCondition keeps LastTransitionTime when    *)
(* the status of the entry does not change, so the status alone decides    *)
(* whether the entry changes.                                              *)
(***************************************************************************)
EXTENDS EvictionRequestAPI, Integers

DefaultPolicy(obj) ==
  [obj EXCEPT !.policy = IF @ = "Unset" THEN "Allow" ELSE @]

UpsertCondition(obj, status) ==
  [DefaultPolicy(obj) EXCEPT !.evicted = status]

\* Slip: the counter is decremented.
DecrementFailedEvictionCounter(obj) ==
  UpsertCondition([obj EXCEPT !.counter = @ - 1], "False")

\* Slip: the caller and the callee both count.
IncrementTwice(obj) ==
  UpsertCondition([obj EXCEPT !.counter = @ + 2], "False")

\* Slip: the condition is not set.
IncrementOnly(obj) == DefaultPolicy([obj EXCEPT !.counter = @ + 1])

IncrementFailedEvictionCounter(obj) ==
  UpsertCondition([obj EXCEPT !.counter = @ + 1], "False")
=============================================================================
