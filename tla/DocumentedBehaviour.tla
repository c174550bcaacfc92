------------------------- MODULE DocumentedBehaviour -------------------------
(***************************************************************************)
(* What the API's documentation and the comments in the code say of the    *)
(* controller, where the code does something else.  Each property is       *)
(* violated by a run of its own; the trace shows how.                      *)
(***************************************************************************)
EXTENDS EvictionReconciler

\* types.go:197-198: activeInterceptorCompleted is set "when the interceptor of
\* the ActiveInterceptorClass has fully or partially completed".  So no
\* interceptor takes over with the flag already set.  selectNextInterceptor
\* leaves the flag of the previous interceptor in place.
HandOverStartsAfresh ==
  [][request'.class # request.class => ~request'.completed]_vars

\* types.go:13-14: "Each active interceptor is given unlimited time to resolve
\* the eviction request, provided that it responds periodically".  So the
\* eviction API is not called while the stored request shows an interceptor
\* that has not completed and whose last report is recent.
ReportingInterceptorKeepsThePod ==
  \A i \in Items :
    pc[i] = "evict" /\ Interceptors # <<>> => request.completed \/ Expired(request)

\* reconciler.go:72: "Verify pod UID matches".  So only the incarnation of the
\* pod that the request names is evicted.
EvictsOnlyTheNamedPod == evictions \subseteq {TargetUID}

\* types.go:108-110: "If the .status.heartbeatTime is not updated within the
\* duration of HeartbeatDeadlineSeconds, the eviction request is passed over to
\* the next interceptor [...]. If there is none, the pod is evicted".
SilentInterceptorIsPassedOver ==
  Index(request) = 1 /\ request.heartbeat = 0 ~>
    Settled \/ request.heartbeat > 0 \/ Index(request) > 1
=============================================================================
