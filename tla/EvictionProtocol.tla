-------------------------- MODULE EvictionProtocol --------------------------
(***************************************************************************)
(* What interceptors, requesters and whoever waits for the pod may rely    *)
(* on: one request, with nothing of the machinery that serves it.  There   *)
(* are no workers, queues, copies, caches, versions, retries or restarts   *)
(* here, only who may change what, and for what cause.  EvictionReconciler *)
(* implements it.                                                          *)
(***************************************************************************)
EXTENDS Naturals

CONSTANT Turns   \* the number of interceptors; turns are numbered from 1

VARIABLES
  exists,      \* the request has not been deleted
  requested,   \* somebody still asks for the eviction
  policy,      \* whether the request may be cancelled; "Unset" at first
  turn,        \* whose turn it is; 0 before the first
  completed,   \* an interceptor's part is done, or has been called done
  reports,     \* the reports of the interceptors so far
  silent,      \* the last report whose deadline has passed
  counter,     \* the failed evictions the status claims
  claim,       \* what the status claims of the eviction: "True" or "False"
  failures,    \* the evictions that did fail
  evictions,   \* the incarnations of the pod that were evicted
  lost         \* the status writes lost, or stored without anybody being told

status  == <<policy, turn, completed, counter, claim>>
outside == <<exists, requested, reports, silent>>
history == <<failures, evictions, lost>>
vars    == <<status, outside, history>>

Init ==
  /\ exists = TRUE /\ requested = TRUE
  /\ policy = "Unset"
  /\ turn = 0 /\ completed = FALSE
  /\ reports = 0 /\ silent = 0
  /\ counter = 0 /\ claim = "Unset"
  /\ failures = 0 /\ evictions = {} /\ lost = 0

-----------------------------------------------------------------------------
(* The controller.                                                         *)

DeadlinePassed == reports # 0 /\ reports <= silent

\* The interceptor's part is done only when it says so or its deadline has passed.
TurnLasts ==
  /\ turn' = turn
  /\ completed' = completed \/ (DeadlinePassed /\ completed' = TRUE)

TurnsBegin ==
  /\ turn = 0 /\ Turns # 0
  /\ turn' = 1 /\ completed' = completed

\* One turn at a time, unless a write was lost: then a hand-over may be repeated.  It
\* is left open whether the new turn starts afresh; HandOverStartsAfresh is about that.
TurnGoesOn ==
  /\ turn # 0
  /\ completed \/ DeadlinePassed
  /\ turn' \in (turn + 1) .. (turn + 1 + lost)
  /\ turn' <= Turns
  /\ completed' \in BOOLEAN

\* Claims are true, and none is taken back.
ClaimsAreTrue ==
  /\ counter' \in counter .. failures
  /\ claim' = "Unset" => claim = "Unset" /\ counter' = 0
  /\ claim' = "True" => evictions # {}
  /\ claim' = "False" => counter' > 0

\* One write of the status, by whichever worker, from whichever copy.  Its answer may
\* be lost.
WriteStatus ==
  /\ exists
  /\ policy' = policy \/ (policy = "Unset" /\ policy' = "Allow")
  /\ TurnLasts \/ TurnsBegin \/ TurnGoesOn
  /\ ClaimsAreTrue
  /\ lost' \in {lost, lost + 1}
  /\ UNCHANGED <<outside, failures, evictions>>

\* A write that is not stored.
LoseWrite ==
  /\ lost' = lost + 1
  /\ UNCHANGED <<status, outside, failures, evictions>>

\* Some interceptor has completed or fallen silent, or there are none.
MayEvict == Turns = 0 \/ completed \/ silent > 0

EvictPod == \E uid \in evictions' : evictions' = evictions \cup {uid}

EvictionSucceeds ==
  /\ MayEvict
  /\ EvictPod
  /\ UNCHANGED <<status, outside, failures, lost>>

\* A call that fails may have had its effect.
EvictionFails ==
  /\ MayEvict
  /\ failures' = failures + 1
  /\ EvictPod \/ UNCHANGED evictions
  /\ UNCHANGED <<status, outside, lost>>

-----------------------------------------------------------------------------
(* Interceptors, users and the clock.                                      *)

Report ==
  /\ exists /\ turn # 0
  /\ reports' = reports + 1
  /\ UNCHANGED <<status, exists, requested, silent, history>>

Complete ==
  /\ exists /\ turn # 0
  /\ completed' = TRUE
  /\ UNCHANGED <<policy, turn, counter, claim, outside, history>>

Forbid ==
  /\ exists /\ turn # 0
  /\ policy' = "Forbid"
  /\ UNCHANGED <<turn, completed, counter, claim, outside, history>>

Withdraw ==
  /\ exists
  /\ requested' = FALSE
  /\ UNCHANGED <<status, exists, reports, silent, history>>

Delete ==
  /\ exists
  /\ exists' = FALSE
  /\ UNCHANGED <<status, requested, reports, silent, history>>

DeadlinePasses ==
  /\ silent' \in (silent + 1) .. reports
  /\ UNCHANGED <<status, exists, requested, reports, history>>

Next ==
  \/ WriteStatus \/ LoseWrite \/ EvictionSucceeds \/ EvictionFails
  \/ Report \/ Complete \/ Forbid \/ Withdraw \/ Delete \/ DeadlinePasses

Spec == Init /\ [][Next]_vars

-----------------------------------------------------------------------------

\* No call to evict the pod, successful or not, comes before the first interceptor had
\* its turn, and completed it or fell silent.
InterceptorsComeFirst ==
  Turns # 0 /\ (evictions # {} \/ failures > 0) =>
    turn # 0 /\ (completed \/ turn > 1 \/ silent > 0)

\* Whoever reads the status may act on it: evictions it claims have happened, failures
\* it counts have occurred, and "not yet" is said only after an attempt.
ClaimsHold ==
  /\ counter <= failures
  /\ claim = "True" => evictions # {}
  /\ claim = "False" => failures > 0

\* Once an interceptor has forbidden the cancellation, no write of the status, which
\* carries the whole of it, allows it again.
ForbidStays == [][policy = "Forbid" => policy' = "Forbid"]_vars
=============================================================================
