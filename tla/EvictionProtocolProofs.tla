------------------------ MODULE EvictionProtocolProofs ------------------------
(***************************************************************************)
(* What EvictionProtocol promises follows from its steps alone, for any    *)
(* number of interceptors; so it holds of whatever implements it.          *)
(***************************************************************************)
EXTENDS EvictionProtocol, Integers, TLAPS

\* Who has reported or completed had a turn before.
Precedence ==
  /\ reports > 0 => turn # 0
  /\ completed => turn # 0
  /\ silent <= reports

ProtocolInv ==
  /\ turn \in Nat /\ reports \in Nat /\ silent \in Nat
  /\ counter \in Nat /\ failures \in Nat /\ lost \in Nat /\ completed \in BOOLEAN
  /\ claim = "False" => counter > 0
  /\ Precedence /\ InterceptorsComeFirst /\ ClaimsHold

LEMMA InvAtInit == Init => ProtocolInv
<1> SUFFICES ASSUME Init PROVE ProtocolInv
  OBVIOUS
<1>1. completed \in BOOLEAN /\ ~completed
  BY DEF Init
<1>2. /\ turn = 0 /\ reports = 0 /\ silent = 0 /\ counter = 0 /\ failures = 0 /\ lost = 0
      /\ claim = "Unset" /\ evictions = {}
  BY DEF Init
<1> QED
  BY <1>1, <1>2 DEF ProtocolInv, Precedence, InterceptorsComeFirst, ClaimsHold

\* A turn is never given back, and nobody completes before the first.
LEMMA TurnsStay ==
  ASSUME ProtocolInv, WriteStatus
  PROVE  /\ turn' \in Nat /\ turn <= turn'
         /\ completed' \in BOOLEAN
         /\ completed => completed' \/ turn' > 1
         /\ completed' => turn' # 0
<1>1. turn \in Nat /\ lost \in Nat /\ completed \in BOOLEAN
  BY DEF ProtocolInv
<1>2. (completed => turn # 0) /\ (reports # 0 => turn # 0)
  BY DEF ProtocolInv, Precedence
<1>3. CASE TurnLasts
  <2>1. completed' = completed \/ (reports # 0 /\ completed' = TRUE)
    BY <1>3 DEF TurnLasts, DeadlinePassed
  <2>2. turn' = turn
    BY <1>3 DEF TurnLasts
  <2>3. turn' \in Nat /\ turn <= turn'
    BY <1>1, <2>2
  <2>4. /\ completed' \in BOOLEAN /\ (completed => completed')
        /\ completed' => turn # 0
    <3>1. CASE completed' = completed
      BY <1>1, <1>2, <3>1
    <3>2. CASE reports # 0 /\ completed' = TRUE
      BY <1>2, <3>2
    <3> QED
      BY <2>1, <3>1, <3>2
  <2> QED
    BY <2>2, <2>3, <2>4
<1>4. CASE TurnsBegin
  <2>1. turn = 0 /\ turn' = 1 /\ completed' = completed
    BY <1>4 DEF TurnsBegin
  <2>2. turn' \in Nat /\ turn <= turn' /\ turn' # 0
    BY <2>1
  <2> QED
    BY <1>1, <1>2, <2>1, <2>2
<1>5. CASE TurnGoesOn
  <2>1. turn # 0 /\ turn' \in (turn + 1) .. (turn + 1 + lost)
    BY <1>5 DEF TurnGoesOn
  <2>2. turn' \in Nat /\ turn <= turn' /\ turn' > 1 /\ turn' # 0
    BY <1>1, <2>1
  <2>3. completed' \in BOOLEAN
    BY <1>5 DEF TurnGoesOn
  <2> QED
    BY <2>2, <2>3
<1> QED
  BY <1>3, <1>4, <1>5 DEF WriteStatus

\* A write of the status claims only what has happened.
LEMMA WritesKeepInv ==
  ASSUME ProtocolInv, WriteStatus
  PROVE  ProtocolInv'
<1>1. /\ turn' \in Nat /\ turn <= turn'
      /\ completed' \in BOOLEAN
      /\ completed => completed' \/ turn' > 1
      /\ completed' => turn' # 0
  BY TurnsStay
<1>2. /\ reports' = reports /\ silent' = silent /\ failures' = failures
      /\ evictions' = evictions /\ lost' \in {lost, lost + 1}
  BY DEF WriteStatus, outside
<1>3. /\ counter' \in counter .. failures
      /\ claim' = "True" => evictions # {}
      /\ claim' = "False" => counter' > 0
  BY DEF WriteStatus, ClaimsAreTrue
<1>4. counter' \in Nat /\ counter' <= failures /\ (claim' = "False" => failures > 0)
  BY <1>3 DEF ProtocolInv
<1>5. turn \in Nat /\ (turn # 0 => turn' # 0) /\ (turn > 1 => turn' > 1) /\ lost' \in Nat
  BY <1>1, <1>2 DEF ProtocolInv
<1>6. Precedence'
  BY <1>1, <1>2, <1>5 DEF ProtocolInv, Precedence
<1>7. InterceptorsComeFirst'
  BY <1>1, <1>2, <1>5 DEF ProtocolInv, InterceptorsComeFirst
<1>8. ClaimsHold'
  BY <1>2, <1>3, <1>4 DEF ClaimsHold
<1> QED
  BY <1>1, <1>2, <1>3, <1>4, <1>5, <1>6, <1>7, <1>8 DEF ProtocolInv

\* An eviction, or an attempt, has its cause, and takes no claim back.
LEMMA EvictionsKeepInv ==
  ASSUME ProtocolInv, EvictionSucceeds \/ EvictionFails
  PROVE  ProtocolInv'
<1>1. /\ UNCHANGED <<status, outside, lost>> /\ MayEvict
      /\ failures' \in {failures, failures + 1} /\ evictions \subseteq evictions'
  BY DEF EvictionSucceeds, EvictionFails, EvictPod
<1>2. /\ turn' = turn /\ completed' = completed /\ counter' = counter /\ claim' = claim
      /\ reports' = reports /\ silent' = silent /\ lost' = lost
  BY <1>1 DEF status, outside
<1>3. failures' \in Nat /\ failures <= failures'
  BY <1>1 DEF ProtocolInv
<1>4. Turns # 0 => turn # 0 /\ (completed \/ silent > 0)
  BY <1>1 DEF MayEvict, ProtocolInv, Precedence
<1>5. InterceptorsComeFirst'
  BY <1>2, <1>4 DEF ProtocolInv, InterceptorsComeFirst
<1>6. ClaimsHold'
  BY <1>1, <1>2, <1>3 DEF ProtocolInv, ClaimsHold
<1> QED
  BY <1>2, <1>3, <1>5, <1>6 DEF ProtocolInv, Precedence

LEMMA StepsKeepInv == ProtocolInv /\ [Next]_vars => ProtocolInv'
<1> SUFFICES ASSUME ProtocolInv, [Next]_vars PROVE ProtocolInv'
  OBVIOUS
<1> USE DEF ProtocolInv, Precedence, InterceptorsComeFirst, ClaimsHold
<1>1. CASE WriteStatus
  BY <1>1, WritesKeepInv
<1>2. CASE EvictionSucceeds \/ EvictionFails
  BY <1>2, EvictionsKeepInv
<1>3. CASE Report
  BY <1>3 DEF Report, status, history
<1>4. CASE Complete
  BY <1>4 DEF Complete, outside, history
<1>5. CASE Forbid
  BY <1>5 DEF Forbid, outside, history
<1>6. CASE Withdraw \/ Delete
  BY <1>6 DEF Withdraw, Delete, status, history
<1>7. CASE DeadlinePasses
  <2>1. /\ silent' \in Nat /\ silent < silent' /\ silent' <= reports
        /\ UNCHANGED <<status, exists, requested, reports, history>>
    BY <1>7 DEF DeadlinePasses
  <2> QED
    BY <2>1 DEF status, history
<1>8. CASE LoseWrite
  BY <1>8 DEF LoseWrite, status, outside
<1>9. CASE UNCHANGED vars
  BY <1>9 DEF vars, status, outside, history
<1> QED
  BY <1>1, <1>2, <1>3, <1>4, <1>5, <1>6, <1>7, <1>8, <1>9 DEF Next

LEMMA InvHolds == Spec => []ProtocolInv
BY InvAtInit, StepsKeepInv, PTL DEF Spec

\* However many interceptors there are, none is overtaken by the eviction: an attempt
\* comes after the first turn, and after the first completed it or some deadline passed.
THEOREM NobodyIsOvertaken == Spec => []InterceptorsComeFirst
<1>1. ProtocolInv => InterceptorsComeFirst
  BY DEF ProtocolInv
<1> QED
  BY <1>1, InvHolds, PTL

\* What the status says of evictions and failures has happened.
THEOREM TheStatusIsTrue == Spec => []ClaimsHold
<1>1. ProtocolInv => ClaimsHold
  BY DEF ProtocolInv
<1> QED
  BY <1>1, InvHolds, PTL

\* A forbidden cancellation stays forbidden.
LEMMA ForbidIsKept == Spec => ForbidStays
<1>1. [Next]_vars => [policy = "Forbid" => policy' = "Forbid"]_vars
  BY DEF Next, WriteStatus, LoseWrite, EvictionSucceeds, EvictionFails, Report, Complete, Forbid,
         Withdraw, Delete, DeadlinePasses, vars, status, outside, history
<1> QED
  BY <1>1, PTL DEF Spec, ForbidStays
=============================================================================
