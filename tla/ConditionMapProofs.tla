-------------------------- MODULE ConditionMapProofs --------------------------
(***************************************************************************)
(* What ConditionMap promises follows from its steps alone, for any types, *)
(* statuses and texts; so it holds of whatever implements it.              *)
(***************************************************************************)
EXTENDS ConditionMap, TLAPS

MapInv ==
  /\ now \in Nat /\ writtenAt \in Nat
  /\ \A t \in Types : entry[t] # None => entry[t].LastTransitionTime \in Nat
  /\ TimesArePast

LEMMA InvAtInit == Init => MapInv
BY DEF Init, MapInv, TimesArePast

\* What a write makes of the entry of a type.
LEMMA WritesKeepTimes ==
  ASSUME MapInv, NEW types \in SUBSET Types, Write(types), NEW t \in Types
  PROVE  /\ entry'[t] = None => entry[t] = None
         /\ entry'[t] # None =>
              /\ entry'[t].LastTransitionTime \in 0..now
              /\ \/ entry'[t] = entry[t] \/ Lasts(entry[t], entry'[t])
                 \/ entry'[t].LastTransitionTime >= writtenAt
<1> now \in Nat /\ writtenAt \in Nat /\ writtenAt <= now
  BY DEF MapInv, TimesArePast
<1>1. CASE t \in types
  <2>1. MayBecome(t, entry'[t])
    BY <1>1 DEF Write
  <2> QED
    BY <2>1 DEF MayBecome, Entries
<1>2. CASE t \notin types
  <2>1. entry'[t] = entry[t]
    BY <1>2 DEF Write
  <2> QED
    BY <2>1 DEF MapInv, TimesArePast
<1> QED
  BY <1>1, <1>2

LEMMA StepsAre ==
  ASSUME Next
  PROVE  (\E types \in SUBSET Types : Write(types)) \/ Tick
<1>1. ControllerWrites => Write(OwnTypes \cap Types)
  BY DEF ControllerWrites, Write
<1>2. \A t \in Types : InterceptorWrites(t) => Write({t})
  BY DEF InterceptorWrites
<1> QED
  BY <1>1, <1>2 DEF Next

LEMMA StepsKeepInv == MapInv /\ [Next]_vars => MapInv'
<1> SUFFICES ASSUME MapInv, [Next]_vars PROVE MapInv'
  OBVIOUS
<1>1. ASSUME NEW types \in SUBSET Types, Write(types) PROVE MapInv'
  <2>1. writtenAt' = now /\ now' = now
    BY <1>1 DEF Write
  <2>2. \A t \in Types : entry'[t] # None => entry'[t].LastTransitionTime \in 0..now
    BY <1>1, WritesKeepTimes
  <2> QED
    BY <2>1, <2>2 DEF MapInv, TimesArePast
<1>2. CASE Tick
  BY <1>2 DEF Tick, MapInv, TimesArePast
<1>3. CASE UNCHANGED vars
  BY <1>3 DEF vars, MapInv, TimesArePast
<1> QED
  BY <1>1, <1>2, <1>3, StepsAre

\* A transition time is never after the write that stored it, nor in the future.
THEOREM NoFutureTimes == Spec => []TimesArePast
<1>1. MapInv => TimesArePast
  BY DEF MapInv
<1> QED
  BY <1>1, InvAtInit, StepsKeepInv, PTL DEF Spec

\* An entry that was stored stays, and its transition time never goes back.
THEOREM EntriesOnlyGoOn == Spec => EntriesGoOn
<1> DEFINE GoesOn(t) == entry[t] # None =>
             /\ entry'[t] # None
             /\ entry'[t].LastTransitionTime >= entry[t].LastTransitionTime
             /\ entry'[t].Status # entry[t].Status =>
                  entry'[t].LastTransitionTime >= writtenAt
<1>1. MapInv /\ [Next]_vars => [\A t \in Types : GoesOn(t)]_vars
  <2> SUFFICES ASSUME MapInv, Next, NEW t \in Types, entry[t] # None
               PROVE  /\ entry'[t] # None
                      /\ entry'[t].LastTransitionTime >= entry[t].LastTransitionTime
                      /\ entry'[t].Status # entry[t].Status =>
                           entry'[t].LastTransitionTime >= writtenAt
    OBVIOUS
  <2>1. /\ entry[t].LastTransitionTime \in Nat /\ writtenAt \in Nat /\ now \in Nat
        /\ entry[t].LastTransitionTime <= writtenAt
    BY DEF MapInv, TimesArePast
  <2>2. ASSUME NEW types \in SUBSET Types, Write(types)
        PROVE  GoesOn(t)
    <3>1. /\ entry'[t] # None /\ entry'[t].LastTransitionTime \in 0..now
          /\ \/ entry'[t] = entry[t] \/ Lasts(entry[t], entry'[t])
             \/ entry'[t].LastTransitionTime >= writtenAt
      BY <2>2, WritesKeepTimes
    <3> QED
      BY <2>1, <3>1 DEF Lasts
  <2>3. CASE Tick
    BY <2>1, <2>3 DEF Tick
  <2> QED
    BY <2>2, <2>3, StepsAre
<1> QED
  BY <1>1, InvAtInit, StepsKeepInv, PTL DEF Spec, EntriesGoOn
=============================================================================
