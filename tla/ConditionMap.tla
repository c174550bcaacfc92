----------------------------- MODULE ConditionMap -----------------------------
(***************************************************************************)
(* What .status.conditions promises its readers: one entry for each type,  *)
(* the entries of the controller and those of the interceptors apart, and  *)
(* transition times that fit the statuses.  There are no lists, copies,    *)
(* versions or retries here.  StatusConditions implements it.              *)
(***************************************************************************)
EXTENDS Naturals

CONSTANTS
  Types,      \* the types of conditions
  OwnTypes,   \* the types the controller writes
  Statuses,   \* True, False, Unknown
  Reasons,    \* the texts that come with a status
  None        \* no entry

VARIABLES
  entry,      \* the entry of each type
  now,        \* the clock
  writtenAt   \* when the status was last written

vars == <<entry, now, writtenAt>>

Entries(t) == [Type : {t}, Status : Statuses, Reason : Reasons, LastTransitionTime : 0..now]

Init ==
  /\ entry = [t \in Types |-> None]
  /\ now = 0
  /\ writtenAt = 0

\* The status of e lasts since the time that old names.
Lasts(old, e) == /\ old # None
                 /\ e.Status = old.Status
                 /\ e.LastTransitionTime = old.LastTransitionTime

\* What the entry of type t may become: the status lasts, or it has turned since the
\* status was last written; an entry does not vanish.
MayBecome(t, e) ==
  IF e = None THEN entry[t] = None
  ELSE /\ e \in Entries(t)
       /\ Lasts(entry[t], e) \/ e.LastTransitionTime >= writtenAt

\* Entries of these types are replaced, the others are not.
Write(types) ==
  /\ writtenAt' = now
  /\ UNCHANGED now
  /\ LET new == entry' IN
       /\ DOMAIN new = Types
       /\ \A t \in types : MayBecome(t, new[t])
       /\ \A t \in Types \ types : new[t] = entry[t]

ControllerWrites == Write(OwnTypes)

InterceptorWrites(t) == t \notin OwnTypes /\ Write({t})

Tick ==
  /\ now' = now + 1
  /\ UNCHANGED <<entry, writtenAt>>

Next ==
  \/ ControllerWrites
  \/ \E t \in Types : InterceptorWrites(t)
  \/ Tick

Spec == Init /\ [][Next]_vars

-----------------------------------------------------------------------------

\* A transition time is never after the write that stored it, nor in the future.
TimesArePast ==
  /\ writtenAt <= now
  /\ \A t \in Types : entry[t] # None => entry[t].LastTransitionTime <= writtenAt

\* A reader who has seen an entry sees it again in every later object, with a transition
\* time that has not gone back; and a new status comes with a time since the write before.
EntriesGoOn ==
  [][\A t \in Types :
       entry[t] # None =>
         /\ entry'[t] # None
         /\ entry'[t].LastTransitionTime >= entry[t].LastTransitionTime
         /\ entry'[t].Status # entry[t].Status =>
              entry'[t].LastTransitionTime >= writtenAt]_vars
=============================================================================
