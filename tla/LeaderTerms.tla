----------------------------- MODULE LeaderTerms -----------------------------
(***************************************************************************)
(* What running the controller in several processes promises: one of them  *)
(* leads at a time, each leads at most once before it is started again,    *)
(* and what a process whose term is over has at hand only gets less.       *)
(* There is no lease, callback, channel, informer or worker here.          *)
(* ControllerLifecycle implements it.                                      *)
(***************************************************************************)
CONSTANTS
  Replicas,   \* the processes
  Requests    \* the eviction requests

VARIABLES
  term,   \* where the term of each process stands
  work    \* the requests each process has queued or in a worker

vars == <<term, work>>

Init ==
  /\ term = [r \in Replicas |-> "standby"]
  /\ work = [r \in Replicas |-> {}]

Goes(r, stage) == term' = [term EXCEPT ![r] = stage]

Lead(r) ==
  /\ term[r] = "standby"
  /\ \A s \in Replicas : term[s] # "leading"
  /\ Goes(r, "leading")
  /\ UNCHANGED work

\* Events come in until the queue is shut down, be it after the term.
TakeUp(r, q) ==
  /\ term[r] \in {"leading", "closing"}
  /\ work' = [work EXCEPT ![r] = @ \cup {q}]
  /\ UNCHANGED term

Finish(r, q) ==
  /\ work' = [work EXCEPT ![r] = @ \ {q}]
  /\ UNCHANGED term

LoseTerm(r) ==
  /\ term[r] = "leading"
  /\ Goes(r, "closing")
  /\ UNCHANGED work

\* The queue is shut down, and may lose some of what waits in it.
Close(r) ==
  /\ term[r] = "closing"
  /\ Goes(r, "over")
  /\ \E left \in SUBSET work[r] : work' = [work EXCEPT ![r] = left]

\* The process ends in whatever way, and is started again.
Restart(r) ==
  /\ Goes(r, "standby")
  /\ work' = [work EXCEPT ![r] = {}]

Next ==
  \E r \in Replicas :
    \/ Lead(r) \/ LoseTerm(r) \/ Close(r) \/ Restart(r)
    \/ \E q \in Requests : TakeUp(r, q) \/ Finish(r, q)

Spec == Init /\ [][Next]_vars

-----------------------------------------------------------------------------

\* Two processes never lead at the same time, and one that has not had a term since it
\* was started has nothing at hand.
OneLeads ==
  /\ \A r, s \in Replicas : term[r] = "leading" /\ term[s] = "leading" => r = s
  /\ \A r \in Replicas : term[r] = "standby" => work[r] = {}

\* A term that is over is followed only by a new start of the process, and until then
\* nothing is added to what the process has at hand.
TermsEnd ==
  [][\A r \in Replicas :
       term[r] = "over" =>
         \/ term'[r] = "over" /\ work'[r] \subseteq work[r]
         \/ term'[r] = "standby" /\ work'[r] = {}]_vars
=============================================================================
