--------------------------- MODULE LeaderTermsProofs ---------------------------
(***************************************************************************)
(* What LeaderTerms promises follows from its steps alone, for any number  *)
(* of processes and requests; so it holds of whatever implements it.       *)
(***************************************************************************)
EXTENDS LeaderTerms, TLAPS

TypeOK ==
  /\ term \in [Replicas -> {"standby", "leading", "closing", "over"}]
  /\ work \in [Replicas -> SUBSET Requests]

TermsInv == TypeOK /\ OneLeads

LEMMA InvAtInit == Init => TermsInv
BY DEF Init, TermsInv, TypeOK, OneLeads

LEMMA StepsKeepInv == TermsInv /\ [Next]_vars => TermsInv'
<1> SUFFICES ASSUME TermsInv, [Next]_vars PROVE TermsInv'
  OBVIOUS
<1> TypeOK /\ OneLeads
  BY DEF TermsInv
<1>1. CASE UNCHANGED vars
  BY <1>1 DEF vars, TermsInv, TypeOK, OneLeads
<1>2. ASSUME NEW r \in Replicas, Lead(r) PROVE TermsInv'
  BY <1>2 DEF Lead, Goes, TermsInv, TypeOK, OneLeads
<1>3. ASSUME NEW r \in Replicas, LoseTerm(r) PROVE TermsInv'
  BY <1>3 DEF LoseTerm, Goes, TermsInv, TypeOK, OneLeads
<1>4. ASSUME NEW r \in Replicas, Close(r) PROVE TermsInv'
  <2>1. PICK left \in SUBSET work[r] : work' = [work EXCEPT ![r] = left]
    BY <1>4 DEF Close
  <2> QED
    BY <1>4, <2>1 DEF Close, Goes, TermsInv, TypeOK, OneLeads
<1>5. ASSUME NEW r \in Replicas, Restart(r) PROVE TermsInv'
  BY <1>5 DEF Restart, Goes, TermsInv, TypeOK, OneLeads
<1>6. ASSUME NEW r \in Replicas, NEW q \in Requests, TakeUp(r, q) PROVE TermsInv'
  BY <1>6 DEF TakeUp, TermsInv, TypeOK, OneLeads
<1>7. ASSUME NEW r \in Replicas, NEW q \in Requests, Finish(r, q) PROVE TermsInv'
  BY <1>7 DEF Finish, TermsInv, TypeOK, OneLeads
<1> QED
  BY <1>1, <1>2, <1>3, <1>4, <1>5, <1>6, <1>7 DEF Next

\* Of however many processes, one leads at a time, and one that waits for its turn has
\* nothing at hand.
THEOREM LeadersAreAlone == Spec => []OneLeads
<1>1. TermsInv => OneLeads
  BY DEF TermsInv
<1> QED
  BY <1>1, InvAtInit, StepsKeepInv, PTL DEF Spec

\* A process whose term is over takes nothing up, and leads again only after a new
\* start.
THEOREM EndedTermsStayEnded == Spec => TermsEnd
<1> DEFINE Stays(r) == term[r] = "over" =>
             \/ term'[r] = "over" /\ work'[r] \subseteq work[r]
             \/ term'[r] = "standby" /\ work'[r] = {}
<1>1. TermsInv /\ [Next]_vars => [\A r \in Replicas : Stays(r)]_vars
  <2> SUFFICES ASSUME TypeOK, Next, NEW r \in Replicas, term[r] = "over"
               PROVE  \/ term'[r] = "over" /\ work'[r] \subseteq work[r]
                      \/ term'[r] = "standby" /\ work'[r] = {}
    BY DEF TermsInv
  <2>1. PICK s \in Replicas :
          \/ Lead(s) \/ LoseTerm(s) \/ Close(s) \/ Restart(s)
          \/ \E q \in Requests : TakeUp(s, q) \/ Finish(s, q)
    BY DEF Next
  <2>2. CASE Lead(s) \/ LoseTerm(s)
    BY <2>2 DEF Lead, LoseTerm, Goes, TypeOK
  <2>3. CASE Close(s)
    <3>1. PICK left \in SUBSET work[s] : work' = [work EXCEPT ![s] = left]
      BY <2>3 DEF Close
    <3> QED
      BY <2>3, <3>1 DEF Close, Goes, TypeOK
  <2>4. CASE Restart(s)
    BY <2>4 DEF Restart, Goes, TypeOK
  <2>5. CASE \E q \in Requests : TakeUp(s, q) \/ Finish(s, q)
    BY <2>5 DEF TakeUp, Finish, TypeOK
  <2> QED
    BY <2>1, <2>2, <2>3, <2>4, <2>5
<1> QED
  BY <1>1, InvAtInit, StepsKeepInv, PTL DEF Spec, TermsEnd
=============================================================================
