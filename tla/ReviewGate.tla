------------------------------ MODULE ReviewGate ------------------------------
(***************************************************************************)
(* What the risk acceptance workflow promises about review, without        *)
(* requests, sessions, dates or status columns: every acceptance asks for  *)
(* a scope, and covers it or does not.  Submitting a scope drops whatever  *)
(* signature there was, and puts the scope in force on the spot only if it *)
(* stays within one team.  Any other scope comes into force in a step of   *)
(* its own, by a reviewer who signs exactly what had been asked for.  The  *)
(* one exception is an edit that overtakes: it was made without knowledge  *)
(* of the present submission or verdict.  It is remembered for good.       *)
(***************************************************************************)
CONSTANTS Acceptances, Scopes, SingleTeam, NoScope, Reviewers, Nobody

VARIABLES asked,   \* acceptance -> the scope it was last submitted with
          covers,  \* acceptance -> whether it is in force
          signer,  \* acceptance -> the reviewer of what was submitted last
          overtaken  \* acceptances an edit overtook

vars == <<asked, covers, signer, overtaken>>

Init ==
    /\ asked = [r \in Acceptances |-> NoScope]
    /\ covers = [r \in Acceptances |-> FALSE]
    /\ signer = [r \in Acceptances |-> Nobody]
    /\ overtaken = {}

\* What may happen to one acceptance in one step.
Submit(r) ==
    /\ asked'[r] \in Scopes
    /\ covers'[r] => asked'[r] \in SingleTeam
    /\ signer'[r] = Nobody

Verdict(r) ==
    /\ asked[r] \in Scopes
    /\ asked'[r] = asked[r]
    /\ signer'[r] \in Reviewers

Lapse(r) ==
    /\ asked'[r] = asked[r]
    /\ ~covers'[r]
    /\ signer'[r] = signer[r]

Delete(r) ==
    /\ asked'[r] = NoScope
    /\ ~covers'[r]
    /\ signer'[r] = Nobody

Keep(r) ==
    /\ asked'[r] = asked[r]
    /\ covers'[r] = covers[r]
    /\ signer'[r] = signer[r]

\* An edit that overtakes may mix two submissions.  It signs nothing.  A late
\* review of what was overtaken before may do the same.
Overtake(r) ==
    /\ asked[r] \in Scopes /\ asked'[r] \in Scopes
    /\ signer'[r] \in {signer[r], Nobody}

\* What may happen to one acceptance with no other touched.
Alone(r) ==
    \/ (Verdict(r) \/ Delete(r)) /\ overtaken' = overtaken
    \/ Overtake(r) /\ overtaken' = overtaken \cup {r}

\* One commit may touch several acceptances: an import submits many, an expiry
\* run ends many.
Next ==
    /\ asked' \in [Acceptances -> Scopes \cup {NoScope}]
    /\ covers' \in [Acceptances -> BOOLEAN]
    /\ signer' \in [Acceptances -> Reviewers \cup {Nobody}]
    /\ \/ overtaken' = overtaken /\ \A r \in Acceptances : Keep(r) \/ Submit(r)
       \/ overtaken' = overtaken /\ \A r \in Acceptances : Keep(r) \/ Lapse(r)
       \/ \E one \in Acceptances :
             /\ Alone(one)
             /\ \A r \in Acceptances \ {one} : Keep(r)

Spec == Init /\ [][Next]_vars

=============================================================================
