-------------------------- MODULE MCRiskAcceptances --------------------------
(***************************************************************************)
(* Instances of RiskAcceptances for TLC.  A client name is the user's name *)
(* followed by the number of the tab.                                      *)
(***************************************************************************)
EXTENDS RiskAcceptances, FiniteSetsExt, TLC

CONSTANTS alice1, alice2, bob1, sec1, sid1,  \* clients
          alice, bob, sec, sid               \* users

SignedIn == [c \in Clients |->
                CASE c \in {alice1, alice2} -> alice
                  [] c = bob1 -> bob
                  [] c = sec1 -> sec
                  [] c = sid1 -> sid]

(***************************************************************************)
(* Who acts, and on how many rows, is chosen at the start.                 *)
(***************************************************************************)
CONSTANT Casts
VARIABLE cast

Everybody == {[clients |-> Clients, rows |-> Acceptances]}

\* Two creators and a reviewer on all rows, or any three of a creator's two tabs
\* and two members of the security team on one.
Trios ==
    [clients : {{tab, bob1, judge} : tab \in {alice1, alice2}, judge \in {sec1, sid1}},
     rows    : {Acceptances}]
    \cup
    [clients : kSubset(3, {alice1, alice2, sec1, sid1}),
     rows    : {{r} : r \in Acceptances}]

CastInit == Init /\ cast \in Casts

\* Nobody is assigned who does not appear.
AssigneeAppears ==
    \A c \in cast.clients :
        req'[c].op = "assign"
            => req'[c].new.assigned_to \in {UserOf[d] : d \in cast.clients}

CastNext ==
    /\ \/ \E c \in cast.clients : Handler(c)
       \/ ExpiryLoad
       \/ ExpiryCommit
       \/ ExpiryAbort
       \/ Tick
    /\ used' \subseteq cast.rows
    /\ AssigneeAppears
    /\ UNCHANGED cast

\* Every behaviour is one of Spec, in which the other clients never ask for
\* anything, the other keys are never handed out and nobody else is assigned.
CastSpec == CastInit /\ [][CastNext]_<<vars, cast>>

FairCastSpec == CastSpec /\ Fairness

\* Primary keys, the tabs of one user and the members of the security team are
\* interchangeable; only for runs without liveness.
Team == [x \in {sec1, sid1, sec, sid} |-> x]

TeamSwapped ==
    [x \in {sec1, sid1, sec, sid} |->
        CASE x = sec1 -> sid1 [] x = sid1 -> sec1 [] x = sec -> sid [] x = sid -> sec]

CastSymmetry ==
    {keys @@ tabs @@ team : keys \in Permutations(Acceptances),
                            tabs \in Permutations({alice1, alice2}),
                            team \in {Team, TeamSwapped}}

=============================================================================
