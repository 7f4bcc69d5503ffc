---------------------------- MODULE MCRemediations ----------------------------
(***************************************************************************)
(* Instances of Remediations for TLC.  A client name is the user's name    *)
(* followed by the number of the tab.                                      *)
(***************************************************************************)
EXTENDS Remediations, TLC

CONSTANTS alice1, bob1, sec1,  \* clients
          alice, bob, sec      \* users

SignedIn == [c \in Clients |->
                CASE c = alice1 -> alice
                  [] c = bob1 -> bob
                  [] c = sec1 -> sec]

\* Everyone sees every namespace.
AllTargets == [u \in Users |-> Targets]

=============================================================================
