------------------------- MODULE MCSuppressionRules -------------------------
(***************************************************************************)
(* Instances of SuppressionRules for TLC.  A client name is the user's     *)
(* name followed by the number of the tab.                                 *)
(***************************************************************************)
EXTENDS SuppressionRules, TLC

CONSTANTS alice1, bob1, sec1, sid1,  \* clients
          alice, bob, sec, sid       \* users

SignedIn == [c \in Clients |->
                CASE c = alice1 -> alice
                  [] c = bob1 -> bob
                  [] c = sec1 -> sec
                  [] c = sid1 -> sid]

\* Primary keys are interchangeable.
RuleSymmetry == Permutations(Rules)

=============================================================================
