----------------------------- MODULE MCWorkerMail -----------------------------
(***************************************************************************)
(* Instances of WorkerMail for TLC.                                        *)
(***************************************************************************)
EXTENDS WorkerMail, TLC

\* Every event is for every user there is: for the one.
OneOwner == [i \in Ids |-> CHOOSE u \in Users : TRUE]

AllNamespaces == [u \in Users |-> Namespaces]

\* "a" has been pulled by two digests of one tag.
Tagged == "a@1" :> "a" @@ "a@2" :> "a" @@ "b" :> "b"

\* A comment mentions nobody, or everybody and a name that is nobody's.
AllOrNobody == {{}, Talkers \cup {Stranger}}

Symmetry == Permutations(Runs) \cup Permutations(DiffPairs)

=============================================================================
