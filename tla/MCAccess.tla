------------------------------ MODULE MCAccess ------------------------------
(***************************************************************************)
(* Instances of Access for TLC.                                            *)
(***************************************************************************)
EXTENDS Access, TLC

Bounds ==
    [spoke |-> 3, account |-> 4, sessions |-> 0, peers |-> 5, scores |-> 1,
     presence |-> 2, badges |-> 2, keys |-> 3, views |-> 3]

\* The grants of the user come and go, and so do the groups.
SomeChanging == Groups \cup (Namespaces \X {User})

\* One user gains and loses sight of one entity.
OneMoving == {CHOOSE k \in Users \X Entities : TRUE}

\* One namespace, on a cluster of its own for every pair.
OneNamespace == [p \in Pairs |-> "n1"]
OwnClusters == [p \in Pairs |-> p]

Symmetry == Permutations(Requests) \cup Permutations(Tokens)

-----------------------------------------------------------------------------
\* CveViews: one namespace name in two clusters, a deployment in each.
InFirst == <<"n", "c1">>
InSecond == <<"n", "c2">>
BothPairs == {InFirst, InSecond}
OwnPair == "d1" :> InFirst @@ "d2" :> InSecond

Finding(c, comp, isFixable, since, seen) ==
    [cve |-> c, comp |-> comp, origin |-> "feed", fixable |-> isFixable, since |-> since, seen |-> seen]

\* y has no component before the images are scanned again.
OldFindings ==
    "i1" :> {Finding("x", <<"a", "1">>, TRUE, 5, 6), Finding("y", None, FALSE, None, 1)}
    @@ "i2" :> {Finding("x", <<"b", "1">>, FALSE, None, 8)}
NewFindings ==
    "i1" :> {Finding("x", <<"a", "1">>, TRUE, 5, 6)}
    @@ "i2" :> {Finding("x", <<"b", "1">>, FALSE, None, 8), Finding("y", <<"a", "1">>, TRUE, 7, 7)}

Severities == "x" :> 4 @@ "y" :> 2
CvssOf == "x" :> 9 @@ "y" :> 3
EpssOf == "x" :> 1 @@ "y" :> 0
TwoFloors == {<<0, 0>>, <<5, 0>>}

Viewer(isAll, isSec, pairs) == [all |-> isAll, sec |-> isSec, pairs |-> pairs]
FourViewers ==
    {Viewer(TRUE, TRUE, {}), Viewer(TRUE, FALSE, {}), Viewer(FALSE, FALSE, {InFirst}), Viewer(FALSE, FALSE, BothPairs)}
Sidebar == {[cluster |-> None, namespace |-> None], [cluster |-> "c2", namespace |-> None]}
OnlyX == [v \in FourViewers |-> {"x"}]

\* Level 2 and 3 follow 4 and 8 days after level 1; of the rule for the others
\* level 3 comes before level 2.
Escalates(sev, days, fixDays) ==
    [sev |-> sev, epss |-> 0, seen |-> <<days, days + 4, days + 8>>, fix |-> <<fixDays, None, None>>]
TwoRules == {Escalates(4, 5, 4), [Escalates(0, 8, None) EXCEPT !.seen = <<8, 12, 11>>]}

Row(kind, row) == [kind |-> kind, row |-> row]
RuleRow(type, of, where, status) == Row("rule", [type |-> type, of |-> of, where |-> where, status |-> status])
SomeDecisions ==
    {RuleRow("cve", "x", {InFirst}, "approved"), RuleRow("cve", "x", All, "approved"),
     RuleRow("component", "a", {"1"}, "approved"), RuleRow("cve", "y", {InSecond}, "requested"),
     Row("acceptance", [cve |-> "y", status |-> "requested",
                        scope |-> {[pair |-> InFirst, image |-> None, deployment |-> None]}]),
     Row("acceptance", [cve |-> "x", status |-> "approved", scope |-> All]),
     Row("remediation", [cve |-> "x", pair |-> InFirst, status |-> "resolved"]),
     Row("remediation", [cve |-> "x", pair |-> InSecond, status |-> "open"]),
     Row("escalation", [cve |-> "x", pair |-> InFirst, level |-> 1]),
     Row("escalation", [cve |-> "x", pair |-> InFirst, level |-> 2])}

=============================================================================
