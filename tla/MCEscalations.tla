---------------------------- MODULE MCEscalations ----------------------------
(***************************************************************************)
(* Instances of Escalations for TLC: one or two findings of one CVE, days  *)
(* of two units.                                                           *)
(***************************************************************************)
EXTENDS Escalations, TLC

CONSTANTS f1, f2, cve

OneCve == [f \in Findings |-> cve]

\* Level 1 after a day and a half, level 2 after two days and a half; the rule
\* of the other finding sets a deadline for level 3 alone.
Deadlines == [f \in Findings |-> IF f = f1 THEN (1 :> 3) @@ (2 :> 5) ELSE (3 :> 4)]

World(rows, pinned, accepted, suppressed) ==
    [rows |-> rows, pinned |-> pinned, accepted |-> accepted, suppressed |-> suppressed]

Unseen     == World({}, {}, {}, {})
Shown      == World(Findings, {}, {}, {})
Pinned     == World({}, {cve}, {}, {})
Accepted   == World(Findings, {}, {cve}, {})
Suppressed == World(Findings, {}, {}, {f1})

AllWorlds == {Unseen, Shown, Pinned, Accepted, Suppressed}
ShownOrNot == {Unseen, Shown}
OnlyShown == {Shown}

\* The runs of one job are interchangeable; only for runs without liveness.
JobSymmetry == Permutations(Checks) \cup Permutations(Warners)

=============================================================================
