--------------------------- MODULE CentralQueries ---------------------------
(***************************************************************************)
(* The queries on the database of StackRox central (stackrox/queries), as  *)
(* sets over the rows of the images that run.                              *)
(*                                                                         *)
(* Central keeps the findings of an image twice: as the current scanner    *)
(* wrote them (V2Rows, once the image was scanned again) and as they were  *)
(* frozen at the upgrade (LegacyRows).  Scores are those of the CVE, the   *)
(* same in every scope (module EffectiveScores).  `where` is the set of    *)
(* <<namespace, cluster>> pairs a query is restricted to; a query without  *)
(* a restriction gets all the Pairs.                                       *)
(***************************************************************************)
EXTENDS Integers, FiniteSets

CONSTANTS
    Cves, Pairs, Images, Deployments,
    PairOf,             \* [Deployments -> Pairs]
    V2Rows, LegacyRows, \* [Images -> sets of findings: cve, comp, origin, fixable, since, seen]
    Severity, Cvss, Epss, \* [Cves -> Nat]
    None

VARIABLES
    running,   \* [Deployments -> Images \cup {None}]: deployments_containers
    rescanned  \* images_v2.scanstats_componentcount > 0

centralVars == <<running, rescanned>>

Least(S) == CHOOSE x \in S : \A y \in S : x <= y

-----------------------------------------------------------------------------
\* The findings that count for an image: never both models.
FindingsOf(i) == IF i \in rescanned THEN V2Rows[i] ELSE LegacyRows[i]

Live == {d \in Deployments : running[d] # None}

\* deployments JOIN cve_rows: a row is a finding f in a deployment d.
RowsIn(where) ==
    UNION {{[d |-> d, f |-> f] : f \in FindingsOf(running[d])} : d \in {x \in Live : PairOf[x] \in where}}

OfCve(rows, c) == {r \in rows : r.f.cve = c}
CvesOf(rows) == {r.f.cve : r \in rows}
PairsOf(rows) == {PairOf[r.d] : r \in rows}
ImagesOf(rows) == {running[r.d] : r \in rows}

list_namespaces == {PairOf[d] : d \in Live}

-----------------------------------------------------------------------------
\* A floor is a pair of the least CVSS and the least EPSS; a CVE that is always
\* shown passes any.
MeetsFloor(c, floor) == Cvss[c] >= floor[1] /\ Epss[c] >= floor[2]
PassesFloor(c, floor, always) == MeetsFloor(c, floor) \/ c \in always

\* get_cves_for_namespaces, get_all_cves.
get_cves(where, floor, always) == {c \in CvesOf(RowsIn(where)) : PassesFloor(c, floor, always)}

\* VISIBILITY_HAVING: the same without the CVEs the caller excludes.
visible_cves(where, floor, always, exclude) == get_cves(where, floor, always) \ exclude

\* The columns a list aggregates per CVE.
first_seen(rows) == Least({r.f.seen : r \in rows})
fix_available_since(rows) ==
    LET known == {r.f.since : r \in rows} \ {None} IN IF known = {} THEN None ELSE Least(known)
fixable(rows) == \E r \in rows : r.f.fixable
origins(rows) == {r.f.origin : r \in rows} \ {None}
affected_deployments(rows) == {r.d : r \in rows}

\* A finding whose component is not known to central is in no map of components.
component_versions(rows) == {r.f.comp : r \in rows} \ {None}
component_names(rows) == {c[1] : c \in component_versions(rows)}

-----------------------------------------------------------------------------
cves_visible_in_namespaces(cves, where) == cves \cap CvesOf(RowsIn(where))
get_namespaces_with_cve(c) == PairsOf(OfCve(RowsIn(Pairs), c))
get_cve_namespace_cluster_map(c, where) == PairsOf(OfCve(RowsIn(where), c))
get_cve_component_fixes(cves, where) ==
    {<<r.f.cve, r.f.comp, r.f.fixable>> : r \in {x \in RowsIn(where) : x.f.cve \in cves /\ x.f.comp # None}}
get_cve_ids_for_deployment_id(d, where) == CvesOf({r \in RowsIn(where) : r.d = d})
get_image_namespaces(i) == {PairOf[d] : d \in {x \in Live : running[x] = i}}
get_deployment_namespaces(d) == IF d \in Live THEN {PairOf[d]} ELSE {}

\* One row per CVE and pair; the components are those that occur there.
get_cves_by_namespace_detail(where, floor, always) ==
    {<<r.f.cve, PairOf[r.d]>> : r \in {x \in RowsIn(where) : PassesFloor(x.f.cve, floor, always)}}

get_team_alert_candidates(floor, always) == get_cves_by_namespace_detail(Pairs, floor, always)

\* Severity and CVSS of each feed; a row without a feed counts for none.
get_cve_origin_ratings(c, where) == origins(OfCve(RowsIn(where), c))

get_component_cve_rows(cves, where, image, deployment) ==
    {r \in RowsIn(where) :
        /\ r.f.cve \in cves /\ r.f.comp # None
        /\ image # None => running[r.d] = image
        /\ deployment # None => r.d = deployment}

-----------------------------------------------------------------------------
\* The panels: each groups what visible_cves leaves. What the code counts is
\* here the set it counts.
get_severity_distribution(shown) == [s \in {Severity[c] : c \in shown} |-> {c \in shown : Severity[c] = s}]

get_fixability_breakdown(rows, shown) ==
    LET fixed == {c \in shown : fixable(OfCve(rows, c))} IN [fixable |-> fixed, unfixable |-> shown \ fixed]

\* A CVE counts once for a namespace, in however many clusters the name occurs.
get_cves_per_namespace(rows, shown) ==
    [n \in {p[1] : p \in PairsOf(rows)} |-> {r.f.cve : r \in {x \in rows : PairOf[x.d][1] = n}} \cap shown]

get_cluster_heatmap(rows, shown) ==
    [k \in {p[2] : p \in PairsOf(rows)} |-> {r.f.cve : r \in {x \in rows : PairOf[x.d][2] = k}} \cap shown]

get_top_affected_deployments(rows, shown) ==
    [d \in affected_deployments(rows) |-> CvesOf({r \in rows : r.d = d}) \cap shown]

\* Only rows since the start of the window count, for the day too.
get_cve_trend(rows, shown, start) ==
    LET recent == {r \in rows : r.f.seen >= start}
    IN  [c \in CvesOf(recent) \cap shown |-> first_seen(OfCve(recent, c))]

get_cve_aging(rows, shown, now) == [c \in shown |-> now - first_seen(OfCve(rows, c))]

\* Counts per pair and for the whole organisation, before and after the floor.
get_snapshot_counts(floor, always, exclude) ==
    LET rows == {r \in RowsIn(Pairs) : r.f.cve \notin exclude}
        passed(cves) == {c \in cves : PassesFloor(c, floor, always)}
        of(p) == CvesOf({r \in rows : PairOf[r.d] = p})
    IN  [total |-> [p \in PairsOf(rows) |-> of(p)], visible |-> [p \in PairsOf(rows) |-> passed(of(p))],
         org_total |-> CvesOf(rows), org_visible |-> passed(CvesOf(rows))]

get_threshold_preview(floor) ==
    LET all == CvesOf(RowsIn(Pairs)) IN [total |-> all, visible |-> {c \in all : MeetsFloor(c, floor)}]

-----------------------------------------------------------------------------
\* Images: the floor is applied, a rule is not.
get_cves_for_image(i, where, floor, always) ==
    get_cves(where, floor, always) \cap CvesOf({r \in RowsIn(where) : running[r.d] = i})

get_cves_grouped_by_image(where, floor, always) ==
    [i \in {j \in ImagesOf(RowsIn(where)) : get_cves_for_image(j, where, floor, always) # {}} |->
        get_cves_for_image(i, where, floor, always)]

\* The timeline of an image reads one model too.
get_image_cve_timeline(i) == {<<f.cve, f.seen>> : f \in FindingsOf(i)}

-----------------------------------------------------------------------------
\* Central, which the hub only reads: a rollout changes the image of a
\* deployment (None: it is gone), a scan writes the image into the new model.
Deploy ==
    \E d \in Deployments, i \in Images \cup {None} :
        /\ i # running[d]
        /\ running' = [running EXCEPT ![d] = i]
        /\ UNCHANGED rescanned

Rescan ==
    \E i \in Images \ rescanned :
        /\ \E d \in Deployments : running[d] = i
        /\ rescanned' = rescanned \cup {i}
        /\ UNCHANGED running
=============================================================================
