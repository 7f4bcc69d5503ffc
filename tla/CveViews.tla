------------------------------ MODULE CveViews ------------------------------
(***************************************************************************)
(* What a user sees: the list of CVEs, the dashboard, the fixes by         *)
(* component, the images, the page of a CVE, the escalations (routers      *)
(* cves, dashboard, images, escalations; services cve_filter_service,      *)
(* fix_rollup_service, escalation_preview, escalation_workspace).          *)
(*                                                                         *)
(* Each view asks central anew and filters by what the hub decided: the    *)
(* floor of the settings, priorities, risk acceptances, rules that         *)
(* suppress, remediations.  A request reads one moment.  Rules,            *)
(* acceptances, remediations and escalations are written by the modules of *)
(* their own; here any of the Candidates comes or goes.                    *)
(***************************************************************************)
EXTENDS CentralQueries

CONSTANTS
    Viewers,          \* records: all (sees every namespace), sec, pairs
    Narrowings,       \* records: cluster and namespace of the sidebar, None if not chosen
    Subscribed,       \* [Viewers -> SUBSET Cves]
    Floors,           \* pairs of minimal CVSS and EPSS
    EscalationRules,  \* records: sev, epss, seen and fix: [level -> days or None]
    WarningDays, OverdueDays, Now,
    Candidates,       \* records kind and row: a rule, an acceptance, a remediation, an escalation
    All,              \* the scope, or version pattern, that covers all
    MaxChanges        \* bound

VARIABLES
    rules,        \* records type, of, where, status: of a CVE or of a component
    acceptances,  \* records cve, status, scope; the scope a set of [pair, image, deployment]
    remediations, \* records cve, pair, status
    escalations,  \* records cve, pair, level
    contacted,    \* escalations with a comment linked to them
    priorities, floor,
    changes

viewVars == <<running, rescanned, rules, acceptances, remediations, escalations, contacted, priorities, floor, changes>>

RulesAmong == {x.row : x \in {y \in Candidates : y.kind = "rule"}}
AcceptancesAmong == {x.row : x \in {y \in Candidates : y.kind = "acceptance"}}
RemediationsAmong == {x.row : x \in {y \in Candidates : y.kind = "remediation"}}
EscalationsAmong == {x.row : x \in {y \in Candidates : y.kind = "escalation"}}

Levels == 1..3

\* None is no value of what it stands in for. A rule of the settings gives the
\* days of each level since the CVE was seen, and may give those since a fix.
ConstantsAssumption ==
    /\ PairOf \in [Deployments -> Pairs]
    /\ \A i \in Images : \A f \in V2Rows[i] \cup LegacyRows[i] :
          f.cve \in Cves /\ f.fixable \in BOOLEAN /\ f.seen \in Nat /\ f.since \in Nat \cup {None}
    /\ {Severity, Cvss, Epss} \subseteq [Cves -> Nat]
    /\ None \notin Nat \cup {"in_progress"} /\ \A ps \in SUBSET Pairs : ps # None
    /\ \A v \in Viewers : {v.all, v.sec} \subseteq BOOLEAN /\ v.pairs \subseteq Pairs /\ (v.sec => v.all)
    /\ Floors \subseteq Nat \X Nat
    /\ \A r \in EscalationRules : /\ {r.sev, r.epss} \subseteq Nat
                                   /\ r.seen \in [Levels -> Nat \ {0}]
                                   /\ r.fix \in [Levels -> (Nat \ {0}) \cup {None}]
    /\ {MaxChanges, WarningDays, OverdueDays, Now} \subseteq Nat

TypeOK ==
    /\ running \in [Deployments -> Images \cup {None}]
    /\ rescanned \subseteq Images
    /\ rules \subseteq RulesAmong /\ acceptances \subseteq AcceptancesAmong
    /\ remediations \subseteq RemediationsAmong
    /\ contacted \subseteq escalations /\ escalations \subseteq EscalationsAmong
    /\ priorities \subseteq Cves
    /\ floor \in Floors
    /\ changes \in 0..MaxChanges

-----------------------------------------------------------------------------
\* Scopes and floors.
narrow_namespaces(pairs, q) ==
    {p \in pairs : (q.cluster # None => p[2] = q.cluster) /\ (q.namespace # None => p[1] = q.namespace)}

has_scope(q) == q.cluster # None \/ q.namespace # None

\* _visible_detail_pairs, resolve_scope_namespaces, list_namespaces of the sidebar.
Scope(v, q) == narrow_namespaces(IF v.all THEN list_namespaces ELSE v.pairs, q)

\* The scope as a view passes it on: None where nothing restricts it.
ScopeOrNone(v, q) == IF v.all /\ ~has_scope(q) THEN None ELSE Scope(v, q)
Where(ns) == IF ns = None THEN Pairs ELSE ns

resolve_view_thresholds(v, opted_out) == IF v.sec \/ opted_out THEN <<0, 0>> ELSE floor

Active == {"requested", "approved"}
AcceptedWith(s) == {a.cve : a \in {x \in acceptances : x.status \in s}}
always_show == priorities \cup AcceptedWith(Active)

-----------------------------------------------------------------------------
\* Suppression.
RulesOf(type, status) == {r \in rules : r.type = type /\ r.status = status}

matches_component_rule(r, comps) == \E c \in comps : c[1] = r.of /\ (r.where = All \/ c[2] \in r.where)

\* Of CVE c in locations (those of the user's view, or all of them).
is_cve_suppressed_by_rules(c, status, locations) ==
    LET matching == {r \in RulesOf("cve", status) : r.of = c}
    IN  \/ \E r \in matching : r.where = All
        \/ /\ locations # {}
           /\ locations \subseteq UNION {r.where : r \in {x \in matching : x.where # All}}

\* The per-location counterpart.
is_location_suppressed(c, p) ==
    \/ \E r \in RulesOf("cve", "approved") : r.of = c /\ (r.where = All \/ p \in r.where)
    \/ \E r \in RulesOf("component", "approved") :
           matches_component_rule(r, component_versions(OfCve(RowsIn({p}), c)))

\* A list of namespaces is only fetched where a rule needs it.
LookupNeeded == \E r \in rules : r.type = "component" \/ r.where # All

\* Mutant: whoever passes None gets the lookups of None.
NamespacesAsGiven(v, ns) == ns

NamespacesForLookup(v, ns) == IF ns = None /\ LookupNeeded /\ v.all THEN list_namespaces ELSE ns

\* ns is what the view passes: None or a set of pairs.
compute_suppression_sets(v, cves, ns, status) ==
    LET map_ns == NamespacesForLookup(v, ns)
        scoped == \E r \in rules : r.type = "cve" /\ r.where # All
        at(c) == get_cve_namespace_cluster_map(c, Where(map_ns)) \cap IF v.all THEN Pairs ELSE ns
        comps(c) == IF map_ns = None THEN {} ELSE component_versions(OfCve(RowsIn(map_ns), c))
    IN  {c \in cves :
            \/ IF scoped THEN is_cve_suppressed_by_rules(c, status, at(c))
               ELSE c \in {r.of : r \in RulesOf("cve", status)}
            \/ \E r \in RulesOf("component", status) : matches_component_rule(r, comps(c))}

compute_per_rule_matched_counts(r) ==
    {c \in CvesOf(RowsIn(Pairs)) :
        IF r.type = "cve" THEN r.of = c
        ELSE matches_component_rule(r, component_versions(OfCve(RowsIn(Pairs), c)))}

-----------------------------------------------------------------------------
\* Remediation: only rows of pairs that are affected now count.
Terminal == {"resolved", "verified", "wont_fix"}

compute_remediation_status(c, ns) ==
    LET affected == get_cve_namespace_cluster_map(c, ns)
        rows == {r \in remediations : r.cve = c /\ r.pair \in affected}
    IN  IF \E r \in rows : r.status \notin Terminal THEN "in_progress"
        ELSE IF rows # {} /\ affected \subseteq {r.pair : r \in rows} THEN "remediated"
        ELSE "unremediated"

\* A fix has been there for longer than the settings allow.
is_fix_overdue(rows) == LET since == fix_available_since(rows) IN since # None /\ since <= Now - OverdueDays

-----------------------------------------------------------------------------
\* A query of the list: what it shows besides, and the filters it applies.
Query == [suppressed |-> FALSE, remediated |-> FALSE, status |-> None, opted_out |-> FALSE, filters |-> {}, deployment |-> None]

Passes(v, c, rows, q) ==
    /\ "subscribed" \in q.filters => c \in Subscribed[v]
    /\ "critical" \in q.filters => Severity[c] = 4
    /\ "fixable" \in q.filters => fixable(rows)
    /\ "prioritized" \in q.filters => c \in priorities
    /\ "accepted" \in q.filters => c \in AcceptedWith(Active)
    /\ "overdue" \in q.filters => is_fix_overdue(rows)
    /\ "recent" \in q.filters => Now - first_seen(rows) <= WarningDays
    /\ "named" \in q.filters => component_names(rows) # {}

\* ns is the scope, restricted to the namespaces of an image or a deployment.
Shown(v, where, narrowing, q) ==
    LET cves == get_cves(where, resolve_view_thresholds(v, q.opted_out), always_show)
        hidden == compute_suppression_sets(v, cves, where, "approved")
        status(c) == compute_remediation_status(c, where)
    IN  {c \in cves :
            /\ q.suppressed \/ c \notin hidden
            /\ IF q.status # None THEN status(c) = q.status
               ELSE q.remediated \/ status(c) # "remediated"
            /\ Passes(v, c, OfCve(RowsIn(where), c), q)
            /\ q.deployment # None => c \in get_cve_ids_for_deployment_id(q.deployment, Scope(v, narrowing))}

fetch_filtered_cves(v, n, q) == Shown(v, Scope(v, n), n, q)

fetch_restricted_cves(v, n, q, restrict) ==
    Shown(v, narrow_namespaces(IF v.all THEN restrict ELSE restrict \cap v.pairs, n), n, q)

\* What a row of the list says of the CVE.
build_cve_item(v, c, ns) ==
    LET rows == OfCve(RowsIn(ns), c)
    IN  [has_priority |-> c \in priorities, has_risk_acceptance |-> c \in AcceptedWith(Active),
         suppression_requested |-> c \in compute_suppression_sets(v, {c}, ns, "requested"),
         fixable |-> fixable(rows), deployments |-> affected_deployments(rows), origins |-> origins(rows)]

-----------------------------------------------------------------------------
\* The fixes by component: of an image, of a deployment, or of everything.
build_fix_rollup(v, n, q, image) ==
    LET restrict == IF image # None THEN get_image_namespaces(image)
                    ELSE IF q.deployment # None THEN get_deployment_namespaces(q.deployment) ELSE None
        visible == IF restrict = None THEN fetch_filtered_cves(v, n, q)
                   ELSE fetch_restricted_cves(v, n, q, restrict)
        rows == get_component_cve_rows(visible, Where(ScopeOrNone(v, n)), image, q.deployment)
    IN  [cves |-> CvesOf(rows), visible |-> visible,
         components |-> [k \in component_versions(rows) |-> CvesOf({r \in rows : r.f.comp = k})],
         unmapped |-> IF image # None THEN {} ELSE visible \ CvesOf(rows)]

-----------------------------------------------------------------------------
\* Images: neither a rule nor a remediation hides a CVE.
ImageFloor(v) == resolve_view_thresholds(v, FALSE)
list_cves_by_image(v, n) == get_cves_grouped_by_image(Where(ScopeOrNone(v, n)), ImageFloor(v), always_show)
list_cves_for_image(v, n, i) == get_cves_for_image(i, Where(ScopeOrNone(v, n)), ImageFloor(v), always_show)

get_image_detail(v, n, i) ==
    LET cves == list_cves_for_image(v, n, i)
    IN  [cves |-> cves, critical |-> {c \in cves : Severity[c] = 4}, timeline |-> get_image_cve_timeline(i)]

-----------------------------------------------------------------------------
\* Escalations: rules, deadlines, what is due and what comes.
rule_matches(r, c) == Severity[c] >= r.sev /\ Epss[c] >= r.epss

\* The strictest of those that match; None if none does.
pick_matching_rule(c) ==
    LET matching == {r \in EscalationRules : rule_matches(r, c)}
    IN  IF matching = {} THEN None
        ELSE CHOOSE r \in matching : \A s \in matching : s.sev < r.sev \/ (s.sev = r.sev /\ s.epss <= r.epss)

\* [level -> day], without the levels that no anchor dates.
level_deadlines(r, seen, since) ==
    LET of(l) == (IF r.seen[l] # None /\ seen # None THEN {seen + r.seen[l]} ELSE {})
                 \cup (IF r.fix[l] # None /\ since # None THEN {since + r.fix[l]} ELSE {})
    IN  [l \in {k \in Levels : of(k) # {}} |-> Least(of(l))]

DeadlinesAt(c, ns) ==
    LET rows == OfCve(RowsIn(ns), c)
    IN  level_deadlines(pick_matching_rule(c), first_seen(rows), fix_available_since(rows))

\* <<cve, pair>> that the check and the preview consider.
escalation_candidate_rows(detail) ==
    {x \in detail : x[1] \notin AcceptedWith({"approved"}) /\ ~is_location_suppressed(x[1], x[2])}

Detailed(ns) == get_cves_by_namespace_detail(ns, floor, priorities \cup AcceptedWith({"requested"}))

\* An empty set of namespaces stands for all of them.
compute_upcoming_escalations(ns) ==
    LET where == IF ns = {} THEN list_namespaces ELSE ns
        rows == escalation_candidate_rows(Detailed(where))
        due(c) == DeadlinesAt(c, {x[2] : x \in {y \in rows : y[1] = c}})
        near(c) == {<<c, l, due(c)[l] - Now>> : l \in {k \in DOMAIN due(c) :
                       due(c)[k] - Now \in 1..WarningDays /\ ~\E e \in escalations : e.cve = c /\ e.level = k}}
        dated == {c \in {x[1] : x \in rows} : pick_matching_rule(c) # None}
    IN  UNION {{u \in near(c) : \A w \in near(c) : u[2] <= w[2]} : c \in dated}

\* _upcoming_namespaces; the caller has answered a user without namespaces.
list_upcoming_escalations(v, n) ==
    IF ~v.all /\ v.pairs = {} THEN {}
    ELSE compute_upcoming_escalations(IF v.all /\ ~has_scope(n) THEN {} ELSE Scope(v, n))

\* The workspace: of the escalations of a CVE in a pair, the highest level.
Current == {e \in escalations : ~\E f \in escalations : f.cve = e.cve /\ f.pair = e.pair /\ f.level > e.level}

\* Unlike the other views it does not ask which namespaces exist.
search_active_workspace(v, n) ==
    LET rows == {e \in Current : e.pair \in narrow_namespaces(IF v.all THEN Pairs ELSE v.pairs, n)}
    IN  [rows |-> rows, needs_action |-> rows \ contacted, contacted |-> rows \cap contacted]

-----------------------------------------------------------------------------
\* The page of a CVE: no floor, no rule; it says what covers each deployment.
deployment_covered_by_scope(scope, d) ==
    \/ scope = All
    \/ \E t \in scope : /\ t.pair = PairOf[d]
                        /\ t.image # None => t.image = running[d]
                        /\ t.deployment # None => t.deployment = d

get_affected_deployments(c, ns) == affected_deployments(OfCve(RowsIn(ns), c))

ra_status_for(c, d) ==
    LET covering(s) == \E a \in acceptances : a.cve = c /\ a.status = s /\ deployment_covered_by_scope(a.scope, d)
    IN  IF covering("approved") THEN "approved" ELSE IF covering("requested") THEN "requested" ELSE None

covered_by_rule(c, d) == \E r \in RulesOf("cve", "approved") : r.of = c /\ (r.where = All \/ PairOf[d] \in r.where)

affected_deployments_list(v, c, n) ==
    [d \in get_affected_deployments(c, Scope(v, n)) |->
        [risk_acceptance_status |-> ra_status_for(c, d),
         remediation_status |-> {r.status : r \in {x \in remediations : x.cve = c /\ x.pair = PairOf[d]}},
         is_suppressed |-> covered_by_rule(c, d)]]

\* 404 if no pair in scope has the CVE. The levels reached are those of any pair.
get_cve(v, c, n) ==
    IF get_affected_deployments(c, Scope(v, n)) = {} THEN None
    ELSE [deployments |-> affected_deployments_list(v, c, n),
          escalated |-> {e.level : e \in {x \in escalations : x.cve = c}},
          expected |-> IF pick_matching_rule(c) = None THEN None ELSE DeadlinesAt(c, Scope(v, n)),
          feeds |-> get_cve_origin_ratings(c, Scope(v, n)),
          components |-> component_versions(OfCve(RowsIn(Scope(v, n)), c))]

-----------------------------------------------------------------------------
\* The dashboard: cards and panels over one set of CVEs, asked for first.
FoundFor(v, n) == get_cves(Where(ScopeOrNone(v, n)), resolve_view_thresholds(v, FALSE), always_show)
ExcludedFor(v, n) == compute_suppression_sets(v, FoundFor(v, n), ScopeOrNone(v, n), "approved")

\* Of the pairs in an acceptance the user sees one; its creator is left out.
user_can_access_ra(v, a) ==
    v.all \/ IF a.scope = All THEN v.pairs # {} ELSE \E t \in a.scope : t.pair \in v.pairs

cards(v, n) ==
    LET where == Where(ScopeOrNone(v, n))
        cves == FoundFor(v, n) \ ExcludedFor(v, n)
    IN  [cves |-> cves,
         in_remediation |-> {c \in cves : compute_remediation_status(c, where) = "in_progress"},
         fixable_critical |-> {c \in cves : Severity[c] = 4 /\ fixable(OfCve(RowsIn(where), c))},
         fix_overdue |-> {c \in cves : is_fix_overdue(OfCve(RowsIn(where), c))},
         escalations |-> Cardinality(search_active_workspace(v, n).rows),
         upcoming |-> list_upcoming_escalations(v, n),
         open_risk_acceptances |->
             Cardinality({a \in acceptances : a.status = "requested" /\ user_can_access_ra(v, a)})]

\* Every panel queries central again, with what the first query excluded.
panels(v, n) ==
    LET where == Where(ScopeOrNone(v, n))
        rows == RowsIn(where)
        shown == visible_cves(where, resolve_view_thresholds(v, FALSE), always_show, ExcludedFor(v, n))
        fix_first == (FoundFor(v, n) \ ExcludedFor(v, n)) \ AcceptedWith(Active)
    IN  [severity |-> get_severity_distribution(shown),
         fixability |-> get_fixability_breakdown(rows, shown),
         per_namespace |-> get_cves_per_namespace(rows, shown),
         heatmap |-> get_cluster_heatmap(rows, shown),
         aging |-> get_cve_aging(rows, shown, Now),
         trend |-> get_cve_trend(rows, shown, Now - 90),
         priority_cves |-> fix_first \cap priorities,
         fix_first |-> get_cve_component_fixes(fix_first, where)]

\* The day's snapshot, which the history of the dashboard is drawn from.
run_cve_snapshot ==
    LET org == [all |-> TRUE, sec |-> TRUE, pairs |-> {}]
        cves == get_cves(Pairs, <<0, 0>>, {})
    IN  get_snapshot_counts(floor, always_show, compute_suppression_sets(org, cves, None, "approved"))

\* The weekly digest of a team.  Recipients of one key share what was computed
\* for the first of them: that is v, who is not the recipient u of the mail.
Unscoped == [cluster |-> None, namespace |-> None]
visibility_key(v) == IF v.all THEN <<"all", v.sec>> ELSE <<"ns", v.pairs>>

build_team_digest_stats(u, v) ==
    LET cves == fetch_filtered_cves(v, Unscoped, Query)
        where == IF v.all THEN Pairs ELSE v.pairs
        rows(c) == OfCve(RowsIn(where), c)
        new(c) == \/ Now - first_seen(rows(c)) <= 7
                  \/ LET since == fix_available_since(rows(c)) IN since # None /\ Now - since <= 7
        fixed == {c \in cves : fixable(rows(c))}
    IN  [visible |-> cves, new_fixable |-> {c \in fixed : new(c)},
         critical_fixable |-> {c \in fixed : Severity[c] = 4}, prioritized |-> cves \cap priorities,
         upgrades |-> component_versions({r \in get_component_cve_rows(cves, where, None, None) : r.f.fixable}),
         remediations |-> {r \in remediations : r.status \notin Terminal /\ (u.all \/ r.pair \in u.pairs)}]

\* The weekly mail counts what a rule suppresses too.
send_digest ==
    LET cves == get_cves(Pairs, floor, always_show)
    IN  [total |-> cves, critical |-> {c \in cves : Severity[c] = 4},
         fixable |-> {c \in cves : fixable(OfCve(RowsIn(Pairs), c))}, escalations |-> Cardinality(escalations)]

-----------------------------------------------------------------------------
Init ==
    /\ running \in [Deployments -> Images]
    /\ rescanned = {}
    /\ rules = {} /\ acceptances = {} /\ remediations = {} /\ escalations = {} /\ contacted = {}
    /\ priorities = {}
    /\ floor \in Floors
    /\ changes = 0

Change == changes < MaxChanges /\ changes' = changes + 1
RowsUnchanged == UNCHANGED <<rules, acceptances, remediations, escalations, contacted>>

\* Central changes.
CentralChanges ==
    /\ Change /\ (Deploy \/ Rescan)
    /\ RowsUnchanged /\ UNCHANGED <<priorities, floor>>

\* A row of another module comes or goes; a pair has one remediation of a CVE.
Toggled(rows, x) == IF x \in rows THEN rows \ {x} ELSE rows \cup {x}
Others(x) == {r \in remediations : r.cve # x.cve \/ r.pair # x.pair}

Decision(x) ==
    /\ Change
    /\ rules' = IF x.kind = "rule" THEN Toggled(rules, x.row) ELSE rules
    /\ acceptances' = IF x.kind = "acceptance" THEN Toggled(acceptances, x.row) ELSE acceptances
    /\ remediations' \in IF x.kind = "remediation" THEN {Others(x.row), Others(x.row) \cup {x.row}} ELSE {remediations}
    /\ escalations' = IF x.kind = "escalation" THEN escalations \cup {x.row} ELSE escalations
    /\ UNCHANGED <<centralVars, contacted, priorities, floor>>

\* POST /priorities: 409 if the CVE has one already.
create_priority(v, c) ==
    /\ Change /\ v.sec /\ c \notin priorities
    /\ priorities' = priorities \cup {c}
    /\ RowsUnchanged /\ UNCHANGED <<centralVars, floor>>

delete_priority(v, c) ==
    /\ Change /\ v.sec /\ c \in priorities
    /\ priorities' = priorities \ {c}
    /\ RowsUnchanged /\ UNCHANGED <<centralVars, floor>>

\* PATCH /settings.
update_settings(v, f) ==
    /\ Change /\ v.sec
    /\ floor' = f
    /\ RowsUnchanged /\ UNCHANGED <<centralVars, priorities>>

\* A comment on an escalation: 409 unless it is the row the workspace shows.
add_current_escalation_comment(v, e) ==
    /\ Change /\ v.sec /\ e \in Current
    /\ contacted' = contacted \cup {e}
    /\ UNCHANGED <<centralVars, rules, acceptances, remediations, escalations, priorities, floor>>

\* Its author deletes the only comment: the row needs action again.
delete_cve_comment(e) ==
    /\ Change /\ e \in contacted
    /\ contacted' = contacted \ {e}
    /\ UNCHANGED <<centralVars, rules, acceptances, remediations, escalations, priorities, floor>>

Next ==
    \/ CentralChanges
    \/ \E x \in Candidates : Decision(x)
    \/ \E v \in Viewers, c \in Cves : create_priority(v, c) \/ delete_priority(v, c)
    \/ \E v \in Viewers, f \in Floors : update_settings(v, f)
    \/ \E e \in escalations : delete_cve_comment(e) \/ \E v \in Viewers : add_current_escalation_comment(v, e)

Spec == Init /\ [][Next]_viewVars

-----------------------------------------------------------------------------
Everything == [Query EXCEPT !.remediated = TRUE]
Counted(f) == UNION {f[k] : k \in DOMAIN f}

\* A card of the dashboard counts what the list shows with the filter a click on
\* the card sets, and a panel groups the same CVEs, although the list passes the
\* namespaces one by one and the dashboard passes none.
CardsAgree(v, n) ==
    LET d == cards(v, n)
        p == panels(v, n)
        with(filters) == fetch_filtered_cves(v, n, [Everything EXCEPT !.filters = filters])
    IN  /\ d.cves = with({})
        /\ d.fixable_critical = with({"critical", "fixable"})
        /\ d.fix_overdue = with({"overdue"})
        /\ d.in_remediation = fetch_filtered_cves(v, n, [Query EXCEPT !.status = "in_progress"])
        /\ Counted(p.severity) = d.cves /\ Counted(p.fixability) = d.cves
        /\ Counted(p.per_namespace) = d.cves /\ Counted(p.heatmap) = d.cves
        /\ DOMAIN p.aging = d.cves /\ DOMAIN p.trend \subseteq d.cves

\* What the fixes and the images show is in the list with what it hides by default.
OthersAgree(v, n) ==
    /\ build_fix_rollup(v, n, Query, None).cves \subseteq fetch_filtered_cves(v, n, Query)
    /\ Counted(list_cves_by_image(v, n)) = fetch_filtered_cves(v, n, [Everything EXCEPT !.suppressed = TRUE])

\* The list hides a CVE because of rules of its own and of remediations exactly
\* if the page of the CVE shows each of its deployments as covered.
PageAgrees(v, n) ==
    LET listed == fetch_filtered_cves(v, n, Query)
        always(c) == PassesFloor(c, resolve_view_thresholds(v, FALSE), always_show)
        byComponent(c) == \E r \in RulesOf("component", "approved") :
            matches_component_rule(r, component_versions(OfCve(RowsIn(Scope(v, n)), c)))
    IN  \A c \in Cves :
            LET page == affected_deployments_list(v, c, n)
                open == {d \in DOMAIN page : ~page[d].is_suppressed}
                unremediated == {d \in DOMAIN page : ~\E s \in page[d].remediation_status : s \in Terminal}
            IN  c \in listed <=> /\ always(c) /\ ~byComponent(c)
                                 /\ open # {} /\ unremediated # {}

\* A user finds what an alert is about: of a CVE in the list some location is not
\* suppressed.
ListedIsOpen(v, n) ==
    \A c \in fetch_filtered_cves(v, n, Query) :
        \E p \in get_cve_namespace_cluster_map(c, Scope(v, n)) : ~is_location_suppressed(c, p)

\* The settings take any days; of most rules a higher level is a later one.
Ascending(r) ==
    \A k, l \in Levels :
        k < l => r.seen[k] < r.seen[l] /\ (r.fix[l] # None => r.fix[k] # None /\ r.fix[k] < r.fix[l])

\* What is previewed fires: some location reaches that level on that day and,
\* if the rule ascends, none above it.
PreviewFires(v, n) ==
    \A u \in list_upcoming_escalations(v, n) :
        \E x \in escalation_candidate_rows(Detailed(list_namespaces)) :
            LET due == DeadlinesAt(u[1], {x[2]})
            IN  /\ x[1] = u[1] /\ u[2] \in DOMAIN due /\ due[u[2]] = Now + u[3]
                /\ Ascending(pick_matching_rule(u[1])) => \A l \in DOMAIN due : l > u[2] => due[l] > Now + u[3]
                /\ ~\E e \in escalations : e.cve = u[1] /\ e.pair = x[2] /\ e.level = u[2]

\* A digest tells a user what the lists show, whoever it was computed for.
DigestAgrees ==
    \A u, v \in Viewers :
        visibility_key(u) = visibility_key(v) /\ (u.all \/ u.pairs # {}) =>
            LET stats == build_team_digest_stats(u, v)
                with(filters) == fetch_filtered_cves(u, Unscoped, [Query EXCEPT !.filters = filters])
            IN  /\ stats.visible = with({}) /\ stats.prioritized = with({"prioritized"})
                /\ stats.critical_fixable = with({"critical", "fixable"})

\* A snapshot holds what the dashboard shows that day to who sees everything.
SnapshotAgrees ==
    \A v \in Viewers, n \in Narrowings :
        v.all /\ ~has_scope(n) =>
            cards(v, n).cves = IF v.sec THEN run_cve_snapshot.org_total ELSE run_cve_snapshot.org_visible

\* The views agree on what there is, in every scope of every user.
ViewsAgree ==
    /\ \A v \in Viewers, n \in Narrowings :
        CardsAgree(v, n) /\ OthersAgree(v, n) /\ PageAgrees(v, n) /\ ListedIsOpen(v, n) /\ PreviewFires(v, n)
    /\ SnapshotAgrees /\ DigestAgrees

-----------------------------------------------------------------------------
\* What the documentation says and the code does not keep.

\* "Narrowing never widens: an out-of-scope filter yields []" (cves.py:69): of
\* what is previewed in a scope, some location is in that scope.
NarrowingNarrows ==
    \A v \in Viewers, n \in Narrowings : \A u \in list_upcoming_escalations(v, n) :
        u[1] \in CvesOf(RowsIn(Scope(v, n)))

\* "the roll-up can never show a CVE that the CVE list hides" with the same filters.
RollupShowsListed ==
    \A v \in Viewers, n \in Narrowings, d \in Deployments :
        LET q == [Query EXCEPT !.deployment = d]
        IN  build_fix_rollup(v, n, q, None).cves \subseteq fetch_filtered_cves(v, n, q)
=============================================================================
