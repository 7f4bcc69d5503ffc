-------------------------- MODULE SubscriptionDiff --------------------------
(***************************************************************************)
(* What the hourly diff of a subscription tells its subscriber:            *)
(* build_state, diff_state and _flush_user_events of                       *)
(* services/cve_subscription_service.py, for one subscriber of one CVE.    *)
(* When the job runs and what it commits is SubscriptionDigest.            *)
(*                                                                         *)
(* CVSS scores are compared rounded to a decimal and appear rounded; EPSS  *)
(* scores are whole numbers of a small unit.  Texts and their params are   *)
(* left out.                                                               *)
(***************************************************************************)
EXTENDS Integers, FiniteSets

CONSTANTS
    Pairs,        \* (namespace, cluster) pairs
    Specs,        \* pull specs of images
    TagOf,        \* pull spec -> the spec without its digest
    Components,   \* components with a fix
    Severities, CvssScores, EpssScores,
    NotifyDelta,  \* EPSS_NOTIFY_DELTA
    Thresholds,   \* values of the EPSS threshold in the settings
    Cap,          \* MAX_DIFF_NOTIFICATIONS_PER_USER
    MaxChanges,   \* bound on what scans and access change
    AllPairs,     \* the scope of a subscriber who sees all namespaces
    None          \* no value

ConstantsAssumption ==
    /\ IsFiniteSet(Pairs) /\ IsFiniteSet(Specs) /\ IsFiniteSet(Components)
    /\ DOMAIN TagOf = Specs
    /\ EpssScores \subseteq Nat /\ Thresholds \subseteq Nat /\ Severities \subseteq Nat
    /\ NotifyDelta \in Nat \ {0} /\ Cap \in Nat \ {0} /\ MaxChanges \in Nat
    /\ None \notin Nat /\ None \notin CvssScores /\ (\A ps \in SUBSET Pairs : ps # AllPairs)

VARIABLES
    rows,      \* get_subscription_locations: affected pair -> images and fixable components
    scores,    \* the effective scores of the CVE
    scope,     \* the pairs of the subscriber's snapshot, or AllPairs
    state,     \* the stored state of the subscription
    changes,   \* number of changes so far
    told,      \* what the last run told: events and notifications
    seen,      \* history: rows, scores, scope and threshold of the last run
    notified   \* history: the EPSS last told, or first known while nothing moved unseen

vars == <<rows, scores, scope, state, changes, told, seen, notified>>

Tags == {TagOf[s] : s \in Specs}
Locations == [images : SUBSET Specs, fixable : SUBSET Components]
\* A row has a severity and a CVSS score; EPSS may be unknown.
EffectiveScores == [severity : Severities, cvss : CvssScores, epss : EpssScores \cup {None}]
ScoreSets == [severity : Severities \cup {None}, cvss : CvssScores \cup {None},
              epss : EpssScores \cup {None}]
Scopes == (SUBSET Pairs) \cup {AllPairs}
Kinds == {"scores_changed", "new_images", "fix_available", "no_longer_affected"}
Event == [kind : Kinds, scope : (SUBSET Pairs) \ {{}}]

NoScores == [severity |-> None, cvss |-> None, epss |-> None]
Silent == [events |-> {}, notes |-> {}]

TypeOK ==
    /\ DOMAIN rows \subseteq Pairs /\ rows \in [DOMAIN rows -> Locations]
    /\ scores \in EffectiveScores
    /\ scope \in Scopes
    /\ state.v \in {0, 1} /\ state.scope \in Scopes /\ state.scores \in ScoreSets
    /\ DOMAIN state.locations \subseteq Pairs
    /\ \A p \in DOMAIN state.locations :
           state.locations[p].images \subseteq Tags /\ state.locations[p].fixable \subseteq Components
    /\ changes \in 0 .. MaxChanges
    /\ told.events \subseteq Event
    /\ notified \in EpssScores \cup {None}

-----------------------------------------------------------------------------
(***************************************************************************)
(* Building a state                                                        *)
(***************************************************************************)
\* _scope_contains
Contains(sc, p) == IF sc = AllPairs THEN TRUE ELSE p \in sc

\* image_identity
Identity(spec) == TagOf[spec]

\* A CVE that is nowhere has no row, and no row no scores.
ScoresOf(rws, scs) == IF DOMAIN rws = {} THEN NoScores ELSE scs

\* build_state: scores of all rows, locations of the visible ones.
BuildState(rws, scs, sc) ==
    [v |-> 1,
     scope |-> sc,
     scores |-> ScoresOf(rws, scs),
     locations |-> [p \in {q \in DOMAIN rws : Contains(sc, q)} |->
                       [images |-> {Identity(s) : s \in rws[p].images},
                        fixable |-> rws[p].fixable]]]

(***************************************************************************)
(* diff_state                                                              *)
(***************************************************************************)
Distance(a, b) == IF a > b THEN a - b ELSE b - a

Crosses(old, new, threshold) ==
    threshold > 0 /\ (old >= threshold) # (new >= threshold)

Differ(old, new) == old # None /\ new # None /\ old # new

EpssMoved(anchor, new, threshold) ==
    /\ anchor # None /\ new # None
    /\ Distance(anchor, new) >= NotifyDelta \/ Crosses(anchor, new, threshold)

ScoresChanged(old, new, threshold) ==
    /\ new # NoScores
    /\ \/ Differ(old.severity, new.severity)
       \/ Differ(old.cvss, new.cvss)
       \/ EpssMoved(old.epss, new.epss, threshold)

\* _diff_scores, and the anchor of a CVE that is not seen: gone everywhere the
\* scores stay, and the EPSS anchor moves only when there is something to tell.
StoredScores(old, new, threshold, visible) ==
    IF new = NoScores THEN old
    ELSE [new EXCEPT !.epss =
             IF ScoresChanged(old, new, threshold)
             THEN (IF visible THEN new.epss ELSE old.epss)
             ELSE (IF old.epss = None THEN new.epss ELSE old.epss)]

\* Mutant: a pair the subscriber gained counts as newly affected.
NewImagesOfAny(old, new) ==
    {p \in DOMAIN new.locations :
        IF p \in DOMAIN old.locations
        THEN ~(new.locations[p].images \subseteq old.locations[p].images)
        ELSE TRUE}

NewImages(old, new) ==
    {p \in DOMAIN new.locations :
        IF p \in DOMAIN old.locations
        THEN ~(new.locations[p].images \subseteq old.locations[p].images)
        ELSE Contains(old.scope, p)}

FixAvailable(old, new) ==
    {p \in DOMAIN new.locations \cap DOMAIN old.locations :
        ~(new.locations[p].fixable \subseteq old.locations[p].fixable)}

NoLongerAffected(old, new) ==
    {p \in DOMAIN old.locations \ DOMAIN new.locations : Contains(new.scope, p)}

Events(old, new, threshold) ==
    {e \in {[kind |-> "scores_changed",
             scope |-> IF ScoresChanged(old.scores, new.scores, threshold)
                       THEN DOMAIN new.locations ELSE {}],
            [kind |-> "new_images", scope |-> NewImages(old, new)],
            [kind |-> "fix_available", scope |-> FixAvailable(old, new)],
            [kind |-> "no_longer_affected", scope |-> NoLongerAffected(old, new)]} :
        e.scope # {}}

\* A state of another version is replaced without a word.
DiffEvents(old, new, threshold) == IF old.v # 1 THEN {} ELSE Events(old, new, threshold)

DiffStored(old, new, threshold) ==
    IF old.v # 1 THEN new
    ELSE [new EXCEPT !.scores =
             StoredScores(old.scores, new.scores, threshold, DOMAIN new.locations # {})]

\* _flush_user_events: too many events become one notification of all pairs.
Notes(events) ==
    IF Cardinality(events) > Cap
    THEN {[kind |-> "summary", scope |-> UNION {e.scope : e \in events}]}
    ELSE events

-----------------------------------------------------------------------------
(***************************************************************************)
(* The steps                                                               *)
(***************************************************************************)
\* subscribe: the CVE must affect a pair the user sees.  A state written by an
\* earlier version may be found instead.
Init ==
    /\ rows \in {r \in UNION {[ps -> [images : {{s} : s \in Specs}, fixable : {{}}]]
                                : ps \in SUBSET Pairs} : DOMAIN r # {}}
    /\ scores \in EffectiveScores
    /\ scope \in Scopes
    /\ \E p \in DOMAIN rows : Contains(scope, p)
    /\ \E v \in {0, 1} : state = [BuildState(rows, scores, scope) EXCEPT !.v = v]
    /\ changes = 0
    /\ told = Silent
    /\ seen = [rows |-> rows, scores |-> scores, scope |-> scope, known |-> state.v = 1, threshold |-> 0]
    /\ notified = scores.epss

Change ==
    /\ changes < MaxChanges
    /\ changes' = changes + 1
    /\ UNCHANGED <<state, told, seen, notified>>

\* A scan finds the CVE in a pair, with other images or fixes, or no more.
ScanFinds(p, l) ==
    /\ Change
    /\ rows' = [q \in DOMAIN rows \cup {p} |-> IF q = p THEN l ELSE rows[q]]
    /\ UNCHANGED <<scores, scope>>

ScanLoses(p) ==
    /\ Change
    /\ p \in DOMAIN rows
    /\ rows' = [q \in DOMAIN rows \ {p} |-> rows[q]]
    /\ UNCHANGED <<scores, scope>>

Rescored(s) ==
    /\ Change
    /\ scores' = s
    /\ UNCHANGED <<rows, scope>>

AccessChanges(sc) ==
    /\ Change
    /\ scope' = sc
    /\ UNCHANGED <<rows, scores>>

\* The world at a run, and which of its scores moved: severity and CVSS since the
\* last run that found any, EPSS since it was last told.
Visible == {p \in DOMAIN rows : Contains(scope, p)}
Now == ScoresOf(rows, scores)

Moved(threshold) ==
    /\ Now # NoScores
    /\ \/ Differ(seen.scores.severity, Now.severity)
       \/ Differ(seen.scores.cvss, Now.cvss)
       \/ EpssMoved(notified, Now.epss, threshold)

\* run_subscription_diff, for this subscription.
Run(threshold) ==
    LET fresh == BuildState(rows, scores, scope)
        events == DiffEvents(state, fresh, threshold)
        moved == Moved(threshold)
    IN /\ state' = DiffStored(state, fresh, threshold)
       /\ told' = [events |-> events, notes |-> Notes(events)]
       /\ seen' = [rows |-> rows, scope |-> scope, known |-> TRUE, threshold |-> threshold,
                   scores |-> IF Now = NoScores /\ seen.known THEN seen.scores ELSE Now]
       /\ notified' = IF \/ ~seen.known
                         \/ moved /\ Visible # {}
                         \/ ~moved /\ notified = None
                      THEN Now.epss ELSE notified
       /\ UNCHANGED <<rows, scores, scope, changes>>

Next ==
    \/ \E p \in Pairs, l \in Locations : ScanFinds(p, l)
    \/ \E p \in Pairs : ScanLoses(p)
    \/ \E s \in EffectiveScores : Rescored(s)
    \/ \E sc \in Scopes : AccessChanges(sc)
    \/ \E threshold \in Thresholds : Run(threshold)

Spec == Init /\ [][Next]_vars

-----------------------------------------------------------------------------
\* What a run tells, against the world as it was at the last run and not
\* against what was stored of it.
TagsIn(rws, p) == {TagOf[s] : s \in rws[p].images}
ToldOf(kind) == UNION {e.scope : e \in {x \in told'.events : x.kind = kind}}
Followed == {p \in Pairs : Contains(seen.scope, p) /\ Contains(scope, p)}

NewImagesExact ==
    ToldOf("new_images") =
        {p \in Followed \cap DOMAIN rows :
            p \in DOMAIN seen.rows => ~(TagsIn(rows, p) \subseteq TagsIn(seen.rows, p))}

FixesExact ==
    ToldOf("fix_available") =
        {p \in Followed \cap DOMAIN rows \cap DOMAIN seen.rows :
            ~(rows[p].fixable \subseteq seen.rows[p].fixable)}

GoneExact ==
    ToldOf("no_longer_affected") = (Followed \cap DOMAIN seen.rows) \ DOMAIN rows

ScoresExact ==
    ToldOf("scores_changed") = IF Moved(seen'.threshold) THEN Visible ELSE {}

\* However access and scans change between two runs, the subscriber is told of
\* exactly what changed in the pairs seen at both of them, of scores measured
\* against those last told, and of nothing because access changed; a summary
\* covers the same pairs.
Exact ==
    changes' = changes =>
        /\ IF seen.known
           THEN NewImagesExact /\ FixesExact /\ GoneExact /\ ScoresExact
           ELSE told'.events = {}
        /\ UNION {n.scope : n \in told'.notes} = UNION {e.scope : e \in told'.events}
        /\ Cardinality(told'.notes) <= Cap

DiffExact == [][Exact]_vars

=============================================================================
