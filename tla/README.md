# rhacs-manager: a TLA+ verification project

rhacs-manager puts a workflow on top of the vulnerability data of Red Hat
Advanced Cluster Security (StackRox): teams see the CVEs of their namespaces,
accept risks, declare false positives and track remediations; a security team
reviews; nightly jobs expire, escalate, resolve and mail. This directory holds
TLA+ models of the parts whose correctness rests on what several requests, jobs
and restarts do to each other, and of the decisions what a user is shown, the TLC configurations that check them, and
machine-checked proofs of what matters most.

Paths below are relative to the repository; `app/` is `backend/app/`.

- [1 The system](#1-the-system)
- [2 How the models correspond to the code](#2-how-the-models-correspond-to-the-code)
- [3 What the runs check](#3-what-the-runs-check)
- [4 Bounds, fairness, deadlock](#4-bounds-fairness-deadlock)
- [5 What is proved](#5-what-is-proved)
- [6 Where code and documentation disagree](#6-where-code-and-documentation-disagree)
- [7 What is not modelled](#7-what-is-not-modelled)
- [8 Plan](#8-plan)

## 1 The system

### Processes

The chart runs several API replicas (FastAPI, asyncio, one database session per
request, `app/deps.py`) and one worker with the scheduler
(`app/tasks/scheduler.py`, APScheduler). `docs/configuration.md` asks for a
single worker; a rolling update runs the old and the new one side by side for a
while, and `app/main.py` starts an escalation check at start-up next to the
scheduled one. An authenticating proxy (`auth-header-injector/`, Go) sets the
identity and namespace headers of every request. The application database is
PostgreSQL at READ COMMITTED; no model has a version column and nothing is
selected FOR UPDATE. The StackRox database is read only.

So the shared state is in tables, and processes meet in them without locks other
than the row locks and unique index entries an UPDATE or INSERT takes until its
commit. The unit of work is everywhere the same: SELECT what the decision needs,
await other things (StackRox queries, duplicate queries, mail), assign
attributes, commit once.

### Components

| Component | State | Operations | Hard about it | What makes it correct |
|---|---|---|---|---|
| Risk acceptances (`routers/risk_acceptances.py`, import in `routers/exports.py`, `run_expiry_check`) | table `risk_acceptances`, partial unique index on active scopes | create, Excel import, update (resubmission), review, assign, cancel; nightly expiry | two requests on one row merge attribute by attribute; check and insert are two steps; a deletion under a running job rolls the job back | one active acceptance per CVE and scope; scopes that span teams come into force by a signed verdict; a verdict that stands is signed; expiry happens in the end |
| Suppression rules (`routers/suppression_rules.py`) | table `suppression_rules`, two partial unique indexes | create, update, review, delete | the same, and a NULL version pattern escapes the index | one active rule per target; nothing in force unreviewed; who signs a rule passed the verdict that stands |
| Remediations (`services/remediation_service.py`, `routers/remediations.py`, `run_remediation_auto_resolve`) | table `remediations`, unique per CVE and namespace | create, batch, status changes, delete; nightly auto-resolve | the status machine is checked against the loaded row; a batch is checked long before it is stored; one commit for every row of the job | one remediation per target; resolutions are dated; history is not rewritten; what is gone does not stay active |
| Escalations (`run_escalation_check`, `run_escalation_warning`, `services/escalation_rules.py`) | tables `escalations` (unique per level), `escalation_warnings` (not unique); mailbox of the contact | load candidates, insert under a savepoint, mail, clear what is no longer visible, commit | mail leaves before the commit; runs overlap; a failure rolls back a whole run | one escalation per level; a stored warning was mailed; due findings escalate in the end |
| CVE subscriptions (`services/cve_subscription_service.py`) | subscriptions with their last state, events, one delivery claim per user and day | subscribe, unsubscribe, broadcast from the handlers, hourly diff, daily mail, purge | claim before send; a cursor over events that commit out of order; scans and access change between two diffs | no event mailed twice or absorbed untold; exactly what changed is told |
| Notification summary (`services/notification_summary_service.py`) | queue of mail events, claims | enqueue, consume by id, mail | a worker ends between claim and mail; requests commit while a run is at work | queued until evaluated, counted once, mailed at most once a day |
| Team alerts, team digest (`services/team_notifications.py`) | alert marks, baselines, claims | diff of the mark set, in-app notifications, mail; weekly digest | silent first run, overlapping runs | one alert per new key; a digest tells what the lists show |
| Comments, notifications, preferences (`services/comment_*.py`, `services/my_comments_service.py`, `app/notifications/`, `routers/notifications.py`) | comments with mentions, notification rows, preferences | add, edit, delete a comment; mention; mark read, delete; warn of expiry | mentions, replies and subscriptions reach the same user; edits overlap; access is lost after a notice was stored | one notice per cause and user, nothing of what is out of reach |
| Accounts (`app/auth/`, `services/namespace_snapshot.py`) | users, namespace snapshots | create on first request, sync on every request | every request writes; first requests race; identity comes from a header or a token | role follows the directory, addresses are not lost |
| Copies of access decisions (`stackrox/namespace_access.py`, `stackrox/effective_scores.py`, `routers/presence.py`, `routers/badges.py`, `auth/middleware.py` keys, `auth-header-injector/main.go`) | in-process maps with ages | refresh loop, first load on demand, heartbeat, render, look up | decisions awaited and then kept; back-off beside a refresh; a lookup that fails | what is revoked stops counting in time; newer is not replaced by older; limits hold |
| Views (`services/cve_filter_service.py`, `fix_rollup_service.py`, `escalation_preview.py`, `escalation_workspace.py`, `routers/cves.py`, `dashboard.py`, `images.py`, `stackrox/queries/`) | settings, priorities; rows of the other components | list, dashboard, fixes, images, page of a CVE, escalations, digest, snapshot | the same decision is taken in many places, with different queries, for scopes that may be all, some or none | the views agree |
| Audit log, exports, mail, frontend, MCP server, tools, chart | see section 7 | | | |

The components interact through the tables: an approved acceptance or rule takes
a finding out of the escalation candidates, a priority or acceptance keeps it
visible, every handler broadcasts to subscriptions and notifications within its
own transaction.

## 2 How the models correspond to the code

Every module names the code it models in its header; `PROJECT.json` maps each
definition to its lines.

### Common to the three workflow modules

`UnitOfWork` is the one rule of the ORM everything depends on: the flush writes
the attributes whose value differs from the loaded one, and no others
(`Written`). `Merge` applies it to a row.

A handler is a *load* (`...Load`, `CreateCheck`), which has as its guards all
the checks of the handler up to its first write and remembers the loaded row and
the row it wants; where the handler then runs a duplicate query, a *check*
(`UpdateCheck`); and a *commit*. Between these, every other client and the job
may do anything. `req[c]` is what the handler of client `c` holds in its local
variables and session. Flush and commit are one step because the flush takes the
row lock or index entry and whoever waits for it continues with the committed
row. `...Refused` is the branch where the database refuses (unique index:
IntegrityError; row gone: StaleDataError), `Abort` a process that ends, a client
that goes away or any exception before the commit.

Request validation, 403/404 answers that change nothing, audit rows,
notifications and broadcasts within the transaction are left out: they cannot
make a later step behave differently. Text columns are left out; no guard reads
them.

### RiskAcceptances and ReviewGate

`table` is `risk_acceptances`, `used` the primary keys (never reused), `job` the
rows the expiry run loaded, `now` the clock. A scope is the normalised scope
together with its `scope_key`; `SingleTeam` are those with exactly one
(cluster, namespace), which `risk_acceptance_service.is_single_team_scope`
approves on the spot. `ImportItem` is the loop of the import, which compares
every item with the table and with the items before it and stores all of them in
one transaction. `ReviewGate` is the abstract specification: an acceptance asks
for a scope, and covers it or not; a scope that spans teams comes into force
only in a step of its own by a reviewer who signs what was asked for. `Gate` in
`RiskAcceptances` is the refinement mapping.

`overtaken` is a history variable of both. An edit *overtakes* when, between its
load and its commit, somebody else stored another scope, another signature or a
status other than `expired`: a second tab of the creator, or a late review. The
flush then mixes two submissions, and the code does store such mixtures
(`MCRiskAcceptancesTabs.cfg`). `WriteCommit` records it (`Overtakes`), nothing
reads it, and the properties except exactly those acceptances. So they hold for any
number of tabs and reviewers, and say that nothing else goes wrong: no late
review, second reviewer, assignment, deletion or job loses a signature or puts a
spanning scope in force.

### SuppressionRules

The same shape. `Patterned` and `Bare` tell component rules with and without a
version pattern apart, because PostgreSQL's unique index takes NULLs for
distinct while the handler's query (`IS NULL`) does not. The handler's reset of
an edited, reviewed rule to requested is not an action: the guard ahead of it
already refuses team members on a reviewed rule, so it cannot be reached.

### Remediations

`Stamps` are values of `resolved_at`. `Applied` is `_apply_status`, `Transitions`
its table. The auto-resolve run looks rows up one at a time (`AutoLook`) while
`affected`, the StackRox data, changes, and commits once. `Init` admits records
in status `verified`: the status is still in the enumeration and the table but no
transition leads to it any more.

### Escalations

`Checks` and `Warners` are the runs that may overlap, `run[r]` the open
transaction of one. Rows of the tables are counted per key (finding, level):
`escalations` has a unique constraint, `escalation_warnings` has none. `world` is
what a run reads at its start: rows above the thresholds or always shown, pinned
CVEs, accepted CVEs, suppressed findings. `KeyIsFree` is the wait of an INSERT
for the transaction that holds the same index entry. Mail is counted up to `Many`
and survives a rollback. `DaysUntil` keeps the rounding of `timedelta.days`.

### SubscriptionDigest, NotificationSummary and Outbox, TeamAlerts

Three jobs with one shape: read, plan user by user, commit claims with what was
consumed, mail one by one. `Runs` may overlap; each holds in `run[r]` what its
transaction has read. The primary keys of the claims and marks are the guards
`ClaimsFree` and `MarksFree` of the commits, `...Refused` is the roll-back of the
loser, `RunEnd` a failure or the end of the worker at any step. Mails that left
are counted in history variables, and so is what was told (`told`, `alerts`).

- `SubscriptionDigest` numbers the states of a subscription (`MaxVersion`), and
  keeps the order of the clock, of the events and of the commits; the day is
  `DayLength` units long.
- `NotificationSummary` deletes by id what it evaluated. `Outbox` is the abstract
  specification: items wait, leave for good, and are counted by at most one
  summary. `KeepsOutbox` is the refinement.
- `TeamAlerts` reads any thresholds, rules and scans in the step that loads them
  (`Candidates`): no variable keeps them because nothing else reads them.

### SubscriptionDiff

One subscription with the world between two runs of the diff: rows of pairs and
images, scores, the user's scope. `DiffStored` and `Events` are `diff_state`,
`StoredScores` the anchors of `_diff_scores`. `seen` and `notified` are history:
`seen` is what the world was at the last run, `notified` the EPSS the user was
last told of, or the first one known while nothing moved unseen. `DiffExact`
compares worlds, never stored states: a threshold is measured from `notified`,
so that a score that creeps is told once it has moved far enough, and a move
while none of the locations was in the user's scope keeps the anchor.

### Discussion

Comments of a CVE and of an acceptance, mentions, the inbox and the preferences
of two users. `Deliver` is everything one commit tells: notifications by the
preference for the app, mails by the preference for mail. `EditLoad` and
`EditCommit` are apart because the handler awaits in between. `sent` is the
history of what was told, `VisibleTo` what the inbox lists after access changed.

### Injector, SignIn, Accounts, NamespaceAccess, EffectiveScores, Presence, Badges, OidcKeys

One module per copy of an access decision. They share the pattern of a clock, of
a fact that changes outside (`Annotate`, `Hide`, `Rotate`), a history of when it
was revoked, a copy with its age, and requests that ask, await and store.
`Injector` is the proxy on a spoke with its cache of namespaces and of lookups;
`SignIn` composes it with `Accounts`, so that a role travels from the directory
of the spoke to the account on the hub.

### CentralQueries and CveViews

`CentralQueries` is what the SQL of `stackrox/queries/` returns of deployments,
images and findings: `FindingsOf` chooses between the two finding models of an
image as `CVE_ROWS_CTE` does. `CveViews` has one operator per view, named as the
function it models (`fetch_filtered_cves`, `build_fix_rollup`, `cards` and
`panels` of the dashboard, `list_cves_by_image`, `affected_deployments_list`,
`compute_upcoming_escalations`, `build_team_digest_stats`, `run_cve_snapshot`).
A view reads one moment. Rules, acceptances, remediations and escalations are
written by the modules above; here any of `Candidates` comes or goes, because a
view depends on which rows there are and not on how they came.

### WorkerMail and Access

Two modules compose these. Their parts share no table that any of them writes, so
a product would multiply states without a new behaviour: `part` names the part a
behaviour is about, the variables of the others are `Off`.

## 3 What the runs check

| Run | Configuration | Shows |
|---|---|---|
| `acceptance_workflow` | `MCRiskAcceptances.cfg` | three clients and the nightly job, single-team and spanning scopes, a date in the past. Two creators and a reviewer on two acceptances, or any three of a creator's two tabs and two members of the security team on one: no duplicate active scope, verdicts signed unless an edit overtook, deleted rows stay deleted, and every step is one of `ReviewGate` |
| `acceptance_expiry` | `MCRiskAcceptancesLiveness.cfg` | an approved acceptance past its date ends, although deletions and restarts roll back runs |
| `suppression_rules` | `MCSuppressionRules.cfg` | a team member and two reviewers on two rules: active rules unique, signed exactly from the verdict on, never back to requested; status and signature change together, by the review of who signs (`SignerPassedVerdict`) |
| `edit_during_review` | `MCSuppressionRulesEdit.cfg` | **violated**: an edit that loaded the rule before its approval |
| `escalation_jobs` | `MCEscalations.cfg` | two overlapping runs of each job that fail and clear rows: one escalation per level, a stored warning was mailed |
| `escalation_liveness` | `MCEscalationsLiveness.cfg` | one worker: one warning row per level, and a finding past a deadline escalates to it |
| `remediations` | `MCRemediations.cfg` | a team member, the security team and the job: one remediation per target, resolutions dated, `verified` is history, what is gone from StackRox does not stay active |
| `worker_mail` | `MCWorkerMail.cfg` | two overlapping runs of each mail job, with requests, scans, crashes, repetitions: one mail a day, nothing counted twice (`CountedOnce`, `KeepsOutbox`), absorbed untold (`NothingAbsorbed`), dropped unevaluated (`LateEventsWait`), alerted twice (`AlertedOnce`) or alerted though it was there before (`SilentBaseline`). The diff tells exactly what changed (`DiffExact`), a discussion tells each user once and nothing out of reach (`NoticesRight`) |
| `lost_event` | `MCWorkerMailLost.cfg` | **violated**: an event that commits behind the cursor |
| `access` | `MCAccess.cfg` | every copy of an access decision with two requests, slow and failing calls, restarts: `RevokedInTime`, `MovesForward`, `CapsHold`, `ScopeKept`, `AccountFollowsDirectory`. And `ViewsAgree`: a card of the dashboard counts what the list shows with its filter, panels group the same CVEs, the fixes and images show what the list shows, the list hides a CVE exactly if its page shows every deployment covered, what is previewed fires, a digest and a snapshot hold what the lists show |
| `narrowing_widens` | `MCAccessNarrowing.cfg` | **violated**: a scope without namespaces previews all |
| `rollup_shows_hidden` | `MCAccessRollup.cfg` | **violated**: the fixes of a deployment against the list |

Eight runs ask what must hold, four show what does not. Further configurations
reproduce known counterexamples and are not run with the others; section 6 names
them.

Each property of a passing run is also shown to have teeth: `PROJECT.json` names
a small change of the modelled code (a dropped reset, a wrong index predicate, a
missing constraint; the definitions marked "Mutant" in the modules) under which
the same run finds it violated.

No property of acceptances or rules assumes one tab per user or one reviewer. What
fails with several is stated in the modules under "what the documentation says and
the code does not keep", and shown in section 6. The one assumption of the kind
left is the single worker of `escalation_liveness`, which
`docs/configuration.md` asks for.

## 4 Bounds, fairness, deadlock

**Keys.** A primary key is never reused, so `Acceptances`, `Rules` and `Ids`
bound how often something is created in one behaviour. Two rows are what
uniqueness and the roll-back of a job by another row's deletion need; the
remediation run has a third for the historical record. With the keys used up a
client can still edit, review and delete.

**Clients.** An overlap on one acceptance involves an edit, a review and a third
write that comes between their loads and commits, and the job: any three of two
tabs of the creator and two members of the security team. The race for the unique
index needs a second row and a second creator, and the edit of a rejected
acceptance whose scope was taken meanwhile a reviewer, too. `MCRiskAcceptances`
chooses the three clients and the rows they use in its first state (`cast`), and
lets nobody be assigned who does not appear; the behaviours are those of `Spec` in
which the others never act. For rules, a team member and two reviewers: every
client creates rules. Two runs of each job: the constraint is between two
transactions.

**Time.** Only the order of the clock and the dates matters. `MaxTime` 1 with
the date 0 gives a time before and after expiry. Escalations use days of two
units, so that a deadline can be less than a day away, and deadlines 3 and 5 with
`MaxTime` 5: below, at and beyond both levels.

**Mail jobs.** One user, two events, two runs of each job and days 0 to 2: an event
can be loaded, claimed, mailed or lost by either run, on the day or the next, and
outlive its retention. The diff has two pairs, two tags of which one has two
digests, and two changes between runs (one pair moves while access to the other
does). The discussion has a team member and a member of the security team, two
causes of notices, two edits and one change of access: the shortest way to be told
twice has two causes, the shortest to read what was lost one change.

**Copies of access decisions.** Every age is 1 or 2 units of the clock, every
bound on the clock a unit or more beyond the time something revoked may count.
Two requests overlap in each. Stores are limited to one entry, so that two
requests compete for the last place.

**Views.** Two CVEs, one above and one around the floors; one namespace name in
two clusters, so that a pair is more than its name; a deployment in each with an
image of its own, the same CVE through different components; an image that is
scanned again and changes its finding model. Ten rows of rules, acceptances,
remediations and escalations of which any three changes lead to a state: a view
needs two rows and a change of priority, floor or scan to disagree. Four viewers:
security team, wildcard, one namespace, both. One of the two escalation rules
does not ascend (level 3 due before level 2): `schemas/settings.py` does not ask
for it, and the preview, which reports the lowest level that is near, then shows
one that the check overtakes. `PreviewFires` therefore promises that no higher
level is due earlier for rules that ascend only, and that a level fires for all.

**Symmetry** over interchangeable keys and runs is used in runs with safety
properties only.

**Deadlock.** Checking is off in every configuration: with the bounds on keys and
clock reached and no client asking for anything the system may rest, as the real
one does. What waits is an INSERT for another transaction (`KeyIsFree`) and a request for
the lock of a cache, whose holder can always step; the liveness properties would catch one that waits for ever.

**Fairness.** Requests have none: a client may stop. Jobs do, because the
scheduler starts them every night and a run that has started executes its next
statement:

- `acceptance_expiry`: a run starts and ends (weak fairness), and it is not
  rolled back every single night (strong fairness of the commit). The roll-back
  needs somebody to delete one of the rows between two statements of a run that
  takes seconds.
- `escalation_liveness` and `remediations`: weak fairness of the steps, and from
  some point on runs are not ended from outside (`<>[]`): whatever makes a worker
  fail is repaired. In `remediations` the roll-back by a deleted row remains
  possible for ever; the keys run out, so it does not happen for ever.

## 5 What is proved

TLC checks small instances; the theorems hold for every value of the constants
that satisfies the module's `ConstantsAssumption` (which TLC evaluates in every
run): any number of clients, rows, scopes, findings and overlapping runs.

| Module | Theorems |
|---|---|
| `RiskAcceptancesProofs` | `TypeCorrect`, `NoDuplicateActive`, `NoResurrection`, `VerdictsSigned`, `Refinement` (of `ReviewGate`) |
| `SuppressionRulesProofs` | `TypeCorrect`, `SignedRules`, `NoReturn`, `NoDuplicateRule`, `SignersJudged` |
| `EscalationsProofs` | `TypeCorrect`, `UniqueEscalations`, `WarningsAreMailed`; with one worker: `OneWarningStored` |
| `RemediationsProofs` | `Invariance`, `TypeCorrect`, `UniqueTargets`, `ResolutionsAreDated`, `VerifiedOnlyInHistory` |
| `SubscriptionDigestProofs` | `Invariance`, `TypeCorrect`, and the lemmas for one mail a day, nothing counted twice, nothing absorbed |
| `NotificationSummaryProofs` | `Invariance`, `TypeCorrect`, `Refinement` (of `Outbox`), and the lemmas for one mail a day and late events |
| `WorkerMailProofs` | the invariants of team alerts, the diff and the discussion, and the properties of the run `worker_mail` in the composition: `TypesHold`, `OneMail`, `CountsOnce`, `AllTold`, `AlertsOnce`, `AlertsTyped`, `SilentIntroduction`, `LateWait`, `Refinement`, `ToldExactly`, `NoticesAreRight` |
| `AccessProofs` | the properties of the run `access` in the composition: `TypesHold`, `RevocationBounded`, `CapsRespected`, `ScopeOfBadges`, `LoadsMoveForward`, `AccountFollows`, `ViewsAlwaysAgree` |

None of the properties is inductive as it stands; the arguments are:

- **Uniqueness of active acceptances** needs, besides the index, that the rows of
  one import differ among themselves (`InsertsDistinct`): the index is compared
  with the stored rows only, and all rows of an import arrive in one step.
- **The review workflow** (`WorkflowInv`): the stored row may have moved any way
  from the one a request loaded. Three facts about the merges suffice. A review
  loaded a requested row, which is unsigned unless an edit overtook before, so it
  writes status and signature both, however late it comes (`ReviewMerge`). An edit
  that does not overtake compares scope, signature and status with what is stored,
  so what it stores is the submission it wanted (`UpdateMerge`); the job alone may
  have set the status, and an expired row covers nothing. An assignment touches
  none of the three. The same facts are the steps of `ReviewGate`.
- **Signed rules** (`SignInv`): what a request wants to write is signed exactly if
  it is not requested, and a review changes status and signature together, to the
  decision and the name of its own reviewer, so that no merge separates them and
  no other write touches either (`SignersJudged`).
- **Unique escalations**: a key that an open transaction has inserted is held by
  no other and not stored (`HeldAlone`); the commit therefore takes 0 to 1.
- **One warning per level**, with one worker: the run that looks for an earlier
  row and the run that adds one are the same, so what is pending is not stored
  (`PendingIsNew`). With two workers it fails (section 6).
- **Warnings are mailed**: a row added but not committed was mailed
  (`PendingWasMailed`), and mail is never taken back.
- **Remediations** (`IInv`): a create in flight has rows of distinct targets, all
  open; an update in flight changes the status, never to verified, and if it
  resolves it carries a date that differs from the loaded one (`RequestOK`).
  Because status and date are both *changed* attributes, the flush writes both
  over whatever is stored by then. The converse, that only completed rows have a
  date, lacks exactly this and fails (`MCRemediationsMixed.cfg`).

- **One mail a day** is the same argument for the three jobs: a mail still to send
  is claimed for its user and day, by one run, and has not been sent; a day
  without a claim has no mail. It needs that a plan has one mail per user, or the
  claims of one commit would stand for two mails.
- **No event in two subscription summaries**: what a run plans is later than every
  summary of the user, except one of this day that another run committed
  meanwhile, and with that one the primary key refuses it. The invariant also says
  that of the summaries of a user one is the last: the cursor is the greatest of a
  set, which would take an induction over the set otherwise.
- **Nothing absorbed**: what a batch of the diff has read was told, too, so that
  the UPDATE of a row whose version did not change stores nothing untold.
- **The outbox**: events a run read are queued or gone; those that another summary
  counted since are in one of this day, of the same user, so that a plan that
  counts one of them is refused. The step of a commit is then `Settle`.
- **Alerts**: who was alerted of a key was alerted once and the key is marked, and
  a key recorded silently is marked and alerted to nobody; a run tells only keys
  that are new to the marks it read and have their baseline, and the commit is
  refused if another run stored one of them meanwhile.
- **The diff** (`DiffInv`): what is stored is what was built from `seen`: its
  scope, the locations of its rows in that scope, its scores with the EPSS of
  `notified`. What a run then tells by comparing the stored state with the new one
  is what it would tell by comparing the two worlds, kind by kind.
- **The discussion** (`TalkInv`): every notice sent has an earlier cause and a
  comment that named the user (`SentUpTo`), one per cause (`HeardOnce`). An edit tells
  who was not mentioned when it loaded the comment; who every version mentions is
  among those (`AlwaysInv`), so that edits that overtake each other tell no such
  user again (`MentionedInv`).
- **Copies of access decisions** share one argument. A lock is held exactly by the
  request that queries under it; what was read is no older than the query and no
  newer than the clock; and what is known was true at some moment since its age
  (`KnownSince`, `PublishedSince`, `SeenAt`, `GroupsKnown`, `RoleKnown`, `Lasts`).
  A copy is used until its lifetime ends, so the revocation is older than the bound
  only if the moment was too. For `SignIn` the ages add up along the way from the
  directory over the spoke to the account (`AccountInv`).
- **Loads move forward**: only the holder of the lock stores, and what it read is
  no earlier than what is stored.
- **Caps** need that the store is finite, and that a key is added only below the
  limit or after something left (`RoomForImage`).
- **Scope of badges** (`BadgeOK`): the pairs a badge counts, by its stored scope or by
  its two names, are among those its creator was allowed when it was made; a badge
  with neither was made by who sees everything.
- **The views agree** (`ViewsInv`: types, and one remediation per target). No
  history is involved: a view is a function of the moment. Each is restated as
  a statement of the rows in the scope and of what hides a CVE (`ListShows`,
  `DashboardShows`, `CoveredEverywhere`, `SnapshotDoes`, ...), and agreement is then
  set reasoning. The least level of a rule and the first deadline are minima of sets of
  numbers; as induction is unavailable (below), a minimum exists because the finite
  subsets of the naturals are well-founded by inclusion (`LeastExists`).
- **Types** of the caches: stores are dated by the clock; an effective score is
  one of the scores, because a finite set of numbers has a greatest
  (`GreatestExists`).
- **The composition**: a behaviour of `WorkerMail` or `Access` is one of the part
  it is about. The instance a theorem comes from and the one the module
  composes are shown to say the same, action by action.

What the attempts showed about the models, which were changed accordingly:

- Assumptions on constants that TLC's values met unsaid are now stated: `None` is no
  number and no set of pairs, findings and scores are naturals, a cap is positive.
  All are facts of the representation in the code.
- The time a load may take is the greater of the query's limit and the timeout of a
  cold cache, and the age of groups on a spoke that of two lifetimes, because either
  of the two copies may have been the one consulted.
- The EPSS anchor and the preview of rules that do not ascend, described in
  sections 2 and 4: the first statements of `DiffExact` and `PreviewFires` were
  false of the code in cases the earlier bounds did not reach.

Every type invariant, safety invariant and action property of a passing run has its
theorem. Model-checked only are:

- the liveness properties (`PastExpiryEnds`, `DueEscalates`, `OutlivedEnds`):
  fairness and `ENABLED` are out of the proof system's reach;
- the properties the four runs of section 6 violate, for which a counterexample on
  a small instance is all there is to show.

Induction over data is out of reach, too: where one is needed (the greatest of a
set, the size of a store), the proofs use facts of the library about finite sets
and well-founded relations. No module under proof has a recursive definition.

## 6 Where code and documentation disagree

Shown by a run, with the counterexample's steps:

- **Edited while approved** (`edit_during_review`). The PUT of a rule's creator
  passes its guard, awaits StackRox, and stores its scope after the approval.
- **Passed over** (`lost_event`). The diff of the hour starts and takes the time of
  its events; the summary starts, counts what is committed and claims; the diff
  commits. The event is older than the claim and the next summary starts after it,
  though the docstring counts what happened "since the user's last summary".
- **Nothing chosen is everything** (`narrowing_widens`). A user picks a cluster in
  which none of the own namespaces is. Every other view is empty
  (`routers/cves.py:69`: "Narrowing never widens"); the preview of escalations
  passes the empty list on, and `compute_upcoming_escalations` takes it for all.
- **Hidden in the list only** (`rollup_shows_hidden`). A rule for component `a`
  matches in one namespace, the deployment of another namespace has the CVE through
  `b`. Deciding in the namespaces of the deployment alone, its fixes show the CVE
  that the list, deciding in all namespaces of the user, hides.

Shown by a configuration that reproduces the counterexample and is not among the
runs, with the property it violates:

| Configuration | Violated | Steps |
|---|---|---|
| `MCRiskAcceptancesTabs.cfg` | `SpanningScopesAreReviewed` | The creator has an imported and rejected acceptance of a single namespace open in two tabs. One saves a scope over several namespaces: requested. The other loaded the rejected row and keeps its scope: it is approved on the spot, and writes the status but not the scope, which it did not change. An approved acceptance spans namespaces and no reviewer saw it (`docs/user-guide.md:107`: "reviewed by `sec_team`"). |
| `MCRiskAcceptancesVerdict.cfg` | `VerdictOnWhatWasRead` | Two members of the security team load a requested acceptance. One rejects it, the creator resubmits it with another scope, the other approves: the verdict lands on a scope its reviewer did not see. `OnlyRequestedReviewed` in its place gives the first half: the second of two verdicts replaces the first (`app/i18n.py:176`: "Only requested risk acceptances can be reviewed"). |
| `MCRiskAcceptancesRenewal.cfg` | `OnlyPastExpiryExpires` | The nightly job writes the status of rows it loaded earlier; a renewal in between is expired with its new date ahead (`docs/configuration.md:129`: "once past their expiry date"). |
| `MCSuppressionRulesBare.cfg` | `ActiveTargetUnique` | Two concurrent requests for a component without a version pattern both pass the query, and the index takes two NULLs as distinct (`docs/api/endpoints.md:179`: "unique per target"). From then on every request for the target fails on two rows. |
| `MCEscalationsCrash.cfg` | `WarnedOnce` | Mail leaves before the row that remembers it is committed; one exception or restart repeats a night's mails (`docs/user-guide.md:205`: "emailed once"). |
| `MCRemediationsMixed.cfg` | `DatedIsCompleted` | Of two overlapping status changes the later takes the status, the earlier leaves its date; the mean time to remediate (`docs/user-guide.md:44`: "completed") counts an open record. |
| `MCWorkerMailWarned.cfg` | `WarnedOncePerAcceptance` | The run at start-up and the one of 07:30 both find no earlier warning (`app/notifications/service.py:172`: "once per acceptance"). |
| `MCAccessSnapshot.cfg` | `SnapshotWhole` | Two requests of one user with different namespaces write list and hash attribute by attribute; the row has the list of one and the hash of the other. |

Seen while modelling and visible in one step, so not worth a run each:

- The import stores single-namespace scopes as requested (`routers/exports.py:442`)
  where `docs/user-guide.md:107` and the create handler approve them.
- DELETE of an acceptance is allowed in any status (`routers/risk_acceptances.py:458`);
  `docs/api/endpoints.md:98` says "Delete own requested record".
- Of two members of the security team who load the same requested rule the second
  replaces the first one's verdict, though meant to be told "Only requested rules can
  be reviewed" (`app/i18n.py:293`): `OnlyRequestedReviewed` of `SuppressionRules`,
  as a property of `MCSuppressionRules.cfg`. What stands is whole
  (`SignerPassedVerdict`).
- An escalation is marked notified before its mail is tried
  (`tasks/scheduler.py:274`) and stays so when it fails; the frontend shows
  "✓ Sent" (`frontend/src/pages/Escalations.tsx:636`).
- Two workers store two warning rows of a level (`models/escalation.py:32` says one);
  the query of the next run (`tasks/scheduler.py:454`) then raises, each night.
- A level due in less than a day counts as due already when the next level is
  chosen for a warning (`tasks/scheduler.py:424`): nobody is warned of it then.
- `docs/api/endpoints.md:414` lists `resolved -> verified` and `:424` who may do it;
  the code has no such transition.
- The preview skips a level of a CVE as soon as an escalation of it exists in any
  namespace (`services/escalation_preview.py:107`), so it shows less than the check
  will store in the others. What it shows does fire (`PreviewFires`).
- `is_location_suppressed` (`services/cve_filter_service.py:124`) promises to agree
  with the list "iff"; a component rule that matches in one location hides the CVE
  of the whole view. `ListedIsOpen` states the direction that holds.
- Two first requests after an installation can both create the row of settings
  (`routers/settings.py:21`).

## 7 What is not modelled

`PROJECT.json` lists every component with the reason.

- The audit log: one row appended by each handler in its transaction; no step
  reads a row to decide anything.
- Exports, mail templates, PDF and Excel layout: formatting. The import of
  acceptances is part of `RiskAcceptances`; a send that succeeds or fails is an
  outcome in the mail modules.
- The frontend appears as clients with tabs, the MCP server is a stateless client
  of the API, the data generator and tools are for development, the chart is the
  assumption of one worker in `escalation_liveness`.
- Of the views: how they sort, page, search and count; the comparison of versions
  and the ranking of upgrades (`services/version_compare.py` is string processing);
  the mean time to remediate.
- Of the accounts: development mode, display names, conflicts of usernames (they
  fail, as `Fail` does), contact addresses of namespaces.
- Of comments: the splitting of a text into segments; a comment is the set of the
  users its mentions resolve to.
- The purge of subscription events after 30 days, which no window reaches.

Details that differ from the code without a property depending on them:

- `Injector.LookupDone` keeps an entry without an address for the short lifetime
  only; `main.go:488` keeps one that was resolved and is empty for the full one.
- `Discussion.EditCommit` stores the whole comment, not the changed attributes.
- `Accounts` dates a namespace snapshot when it is stored, not when it was loaded.
- Wildcard groups of a spoke are in the model, but `MCAccess.cfg` has none:
  `RevokedInTime` says nothing of a wildcard lost there.

## 8 Plan

Done, in this order: the acceptance workflow with `ReviewGate` (the most important
behaviour: what is hidden from everyone's list must have been decided by somebody
entitled to), suppression rules, escalations, remediations; the mail jobs with the
outbox, the diff and the discussion; the copies of access decisions; the views.

What is left:

1. Composition of `CveViews` with the workflow modules, so that the rows the views
   read come from the steps that write them and not from `Candidates`; with it, the
   theorem that the rows the workflows can store are among those the views are proved
   to agree on.
2. The comparison of versions as a recursive function on sequences of segments,
   against an order.
