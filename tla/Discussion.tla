----------------------------- MODULE Discussion -----------------------------
(***************************************************************************)
(* Comments, mentions and what users find in their inbox:                  *)
(* services/comment_service.py, comment_content.py, my_comments_service.py,*)
(* notifications/service.py and preferences.py, routers/notifications.py   *)
(* and the comment endpoints of routers/cves.py and risk_acceptances.py.   *)
(*                                                                         *)
(* There is one CVE thread, one acceptance and its thread.  A comment is   *)
(* the users it mentions: the text between mentions, names shown and links *)
(* are left out, and a user is known by an id that is also the name.       *)
(* The queue of the daily mail is NotificationSummary, the events of a     *)
(* subscription are SubscriptionDigest.                                    *)
(***************************************************************************)
EXTENDS Integers, FiniteSets

CONSTANTS
    Users, SecTeam, \* accounts; the rest are team members
    Stranger,       \* a mentioned name that is nobody's
    Pairs,          \* (namespace, cluster) pairs
    Creator,        \* of the risk acceptance
    AcceptancePairs,\* the pairs of its scope, or {} for mode all
    Subscribers,    \* of the CVE
    Reachable,      \* users with a deliverable address
    Mentionings,    \* sets of names a comment may mention (a bound)
    Readers,        \* users who open their inbox, preferences or lose access (a bound)
    Runs,           \* runs of the expiry warning that may overlap
    MaxMentions,    \* MAX_MENTION_RECIPIENTS
    ScanLimit, ListLimit,  \* _LIST_SCAN_LIMIT, _LIST_LIMIT
    MaxEdits,       \* bound on the edits in flight
    MaxCauses,      \* bound on comments, edits and warnings
    MaxMoves,       \* bound on changes of access and preferences
    Unscoped,       \* a notification about no namespace
    Legacy          \* content_segments of a comment that has none

ConstantsAssumption ==
    /\ IsFiniteSet(Users) /\ SecTeam \subseteq Users /\ Creator \in Users
    /\ Subscribers \subseteq Users /\ Readers \subseteq Users /\ Reachable \subseteq Users
    /\ Mentionings \subseteq SUBSET (Users \cup {Stranger})
    /\ AcceptancePairs \subseteq Pairs /\ Stranger \notin Users
    /\ MaxMentions \in Nat /\ ScanLimit \in Nat /\ ListLimit \in Nat
    /\ MaxEdits \in Nat /\ MaxCauses \in Nat /\ MaxMoves \in Nat

VARIABLES
    sees,      \* user -> pairs of the live request
    prefs,     \* notification_preferences: <<user, category>> -> channels
    comments,  \* the cause that created it -> the comment
    edits,     \* PATCH requests between load and commit
    warns,     \* expiry warning run -> idle, or loaded with no earlier warning
    inbox,     \* notifications
    causes,    \* number of comments, edits and warnings so far
    moves,     \* number of changes of access and preferences
    sent,      \* history: every notification and mail there was
    always     \* history: comment -> users that every version of it mentions

vars == <<sees, prefs, comments, edits, warns, inbox, causes, moves, sent, always>>

Categories == {"risk_acceptance", "cve_subscription"}
Channels == [in_app : BOOLEAN, email : BOOLEAN]
Keys == {"mention", "subscription.comment", "risk_comment", "risk_comment_sec_team", "risk_expiring"}
Scopes == (SUBSET Pairs) \cup {Unscoped}
Notification == [cause : 1 .. MaxCauses, user : Users, key : Keys, scope : Scopes, read : BOOLEAN]
Comment == [thread : {"cve", "acceptance"}, author : Users, escalated : BOOLEAN,
            names : SUBSET (Users \cup {Stranger}), segments : (SUBSET Users) \cup {Legacy}]

TypeOK ==
    /\ sees \in [Users -> SUBSET Pairs]
    /\ DOMAIN prefs \subseteq Users \X Categories /\ prefs \in [DOMAIN prefs -> Channels]
    /\ DOMAIN comments \subseteq 0 .. MaxCauses /\ comments \in [DOMAIN comments -> Comment]
    /\ edits \subseteq [comment : 0 .. MaxCauses, previous : SUBSET Users,
                        names : SUBSET (Users \cup {Stranger}), mentions : SUBSET Users]
    /\ warns \in [Runs -> {"idle", "unwarned"}]
    /\ inbox \subseteq Notification
    /\ causes \in 0 .. MaxCauses /\ moves \in 0 .. MaxMoves

\* There is a comment of the time before segments, which mentions someone.
Init ==
    /\ sees \in [Users -> {Pairs}]
    /\ prefs = <<>>
    /\ \E u \in Readers, names \in Mentionings :
          /\ comments = [c \in {0} |-> [thread |-> "cve", author |-> u, escalated |-> TRUE,
                                        names |-> names, segments |-> Legacy]]
          /\ always = [c \in {0} |-> (names \cap Users) \ {u}]
    /\ edits = {} /\ warns = [r \in Runs |-> "idle"]
    /\ inbox = {} /\ causes = 0 /\ moves = 0 /\ sent = {}

-----------------------------------------------------------------------------
(***************************************************************************)
(* Preferences                                                             *)
(***************************************************************************)
\* CATEGORIES
Defaults(category) == [in_app |-> TRUE, email |-> category = "risk_acceptance"]

\* _effective
Effective(u, category) ==
    IF <<u, category>> \in DOMAIN prefs THEN prefs[<<u, category>>] ELSE Defaults(category)

\* Expiry and comment notices of an acceptance share its category; a mention
\* has none and is always wanted.
CategoryOf(key) ==
    CASE key = "mention" -> "none"
      [] key = "subscription.comment" -> "cve_subscription"
      [] OTHER -> "risk_acceptance"

WantsInApp(u, key) == CategoryOf(key) = "none" \/ Effective(u, CategoryOf(key)).in_app

Move == moves < MaxMoves /\ moves' = moves + 1

\* set_preferences of one channel; the other keeps its value.
SetPreferences(u, category, channel) ==
    /\ Move
    /\ prefs' = [k \in DOMAIN prefs \cup {<<u, category>>} |->
                    IF k = <<u, category>>
                    THEN [Effective(u, category) EXCEPT ![channel] = ~@]
                    ELSE prefs[k]]
    /\ UNCHANGED <<sees, comments, edits, warns, inbox, causes, sent, always>>

AccessChanges(u, pairs) ==
    /\ Move
    /\ sees' = [sees EXCEPT ![u] = pairs]
    /\ UNCHANGED <<prefs, comments, edits, warns, inbox, causes, sent, always>>

(***************************************************************************)
(* Notifications                                                           *)
(***************************************************************************)
\* create_notification, for each of the users that wants it.
Created(users, key, scope) ==
    {[cause |-> causes + 1, user |-> u, key |-> key, scope |-> scope, read |-> FALSE]
        : u \in {v \in users : WantsInApp(v, key)}}

Mails(users) == {[user |-> u, key |-> "mail"] : u \in users}

\* The transaction of user `by` about a comment commits.
Deliver(by, about, created, mailed) ==
    /\ causes' = causes + 1
    /\ inbox' = inbox \cup created
    /\ sent' = sent \cup {[cause |-> causes + 1, by |-> by, about |-> about, user |-> x.user, key |-> x.key]
                             : x \in Mails(mailed) \cup {[user |-> n.user, key |-> n.key] : n \in created}}

(***************************************************************************)
(* Comments                                                                *)
(***************************************************************************)
\* user_can_access_ra
AccessesRa(u) ==
    \/ u \in SecTeam \/ u = Creator
    \/ IF AcceptancePairs = {} THEN sees[u] # {} ELSE AcceptancePairs \cap sees[u] # {}

\* _resolve_input: names that are nobody's stay text.  Structured content that
\* mentions them is refused, like a comment of too many mentions.
Mentioned(names) == names \cap Users

\* notify_mention_users: the author is no recipient.
Recipients(author, names) == Mentioned(names) \ {author}

CanAdd(u, names) ==
    /\ causes < MaxCauses
    /\ Cardinality(Recipients(u, names)) <= MaxMentions

Add(u, thread, escalated, names) ==
    /\ comments' = [c \in DOMAIN comments \cup {causes + 1} |->
                       IF c = causes + 1
                       THEN [thread |-> thread, author |-> u, escalated |-> escalated,
                             names |-> names, segments |-> Mentioned(names)]
                       ELSE comments[c]]
    /\ always' = [c \in DOMAIN always \cup {causes + 1} |->
                     IF c = causes + 1 THEN Recipients(u, names) ELSE always[c]]

\* Mutant: mentioned subscribers hear of the comment as well.
AllSubscribers(u, mentioned) == Subscribers \ {u}

\* broadcast_subscription_event: not the author and not those mentioned.
OtherSubscribers(u, mentioned) == (Subscribers \ {u}) \ mentioned

\* add_cve_comment; the pairs are asked of StackRox, which may fail.
AddCveComment(u, names) ==
    /\ CanAdd(u, names)
    /\ Add(u, "cve", FALSE, names)
    /\ LET mentioned == Recipients(u, names)
           mentions == Created(mentioned, "mention", Unscoped)
       IN \/ \E affected \in SUBSET Pairs :
                Deliver(u, causes + 1,
                        mentions \cup Created(OtherSubscribers(u, mentioned), "subscription.comment", affected),
                        mentioned \cap Reachable)
          \/ Deliver(u, causes + 1, mentions, mentioned \cap Reachable)
    /\ UNCHANGED <<sees, prefs, edits, warns, moves>>

\* notify_risk_comment: a team member's comment is for the security team,
\* anybody else's for the creator.
Counterpart(u, mentioned) ==
    IF u \notin SecTeam
    THEN Created(SecTeam \ mentioned, "risk_comment_sec_team", Unscoped)
    ELSE Created({Creator} \ (mentioned \cup {u}), "risk_comment", Unscoped)

CreatorIsMailed(u, mentioned) ==
    u \in SecTeam /\ Creator \notin mentioned /\ Effective(Creator, "risk_acceptance").email

\* add_risk_acceptance_comment; the mails may fail, which changes nothing.
AddRaComment(u, names) ==
    /\ AccessesRa(u)
    /\ CanAdd(u, names)
    /\ Add(u, "acceptance", FALSE, names)
    /\ LET mentioned == Recipients(u, names)
           creator == IF CreatorIsMailed(u, mentioned) THEN {Creator} ELSE {}
       IN Deliver(u, causes + 1,
                  Created(mentioned, "mention", Unscoped) \cup Counterpart(u, mentioned),
                  (mentioned \cup creator) \cap Reachable)
    /\ UNCHANGED <<sees, prefs, edits, warns, moves>>

\* _previous_mention_ids: by segments, or by the names of an old comment.
PreviousIds(c) ==
    IF comments[c].segments \in {Legacy, {}} THEN Mentioned(comments[c].names)
    ELSE comments[c].segments

\* update_cve_comment up to the commit: what was mentioned before is what is
\* loaded here.  Only the author may.
EditLoad(c, names) ==
    /\ causes + Cardinality(edits) < MaxCauses
    /\ Cardinality(edits) < MaxEdits
    /\ comments[c].thread = "cve"
    /\ Cardinality(Recipients(comments[c].author, names)) <= MaxMentions
    /\ edits' = edits \cup {[comment |-> c, previous |-> PreviousIds(c),
                             names |-> names, mentions |-> Mentioned(names)]}
    /\ UNCHANGED <<sees, prefs, comments, warns, inbox, causes, moves, sent, always>>

NewlyMentioned(e, author) == (e.mentions \ {author}) \ e.previous

EditCommit(e) ==
    /\ e \in edits
    /\ e.comment \in DOMAIN comments
    /\ causes < MaxCauses
    /\ edits' = edits \ {e}
    /\ comments' = [comments EXCEPT ![e.comment].names = e.names, ![e.comment].segments = e.mentions]
    /\ always' = [always EXCEPT ![e.comment] = @ \cap e.mentions]
    /\ LET author == comments[e.comment].author
           new == NewlyMentioned(e, author)
       IN Deliver(author, e.comment, Created(new, "mention", Unscoped), new \cap Reachable)
    /\ UNCHANGED <<sees, prefs, warns, moves>>

\* The comment was deleted meanwhile: the flush finds no row and fails.
EditFails(e) ==
    /\ e \in edits
    /\ e.comment \notin DOMAIN comments
    /\ edits' = edits \ {e}
    /\ UNCHANGED <<sees, prefs, comments, warns, inbox, causes, moves, sent, always>>

\* delete_cve_comment, by its author; notifications of it stay.
DeleteComment(c) ==
    /\ comments[c].thread = "cve"
    /\ comments' = [d \in DOMAIN comments \ {c} |-> comments[d]]
    /\ UNCHANGED <<sees, prefs, edits, warns, inbox, causes, moves, sent, always>>

(***************************************************************************)
(* notify_risk_expiring                                                    *)
(***************************************************************************)
\* The acceptance is in its last week: the run looks for an earlier warning.
WarnLoad(r) ==
    /\ warns[r] = "idle"
    /\ causes < MaxCauses
    /\ ~\E n \in inbox : n.user = Creator /\ n.key = "risk_expiring"
    /\ warns' = [warns EXCEPT ![r] = "unwarned"]
    /\ UNCHANGED <<sees, prefs, comments, edits, inbox, causes, moves, sent, always>>

WarnCommit(r) ==
    /\ warns[r] = "unwarned"
    /\ causes < MaxCauses
    /\ warns' = [warns EXCEPT ![r] = "idle"]
    /\ Deliver(Stranger, 0, Created({Creator}, "risk_expiring", Unscoped), {})
    /\ UNCHANGED <<sees, prefs, comments, edits, moves, always>>

(***************************************************************************)
(* Reading: routers/notifications.py                                       *)
(***************************************************************************)
\* _visible_scope
VisibleScope(n) == IF n.user \in SecTeam THEN n.scope ELSE n.scope \cap sees[n.user]

\* _visible_to
VisibleTo(n) == IF n.scope = Unscoped THEN TRUE ELSE VisibleScope(n) # {}

InboxOf(u) == {n \in inbox : n.user = u}

\* The rows of one cause have the same age and one user at most one of them.
Newest(rows, k) == {n \in rows : Cardinality({m \in rows : m.cause > n.cause}) < k}

\* list_notifications: the newest that are visible of a wider window.
Listed(u) == Newest({n \in Newest(InboxOf(u), ScanLimit) : VisibleTo(n)}, ListLimit)

\* unread_count
Unread(u) == {n \in InboxOf(u) : ~n.read /\ VisibleTo(n)}

OnlyInbox == UNCHANGED <<sees, prefs, comments, edits, warns, causes, moves, sent, always>>

\* mark_read: a row that is hidden is not found.
MarkRead(n) ==
    /\ VisibleTo(n)
    /\ inbox' = (inbox \ {n}) \cup {[n EXCEPT !.read = TRUE]}
    /\ OnlyInbox

\* mark_all_read and clear_notifications take the hidden rows as well.
MarkAllRead(u) ==
    /\ inbox' = {IF n.user = u THEN [n EXCEPT !.read = TRUE] ELSE n : n \in inbox}
    /\ OnlyInbox

Delete(n) ==
    /\ inbox' = inbox \ {n}
    /\ OnlyInbox

Clear(u) ==
    /\ inbox' = inbox \ InboxOf(u)
    /\ OnlyInbox

-----------------------------------------------------------------------------
Commenting ==
    \E names \in Mentionings :
        \/ \E u \in Users : AddCveComment(u, names) \/ AddRaComment(u, names)
        \/ \E c \in DOMAIN comments : EditLoad(c, names)

Next ==
    \/ Commenting
    \/ \E e \in edits : EditCommit(e) \/ EditFails(e)
    \/ \E c \in DOMAIN comments : DeleteComment(c)
    \/ \E r \in Runs : WarnLoad(r) \/ WarnCommit(r)
    \/ \E u \in Readers, category \in Categories, channel \in {"in_app", "email"} :
          SetPreferences(u, category, channel)
    \/ \E u \in Readers, pairs \in SUBSET Pairs : AccessChanges(u, pairs)
    \/ \E u \in Readers :
          \/ \E n \in InboxOf(u) : MarkRead(n) \/ Delete(n)
          \/ MarkAllRead(u) \/ Clear(u)

Spec == Init /\ [][Next]_vars

-----------------------------------------------------------------------------
(***************************************************************************)
(* list_my_comment_threads                                                 *)
(***************************************************************************)
InThread(t) == {c \in DOMAIN comments : comments[c].thread = t}
OwnIn(u, t) == {c \in InThread(t) : comments[c].author = u}
OwnLatest(u, t) == CHOOSE c \in OwnIn(u, t) : \A d \in OwnIn(u, t) : d <= c
RepliesSince(u, t) == {c \in InThread(t) : comments[c].author # u /\ c > OwnLatest(u, t)}

\* The threads of a user, with the replies shown: of an acceptance that is
\* out of reach there are none.
Thread(u, t) ==
    LET open == t = "cve" \/ AccessesRa(u)
    IN [thread |-> t, own |-> Cardinality(OwnIn(u, t)), available |-> open,
        replies |-> IF open THEN RepliesSince(u, t) ELSE {},
        context |-> u \in SecTeam /\ comments[OwnLatest(u, t)].escalated]

MyThreads(u) == {Thread(u, t) : t \in {s \in {"cve", "acceptance"} : OwnIn(u, s) # {}}}

-----------------------------------------------------------------------------
\* Of a comment or an edit a user hears once and never of the own, whichever
\* of the ways to hear of it apply, and gets at most one mail.
HeardOnce ==
    /\ \A x, y \in sent :
          x.cause = y.cause /\ x.user = y.user /\ (x.key = "mail") = (y.key = "mail") => x = y
    /\ \A x \in sent : x.user = x.by => x.key = "mail"

\* Whoever all versions of a comment mention is notified of the first alone,
\* although edits overlap and some are lost.
MentionedOnce ==
    \A c \in DOMAIN comments : \A x \in sent :
        x.key = "mention" /\ x.about = c /\ x.user \in always[c] => x.cause = c

\* Who lost access after a notification was stored reads none of the pairs
\* lost, in the list or by the unread count.
Discreet ==
    \A u \in Users \ SecTeam : \A n \in Listed(u) \cup Unread(u) :
        n.scope # Unscoped => VisibleScope(n) # {} /\ VisibleScope(n) \subseteq sees[u]

NoticesRight == HeardOnce /\ MentionedOnce /\ Discreet

(***************************************************************************)
(* What the documentation says and the code does not keep                  *)
(***************************************************************************)

\* notify_risk_expiring: "the creator is warned once per acceptance, not once
\* per day".
WarnedOncePerAcceptance ==
    \A x, y \in sent : x.key = "risk_expiring" /\ y.key = "risk_expiring" => x = y

=============================================================================
