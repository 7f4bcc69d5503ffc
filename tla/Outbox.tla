-------------------------------- MODULE Outbox --------------------------------
(***************************************************************************)
(* What the notification summary promises, without transactions, runs and  *)
(* preferences.  Something to tell a user waits until it is evaluated or   *)
(* too old, and leaves for good.  A user gets a summary a day at most; it  *)
(* counts what no longer waits, and never what an earlier summary counted. *)
(***************************************************************************)
CONSTANTS Items, OwnerOf, Users, Days

VARIABLES waiting,   \* items nobody has evaluated
          left,      \* items that wait no more
          summaries, \* <<user, day>> of the summaries made -> the items they count
          sent       \* those of them that were mailed

vars == <<waiting, left, summaries, sent>>

Init ==
    /\ waiting = {} /\ left = {}
    /\ summaries = <<>>
    /\ sent = {}

Counted == UNION {summaries[d] : d \in DOMAIN summaries}

\* Items come to wait.
Enqueue ==
    /\ waiting \subseteq waiting'
    /\ waiting' \subseteq Items \ left
    /\ UNCHANGED <<left, summaries, sent>>

\* Items leave; new summaries count items of their owners that have left.
Settle ==
    /\ waiting' \subseteq waiting
    /\ left' = left \cup (waiting \ waiting')
    /\ DOMAIN summaries \subseteq DOMAIN summaries'
    /\ DOMAIN summaries' \subseteq Users \X Days
    /\ \A d \in DOMAIN summaries : summaries'[d] = summaries[d]
    /\ \A d \in DOMAIN summaries' \ DOMAIN summaries :
          /\ summaries'[d] \subseteq {i \in left' \ Counted : OwnerOf[i] = d[1]}
          /\ d \notin sent
    /\ UNCHANGED sent

Send ==
    /\ \E d \in DOMAIN summaries \ sent : sent' = sent \cup {d}
    /\ UNCHANGED <<waiting, left, summaries>>

Next == Enqueue \/ Settle \/ Send

Spec == Init /\ [][Next]_vars

=============================================================================
