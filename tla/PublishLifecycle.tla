-------------------------- MODULE PublishLifecycle --------------------------
(***************************************************************************)
(* What the domain layer promises of a publish job: its persisted status   *)
(* only ever moves forward along ALLOWED_TRANSITIONS (domain/publish.py),  *)
(* one transaction may take several transitions at once, and a terminal    *)
(* status is final.                                                        *)
(***************************************************************************)
EXTENDS Naturals

CONSTANT Jobs

VARIABLE status    \* [Jobs -> JobStatus \cup {Absent}]

Absent == "absent"  \* the publish_jobs row does not exist yet

JobStatus ==
    {"draft", "preflight", "awaiting_confirmation", "publishing", "switching",
     "verifying", "completed", "partial_failure", "failed"}

Terminal == {"completed", "partial_failure", "failed"}

\* The transition table itself: each status with the statuses it may enter.
AllowedTransitions ==
    [s \in JobStatus |->
        CASE s = "draft"                 -> {"preflight"}
          [] s = "preflight"             -> {"awaiting_confirmation"}
          [] s = "awaiting_confirmation" -> {"publishing"}
          [] s = "publishing" -> {"switching", "completed", "failed"}
          [] s = "switching"  -> {"verifying", "partial_failure", "failed"}
          [] s = "verifying"  -> {"completed", "partial_failure", "failed"}
          [] OTHER            -> {}]

\* How far a status is along the table.  The statuses reachable from s by one
\* or more allowed transitions are exactly those of a higher rank.
Rank ==
    [s \in JobStatus |->
        CASE s = "draft"                 -> 0
          [] s = "preflight"             -> 1
          [] s = "awaiting_confirmation" -> 2
          [] s = "publishing"            -> 3
          [] s = "switching"             -> 4
          [] s = "verifying"             -> 5
          [] OTHER                       -> 6]

Later(s) == {t \in JobStatus : Rank[t] > Rank[s]}

-----------------------------------------------------------------------------

Init == status = [j \in Jobs |-> Absent]

Create(j) ==
    /\ status[j] = Absent
    /\ status' = [status EXCEPT ![j] = "draft"]

Advance(j) ==
    /\ status[j] # Absent
    /\ \E t \in Later(status[j]) : status' = [status EXCEPT ![j] = t]

Next == \E j \in Jobs : Create(j) \/ Advance(j)

Spec == Init /\ [][Next]_status

=============================================================================
