-------------------------- MODULE MCPublishControl --------------------------
(* TLC instances of PublishControl: interchangeable stations, commands and  *)
(* worker threads, and the check that Rank orders the statuses as the      *)
(* transition table does.                                                  *)
EXTENDS PublishControl, TLC

L == INSTANCE PublishLifecycle WITH status <- [j \in Jobs |-> job[j].status]

\* The statuses reachable by one or more allowed transitions are exactly the
\* statuses of a higher rank.
ASSUME RankIsReachability ==
    LET Successors(S) == UNION {L!AllowedTransitions[s] : s \in S}
        reached[n \in 1..9, s \in JobStatus] ==      \* by 1..n transitions
            IF n = 1 THEN Successors({s})
            ELSE reached[n - 1, s] \cup Successors(reached[n - 1, s])
    IN  \A s \in JobStatus : reached[9, s] = L!Later(s)

Symmetry == Permutations(Stations) \cup Permutations(Commands) \cup Permutations(Workers)

=============================================================================
