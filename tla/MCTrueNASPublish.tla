-------------------------- MODULE MCTrueNASPublish --------------------------
(* TLC instances of TrueNASPublish.                                        *)
EXTENDS TrueNASPublish, TLC

CONSTANTS j1, j2, w1, w2

Selection == [j \in Jobs |-> IF j = j1 THEN Stations ELSE {1}]

DistinctSlugs == [s \in Stations |-> s]

\* The display names of all stations have the same slug.
SameSlug == [s \in Stations |-> 1]

\* Two threads execute a job of two stations; extent updates may be late.
TwoThreads ==
    [jobs |-> {j1}, workers |-> {w1, w2}, faulty |-> TRUE, late |-> {"update"}, crashes |-> 1]

\* Two threads execute a job of one station; every call may be late.
LateCreations ==
    [jobs |-> {j2}, workers |-> {w1, w2}, faulty |-> TRUE,
     late |-> {"snapshot", "clone", "update"}, crashes |-> 1]

\* One thread publishes two jobs, one after the other, and dies on the way.
OneThread ==
    [jobs |-> {j1, j2}, workers |-> {w1}, faulty |-> FALSE, late |-> {}, crashes |-> 2]

All   == {TwoThreads, LateCreations, OneThread}
Plain == {OneThread}

=============================================================================
