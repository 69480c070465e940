------------------------- MODULE MCDatasetRetention -------------------------
(* TLC instances of DatasetRetention: every job selects every station and  *)
(* display names have distinct slugs.                                      *)
EXTENDS DatasetRetention, TLC

CONSTANTS j1, j2, w1, c1, c2, o1

AllStations   == [j \in Jobs |-> Stations]
DistinctSlugs == [s \in Stations |-> s]

\* Periodic passes; one worker thread, which may die, calls may raise.
Periodic ==
    [jobs |-> {j1, j2}, workers |-> {w1}, faulty |-> TRUE, late |-> {}, crashes |-> 1,
     cleaners |-> {c1, c2}, operators |-> {}, scheduled |-> TRUE, reader |-> FALSE,
     skips |-> {}]

\* The same, and deletions may be executed late.
LateDeletes ==
    [Periodic EXCEPT !.late = {"delete"}, !.crashes = 0, !.cleaners = {c1}]

\* The operator lists and deletes datasets; there are no periodic passes.
Manual ==
    [Periodic EXCEPT !.crashes = 0, !.cleaners = {c1}, !.operators = {o1},
                     !.scheduled = FALSE, !.reader = TRUE]

\* What TrueNAS tells of the stations is not complete, or is not asked for.
Skipping == [Manual EXCEPT !.jobs = {j1}, !.skips = Stations]
NoReader == [Manual EXCEPT !.jobs = {j1}, !.reader = FALSE]

All == {Periodic, LateDeletes, Manual, Skipping, NoReader}

\* One periodic pass at a time, nobody dies.
Exported == {[Periodic EXCEPT !.crashes = 0, !.cleaners = {c1}]}

=============================================================================
