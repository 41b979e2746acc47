--------------------------- MODULE AtMostOnceJobs ---------------------------
(***************************************************************************)
(* The promise of the submission pipeline, free of queues and workers: a   *)
(* job moves forward through new, queued, taken, done, never back, and     *)
(* may be gone once a broker or a worker fails holding it.  A job is taken *)
(* at most once, and a done job is never touched again.                    *)
(***************************************************************************)
CONSTANT Jobs

VARIABLE stage   \* [Jobs -> Stages]

Stages == {"new", "queued", "taken", "done", "gone"}

Init == stage = [j \in Jobs |-> "new"]

Move(j, from, to) == /\ stage[j] \in from
                     /\ stage' = [stage EXCEPT ![j] = to]

Enqueue(j) == Move(j, {"new"}, "queued")
Take(j)    == Move(j, {"queued"}, "taken")
Complete(j) == Move(j, {"taken"}, "done")
Lose(j)    == Move(j, {"queued", "taken"}, "gone")

Next == \E j \in Jobs : Enqueue(j) \/ Take(j) \/ Complete(j) \/ Lose(j)

Spec == Init /\ [][Next]_stage
=============================================================================
