----------------------------- MODULE MCJobQueue -----------------------------
(* JobQueue for TLC: one synchronous and two asynchronous jobs, two workers. *)
EXTENDS JobQueue

CONSTANTS s1, a1, a2, w1, w2

MCJobs     == {s1, a1, a2}
MCSyncJobs == {s1}
MCWorkers  == {w1, w2}
=============================================================================
