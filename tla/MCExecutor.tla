----------------------------- MODULE MCExecutor -----------------------------
(* TLC instance: two producer threads and the worker, each with at most       *)
(* MaxTasks calls of enqueue_work.                                            *)
EXTENDS Executor
=============================================================================
