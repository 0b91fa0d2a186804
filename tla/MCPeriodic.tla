----------------------------- MODULE MCPeriodic -----------------------------
(***************************************************************************)
(* PeriodicScheduler on small instances: symmetry and the view.            *)
(***************************************************************************)
EXTENDS PeriodicScheduler

Symmetry == Permutations(Task)

\* No step and no property of these runs depends on what is initialised.
View == <<mTasks, mRank, mPeriod, mCurrentTask, clock, tick, started, elapsed, wait>>
=============================================================================
