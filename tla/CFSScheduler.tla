---------------------------- MODULE CFSScheduler ----------------------------
(***************************************************************************)
(* CFSScheduler on top of IScheduler and ITask: a task's rank is the time  *)
(* its bodies took, weighted by its priority, and run() starts the task    *)
(* with the least of it.  run() is split where the body is called.  Of the *)
(* clock only the difference of two mGetTick() matters.                    *)
(***************************************************************************)
EXTENDS TaskList

CONSTANTS
  Priorities,       \* values given to setPriority
  DefaultPriority,  \* mPriority of a new task (2 in the code)
  Lowest,           \* the greatest priority setPriority accepts (16 in the code)
  MaxRun            \* bound: ticks a body takes

ASSUME PriorityAssumption ==
  Lowest \in Nat /\ DefaultPriority \in 0 .. Lowest /\ Priorities \subseteq Nat

ASSUME RunAssumption == MaxRun \in Nat

VARIABLES
  mTasks,        \* IScheduler::mTasks
  mRank,         \* ITask::mRank of the tasks and of mCursorTask
  mPriority,     \* ICFSTask::mPriority
  mCurrentTask,  \* IScheduler::mCurrentTask
  elapsed,       \* mGetTick() - startTimeStamp of run(), 0 outside run()
  lead           \* history: how much more weighted time a linked task has than
                 \* the task started last, in numbers that do not wrap around

vars == <<mTasks, mRank, mPriority, mCurrentTask, elapsed, lead>>

Linked(t) == IsLinked(mTasks, t)
Idle      == mCurrentTask = NoTask

Init ==
  /\ mTasks = <<Cursor>>
  /\ mRank = [n \in Node |-> 0]
  /\ mPriority = [t \in Task |-> DefaultPriority]
  /\ mCurrentTask = NoTask
  /\ elapsed = 0
  /\ lead = [t \in Task |-> 0]

-----------------------------------------------------------------------------
(* The application's calls, from the main loop, the idle function and bodies *)

\* Mutant of AddTask: a new task keeps the rank it has.
AddTaskRanked(t) ==
  /\ ~Linked(t)
  /\ mTasks' = SortTask(InsertAfter(mTasks, Cursor, t), mRank, t)
  /\ lead' = [lead EXCEPT ![t] = 0]
  /\ UNCHANGED <<mRank, mPriority, mCurrentTask, elapsed>>

\* addTask: a new task starts level with the task started last.
AddTask(t) ==
  /\ ~Linked(t)
  /\ mTasks' = AddedList(mTasks, mRank, t)
  /\ mRank' = AddedRank(mRank, t)
  /\ lead' = [lead EXCEPT ![t] = 0]
  /\ UNCHANGED <<mPriority, mCurrentTask, elapsed>>

RemoveTask(t) ==
  /\ Linked(t)
  /\ mTasks' = Unlink(mTasks, t)
  /\ lead' = [lead EXCEPT ![t] = 0]
  /\ UNCHANGED <<mRank, mPriority, mCurrentTask, elapsed>>

\* A task is destroyed, which unlinks it, and a new object takes its place.
Destroy(t) ==
  /\ mCurrentTask # t
  /\ mTasks' = Unlink(mTasks, t)
  /\ mRank' = [mRank EXCEPT ![t] = 0]
  /\ mPriority' = [mPriority EXCEPT ![t] = DefaultPriority]
  /\ lead' = [lead EXCEPT ![t] = 0]
  /\ UNCHANGED <<mCurrentTask, elapsed>>

Clear ==
  /\ mTasks' = <<Cursor>>
  /\ lead' = [t \in Task |-> 0]
  /\ UNCHANGED <<mRank, mPriority, mCurrentTask, elapsed>>

\* Mutant of SetPriority: a value that is too large is not cut off.
SetPriorityUnclamped(t, p) ==
  /\ mPriority' = [mPriority EXCEPT ![t] = p]
  /\ UNCHANGED <<mTasks, mRank, mCurrentTask, elapsed, lead>>

SetPriority(t, p) ==
  /\ mPriority' = [mPriority EXCEPT ![t] = IF p > Lowest THEN Lowest ELSE p]
  /\ UNCHANGED <<mTasks, mRank, mCurrentTask, elapsed, lead>>

-----------------------------------------------------------------------------
(* run() *)

\* run() of an empty scheduler calls mIdleTask and changes nothing.

\* Mutant of RunBegin: the cursor keeps its rank.
RunBeginOldCursor(t) ==
  /\ Idle
  /\ NextTask(mTasks) = t
  /\ mTasks' = AdvanceCursor(mTasks)
  /\ mCurrentTask' = t
  /\ lead' = [u \in Task |-> IF Linked(u) THEN lead[u] - lead[t] ELSE 0]
  /\ UNCHANGED <<mRank, mPriority, elapsed>>

\* run() moves the cursor's rank to the next task's and calls its run().
RunBegin(t) ==
  /\ Idle
  /\ NextTask(mTasks) = t
  /\ mTasks' = AdvanceCursor(mTasks)
  /\ mRank' = [mRank EXCEPT ![Cursor] = mRank[t]]
  /\ mCurrentTask' = t
  /\ lead' = [u \in Task |-> IF Linked(u) THEN lead[u] - lead[t] ELSE 0]
  /\ UNCHANGED <<mPriority, elapsed>>

\* taskDuration <<= priority, as a word.
Weighted(d, p) == (d * 2 ^ p) % Wrap

\* Mutant of RunEnd: the task is not charged.
RunEndUncharged(t) ==
  /\ mCurrentTask = t
  /\ mCurrentTask' = NoTask
  /\ elapsed' = 0
  /\ UNCHANGED <<mTasks, mRank, mPriority, lead>>

\* The body returned: a task that is still linked is charged for it.  Its
\* currentRank is still the cursor's rank.
RunEnd(t) ==
  /\ mCurrentTask = t
  /\ IF Linked(t)
     THEN LET rank == [mRank EXCEPT ![t] = Plus(Weighted(elapsed, mPriority[t]), mRank[Cursor])]
          IN  /\ mRank' = rank
              /\ mTasks' = SortTask(mTasks, rank, t)
              /\ lead' = [lead EXCEPT ![t] = elapsed * 2 ^ mPriority[t]]
     ELSE UNCHANGED <<mRank, mTasks, lead>>
  /\ mCurrentTask' = NoTask
  /\ elapsed' = 0
  /\ UNCHANGED mPriority

\* The clock advances while a body runs.
Tick ==
  /\ ~Idle
  /\ elapsed < MaxRun
  /\ elapsed' = elapsed + 1
  /\ UNCHANGED <<mTasks, mRank, mPriority, mCurrentTask, lead>>

Call ==
  \/ \E t \in Task : AddTask(t) \/ RemoveTask(t) \/ Destroy(t)
  \/ \E t \in Task, p \in Priorities : SetPriority(t, p)
  \/ Clear

Run == \E t \in Task : RunBegin(t) \/ RunEnd(t)

Next == Call \/ Run \/ Tick

Spec == Init /\ [][Next]_vars

\* The main loop calls run() for ever, bodies return, and a body that is run
\* over and over takes time.
FairSpec == Spec /\ WF_vars(Run) /\ SF_vars(Tick)

-----------------------------------------------------------------------------
(* Properties *)

\* Words and priorities keep their width, and the list of IScheduler its
\* shape: the cursor is in it and no node is linked twice.
TypeOK ==
  /\ mTasks \in Seq(Node) /\ IsLinked(mTasks, Cursor)
  /\ \A i, j \in 1 .. Len(mTasks) : mTasks[i] = mTasks[j] => i = j
  /\ mRank \in [Node -> Rank]
  /\ mPriority \in [Task -> 0 .. Lowest]
  /\ mCurrentTask \in Task \cup {NoTask}
  /\ elapsed \in 0 .. MaxRun
  /\ lead \in [Task -> Int]

\* cfs_scheduler.hpp: run() runs the task that has the lower execution time,
\* weighted by priority, although ranks wrap around and tasks come and go.
LeastFirst ==
  [][\A t \in Task : Idle /\ mCurrentTask' = t =>
       \A u \in Task : Linked(u) => lead[t] <= lead[u]]_vars

\* Fair shares: the weighted times of two tasks that are in the scheduler
\* never differ by more than what the longest body at the lowest priority costs.
FairShare ==
  \A t \in Task : Linked(t) => lead[t] \in 0 .. MaxRun * 2 ^ Lowest

\* Once the application leaves the scheduler alone, every task in it is run
\* again and again, whatever its priority.
NoStarvation ==
  <>[][Run \/ Tick]_vars =>
    \A t \in Task : []<>(Linked(t) => mCurrentTask = t)
=============================================================================
