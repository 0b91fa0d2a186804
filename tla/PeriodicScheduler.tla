-------------------------- MODULE PeriodicScheduler --------------------------
(***************************************************************************)
(* PeriodicScheduler on top of IScheduler and ITask: one cooperative       *)
(* thread that polls run() and calls the scheduler's functions, from the   *)
(* main loop, from the idle function or from the body of the running task, *)
(* while the clock behind mGetTick advances.  run() is split where the     *)
(* task's body is called, so that the clock and every call a body may make *)
(* interleave with it.                                                     *)
(***************************************************************************)
EXTENDS TaskList

CONSTANTS
  Periods,      \* values given to setPeriod
  Delays,       \* values given to setDelay
  StartTicks,   \* what the clock may show when the scheduler is built
  MaxLag,       \* bound: how old the cursor's rank gets, in ticks
  MaxLate,      \* bound: how late a linked task gets, and how old the cursor's
                \* rank gets while a body runs or before run() is first called
  Calls         \* the kinds of calls the application makes (see MayCall)

ASSUME TickAssumption ==
  Periods \cup Delays \cup StartTicks \subseteq Rank /\ Periods # {}

ASSUME BoundAssumption == MaxLag \in Nat /\ MaxLate \in Nat

VARIABLES
  mTasks,        \* IScheduler::mTasks
  mRank,         \* ITask::mRank of the tasks and of mCursorTask
  mPeriod,       \* IPeriodicTask::mPeriod
  mCurrentTask,  \* IScheduler::mCurrentTask
  clock,         \* the value the next call of mGetTick returns
  tick,          \* the local "tick" of run(), 0 outside run()
  initialised,   \* the object's init() succeeded, its deinit() has not run since
  started,       \* the main loop has called run()
  elapsed,       \* history: ticks since the instant the cursor's rank denotes
  wait           \* history: ticks until the instant a linked task's rank denotes

code    == <<mTasks, mRank, mPeriod, mCurrentTask, tick, initialised, started>>
history == <<elapsed, wait>>
vars    == <<code, clock, history>>

Linked(t) == IsLinked(mTasks, t)
Idle      == mCurrentTask = NoTask

Init ==
  /\ mTasks = <<Cursor>>
  /\ mRank = [n \in Node |-> 0]
  /\ mPeriod \in [Task -> Periods]
  /\ mCurrentTask = NoTask
  /\ clock \in StartTicks
  /\ tick = 0
  /\ initialised = [t \in Task |-> FALSE]
  /\ started = FALSE
  /\ elapsed = clock
  /\ wait = [t \in Task |-> 0]

-----------------------------------------------------------------------------
(* The calls an application makes.  Bodies of tasks may call anything; the *)
(* calls named here are made only by applications whose Calls holds them:  *)
(*   "late"   addTask and setDelay from the main loop or the idle function *)
(*            once run() has been called                                   *)
(*   "stray"  setDelay on a task that is in no list                        *)
(*   "self"   setDelay by a body on its own task                           *)
(*   "clear"  clear()                                                      *)

MayCall == ~Idle \/ ~started \/ "late" \in Calls

\* Mutant of AddTask: a task that is linked already is not refused.
AddTaskTwice(t) ==
  /\ MayCall
  /\ mTasks' = AddedList(mTasks, mRank, t)
  /\ mRank' = AddedRank(mRank, t)
  /\ initialised' = [initialised EXCEPT ![t] = TRUE]
  /\ wait' = [wait EXCEPT ![t] = -elapsed]
  /\ UNCHANGED <<mPeriod, mCurrentTask, clock, tick, started, elapsed>>

\* addTask: returns false on a linked task, and when init() returns false;
\* neither changes anything.
AddTask(t) ==
  /\ MayCall
  /\ ~Linked(t)
  /\ mTasks' = AddedList(mTasks, mRank, t)
  /\ mRank' = AddedRank(mRank, t)
  /\ initialised' = [initialised EXCEPT ![t] = TRUE]
  /\ wait' = [wait EXCEPT ![t] = -elapsed]
  /\ UNCHANGED <<mPeriod, mCurrentTask, clock, tick, started, elapsed>>

\* Mutant of RemoveTask: deinit() is not called.
RemoveTaskNoDeinit(t) ==
  /\ Linked(t)
  /\ mTasks' = Unlink(mTasks, t)
  /\ wait' = [wait EXCEPT ![t] = 0]
  /\ UNCHANGED <<mRank, mPeriod, mCurrentTask, clock, tick, initialised, started, elapsed>>

\* ITask::removeTask on a linked task; it does nothing on another one.
RemoveTask(t) ==
  /\ Linked(t)
  /\ initialised' = [initialised EXCEPT ![t] = FALSE]
  /\ mTasks' = Unlink(mTasks, t)
  /\ wait' = [wait EXCEPT ![t] = 0]
  /\ UNCHANGED <<mRank, mPeriod, mCurrentTask, clock, tick, started, elapsed>>

\* The destructor unlinks the task and calls no deinit(): what init() set up ends
\* with the object.  The object that takes its place has not been initialised.  A
\* task that destroys itself while it runs is undefined behaviour.
Destroy(t) ==
  /\ mCurrentTask # t
  /\ mTasks' = Unlink(mTasks, t)
  /\ mRank' = [mRank EXCEPT ![t] = 0]
  /\ \E p \in Periods : mPeriod' = [mPeriod EXCEPT ![t] = p]
  /\ initialised' = [initialised EXCEPT ![t] = FALSE]
  /\ wait' = [wait EXCEPT ![t] = 0]
  /\ UNCHANGED <<mCurrentTask, clock, tick, started, elapsed>>

\* IScheduler::clear empties the list and links the cursor again.
Clear ==
  /\ "clear" \in Calls
  /\ mTasks' = <<Cursor>>
  /\ wait' = [t \in Task |-> 0]
  /\ UNCHANGED <<mRank, mPeriod, mCurrentTask, clock, tick, initialised,
                 started, elapsed>>

SetPeriod(t, p) ==
  /\ mPeriod' = [mPeriod EXCEPT ![t] = p]
  /\ UNCHANGED <<mTasks, mRank, mCurrentTask, clock, tick, initialised,
                 started, history>>

SetDelay(t, d) ==
  /\ MayCall
  /\ Linked(t) \/ "stray" \in Calls
  /\ mCurrentTask # t \/ "self" \in Calls
  /\ LET rank == [mRank EXCEPT ![t] = Plus(clock, d)]
     IN  /\ mRank' = rank
         /\ mTasks' = SortTask(mTasks, rank, t)
  /\ wait' = [wait EXCEPT ![t] = IF IsLinked(mTasks', t) THEN d ELSE 0]
  /\ UNCHANGED <<mPeriod, mCurrentTask, clock, tick, initialised, started,
                 elapsed>>

-----------------------------------------------------------------------------
(* run() *)

\* Mutant of Picks: the readiness test compares ticks, not distances.
PicksWithoutWrap(t) == NextTask(mTasks) = t /\ clock >= mRank[t]

\* run() looks at getNextTask() only, and tests whether it is ready on
\* distances from the cursor's rank, modulo Wrap.
Picks(t) ==
  /\ NextTask(mTasks) = t
  /\ Minus(clock, mRank[Cursor]) >= Minus(mRank[t], mRank[Cursor])

\* run() finds no task, or one that is not ready, and calls mIdleTask.  The
\* cursor may have moved to the front of the list.
RunIdle ==
  /\ Idle
  /\ \A t \in Task : ~Picks(t)
  /\ mTasks' = AdvanceCursor(mTasks)
  /\ started' = TRUE
  /\ UNCHANGED <<mRank, mPeriod, mCurrentTask, clock, tick, initialised, history>>

\* Mutant of RunBegin: the cursor keeps its rank.
RunBeginOldCursor(t) ==
  /\ Idle
  /\ Picks(t)
  /\ mTasks' = AdvanceCursor(mTasks)
  /\ mCurrentTask' = t
  /\ tick' = clock
  /\ started' = TRUE
  /\ elapsed' = -wait[t]
  /\ UNCHANGED <<mRank, mPeriod, clock, initialised, wait>>

\* run() picks a ready task, moves the cursor's rank to it and calls its run().
RunBegin(t) ==
  /\ Idle
  /\ Picks(t)
  /\ mTasks' = AdvanceCursor(mTasks)
  /\ mRank' = [mRank EXCEPT ![Cursor] = mRank[t]]
  /\ mCurrentTask' = t
  /\ tick' = clock
  /\ started' = TRUE
  /\ elapsed' = -wait[t]
  /\ UNCHANGED <<mPeriod, clock, initialised, wait>>

\* The task's run() returned: a task that is still linked gets its next rank.
RunEnd(t) ==
  /\ mCurrentTask = t
  /\ IF Linked(t)
     THEN LET rank == [mRank EXCEPT ![t] = Plus(tick, mPeriod[t])]
          IN  /\ mRank' = rank
              /\ mTasks' = SortTask(mTasks, rank, t)
              /\ wait' = [wait EXCEPT ![t] = mPeriod[t] - Minus(clock, tick)]
     ELSE UNCHANGED <<mRank, mTasks, wait>>
  /\ mCurrentTask' = NoTask
  /\ tick' = 0
  /\ UNCHANGED <<mPeriod, clock, initialised, started, elapsed>>

\* Time passes, within the bounds on how far the main loop falls behind.
Tick ==
  /\ elapsed < IF started /\ Idle THEN MaxLag ELSE MaxLate
  /\ \A t \in Task : Linked(t) => wait[t] > -MaxLate
  /\ clock' = Plus(clock, 1)
  /\ elapsed' = elapsed + 1
  /\ wait' = [t \in Task |-> IF Linked(t) THEN wait[t] - 1 ELSE wait[t]]
  /\ UNCHANGED code

Call ==
  \/ \E t \in Task : AddTask(t) \/ RemoveTask(t) \/ Destroy(t)
  \/ \E t \in Task, p \in Periods : SetPeriod(t, p)
  \/ \E t \in Task, d \in Delays : SetDelay(t, d)
  \/ Clear

Run == RunIdle \/ \E t \in Task : RunBegin(t) \/ RunEnd(t)

Next == Call \/ Run \/ Tick

Spec == Init /\ [][Next]_vars

-----------------------------------------------------------------------------
(* Properties *)

\* Every variable keeps its type: the list is one of nodes, and words keep their
\* width whatever is added to them.  (Its shape is LinkedOnce.)
TypeOK ==
  /\ mTasks \in Seq(Node)
  /\ mRank \in [Node -> Rank]
  /\ mPeriod \in [Task -> Periods]
  /\ mCurrentTask \in Task \cup {NoTask}
  /\ clock \in Rank
  /\ tick \in Rank
  /\ initialised \in [Task -> BOOLEAN]
  /\ started \in BOOLEAN
  /\ elapsed \in Int
  /\ wait \in [Task -> Int]

\* Whatever sequence of calls bodies and the main loop make, no node is ever
\* linked twice and the cursor never leaves the list: getNextTask and empty
\* read the list's ends and the cursor's neighbour without checking.
LinkedOnce ==
  /\ IsLinked(mTasks, Cursor)
  /\ \A i, j \in 1 .. Len(mTasks) : mTasks[i] = mTasks[j] => i = j

\* run() never starts a task before the instant it was last scheduled for:
\* the modular readiness test is exact although ranks and clock wrap around.
NotEarly ==
  [][\A t \in Task : mCurrentTask # t /\ mCurrentTask' = t => wait[t] <= 0]_vars

\* From the cursor on, around the list, tasks stand in the order in which
\* they are due, across any number of wrap-arounds of the clock.
DueOrder ==
  LET v == Visits(mTasks)
  IN  \A i, j \in 1 .. Len(v) : i < j => wait[v[i]] <= wait[v[j]]

\* run() calls the idle function only when there is no task to run: if the
\* task it looks at is not ready, no task is.
IdleOnlyWhenNothingDue ==
  Idle /\ (\A t \in Task : ~Picks(t)) => \A t \in Task : Linked(t) => wait[t] > 0

\* init() and deinit() pair up over the life of an object: it is initialised
\* exactly while it is in the scheduler, so that none runs uninitialised, is left
\* initialised by a removal or is initialised twice.  (An object that is destroyed
\* in the scheduler gets no deinit(), see Destroy: that is not counted here.)
InitialisedWhileLinked == \A t \in Task : initialised[t] <=> Linked(t)

-----------------------------------------------------------------------------
(* Refinement *)

\* The scheduler that has instants instead of a sorted list of wrapping ranks.
Deadlines == INSTANCE DeadlineScheduler WITH
  armed   <- {t \in Task : Linked(t)},
  period  <- mPeriod,
  running <- mCurrentTask,
  since   <- IF Idle THEN 0 ELSE Minus(clock, tick),
  behind  <- elapsed

\* Every step of the list, the cursor and the modular readiness test is a step
\* of the ideal scheduler: run() starts a due task, the earliest due one, and
\* schedules it one period after the tick run() read.
ImplementsDeadlines == Deadlines!Spec
=============================================================================
