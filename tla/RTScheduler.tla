----------------------------- MODULE RTScheduler -----------------------------
(***************************************************************************)
(* RTScheduler, IRTTimer and a timer whose start, stop and setDuration are *)
(* those of tests/rt_test.cpp, and whose interrupt, as the README and      *)
(* IRTTimer say, preempts the main program, calls run() and does not come  *)
(* while it is disabled; main adds tasks with the interrupt disabled.  A   *)
(* task's body runs in the interrupt.  (The thread of rt_test.cpp, which   *)
(* calls run() beside main and without a second look, is not modelled.)    *)
(* Schedulers take the timer one after the other: main destroys one and    *)
(* makes the next.  All instants are relative: "due" is how far away the   *)
(* next wake-up is, and "ahead" counts from that wake-up.                  *)
(***************************************************************************)
EXTENDS TaskList

CONSTANTS
  Periods,   \* values given to setPeriod
  Delays,    \* values of addTask's second argument
  MaxLate,   \* bound: how late an interrupt comes and its body ends, in ticks
  MaxDrift   \* bound: the history counts no task as later than this

ASSUME TickAssumption ==
  Periods \cup Delays \subseteq Rank /\ Periods # {} /\ 0 \in Delays

ASSUME BoundAssumption == MaxLate \in Nat /\ MaxDrift \in Nat

VARIABLES
  mTasks,        \* IScheduler::mTasks
  mRank,         \* ITask::mRank of the tasks and of mCursorTask
  mPeriod,       \* IPeriodicTask::mPeriod
  mCurrentTask,  \* IScheduler::mCurrentTask; a task while its body runs
  mCounter,      \* RTScheduler::mCounter
  mTimer,        \* RTScheduler::mTimer is set: the scheduler has the timer
  mTask,         \* IRTTimer::mTask is set: the timer has the scheduler
  mRunning,      \* the timer is started
  mEnabled,      \* the timer's interrupt is enabled
  due,           \* the timer's mNextWakeup, in ticks from now
  main,          \* where main is in addTask(task, delay), in setTimer or in
                 \* the destructor
  ahead,         \* history: ticks from the next wake-up to the instant at
                 \* which a tracked task is to start
  tracked,       \* history: the linked tasks whose next start is settled, by
                 \* their last start or by an undisturbing addTask
  undisturbed    \* history: main never added a task after an interrupt had
                 \* programmed the timer for a later instant, and no body with
                 \* a period of 0 gave its own task a delay

lists   == <<mTasks, mRank>>
binding == <<mTimer, mTask>>
timer   == <<mRunning, mEnabled, due>>
history == <<ahead, tracked, undisturbed>>
vars    == <<lists, mPeriod, binding, mCurrentTask, mCounter, timer, main, history>>

MainIdle    == [at |-> "idle", task |-> NoTask, delay |-> 0]
Interrupted == mCurrentTask # NoTask
Linked(t)   == IsLinked(mTasks, t)

Adding      == main.at \in {"guarded", "linked", "sorted"}

\* Application code runs in main, outside these calls, or in the running body.
MayCall == Interrupted \/ main = MainIdle

Init ==
  /\ mTasks = <<Cursor>>
  /\ mRank = [n \in Node |-> 0]
  /\ mPeriod \in [Task -> Periods]
  /\ mCurrentTask = NoTask
  /\ mCounter = 0
  /\ mTimer = FALSE /\ mTask = FALSE
  /\ mRunning = FALSE
  /\ mEnabled = TRUE
  /\ due = 0
  /\ main = MainIdle
  /\ ahead = [t \in Task |-> 0]
  /\ tracked = {}
  /\ undisturbed = TRUE

-----------------------------------------------------------------------------
(* History: what the instants of the code's promises are. *)

\* The wake-up moves by d ticks.
Behind(a, d) == IF a - d < -MaxDrift THEN -MaxDrift ELSE a - d
Shift(d) == ahead' = [t \in Task |-> IF t \in tracked THEN Behind(ahead[t], d) ELSE 0]

\* A task is to start "a" ticks after the coming wake-up, or is not in the list.
Track(t, a) == /\ tracked' = tracked \cup {t}
               /\ ahead' = [ahead EXCEPT ![t] = a]
Untrack(t)  == /\ tracked' = tracked \ {t}
               /\ ahead' = [ahead EXCEPT ![t] = 0]

-----------------------------------------------------------------------------
(* setTimer and the destructor *)

\* stop(): mNextWakeup means nothing until start() sets it.
Stop ==
  /\ mRunning' = FALSE
  /\ due' = 0
  /\ UNCHANGED <<mEnabled, mCounter>>

\* IRTTimer::setTask takes the scheduler if the timer is free.
SetTask ==
  /\ ~Interrupted /\ main = MainIdle
  /\ ~mTimer /\ ~mTask
  /\ mTask' = TRUE
  /\ main' = [MainIdle EXCEPT !.at = "setTimer"]
  /\ UNCHANGED <<lists, mPeriod, mTimer, mCurrentTask, mCounter, timer, history>>

SetTimer ==
  /\ main.at = "setTimer"
  /\ mTimer' = TRUE
  /\ main' = MainIdle
  /\ UNCHANGED <<lists, mPeriod, mTask, mCurrentTask, mCounter, timer, history>>

\* The destructor of a scheduler that has a timer.
DestroyStop ==
  /\ ~Interrupted /\ main = MainIdle
  /\ mTimer
  /\ Stop
  /\ main' = [MainIdle EXCEPT !.at = "destroy"]
  /\ UNCHANGED <<lists, mPeriod, binding, mCurrentTask, history>>

\* The next scheduler starts from nothing, with tasks that are in no list.
NewScheduler ==
  /\ mTasks' = <<Cursor>>
  /\ mRank' = [mRank EXCEPT ![Cursor] = 0]
  /\ mCounter' = 0
  /\ mTimer' = FALSE
  /\ ahead' = [t \in Task |-> 0] /\ tracked' = {} /\ undisturbed' = TRUE

\* Mutant of DestroyRelease: IRTTimer::removeTask is not called.
DestroyForgets ==
  /\ main.at = "destroy"
  /\ NewScheduler
  /\ main' = MainIdle
  /\ UNCHANGED <<mPeriod, mTask, mCurrentTask, timer>>

\* IRTTimer::removeTask finds the timer stopped and lets go of the scheduler.
DestroyRelease ==
  /\ main.at = "destroy"
  /\ NewScheduler
  /\ mTask' = FALSE
  /\ main' = MainIdle
  /\ UNCHANGED <<mPeriod, mCurrentTask, timer>>

-----------------------------------------------------------------------------
(* addTask *)

\* A scheduler without a timer takes no task.
Accepts(t) == mTimer /\ mPeriod[t] # 0

\* A delay counts from the cursor's rank, that of the last task to have run.
DelayedRank(rank, t, d) == [rank EXCEPT ![t] = Plus(rank[Cursor], d)]

\* Mutant of Delayed: the new rank is not followed by a sort.
DelayedUnsorted(list, rank, t, d) == list

Delayed(list, rank, t, d) ==
  IF d = 0 THEN list ELSE SortTask(list, DelayedRank(rank, t, d), t)

\* addTask in a body: the interrupt is not preempted and the timer runs.  It may
\* be the body's own task, which it has removed: run() will replace its rank.
BodyAdds(t, d) ==
  /\ Interrupted
  /\ Accepts(t)
  /\ ~Linked(t)
  /\ LET rank == AddedRank(mRank, t)
     IN  /\ mRank' = DelayedRank(rank, t, d)
         /\ mTasks' = Delayed(AddedList(mTasks, mRank, t), rank, t, d)
  /\ Track(t, d)
  /\ UNCHANGED <<mPeriod, binding, mCurrentTask, mCounter, timer, main, undisturbed>>

\* Mutant of AddCall: the interrupt is not disabled.
AddCallEnabled(t, d) ==
  /\ ~Interrupted /\ main = MainIdle
  /\ Accepts(t)
  /\ main' = [at |-> "guarded", task |-> t, delay |-> d]
  /\ UNCHANGED <<lists, mPeriod, binding, mCurrentTask, mCounter, timer, history>>

\* addTask in main disables the timer of a task it does not refuse.
AddCall(t, d) ==
  /\ ~Interrupted /\ main = MainIdle
  /\ Accepts(t)
  /\ main' = [at |-> "guarded", task |-> t, delay |-> d]
  /\ mEnabled' = FALSE
  /\ UNCHANGED <<lists, mPeriod, binding, mCurrentTask, mCounter, mRunning, due, history>>

\* Mutant of AddRefused: the early return leaves the timer disabled.
AddRefusedDisabled ==
  /\ ~Interrupted /\ main.at = "guarded"
  /\ Linked(main.task)
  /\ main' = MainIdle
  /\ UNCHANGED <<lists, mPeriod, binding, mCurrentTask, mCounter, timer, history>>

\* base_t::addTask fails on a linked task; the guard enables the timer again.
AddRefused ==
  /\ ~Interrupted /\ main.at = "guarded"
  /\ Linked(main.task)
  /\ mEnabled' = TRUE
  /\ main' = MainIdle
  /\ UNCHANGED <<lists, mPeriod, binding, mCurrentTask, mCounter, mRunning, due, history>>

\* base_t::addTask links the task at the cursor's rank.  That is the instant of
\* the coming wake-up as long as mCounter has not moved on.
AddLink ==
  /\ ~Interrupted /\ main.at = "guarded"
  /\ ~Linked(main.task)
  /\ mRank' = AddedRank(mRank, main.task)
  /\ mTasks' = AddedList(mTasks, mRank, main.task)
  /\ main' = [main EXCEPT !.at = "linked"]
  /\ IF mCounter = mRank[Cursor]
     THEN Track(main.task, main.delay) /\ UNCHANGED undisturbed
     ELSE undisturbed' = FALSE /\ UNCHANGED <<ahead, tracked>>
  /\ UNCHANGED <<mPeriod, binding, mCurrentTask, mCounter, timer>>

\* A delay changes the rank and sorts the task again.
AddSort ==
  /\ ~Interrupted /\ main.at = "linked"
  /\ mRank' = DelayedRank(mRank, main.task, main.delay)
  /\ mTasks' = Delayed(mTasks, mRank, main.task, main.delay)
  /\ main' = [main EXCEPT !.at = "sorted"]
  /\ UNCHANGED <<mPeriod, binding, mCurrentTask, mCounter, timer, history>>

\* A stopped timer is started: start() sets mNextWakeup to the present, over
\* what setDuration(inDelay) added to it just before.  Then the guard enables it.
AddStart ==
  /\ ~Interrupted /\ main.at = "sorted"
  /\ mRunning' = TRUE
  /\ due' = IF mRunning THEN due ELSE 0
  /\ mEnabled' = TRUE
  /\ main' = MainIdle
  /\ UNCHANGED <<lists, mPeriod, binding, mCurrentTask, mCounter, history>>

-----------------------------------------------------------------------------
(* The other calls, from main (with the interrupt masked, which is up to the *)
(* caller) or from a body.                                                   *)

RemoveTask(t) ==
  /\ MayCall
  /\ Linked(t)
  /\ mTasks' = Unlink(mTasks, t)
  /\ Untrack(t)
  /\ UNCHANGED <<mRank, mPeriod, binding, mCurrentTask, mCounter, timer, main, undisturbed>>

Clear ==
  /\ MayCall
  /\ mTasks' = <<Cursor>>
  /\ ahead' = [t \in Task |-> 0] /\ tracked' = {}
  /\ UNCHANGED <<mRank, mPeriod, binding, mCurrentTask, mCounter, timer, main, undisturbed>>

SetPeriod(t, p) ==
  /\ MayCall
  /\ mPeriod' = [mPeriod EXCEPT ![t] = p]
  /\ UNCHANGED <<lists, binding, mCurrentTask, mCounter, timer, main, history>>

-----------------------------------------------------------------------------
(* run(), called by the timer's interrupt *)

\* The timer's interrupt comes and calls IRTTimer::run.  (It stops a timer that has
\* no scheduler; see TimerBound.)
Fires == mRunning /\ mEnabled /\ due <= 0 /\ ~Interrupted /\ mTask

\* The task run() looks at is due by mCounter, the instant it was called for.
Ready(t) == Minus(mCounter, mRank[Cursor]) >= Minus(mRank[t], mRank[Cursor])

\* delay(): the timer and mCounter move on by d ticks.
Program(d) ==
  /\ due' = due + d
  /\ mCounter' = Plus(mCounter, d)
  /\ UNCHANGED <<mRunning, mEnabled>>

\* Mutant of RunEmpty: the timer is left running.
RunEmptyGoesOn ==
  /\ Fires
  /\ NextTask(mTasks) = NoTask
  /\ UNCHANGED vars

\* All tasks have been removed since the timer was programmed.
RunEmpty ==
  /\ Fires
  /\ NextTask(mTasks) = NoTask
  /\ Stop
  /\ UNCHANGED <<lists, mPeriod, binding, mCurrentTask, main, history>>

\* Mutant of RunNotReady: mCounter does not follow the timer.
RunNotReadyForgotten(t) ==
  /\ Fires
  /\ NextTask(mTasks) = t
  /\ ~Ready(t)
  /\ mTasks' = AdvanceCursor(mTasks)
  /\ due' = due + Minus(mRank[t], mCounter)
  /\ Shift(Minus(mRank[t], mCounter))
  /\ UNCHANGED <<mRank, mPeriod, binding, mCurrentTask, mCounter, mRunning, mEnabled,
                 main, tracked, undisturbed>>

\* The task the timer was programmed for is gone, or a delay has to pass first.
RunNotReady(t) ==
  /\ Fires
  /\ NextTask(mTasks) = t
  /\ ~Ready(t)
  /\ mTasks' = AdvanceCursor(mTasks)
  /\ LET d == Minus(mRank[t], mCounter) IN Program(d) /\ Shift(d)
  /\ UNCHANGED <<mRank, mPeriod, binding, mCurrentTask, main, tracked, undisturbed>>

\* run() moves the cursor's rank to the task's and calls its body.
RunBegin(t) ==
  /\ Fires
  /\ NextTask(mTasks) = t
  /\ Ready(t)
  /\ mTasks' = AdvanceCursor(mTasks)
  /\ mRank' = [mRank EXCEPT ![Cursor] = mRank[t]]
  /\ mCurrentTask' = t
  /\ UNCHANGED <<mPeriod, binding, mCounter, timer, main, history>>

\* The body returned and its task is linked: its next rank is one period on, and
\* the timer is programmed for the first task.  A task that had been added again
\* with a delay, and is left with a period of 0, gets the cursor's rank where it
\* stands, behind ranks it is to precede.
RunEndLinked(t) ==
  /\ mCurrentTask = t
  /\ Linked(t)
  /\ LET rank == [mRank EXCEPT ![t] = Plus(mRank[Cursor], mPeriod[t])]
         list == SortTask(mTasks, rank, t)
         d    == Minus(NextRank(list, rank), mRank[Cursor])
     IN  /\ mRank' = rank
         /\ mTasks' = list
         /\ Program(d)
         /\ tracked' = tracked \cup {t}
         /\ ahead' = [u \in Task |->
              IF u = t THEN Behind(mPeriod[t], d)
              ELSE IF u \in tracked THEN Behind(ahead[u], d) ELSE 0]
  /\ mCurrentTask' = NoTask
  /\ undisturbed' = (undisturbed /\ (mPeriod[t] # 0 \/ mRank[t] = mRank[Cursor]))
  /\ UNCHANGED <<mPeriod, binding, main>>

\* The body removed its task: the timer is programmed for the first task left.
RunEndUnlinked(t) ==
  /\ mCurrentTask = t
  /\ ~Linked(t)
  /\ ~IsEmpty(mTasks)
  /\ LET d == Minus(NextRank(mTasks, mRank), mRank[Cursor]) IN Program(d) /\ Shift(d)
  /\ mCurrentTask' = NoTask
  /\ UNCHANGED <<lists, mPeriod, binding, main, tracked, undisturbed>>

\* The body removed the last task.
RunEndEmpty(t) ==
  /\ mCurrentTask = t
  /\ IsEmpty(mTasks)
  /\ Stop
  /\ mCurrentTask' = NoTask
  /\ UNCHANGED <<lists, mPeriod, binding, main, history>>

\* Time passes, in main and in bodies.
Tick ==
  /\ mRunning
  /\ due > -MaxLate
  /\ due' = due - 1
  /\ UNCHANGED <<lists, mPeriod, binding, mCurrentTask, mCounter, mRunning, mEnabled,
                 main, history>>

-----------------------------------------------------------------------------
\* What main has begun goes on.
LifeSteps == SetTimer \/ DestroyRelease
AddSteps  == AddRefused \/ AddLink \/ AddSort \/ AddStart

Call ==
  \/ \E t \in Task, d \in Delays : AddCall(t, d) \/ BodyAdds(t, d)
  \/ \E t \in Task : RemoveTask(t)
  \/ Clear
  \/ \E t \in Task, p \in Periods : SetPeriod(t, p)

Run ==
  \/ RunEmpty
  \/ \E t \in Task :
       RunNotReady(t) \/ RunBegin(t) \/ RunEndLinked(t) \/ RunEndUnlinked(t) \/ RunEndEmpty(t)

Next == SetTask \/ DestroyStop \/ LifeSteps \/ Call \/ AddSteps \/ Run \/ Tick

Spec == Init /\ [][Next]_vars

\* A due interrupt comes, bodies return, main goes on, time passes.
FairSpec == Spec /\ WF_vars(Run) /\ WF_vars(AddSteps \/ LifeSteps) /\ WF_vars(Tick)

-----------------------------------------------------------------------------
(* Properties *)

TypeOK ==
  /\ mTasks \in Seq(Node)
  /\ mRank \in [Node -> Rank]
  /\ mPeriod \in [Task -> Periods]
  /\ mCurrentTask \in Task \cup {NoTask}
  /\ mCounter \in Rank
  /\ mTimer \in BOOLEAN /\ mTask \in BOOLEAN
  /\ mRunning \in BOOLEAN /\ mEnabled \in BOOLEAN /\ undisturbed \in BOOLEAN
  /\ due \in Int
  /\ main \in [at : {"idle", "guarded", "linked", "sorted", "setTimer", "destroy"},
               task : Task \cup {NoTask}, delay : Delays]
  /\ tracked \in SUBSET Task
  /\ ahead \in [Task -> Int]

\* No lost wake-up: when neither addTask nor an interrupt is under way, a list
\* that holds a task has a timer that runs and is enabled, whatever was added
\* or removed by main, by bodies, or while the timer was about to stop.
TimerServes ==
  MayCall /\ ~Interrupted /\ ~IsEmpty(mTasks) => mRunning /\ mEnabled

\* A timer that runs has a scheduler, and that scheduler has the timer: no
\* interrupt calls a scheduler that is gone, or one that would program a timer
\* it has not got yet.  A scheduler that goes leaves its timer to the next.
TimerBound ==
  /\ mRunning => mTimer /\ mTask
  /\ mTask => mTimer \/ main.at = "setTimer"

\* The order in which run() has to visit the tasks.
InVisitOrder ==
  LET v == Visits(mTasks)
      Distance(n) == Minus(mRank[n], mRank[Cursor])
  IN  \A i, j \in 1 .. Len(v) : i < j => Distance(v[i]) <= Distance(v[j])

\* The list is in the order of the ranks' distances from the cursor, although
\* sortTask compares the ranks themselves and they wrap around.  Two things break
\* the order, and "undisturbed" excludes them: once the cursor has moved to the
\* front, ahead of ranks that have wrapped around, a task main adds at the
\* cursor's older and larger rank is sorted behind them; and the body of
\* RunEndLinked that gave its own task a delay and set its period to 0.
DueOrder == undisturbed => InVisitOrder

\* A body that returns leaves the list in order, whatever it did to its own task.
RunKeepsOrder ==
  [][undisturbed /\ Interrupted /\ mCurrentTask' = NoTask => InVisitOrder']_vars

Starts(t) == mCurrentTask = NoTask /\ mCurrentTask' = t

\* Tasks start at the very wake-up that is theirs, one period after the last
\* one or a delay after they were added, however late interrupts come and
\* bodies end, and whatever main and bodies remove, clear and add, as long as
\* main adds its tasks before the timer is programmed for a later instant and no
\* body leaves its own task with a delay and a period of 0.  (A delay that a body
\* gives its own task gives way to the period.)
OnTime ==
  [][\A t \in tracked : Starts(t) /\ undisturbed => ahead[t] = 0]_vars

\* README: a task of the RT scheduler executes every period.
EveryPeriod == [][\A t \in tracked : Starts(t) => ahead[t] = 0]_vars

\* When the application stops calling and no period is 0, every linked task is
\* started again and again.
NoStarvation ==
  <>[][AddSteps \/ LifeSteps \/ Run \/ Tick]_vars /\ (<>[](\A t \in Task : mPeriod[t] # 0)) =>
    \A t \in Task : []<>(Linked(t) => mCurrentTask = t)

\* Once the list stays empty the timer is stopped and stays so: the main
\* program of the tests waits for that.
TimerStops == <>[](IsEmpty(mTasks) /\ main = MainIdle) => <>[]~mRunning
=============================================================================
