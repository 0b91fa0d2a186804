# A verification development for ucosm

ucosm is a header-only C++17 scheduler library for microcontrollers
(`src/include/ucosm`). This directory holds TLA+ models of it, TLC runs that
check them on small instances, and TLAPS proofs of the properties that matter
most for every instance.

## 1. Inventory

| Part | State | Operations | Hard because |
|---|---|---|---|
| `ITask`, `IScheduler` (`core/`) | an intrusive list sorted by `mRank`, a cursor node in that list, `mCurrentTask` | `addTask`, `removeTask`, `clear`, `setRank`, `updateRank`, `sortTask`, `getNextTask`, `getNextRank`, `empty`, `size` | the list is edited around the cursor and from inside the running task; the ends of the list are read without a check |
| `PeriodicScheduler`, `IPeriodicTask` (`periodic/`) | ranks are 32-bit ticks, `mPeriod` | `run`, `setDelay`, `setPeriod` | ticks wrap around; readiness is a distance from the cursor's rank, the order of the list is not |
| `CFSScheduler`, `ICFSTask` (`cfs/`) | ranks are weighted run times, `mPriority` | `run`, `setPriority` | `duration << priority` overflows; a rank may go backwards |
| `RTScheduler`, `IRTTimer` (`rt/`) | `mCounter`, `mTimer`, the timer's `mTask` | `setTimer`, `addTask`, `run`, `delay`, destructor; `setTask`, `removeTask`, `run` | `run` is a timer interrupt (or a thread) that preempts the main program |
| `RTMessageQueue` (`rt/rt_inter_task.hpp`) | two atomic indices, an array that is not atomic | `trySend`, `tryReceive`, `clear`, `empty`, `full`, `size` | producer and consumer run concurrently, without a lock |
| `RTSharedVariable` | an atomic value, an atomic version | `store`, `load`, `compareAndSwap`, `loadWithVersion`, `getVersion`, `hasChanged` | two words that change one after the other |
| `RTEventFlags` | one atomic word | `setFlags`, `clearFlags`, `testAny`, `testAll`, `waitAndClear`, `waitAny`, `waitAll`, `getFlags` | a weak compare-exchange against setters, clearers and other waiters |
| Resumable tasks (`resumable/`) | the resume point of a macro-made coroutine | `UCOSM_START`, `UCOSM_YIELD`, `UCOSM_SLEEP_FOR`, `UCOSM_SLEEP_UNTIL`, `UCOSM_RESTART`, `UCOSM_END`, `reset` | a task changes its own period between two of its steps |
| `CallableTask` (`core/`) | a small buffer with a callable, its three functions | construction, copy, move, assignment, `run` | a copy, a move or an assignment on one path forgets, or destroys twice, what a buffer holds |
| ulink | the list the scheduler is built on | an empty submodule: external | |

How the parts interact. A scheduler is a list of tasks and itself a task, so
schedulers nest. `run()` takes the task behind the cursor, moves the cursor's
rank to it, calls the task's `run()`, and, if the task is still linked, gives
it a new rank and sorts it. A task's body may call anything: add, remove,
delete or delay any task, its own one too. `init()` and `deinit()` are
callbacks of `addTask` and `removeTask`. The periodic and CFS schedulers poll a
clock; the RT scheduler is called by its timer and reprograms it. The three
inter-task objects are shared memory between tasks, interrupts and threads.

What makes each part correct:

* the list: a node is in it at most once, the cursor always is; every edit
  leaves it in the order the scheduler will visit it;
* the periodic scheduler: no task early, none late while the idle function
  runs, none starved, `init`/`deinit` paired, across any number of wrap-arounds;
* the RT scheduler: every wake-up finds its task due, tasks keep their phase,
  no interrupt sees a list half edited, and none reaches a scheduler that is gone;
* CFS: a task that has run less is run first; nobody starves;
* the queue: a FIFO channel of whole messages, no data race;
* the shared variable: `hasChanged` misses nothing; a version means one value;
* the flags: no event lost, none delivered twice;
* resumable tasks: a resumed body goes on where it stopped, no sooner than it
  asked, and sleeps end;
* callables: constructed and destroyed exactly once; an emptied task leaves its
  scheduler.

The hazards behind these, each at its line, are in `PROJECT.json`.

## 2. Modules

| Module | What it is |
|---|---|
| `TaskList` | `updateRank`, `sortTask`, `getNextTask`, `addTask`'s insertion, as operators on the sequence of nodes between the list's sentinels |
| `PeriodicScheduler` | the periodic scheduler's state machine on `TaskList`, and `ImplementsDeadlines`, its refinement of `DeadlineScheduler` |
| `DeadlineScheduler` | abstract: tasks armed with instants; no list, no cursor, no wrap-around |
| `MCPeriodic` | symmetry and the view of small instances |
| `ResumableTask` | extends `PeriodicScheduler`: bodies are programs made of the `UCOSM_` macros |
| `CallableTask` | extends `PeriodicScheduler`: tasks hold callables that are assigned, copied and moved |
| `CFSScheduler` | the weighted-time scheduler on `TaskList` |
| `RTScheduler` | the real-time scheduler on `TaskList`, its timer, and the interrupt against main |
| `RTMessageQueue` | the queue, one access to shared memory per step |
| `MessageChannel` | abstract: a bounded FIFO channel used in atomic steps |
| `RTQueueStatus` | `size`, `full`, `empty`, two loads each, on either side, while the queue is used |
| `RTSharedVariable` | writers and a polling reader, one access per step |
| `RTEventFlags` | setters, clearers and waiters, one access per step |
| `RTEventPoll` | extends `RTEventFlags`: a thread that calls `testAny`, `testAll`, `waitAny`, `waitAll` |
| `WordLemmas`, `TaskListLemmas` | facts about arithmetic modulo a word, and about the list operators and the order they keep |
| `PeriodicSchedulerProofs`, `CFSSchedulerProofs`, `RTSchedulerProofs`, `RTMessageQueueProofs`, `RTSharedVariableProofs`, `RTEventFlagsProofs` | the theorems; the first one has those of `CallableTask` and `ResumableTask` too, the queue's those of `RTQueueStatus`, the flags' those of `RTEventPoll` |

Operators whose comment starts with "Mutant of" are plausible bugs. No
specification uses them: they stand in for the operator they name to show that
a property would catch them.

### The periodic scheduler

The state is the code's: `mTasks` (a sequence with the cursor in it), `mRank`
of every node, `mPeriod`, `mCurrentTask`, and the local `tick` of `run()`.
`clock` is what `mGetTick` would return. `run()` is split at the call of the
task's body: `RunBegin` is everything before it, `RunEnd` everything after it,
`RunIdle` the whole call when no task is ready. Between `RunBegin` and `RunEnd`
the clock may advance and the body may make any calls. Ranks and ticks are
words: sums and differences are taken modulo `Wrap` (2^32 in the code).

Three variables exist for the properties only: `elapsed` and `wait` measure, in
ideal time, how long ago the cursor's rank was and how far away a task's rank
is, and never feed back into the code's state; `initialised` pairs `init()`
with `deinit()`. `started` limits the calls of the main loop, see below.

`Calls` chooses what the application does. With `Calls = {}` bodies may add,
remove, delete, delay and re-period any task, and the main loop does so before
it first calls `run()`. Four kinds of calls have to be asked for, because the
code does not keep its order, or its pairing of `init` and `deinit`, under some
of them: `"late"` (`addTask`/`setDelay` outside a body once `run()` has been
called), `"stray"` (`setDelay` on an unlinked task), `"self"` (`setDelay` by a
body on its own task) and `"clear"`. Types, the list invariant and `NotEarly` are
proved with all of them. The order is checked and proved with `"clear"`; the
pairing is checked without any, and proved with `"late"` and `"self"`; `callable`
checks the list, `NotEarly` and progress with `"clear"` and `"stray"`.

### Resumable tasks and callables

Both are tasks of the periodic scheduler and extend its module: the actions of
the scheduler are conjoined with what the task does.

`ResumableTask` does not fix a program. A body is any sequence of macros: at
each `run()` it goes on from its resume point to some macro that returns
(`SleepFor`, `SleepUntil`, `Restart`, `End`, or a condition that is still false,
`StillUntil`). Of `mLine` only the kind of label matters, since what the macros
do after a jump depends on it: behind a label the period is 0, and whatever else
the body does before it returns has been done by the time it returns.
`UCOSM_YIELD` is a sleep for 0. `Flicker` is a condition of `UCOSM_SLEEP_UNTIL`
that is looked at twice and changes in between. `asleep`, `spent` and `polled` are
history: what the macro promised, counted from the moment it was called, and how
long the body had run by then.

`CallableTask` does not fix a callable. `mOps` says whether a task holds one;
`live` counts what has been constructed in buffers and not destroyed. Each
constructor and assignment is one action with everything it does. They, and
`removeTask`, `clear` and `setPeriod`, may be called by main or the idle function at
any time, and by any callable that runs (`MayAct`); the body of an empty task calls
nothing. For `addTask` and `setDelay` by main after the first `run()` the scheduler's
`MayCall` asks for `"late"`. No call destroys the callable that is running: that
would be undefined behaviour, and the guards on `mCurrentTask` leave it out. An empty
task removes itself in `RunSelf`.

### CFS

A rank is a weighted run time, a word. Of the clock only `mGetTick()` twice
inside `run()` matters: `elapsed` is their difference, and `Weighted` shifts it
and cuts it to a word. `lead` is history: how much more weighted time a linked
task has than the task started last, in numbers that do not wrap around. A new
task starts level with that one. Every call may come from main or a body.

### The RT scheduler

`main` says where the main program is. In `addTask(task, delay)` it does `AddCall`
(the checks and `disable()`), `AddRefused` or `AddLink` (the base class's
`addTask`), `AddSort` (the delay), `AddStart` (`isRunning()`, `start()`,
`enable()`). In `setTimer` it does `SetTask` (the timer takes the scheduler) and
`SetTimer` (the scheduler keeps the timer), in the destructor `DestroyStop` and
`DestroyRelease` (the timer lets go), after which the next scheduler of the
program starts with an empty list. The interrupt may come between any two of
these if the timer lets it. `run()` is split where the body is called, as above;
a body adds, removes and re-periods tasks, its own one too: it may remove itself
and add itself again with a delay. The timer is the
`Timer` of `tests/rt_test.cpp` (`setDuration` moves `mNextWakeup`, `start` sets it
to the present), called as the README (270-316) and `IRTTimer` (`irt_timer.hpp:68`)
say, by an interrupt: it preempts main, is not preempted itself, and does not come
once `disable()` or `stop()` has returned. The thread that plays the interrupt in
`tests/rt_test.cpp` is weaker: it looks at the flags, waits, and calls `run()` beside
main. That is not modelled. `removeTask` and `clear` by main are one step: the
caller has to mask the interrupt, the code does not.

Instants are relative, so that no counter grows: `due` is how far away the next
wake-up is. `ahead`, `tracked` and `undisturbed` are history: how far from the
coming wake-up a task should start, for which tasks that is settled, and whether
two things have never happened that the code does not survive in order: main called
`addTask` when `mCounter` had moved on from the cursor's rank, that is when the timer
was programmed for a later instant; or a body returned whose task had been given a
delay while it ran and now has the period 0 (section 5).

### The inter-task objects

Each side of the queue is a small program whose steps access at most one thing
the other side can see. The array is not atomic, so a message is copied in two
halves: a slot used by both sides at once would show as a torn message.
`ClearLoad`/`ClearStore` are the two accesses of `clear()`, which is a call of
the consumer, the owner of the index it stores. The channel has them too: its
`Clear` notes how many messages are on their way (`doomed`), its `Drop` takes exactly
these, so that a message sent in between is not lost. A `tryReceive` on an empty
queue changes nothing and is not a step. In the shared variable a
compare-exchange is one step that may fail for no reason (it is the weak one),
and the `fetch_add` on the version is the next. The reader either calls
`loadWithVersion` or takes the pair itself with `getVersion()` and then `load()`
(`TakePair`). In the flags sets stand for masks; `pending` remembers which
events are still owed to a waiter. `RTEventPoll` adds a thread that looks
without clearing, once (`testAny`, `testAll`) or as often as its timeout says.

Steps are interleaved, each side's in program order. For the queue this is
what release and acquire give: an index is published after the slot and read
before it. The failing compare-exchange of `waitAndClear` has no acquire order;
what that does to data published by `setFlags` is outside these models.

## 3. Runs

| Run | Question | Bounds |
|---|---|---|
| `periodic_order` | due order, idleness, and the refinement of `DeadlineScheduler`, with bodies that call anything and `clear()` | 3 tasks, `Wrap` 8, periods 0 and 2, delays 1 and 2, symmetry, `VIEW` without `initialised` |
| `callable` | life of the stored objects, list shape, `NotEarly`, starvation, and empty tasks that leave, with `clear()` and `setDelay` on unlinked tasks | 2 tasks, `Wrap` 6, periods 0 and 2, delays 1 and 2, no symmetry |
| `resumable` | sleeps in full but for the time the body had run before, `init`/`deinit` pairing, and bodies that go on | 2 tasks, `Wrap` 6, sleeps and checks of 0 and 2 ticks |
| `cfs` | least time first, fair shares, starvation, while ranks wrap | 3 tasks, `Wrap` 5, priorities 0, 1 and a 2 that is cut to 1, bodies of 0 to 2 ticks |
| `rt_scheduler` | lost wake-ups, order, phases, starvation, the stop of the timer and who has it, with main, bodies and the interrupt interleaved | 2 tasks, `Wrap` 5, periods 0 and 2, delays 0 and 1, interrupts and bodies up to a tick late |
| `queue` | data races, FIFO refinement, honest status functions, progress | 4 slots, 2 messages |
| `shared_variable` | no missed update, the final value is seen | 2 writers, 3 values, 3 versions |
| `event_flags` | no lost event, every awaited event taken, `waitAny` and `waitAll` answer truly | 2 flags, 2 waiters, timeouts 1 and 2 |
| `sleep_until`, `rt_period`, `shared_variable_pairs`, `event_flags_once` | one statement each of the documentation or the tests that the code does not keep | see section 5 |

Why the bounds are enough. Three tasks and the cursor are four nodes: every
branch of `updateRank` walks past a neighbour, and the cursor is first, inside
and last. `Wrap` 8 with periods and delays up to 2 lets clock and ranks wrap any
number of times in one behaviour, since `elapsed` and `wait` are relative and
the state space is closed under time. `MaxLag` 5 is the largest lag for which
`MaxLag + 2 < Wrap`, the condition the code needs (section 4); `MaxLate` bounds
how late the main loop makes a task, and so how long a body runs. `MaxLag` must not
be less than `MaxLate` plus the largest period or delay, or the bound in `Tick` would
stop the clock before a task is due. `callable` and `resumable` have both conditions
with a lag of 3: `3 + 2 < 6` and `3 >= 1 + 2`. `"late"` is not in `callable`: the main
loop could then hold a task back until the cursor's rank is `MaxLag` old, and the
clock of the model would stand still where the real one goes on. `NotEarly` is proved
with it. In `cfs` the longest body at the lowest priority
costs `2 * 2^1 = 4`, and 4 is the largest share below `Wrap`: the least instance
in which leads are as long as a word allows. In the RT scheduler `mCounter` and
the ranks wrap as well (5 is odd, so that ranks take every value), and two tasks
and main suffice for a task, one added under it, and the interrupt between the
two. With 4 slots three messages fit and the indices wrap; two messages tell
order, loss and duplication apart. Two writers suffice for one to overtake the
other between its two accesses; three versions wrap around. `MaxBehind < Wrap` is
what `hasChanged` needs: fewer than 2^32 updates between two looks of the reader.
A timeout of 2 lets the flags change between two looks.

Fairness. The main loop of the README calls `run()` for ever, bodies return, and
time passes: weak fairness of `run()` and of the clock in `callable` and
`resumable`. CFS has weak fairness of `Run` and strong fairness of `Tick`: a body
of no duration may be started again at once, and the clock that bodies see
moves on in the end, whichever body it is. For the RT scheduler: an interrupt
that is due comes, bodies return, and a call of main that has begun goes on.
The queue's consumer polls and calls that have begun are finished; its steps
get strong fairness where it may also ask `size()` over and over. A shared
variable's reader polls `hasChanged`, and a compare-exchange that could succeed
again and again does (strong fairness on `StoreSwap`). Flag waiters call
`waitAndClear` again and again; the thread that polls gets none. The shape of
`NoStarvation`, `GoesOn`, `EmptyTasksLeave` and `SettlesOnFinalValue` is "once the
others stop calling": the code promises nothing against an application that
never stops. Deadlock is checked in every run.

## 4. Theorems

TLAPS proves these for every value of the constants. Every assumption is a
named `ASSUME` that TLC evaluates on the runs' instances, but for the hypotheses
of single theorems: `LagBounded`, `Punctual`, `SharesBounded`, the two conditions
on `Calls`, and that there are finitely many tasks. The runs' instances satisfy
them. Every safety property and every refinement of the passing runs is proved.

* `PeriodicSchedulerProofs`, the scheduler: `TypeCorrect`, `NodesLinkedOnce`,
  `NeverEarly`, `InitPairs`, `InDueOrder`, `IdleIsJustified` and `MeetsDeadlines`. The
  first two come from `Shape == TypeOK /\ LinkedOnce`, which is inductive because
  every list operator, by a lemma of `TaskListLemmas`, turns a list without
  repetition that holds the cursor into another one. `InitPairs` is inductive with
  `Shape`, since the same lemmas say which nodes each operator adds and takes; it
  assumes that `clear()` and a stray `setDelay` are not called. `NeverEarly` needs
  `ClockInv`: the words agree with the instants they denote, the cursor's rank
  `elapsed <= MaxLag` ticks in the past, each task's `wait` ticks away. The readiness
  test is then a comparison of true distances. It assumes `LagBounded`: the clock
  starts, and the cursor's rank gets, no more than `MaxLag` ticks old, and `MaxLag`
  plus any period or delay is less than one turn of the clock. `MCPeriodicWrap.cfg`
  shows that it is needed.

  `DueOrder` is not inductive: it speaks of instants, `sortTask` compares words,
  and neither says what `sortTask` may take for granted. `OrderInv` does. The list
  is in the order of its words, those in front of the cursor are less than the
  cursor's, that is they have wrapped around (`Ordered`); or it is idle and the
  cursor has just started over in front of words that have all wrapped around
  (`Fronted`), a list in which an insertion at the cursor's rank would go to the
  wrong end. `RunBegin`, by taking over the rank of the first task, turns `Fronted`
  into `Ordered` again (`FrontedBegins`) before a body can insert anything: this is
  why calls from the main loop are left out. With no rank before the cursor's, and
  the running task's equal to it, every list operator keeps `Ordered`
  (`UnlinkKeepsOrder`, `SortKeepsOrder`, `AddKeepsOrder`, `AdvanceKeepsOrder`), and
  by `ClockInv` order of visits is order of instants (`VisitedWhenDue`). The
  hypothesis `Punctual` is `LagBounded`, none of the calls `"late"`, `"stray"` and
  `"self"`, and no delay of 0. That last one is no artefact of the proof: the step that
  could not be proved is a counterexample, `MCPeriodicZero.cfg` (section 5).
  `MeetsDeadlines` is the refinement: with `DueOrder` the task `run()` looks at is
  one of those due first, with `ClockInv` its test is the comparison of instants.
* `PeriodicSchedulerProofs`, its tasks: `CallablesAreTasks` and `ObjectsAreHeld`,
  `MacrosPair` and `SleepsAreKept`. Every step of `CallableTask` is one of the scheduler or
  leaves it alone, so that all of the above holds of callables. `ObjectsAreHeld`
  counts the tasks that hold one (`HoldersCount`: storing into one buffer changes
  the count by what is in it before and after; a move is two such changes). The
  macros' steps are the scheduler's, but for `UCOSM_END`, which has a lemma of its
  own (`EndInv`). `SleepsAreKept` says by how much a sleep may be short: by the time
  the body had run when it asked for it, since the code counts from the tick that
  `run()` read before (section 5), and by no more. `SleepInv` says why: a task that is
  to sleep on is linked, and either its body has returned and the period it left
  reaches, from the tick of this `run()`, that far but for `spent`, or its rank does.
* `CFSSchedulerProofs`: `TypeCorrect`, `SharesAreFair` and `LeastIsFirst`. The
  inductive invariant `IInv` says that the list is in the order of its words,
  that the words in front of the cursor, and only those, have wrapped around
  (`Ordered`), and that a task's lead is its word's distance from the cursor's
  and no longer than one body (`Leads`). Words in front of the cursor are less
  than its own, so the distances grow from the cursor on around the list, and
  its neighbour has the least. Each list operator has a lemma on what it does to
  the order (`UnlinkOrder`, `SortTaskOrder`, `AddedListOrder`, ...). The hypothesis
  `SharesBounded`: the longest body at the lowest priority costs less than a turn
  of the counter. It also states that `2^p` grows with `p`, arithmetic that the
  provers lack. In the code's words: `MaxRun * 2^16 < 2^32`, see section 5.
* `RTSchedulerProofs`: `TypeCorrect`, `NoLostWakeUp`, `TimerKeepsScheduler`,
  `InDueOrder` and `StartsOnTime`.
  `Turns` is the invariant: the timer is disabled from `AddCall` to the end of
  `addTask`, a body runs only with the timer running, and, before `AddLink` or
  outside `addTask`, a timer that is stopped means an empty list. `AddLink` opens
  a window in which the list holds a task and the timer is stopped; no interrupt
  can come in it. `run()` stops the timer only on an empty list, which needs the
  shape of the list (`NonEmptyNext`). `Bound` adds who has the timer at each step
  of `setTimer` and the destructor: it runs only for a scheduler that has it.
  `InDueOrder` and `StartsOnTime` hold for any periods, delays and calls as long as
  `undisturbed` holds, that is until one of two things happens: main adds a task
  after the timer has been programmed for a later instant, or a body leaves its own
  task with a delay and a period of 0. Both do break the order (section 5). A body
  may give its own task a delay otherwise; the next start is a period after this one
  then. `Timely` is the invariant: the list is `Ordered`, or `Fronted` with
  `mCounter` ahead of the cursor; while a body runs and between `AddLink` and `AddSort`, `mCounter` is the cursor's
  rank; no task is nearer to the cursor than `mCounter`; and a task starts `ahead`
  of the coming wake-up by the distance of its rank from `mCounter`, or by the delay
  that `AddSort` is about to give it. No bound on periods or delays is needed: the
  RT scheduler has no clock of its own that could run away from its ranks.
* `RTMessageQueueProofs`: `TypeCorrect`, `NoSharedSlot`, `QueueIsChannel` and
  `AnswersWereTrue`, for every ring size and message set. `SlotInv` says that the producer's slot is
  free until it is published, that the consumer's is the first message, and
  that a `clear()` goes no further than the write index; `CopyInv` what each
  side has copied. The refinement maps the channel to the slots from the read
  index on (`Ring`): publishing appends (`SendAppends`), receiving takes the
  head (`ReceiveTakesHead`), clearing drops the messages that were there when it
  read the write index (`JumpDrops`), and a half-written slot is not in it
  (`SlotWriteHidden`). `StatusInv`: between its two
  loads a status function has an index in hand whose distance to the one it is
  about to load was the number of messages at some time since the call began. It
  rests on the asking side's own index standing still.
* `RTSharedVariableProofs`: `TypeCorrect` and `NoUpdateMissed`. `BehindInv` ties
  `mVersion` to the version the reader has and the updates since; `CurrentInv`
  says that without an update, done or on its way, the value is current.
* `RTEventFlagsProofs`: `TypeCorrect` and `NoFlagLost`, inductive together, and
  `AnswersAreTrue`: `WaitInv` says that what the flags hold now is in the history of
  the call, and that a call whose looks are used up has seen them fail.

Only model-checked: the liveness properties (`NoStarvation`, `GoesOn`,
`EmptyTasksLeave`, `TimerStops`, `EveryMessageTaken`, `SettlesOnFinalValue`,
`EventTaken`), since fairness is out of the prover's reach.

## 5. Where the code and its documentation differ

With a run that shows it:

* `sleep_until`: `UCOSM_SLEEP_UNTIL` looks at its condition once after its check
  period and from then on at every `run()`, since it returns behind the
  `setPeriod(0)` of its label. The "timeout at 300ms" of the tests is over
  after 100 ms and a few calls.
* `rt_period`: when main adds a task between two interrupts of a running timer, the
  task gets the rank of the last task that ran, and the others are postponed by the
  distance of the two ranks. The second `addTask` of `tests/rt_test.cpp` does that if
  the timer's thread is quick.
* `shared_variable_pairs`: `loadWithVersion` returns two values for one version,
  between the two accesses of a `store`.
* `event_flags_once`: when the compare-exchange of `waitAndClear` fails while a
  flag is set, the flag is returned without being cleared, and again later.

With a configuration to run by hand (`tlc -config MCPeriodicLate.cfg MCPeriodic`,
and so on; the module of `ResumableTaskSleep.cfg` is `ResumableTask`, that of
`RTSchedulerReadd.cfg` is `RTScheduler`), each of which ends in a counterexample:

* `ResumableTaskSleep.cfg`: `UCOSM_SLEEP_FOR` is to "Wait for specified scheduler
  ticks before continuing" in the README (238), but `run()` adds the period to the
  tick it read before the body (`periodic_scheduler.hpp:79`, `:113`): a body that takes one tick and
  then sleeps for 2 goes on after 1 (`SleepsInFull`). What does hold is in the run
  `resumable`, `SleepsFromRun`.
* `RTSchedulerReadd.cfg`: a body removes its own task, adds it again with a delay
  and calls `setPeriod(0)` on it. If the delayed rank had wrapped around, the task
  stands in front of the cursor, `updateRank` leaves it there, and `run()` visits it
  behind a task that is due later: the order breaks (`RunKeepsOrder`) and the task
  starts late.
* `MCPeriodicSelf.cfg`: the same in the periodic scheduler with `setDelay` by a body on
  its own task and a period of 0: the task is left in front of the cursor and is
  visited behind one that is due later.

* `MCPeriodicLate.cfg`: `sortTask` compares ranks, `run()` distances from the
  cursor's rank. If the main loop calls `setDelay` and then `addTask` around a
  wrap of the clock, a due task is sorted behind one that is not, and the idle
  function runs.
* `MCPeriodicWrap.cfg`: the cursor's rank starts at 0 whatever the clock shows.
  Less than a period before the clock wraps, a task is started over and over.
* `MCPeriodicClear.cfg`: `clear()` never calls `deinit()`.
* `MCPeriodicZero.cfg`: a task whose period has wrapped around stands in front of the
  cursor. If a body that is started exactly on time calls `setDelay(0)` on it, it
  gets the cursor's own rank; `updateRank` moves it past smaller ranks only, so it
  stays in front of the cursor and is visited last, behind tasks due later.

Seen while modelling:

* periodic: `setDelay` by a body on its own task does not delay it, since `run()` sets
  the rank again, though `periodic_scheduler.hpp:50` says "Delay the task."; a
  `run()` nested in a body sets `mCurrentTask` to null under the outer one; the
  destructor of a task that is linked takes it out of the list without `deinit()`
  (`initialised` is about the object: the next one in its place starts as FALSE).
* resumable: a `UCOSM_SLEEP_UNTIL` whose condition holds evaluates it twice when it is
  first reached; `reset()` sets a period but does not sort the task again, so a
  task that is reset sleeps to the end; a sleeping task that is removed and added
  again goes on at once.
* callables: assigning to a callable from inside itself destroys the code that runs.
* CFS: `<<=` drops the high bits of a body of 2^16 ticks or more at priority 16
  (2^30 at 2), so that the longest bodies are charged least.
* RT: a delay that a body gives its own task in `addTask` gives way to its period when
  the body returns; after `rt_period` `mCounter` is ahead of the ranks, so that a removal by
  main can make another task early; the same `addTask`, while ranks have wrapped
  around and the cursor is in front, sorts the new task behind them, almost a turn
  of the counter late; a timer that stops because main removed the last task leaves
  `mCounter` ahead of the cursor, and the delay of the next `addTask` is cut by that
  much; a timer whose `start()` keeps the duration set just before it waits
  `addTask`'s delay twice; `setPeriod(0)` after `addTask` keeps the interrupt on one
  task; an application that calls the timer's `removeTask` itself leaves the
  scheduler with a timer that never calls it.
* queue: it holds `Size - 1` messages though `capacity` is `Size` (the tests know;
  `MessageChannel` has `Capacity <- Size - 1`); `clear()` by the producer can be
  undone by a `tryReceive` it lands in.
* shared variable: `getVersion` is said to count every store
  (`rt_inter_task.hpp:225`) but does not count a store of the same value (`:184`).
* flags: `waitAny` and `waitAll` with a timeout of 0 answer false without a look.

## 6. Plan

Done: the periodic scheduler and its refinement, the RT scheduler with its whole
life, CFS, resumable tasks, callables and the inter-task objects, with proofs of
their safety properties and refinements. In order of importance, what is left:

1. Lemmas that say what `Punctual` leaves out costs: how late a task gets after a
   call from the main loop, and that the list is in order again after it.
2. How long it takes, as a safety property with a counter, where liveness cannot be
   proved: the number of tasks started before one that is due.
3. The pointer-level `updateRank` and list edits, shown to implement the
   operators of `TaskList`; a task moved between two schedulers by its body.

## 7. Not modelled, and why

`list()` and `name()` are output. The examples are usage, partly of macros and
headers that do not exist. `thisTask`, `size`, `setIdleTask`, `isFree`, `getFlags`
and `getPeriod` read or write one word that nothing else depends on. An `init()`
that returns false makes `addTask` change nothing. `IRTTimer::removeTask` called by
the application, two schedulers that contend for one timer, and a `run()` in a
thread beside main are not modelled, nor is a scheduler that is a task of
another one. A task that destroys itself while it runs, and a body that calls
`run()` of its own scheduler, are undefined behaviour at once, or leave
`mCurrentTask` null. The two constructors of `CallableTask` from member functions
wrap a lambda into the one from a callable. Memory orders weaker than
interleaving are not modelled. ulink is external: its operations are the five
list operators of `TaskList` that `map` marks so. The order of a list is modelled,
not its pointers.
