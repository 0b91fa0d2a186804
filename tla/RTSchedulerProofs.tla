-------------------------- MODULE RTSchedulerProofs --------------------------
(***************************************************************************)
(* Theorems of RTScheduler, for any number of tasks, any width of rank_t,  *)
(* any periods and delays: types, the shape of the list, that no wake-up   *)
(* is lost between main and the timer's interrupt, and that tasks stand in *)
(* order and start on time.                                                *)
(***************************************************************************)
EXTENDS RTScheduler, TaskListLemmas

ListShape == IsList(mTasks) /\ IsLinked(mTasks, Cursor)

\* addTask holds the interrupt off from AddCall to its last step; a body runs
\* with the timer running; and whenever main is before AddLink, or outside
\* addTask and the destructor, and no body runs, a stopped timer means an empty list.
Turns ==
  /\ main.at # "idle" => ~Interrupted
  /\ Adding => ~mEnabled /\ main.task \in Task
  /\ ~Adding => mEnabled
  /\ Interrupted => mRunning
  /\ main.at \in {"idle", "guarded", "setTimer"} /\ ~Interrupted /\ ~IsEmpty(mTasks) => mRunning

\* The scheduler and the timer have each other, except while setTimer and the
\* destructor tie and cut the bond; the timer is stopped meanwhile.
Bound ==
  /\ mTimer => mTask
  /\ mTask => mTimer \/ main.at = "setTimer"
  /\ main.at = "setTimer" => ~mTimer /\ mTask
  /\ main.at = "destroy" => ~mRunning
  /\ Adding => mTimer
  /\ mRunning => mTimer

Served == TypeOK /\ ListShape /\ Turns

IInv == Served /\ Bound

-----------------------------------------------------------------------------
(* What run() finds in the list *)

\* Only an empty list has no next task.
LEMMA NonEmptyNext ==
  ASSUME NEW list, IsList(list), IsLinked(list, Cursor), ~IsEmpty(list)
  PROVE  NextTask(list) \in Task
<1>1. Len(list) \in Nat /\ Position(list, Cursor) \in 1 .. Len(list)
  BY PositionOf, LenProperties DEF IsList
<1>2. 1 \in 1 .. Len(list) /\ Len(list) \in 1 .. Len(list)
  BY <1>1
<1>3. PICK i \in {1, Len(list)} : list[i] # Cursor
  BY DEF IsEmpty
<1>4. list[i] \in Task /\ IsLinked(list, list[i])
  BY <1>2, <1>3, ElementOfSeq DEF IsList, Node, IsLinked, Contains
<1> QED BY <1>4, NextExists

LEMMA NextRankWord ==
  ASSUME NEW list, IsList(list), IsLinked(list, Cursor), NEW rank \in [Node -> Rank]
  PROVE  NextRank(list, rank) \in Rank
BY NonEmptyNext, WordsAreIntegers DEF NextRank, Rank, Node

\* A list with a task in it is not empty: the cursor is in it as well.
LEMMA LinkedNotEmpty ==
  ASSUME NEW list, IsList(list), IsLinked(list, Cursor), NEW t \in Task, IsLinked(list, t)
  PROVE  ~IsEmpty(list)
<1> DEFINE c == Position(list, Cursor)
           p == Position(list, t)
<1>1. /\ c \in 1 .. Len(list) /\ list[c] = Cursor
      /\ p \in 1 .. Len(list) /\ list[p] = t /\ Len(list) \in Nat
  BY PositionOf, LenProperties DEF IsList
<1>2. c # p
  BY <1>1, NodeAssumption
<1> HIDE DEF c, p
<1>3. 1 \in 1 .. Len(list) /\ Len(list) \in 1 .. Len(list) /\ Len(list) # 1
  BY <1>1, <1>2
<1> QED BY <1>3 DEF IsEmpty, IsList

\* What a delay does to the ranks and to the list.
LEMMA DelayedList ==
  ASSUME NEW list, IsList(list), IsLinked(list, Cursor), NEW rank \in [Node -> Rank],
         NEW t \in Task, NEW d \in Delays
  PROVE  /\ DelayedRank(rank, t, d) \in [Node -> Rank]
         /\ IsList(Delayed(list, rank, t, d)) /\ IsLinked(Delayed(list, rank, t, d), Cursor)
<1>1. Cursor \in Node /\ t \in Node /\ Cursor # t /\ d \in Rank
  BY NodeAssumption, TickAssumption DEF Node
<1>2. DelayedRank(rank, t, d) \in [Node -> Rank]
  BY <1>1, PlusWord DEF DelayedRank
<1>3. Keeps(list, SortTask(list, DelayedRank(rank, t, d), t), t)
  BY <1>1, <1>2, SortTaskList
<1> QED BY <1>1, <1>2, <1>3 DEF Delayed, Keeps

-----------------------------------------------------------------------------
(* The history and the timer keep their types. *)

LEMMA BehindInteger ==
  ASSUME NEW a \in Int, NEW d \in Int
  PROVE  Behind(a, d) \in Int
BY BoundAssumption DEF Behind

LEMMA ShiftTyped ==
  ASSUME TypeOK, NEW d \in Int, Shift(d)
  PROVE  ahead' \in [Task -> Int]
BY BehindInteger DEF TypeOK, Shift

LEMMA ProgramTyped ==
  ASSUME TypeOK, NEW d \in Rank, Program(d)
  PROVE  due' \in Int /\ mCounter' \in Rank /\ d \in Int
BY PlusWord, WordsAreIntegers DEF TypeOK, Program

-----------------------------------------------------------------------------
LEMMA InitInv == Init => IInv
<1> SUFFICES ASSUME Init PROVE IInv
  OBVIOUS
<1>1. mTasks \in Seq(Node) /\ Len(mTasks) = 1 /\ mTasks[1] = Cursor
  BY DEF Init, Node
<1>2. ListShape
  BY <1>1 DEF ListShape, IsList, IsLinked, Contains
<1>3. 0 \in Rank /\ 0 \in Delays
  BY TickAssumption, WordsAreIntegers DEF Rank
<1>4. /\ main.at = "idle"
      /\ main \in [at : {"idle", "guarded", "linked", "sorted", "setTimer", "destroy"},
                  task : Task \cup {NoTask}, delay : Delays]
  BY <1>3 DEF Init, MainIdle
<1>5. TypeOK
  <2>1. due \in Int /\ ahead \in [Task -> Int] /\ mRank \in [Node -> Rank] /\ mCounter \in Rank
    BY <1>3 DEF Init
  <2> QED BY <1>1, <1>4, <2>1, Zenon DEF Init, TypeOK
<1>6. Turns
  BY <1>1, <1>4 DEF Init, Turns, Adding, Interrupted, IsEmpty
<1>7. Bound
  BY <1>4 DEF Init, Bound, Adding
<1> QED BY <1>2, <1>5, <1>6, <1>7 DEF IInv, Served

\* The steps of addTask.
LEMMA AddInv ==
  ASSUME IInv, AddSteps \/ \E t \in Task, d \in Delays : AddCall(t, d) \/ BodyAdds(t, d)
  PROVE  Served'
<1> USE DEF IInv, Served
<1>0. /\ IsList(mTasks) /\ IsLinked(mTasks, Cursor) /\ Cursor \in Node /\ 0 \in Delays
      /\ mTasks \in Seq(Node) /\ main.delay \in Delays /\ Delays \subseteq Int
  BY TickAssumption, WordsAreIntegers DEF ListShape, Node, TypeOK
<1>1. ASSUME NEW t \in Task, NEW d \in Delays, AddCall(t, d) PROVE Served'
  <2>1. TypeOK' /\ ListShape'
    BY <1>1 DEF AddCall, TypeOK, binding, ListShape, lists, history
  <2>2. Turns'
    BY <1>1 DEF AddCall, Turns, Adding, MainIdle, Interrupted, lists
  <2> QED BY <2>1, <2>2
<1>2. ASSUME NEW t \in Task, NEW d \in Delays, BodyAdds(t, d) PROVE Served'
  <2> DEFINE rank == AddedRank(mRank, t)
             list == AddedList(mTasks, mRank, t)
  <2>1. /\ IsList(list) /\ IsLinked(list, Cursor) /\ rank \in [Node -> Rank]
    BY <1>0, <1>2, AddedListList DEF BodyAdds, Linked, TypeOK
  <2>2. mRank' = DelayedRank(rank, t, d) /\ mTasks' = Delayed(list, rank, t, d)
    BY <1>2 DEF BodyAdds
  <2> HIDE DEF rank, list
  <2>3. ListShape' /\ mRank' \in [Node -> Rank]
    BY <2>1, <2>2, DelayedList DEF ListShape
  <2>4. TypeOK'
    BY <1>0, <1>2, <2>3 DEF BodyAdds, Track, TypeOK, binding, timer, ListShape, IsList
  <2>5. Turns'
    BY <1>2 DEF BodyAdds, Turns, Adding, Interrupted, timer
  <2> QED BY <2>3, <2>4, <2>5
<1>3. CASE AddRefused
  <2>1. main'.at = "idle" /\ main' = MainIdle
    BY <1>3 DEF AddRefused, MainIdle
  <2>2. TypeOK' /\ ListShape'
    BY <1>0, <1>3 DEF AddRefused, MainIdle, TypeOK, binding, ListShape, lists, history
  <2>3. Turns'
    BY <1>3, <2>1 DEF AddRefused, Turns, Adding, Interrupted, lists
  <2> QED BY <2>2, <2>3
<1>4. CASE AddLink
  <2>1. main.task \in Task /\ ~mEnabled /\ ~Interrupted
    BY <1>4 DEF AddLink, Turns, Adding
  <2>2. IsList(mTasks') /\ IsLinked(mTasks', Cursor) /\ mRank' \in [Node -> Rank]
    BY <1>0, <1>4, <2>1, AddedListList DEF AddLink, Linked, TypeOK
  <2>3. main' = [main EXCEPT !.at = "linked"] /\ main'.at = "linked" /\ main'.task = main.task
    BY <1>4 DEF AddLink, TypeOK
  <2>4. undisturbed' \in BOOLEAN /\ tracked' \in SUBSET Task /\ ahead' \in [Task -> Int]
    BY <1>0, <1>4, <2>1 DEF AddLink, Track, TypeOK
  <2>5. TypeOK'
    BY <1>4, <2>2, <2>3, <2>4 DEF AddLink, TypeOK, binding, timer, IsList
  <2>6. Turns'
    BY <1>4, <2>1, <2>3 DEF AddLink, Turns, Adding, Interrupted, timer
  <2> QED BY <2>2, <2>5, <2>6 DEF ListShape
<1>5. CASE AddSort
  <2>1. main.task \in Task /\ ~mEnabled /\ ~Interrupted
    BY <1>5 DEF AddSort, Turns, Adding
  <2>2. IsList(mTasks') /\ IsLinked(mTasks', Cursor) /\ mRank' \in [Node -> Rank]
    BY <1>0, <1>5, <2>1, DelayedList DEF AddSort, TypeOK
  <2>3. main' = [main EXCEPT !.at = "sorted"] /\ main'.at = "sorted" /\ main'.task = main.task
    BY <1>5 DEF AddSort, TypeOK
  <2>4. TypeOK'
    BY <1>5, <2>2, <2>3 DEF AddSort, TypeOK, binding, timer, history, IsList
  <2>5. Turns'
    BY <1>5, <2>1, <2>3 DEF AddSort, Turns, Adding, Interrupted, timer
  <2> QED BY <2>2, <2>4, <2>5 DEF ListShape
<1>6. CASE AddStart
  <2>1. main'.at = "idle" /\ main' = MainIdle
    BY <1>6 DEF AddStart, MainIdle
  <2>2. TypeOK' /\ ListShape'
    BY <1>0, <1>6 DEF AddStart, MainIdle, TypeOK, binding, ListShape, lists, history
  <2>3. Turns'
    BY <1>6, <2>1 DEF AddStart, Turns, Adding, Interrupted, lists
  <2> QED BY <2>2, <2>3
<1> QED BY <1>1, <1>2, <1>3, <1>4, <1>5, <1>6 DEF AddSteps

\* run() before the body, and the calls that do not add tasks.
LEMMA RunBeginInv ==
  ASSUME IInv,
         RunEmpty \/ (\E t \in Task : RunNotReady(t) \/ RunBegin(t) \/ RemoveTask(t))
  PROVE  Served'
<1> USE DEF IInv, Served
<1>0. IsList(mTasks) /\ IsLinked(mTasks, Cursor) /\ Cursor \in Node /\ Task \subseteq Node
  BY DEF ListShape, Node
<1>1. CASE RunEmpty
  <2>1. IsEmpty(mTasks)
    BY <1>0, <1>1, NonEmptyNext, NodeAssumption DEF RunEmpty
  <2>2. TypeOK' /\ ListShape'
    <3>1. due' \in Int
      BY <1>1 DEF RunEmpty, Stop
    <3> QED BY <1>1, <3>1, Zenon DEF RunEmpty, Stop, TypeOK, binding, ListShape, lists, history
  <2>3. Turns'
    BY <1>1, <2>1 DEF RunEmpty, Fires, Stop, Turns, Adding, Interrupted, lists
  <2> QED BY <2>2, <2>3
<1>2. ASSUME NEW t \in Task, RunNotReady(t) PROVE Served'
  <2> DEFINE d == Minus(mRank[t], mCounter)
  <2>1. d \in Rank
    BY <1>0, MinusWord DEF TypeOK
  <2>2. Program(d) /\ Shift(d)
    BY <1>2 DEF RunNotReady
  <2> HIDE DEF d
  <2>3. due' \in Int /\ mCounter' \in Rank /\ ahead' \in [Task -> Int]
    BY <2>1, <2>2, ProgramTyped, ShiftTyped
  <2>4. ListShape'
    BY <1>0, <1>2, AdvanceCursorList DEF RunNotReady, ListShape
  <2>5. TypeOK'
    BY <1>2, <2>2, <2>3, <2>4 DEF RunNotReady, Program, TypeOK, binding, ListShape, IsList
  <2>6. Turns'
    BY <1>2, <2>2 DEF RunNotReady, Fires, Program, Turns, Adding, Interrupted
  <2> QED BY <2>4, <2>5, <2>6
<1>3. ASSUME NEW t \in Task, RunBegin(t) PROVE Served'
  <2>1. ListShape' /\ mRank' \in [Node -> Rank]
    BY <1>0, <1>3, AdvanceCursorList DEF RunBegin, ListShape, TypeOK
  <2>2. TypeOK'
    BY <1>3, <2>1 DEF RunBegin, TypeOK, binding, ListShape, IsList, timer, history
  <2>3. Turns'
    BY <1>3 DEF RunBegin, Fires, Turns, Adding, Bound, Interrupted, timer, TypeOK
  <2> QED BY <2>1, <2>2, <2>3
<1>4. ASSUME NEW t \in Task, RemoveTask(t) PROVE Served'
  <2>1. ListShape'
    BY <1>0, <1>4, UnlinkList, NodeAssumption DEF RemoveTask, ListShape
  <2>2. TypeOK'
    BY <1>4, <2>1 DEF RemoveTask, Untrack, TypeOK, binding, ListShape, IsList, timer
  <2>3. ~IsEmpty(mTasks)
    BY <1>0, <1>4, LinkedNotEmpty DEF RemoveTask, Linked
  <2>4. Turns'
    BY <1>4, <2>3 DEF RemoveTask, Turns, Adding, Interrupted, timer
  <2> QED BY <2>1, <2>2, <2>4
<1> QED BY <1>1, <1>2, <1>3, <1>4

\* run() after the body.
LEMMA RunEndInv ==
  ASSUME IInv, NEW t \in Task, RunEndLinked(t) \/ RunEndUnlinked(t) \/ RunEndEmpty(t)
  PROVE  Served'
<1> USE DEF IInv, Served
<1>0. /\ IsList(mTasks) /\ IsLinked(mTasks, Cursor) /\ Cursor \in Node /\ t \in Node
      /\ t # NoTask /\ Cursor # t
  BY NodeAssumption DEF ListShape, Node
<1>1. mCurrentTask = t /\ Interrupted /\ main.at = "idle" /\ mEnabled /\ mRunning
  BY <1>0 DEF RunEndLinked, RunEndUnlinked, RunEndEmpty, Interrupted, Turns, Adding, TypeOK
<1>2. CASE RunEndLinked(t)
  <2> DEFINE rank == [mRank EXCEPT ![t] = Plus(mRank[Cursor], mPeriod[t])]
             list == SortTask(mTasks, rank, t)
             d    == Minus(NextRank(list, rank), mRank[Cursor])
  <2>1. mPeriod[t] \in Rank /\ mPeriod[t] \in Int
    BY TickAssumption, WordsAreIntegers DEF TypeOK
  <2>2. rank \in [Node -> Rank]
    BY <1>0, <2>1, PlusWord DEF TypeOK
  <2>3. mRank' = rank /\ mTasks' = list /\ Program(d) /\ tracked' = tracked \cup {t}
        /\ ahead' = [u \in Task |->
              IF u = t THEN Behind(mPeriod[t], d)
              ELSE IF u \in tracked THEN Behind(ahead[u], d) ELSE 0]
    BY <1>2 DEF RunEndLinked
  <2> HIDE DEF rank
  <2>4. Keeps(mTasks, list, t)
    BY <1>0, <2>2, SortTaskList
  <2> HIDE DEF list
  <2>5. IsList(list) /\ IsLinked(list, Cursor)
    BY <1>0, <2>4 DEF Keeps
  <2>6. d \in Rank
    BY <1>0, <2>2, <2>5, NextRankWord, MinusWord DEF TypeOK
  <2> HIDE DEF d
  <2>7. due' \in Int /\ mCounter' \in Rank /\ d \in Int
    BY <2>3, <2>6, ProgramTyped
  <2>8. ahead' \in [Task -> Int]
    BY <2>1, <2>3, <2>7, BehindInteger DEF TypeOK
  <2>9. TypeOK'
    BY <1>2, <2>2, <2>3, <2>5, <2>7, <2>8 DEF RunEndLinked, Program, TypeOK, binding, IsList
  <2>10. Turns'
    BY <1>1, <1>2, <2>3 DEF RunEndLinked, Program, Turns, Adding, Interrupted
  <2> QED BY <2>3, <2>5, <2>9, <2>10 DEF ListShape
<1>3. CASE RunEndUnlinked(t)
  <2> DEFINE d == Minus(NextRank(mTasks, mRank), mRank[Cursor])
  <2>1. d \in Rank
    BY <1>0, NextRankWord, MinusWord DEF TypeOK
  <2>2. Program(d) /\ Shift(d)
    BY <1>3 DEF RunEndUnlinked
  <2> HIDE DEF d
  <2>3. due' \in Int /\ mCounter' \in Rank /\ d \in Int
    BY <2>1, <2>2, ProgramTyped
  <2>4. ahead' \in [Task -> Int]
    BY <2>2, <2>3, ShiftTyped
  <2>5. TypeOK' /\ ListShape'
    BY <1>3, <2>2, <2>3, <2>4 DEF RunEndUnlinked, Program, TypeOK, binding, ListShape, lists
  <2>6. Turns'
    BY <1>1, <1>3, <2>2 DEF RunEndUnlinked, Program, Turns, Adding, Interrupted, lists
  <2> QED BY <2>5, <2>6
<1>4. CASE RunEndEmpty(t)
  <2>1. TypeOK' /\ ListShape'
    <3>1. due' \in Int
      BY <1>4 DEF RunEndEmpty, Stop
    <3> QED BY <1>4, <3>1, Zenon DEF RunEndEmpty, Stop, TypeOK, binding, ListShape, lists, history
  <2>2. Turns'
    BY <1>1, <1>4 DEF RunEndEmpty, Stop, Turns, Adding, Interrupted, lists
  <2> QED BY <2>1, <2>2
<1> QED BY <1>2, <1>3, <1>4

\* setTimer and the destructor.
LEMMA LifeInv ==
  ASSUME IInv, SetTask \/ DestroyStop \/ LifeSteps
  PROVE  Served'
<1> USE DEF IInv, Served
<1>0. 0 \in Rank /\ 0 \in Delays /\ Cursor \in Node
  BY TickAssumption, WordsAreIntegers DEF Rank, Node
<1>1. CASE SetTask
  <2>1. TypeOK' /\ ListShape'
    BY <1>0, <1>1 DEF SetTask, MainIdle, TypeOK, ListShape, lists, timer, history
  <2>2. Turns'
    BY <1>1 DEF SetTask, MainIdle, Turns, Adding, Interrupted, lists, timer
  <2> QED BY <2>1, <2>2
<1>2. CASE SetTimer
  <2>1. TypeOK' /\ ListShape'
    BY <1>0, <1>2 DEF SetTimer, MainIdle, TypeOK, ListShape, lists, timer, history
  <2>2. Turns'
    BY <1>2 DEF SetTimer, MainIdle, Turns, Adding, Interrupted, lists, timer
  <2> QED BY <2>1, <2>2
<1>3. CASE DestroyStop
  <2>1. /\ main' \in [at : {"idle", "guarded", "linked", "sorted", "setTimer", "destroy"},
                       task : Task \cup {NoTask}, delay : Delays]
        /\ due' \in Int
    BY <1>0, <1>3 DEF DestroyStop, Stop, MainIdle
  <2>2. UNCHANGED <<mTasks, mRank, mPeriod, mCurrentTask, mCounter, mTimer, mTask, mEnabled,
                    ahead, tracked, undisturbed>>
    BY <1>3 DEF DestroyStop, Stop, lists, binding, history
  <2>3. TypeOK' /\ ListShape'
    BY <1>3, <2>1, <2>2, Zenon DEF DestroyStop, Stop, TypeOK, ListShape
  <2>4. Turns'
    BY <1>3 DEF DestroyStop, Stop, MainIdle, Turns, Adding, Interrupted
  <2> QED BY <2>3, <2>4
<1>4. CASE DestroyRelease
  <2>1. mTasks' \in Seq(Node) /\ Len(mTasks') = 1 /\ mTasks'[1] = Cursor
    BY <1>0, <1>4 DEF DestroyRelease, NewScheduler
  <2>2. ListShape'
    BY <2>1 DEF ListShape, IsList, IsLinked, Contains
  <2>3. mRank' \in [Node -> Rank]
    BY <1>0, <1>4 DEF DestroyRelease, NewScheduler, TypeOK
  <2>4. TypeOK'
    <3>1. /\ main' \in [at : {"idle", "guarded", "linked", "sorted", "setTimer", "destroy"},
                         task : Task \cup {NoTask}, delay : Delays]
          /\ ahead' \in [Task -> Int] /\ mCounter' \in Rank
      BY <1>0, <1>4 DEF DestroyRelease, NewScheduler, MainIdle
    <3>2. tracked' \in SUBSET Task /\ mTimer' \in BOOLEAN /\ mTask' \in BOOLEAN
          /\ undisturbed' \in BOOLEAN
      BY <1>4 DEF DestroyRelease, NewScheduler
    <3>3. UNCHANGED <<mPeriod, mCurrentTask, mRunning, mEnabled, due>>
      BY <1>4 DEF DestroyRelease, timer
    <3> QED BY <2>1, <2>3, <3>1, <3>2, <3>3, Zenon DEF TypeOK
  <2>5. Turns'
    BY <1>4, <2>1 DEF DestroyRelease, NewScheduler, MainIdle, Turns, Adding, Interrupted,
                      IsEmpty, timer
  <2> QED BY <2>2, <2>4, <2>5
<1> QED BY <1>1, <1>2, <1>3, <1>4 DEF LifeSteps

\* Who has whom changes in setTimer and the destructor alone; addTask starts
\* the timer of a scheduler that has it.
LEMMA BoundInv ==
  ASSUME IInv, [Next]_vars
  PROVE  Bound'
<1> USE DEF IInv, Bound
<1>0. main.at \in {"idle", "guarded", "linked", "sorted", "setTimer", "destroy"}
  BY DEF Served, TypeOK
<1>1. CASE SetTask \/ DestroyStop \/ LifeSteps
  BY <1>1 DEF SetTask, DestroyStop, LifeSteps, SetTimer, DestroyRelease, NewScheduler, Stop,
              MainIdle, Adding, timer, binding
<1>2. CASE AddSteps
  <2>1. main' = MainIdle \/ main' = [main EXCEPT !.at = "linked"]
        \/ main' = [main EXCEPT !.at = "sorted"]
    BY <1>2 DEF AddSteps, AddRefused, AddLink, AddSort, AddStart
  <2>2. Adding /\ binding' = binding /\ main'.at \in {"idle", "linked", "sorted"}
    BY <1>2, <2>1 DEF AddSteps, AddRefused, AddLink, AddSort, AddStart, Adding, binding,
                      MainIdle, Served, TypeOK
  <2> QED BY <2>2 DEF Adding, binding
<1>3. CASE Call
  BY <1>3 DEF Call, AddCall, BodyAdds, Accepts, RemoveTask, Clear, SetPeriod, MainIdle,
              Adding, binding, timer
<1>4. CASE Run
  <2>1. CASE RunEmpty
    BY <2>1 DEF RunEmpty, Stop, Adding, binding
  <2>2. ASSUME NEW t \in Task, RunNotReady(t) \/ RunEndUnlinked(t) PROVE Bound'
    BY <2>2 DEF RunNotReady, RunEndUnlinked, Program, Adding, binding
  <2>3. ASSUME NEW t \in Task, RunBegin(t) PROVE Bound'
    BY <2>3 DEF RunBegin, Adding, binding, timer
  <2>4. ASSUME NEW t \in Task, RunEndLinked(t) PROVE Bound'
    BY <2>4 DEF RunEndLinked, Program, Adding, binding
  <2>5. ASSUME NEW t \in Task, RunEndEmpty(t) PROVE Bound'
    BY <2>5 DEF RunEndEmpty, Stop, Adding, binding
  <2> QED BY <1>4, <2>1, <2>2, <2>3, <2>4, <2>5 DEF Run
<1>5. CASE Tick
  BY <1>5 DEF Tick, Adding, binding
<1>6. CASE UNCHANGED vars
  BY <1>6 DEF vars, Adding, binding, timer
<1> QED BY <1>1, <1>2, <1>3, <1>4, <1>5, <1>6 DEF Next

LEMMA NextInv == IInv /\ [Next]_vars => IInv'
<1> SUFFICES ASSUME IInv, [Next]_vars PROVE IInv'
  OBVIOUS
<1>1. ASSUME NEW t \in Task, NEW p \in Periods, SetPeriod(t, p) PROVE Served'
  BY <1>1 DEF SetPeriod, IInv, Served, TypeOK, binding, ListShape, Turns, Adding,
              Interrupted, lists, timer, history
<1>2. ASSUME Tick PROVE Served'
  BY <1>2 DEF Tick, IInv, Served, TypeOK, binding, ListShape, Turns, Adding,
              Interrupted, lists, history
<1>3. ASSUME Clear PROVE Served'
  <2>1. mTasks' \in Seq(Node) /\ Len(mTasks') = 1 /\ mTasks'[1] = Cursor
    BY <1>3 DEF Clear, Node
  <2>2. ListShape'
    BY <2>1 DEF ListShape, IsList, IsLinked, Contains
  <2>3. TypeOK'
    BY <1>3, <2>1 DEF Clear, IInv, Served, TypeOK, binding, timer
  <2>4. Turns'
    BY <1>3, <2>1 DEF Clear, IInv, Served, Turns, Adding, Interrupted, IsEmpty, timer
  <2> QED BY <2>2, <2>3, <2>4 DEF Served
<1>4. ASSUME UNCHANGED vars PROVE Served'
  BY <1>4 DEF vars, IInv, Served, TypeOK, binding, ListShape, Turns, Adding,
              Interrupted, lists, timer, history
<1> QED BY <1>1, <1>2, <1>3, <1>4, LifeInv, AddInv, RunBeginInv, RunEndInv, BoundInv
        DEF Next, Call, Run, IInv

THEOREM InvHolds == Spec => []IInv
BY InitInv, NextInv, PTL DEF Spec

\* Every variable of the scheduler, of its timer and of addTask keeps its type,
\* whatever main and the bodies call and whenever the interrupt comes.
THEOREM TypeCorrect == Spec => []TypeOK
BY InvHolds, PTL DEF IInv, Served

\* No wake-up is lost: outside addTask and run() the timer runs, enabled, as
\* long as the list holds a task.
THEOREM NoLostWakeUp == Spec => []TimerServes
<1>1. IInv => TimerServes
  BY DEF IInv, Served, Turns, Adding, TimerServes, MayCall, MainIdle
<1> QED BY <1>1, InvHolds, PTL

\* No interrupt reaches a scheduler that is gone, or one without its timer,
\* whenever setTimer is called and schedulers are destroyed.
THEOREM TimerKeepsScheduler == Spec => []TimerBound
<1>1. IInv => TimerBound
  BY DEF IInv, Bound, TimerBound
<1> QED BY <1>1, InvHolds, PTL

-----------------------------------------------------------------------------
(* Order and time, as long as main has not disturbed them.                   *)

\* How far a word is ahead of the cursor.
Far(r) == Minus(r, mRank[Cursor])

\* Linked by addTask, which has not yet sorted it by its delay.
Placing(t) == main.at = "linked" /\ t = main.task

\* The list is in order; but when an interrupt has found its task gone, and has
\* moved mCounter on, the cursor may have started over in front of smaller
\* ranks.  While a body runs, and before addTask has sorted a new task, mCounter
\* is the cursor's rank, and so is that of the new task: a delay of 0 leaves it
\* where it is.
InOrder ==
  /\ Ordered(mTasks, mRank) \/ (mCounter # mRank[Cursor] /\ Fronted(mTasks, mRank))
  /\ Interrupted \/ main.at = "linked" => mCounter = mRank[Cursor]
  /\ main.at = "linked" => Linked(main.task) /\ mRank[main.task] = mRank[Cursor]

\* mCounter, the instant of the wake-up, is not beyond any task's rank; the rank
\* of a task is as far beyond mCounter as its start is beyond the wake-up.
Paced ==
  /\ \A t \in Task : Linked(t) => Far(mCounter) <= Far(mRank[t])
  /\ \A t \in tracked :
       /\ Linked(t)
       /\ ahead[t] = IF Placing(t) THEN main.delay ELSE Far(mRank[t]) - Far(mCounter)

Timely == undisturbed => InOrder /\ Paced

\* What the proofs below need to know of a state.
LEMMA Known ==
  ASSUME IInv
  PROVE  /\ IsList(mTasks) /\ IsLinked(mTasks, Cursor)
         /\ Cursor \in Node /\ Task \subseteq Node /\ Cursor \notin Task /\ NoTask \notin Task
         /\ mRank \in [Node -> Rank] /\ mCounter \in Rank /\ ahead \in [Task -> Int]
         /\ tracked \subseteq Task /\ mPeriod \in [Task -> Rank]
         /\ mCurrentTask \in Task \cup {NoTask}
         /\ (Interrupted => main.at = "idle") /\ (Adding => main.task \in Task)
         /\ main.delay \in Rank /\ Delays \subseteq Rank
         /\ \A r \in Rank : Far(r) \in Rank /\ Far(r) \in Int /\ 0 <= Far(r)
<1>1. Delays \subseteq Rank /\ Periods \subseteq Rank
  BY TickAssumption
<1>2. mRank[Cursor] \in Rank /\ Cursor \in Node
  BY DEF IInv, Served, TypeOK, Node
<1>3. \A r \in Rank : Far(r) \in Rank /\ Far(r) \in Int /\ 0 <= Far(r)
  BY <1>2, MinusWord, WordsAreIntegers DEF Far
<1> QED BY <1>1, <1>2, <1>3, NodeAssumption
        DEF IInv, Served, ListShape, Turns, TypeOK, Node, Interrupted

\* The history counts a wake-up that stays ahead of a start exactly.
LEMMA BehindExact ==
  ASSUME NEW a \in Int, NEW d \in Int, d <= a
  PROVE  Behind(a, d) = a - d
BY BoundAssumption DEF Behind

\* A wake-up programmed for the nearest task.
LEMMA ProgramKeepsPace ==
  ASSUME IInv, InOrder, Paced, main.at # "linked",
         NEW t \in Task, Linked(t), \A u \in Task : Linked(u) => Far(mRank[t]) <= Far(mRank[u]),
         NEW d, d = Minus(mRank[t], mCounter), Program(d), Shift(d),
         UNCHANGED <<mRank, main, tracked>>, \A u \in Task : Linked(u)' <=> Linked(u)
  PROVE  mCounter' = mRank[t] /\ Paced'
<1> USE Known
<1>1. mRank[t] \in Rank /\ mRank[Cursor] \in Rank
  OBVIOUS
<1>2. d = Far(mRank[t]) - Far(mCounter) /\ d \in Int
  BY <1>1, DistanceBetween, MinusWord, WordsAreIntegers DEF Paced, Far
<1>3. mCounter' = mRank[t]
  BY <1>1, PlusDistance DEF Program
<1>4. ASSUME NEW u \in tracked
      PROVE  Linked(u)' /\ ~Placing(u)' /\ ahead'[u] = (Far(mRank[u]) - Far(mCounter))'
  <2>1. u \in Task /\ Linked(u) /\ ahead[u] = Far(mRank[u]) - Far(mCounter)
    BY DEF Paced, Placing
  <2>2. /\ Far(mRank[u]) \in Int /\ Far(mRank[t]) \in Int /\ Far(mCounter) \in Int
        /\ Far(mRank[t]) <= Far(mRank[u])
    BY <1>1, <2>1
  <2>3. d <= ahead[u] /\ ahead[u] \in Int
    BY <1>2, <2>1, <2>2
  <2>4. ahead'[u] = ahead[u] - d
    BY <1>2, <2>1, <2>3, BehindExact DEF Shift
  <2>5. (Far(mRank[u]) - Far(mCounter))' = Far(mRank[u]) - Far(mRank[t])
    BY <1>3 DEF Far
  <2>6. ahead'[u] = (Far(mRank[u]) - Far(mCounter))'
    BY <1>2, <2>1, <2>2, <2>4, <2>5
  <2> QED BY <2>1, <2>6 DEF Placing
<1>5. (\A u \in Task : Linked(u) => Far(mCounter) <= Far(mRank[u]))'
  BY <1>3 DEF Far
<1> QED BY <1>3, <1>4, <1>5 DEF Paced

\* The interrupt, up to the body: run() starts a task at the instant mCounter
\* stands for, or moves mCounter to the nearest task.
LEMMA BeginTimely ==
  ASSUME IInv, InOrder, Paced, NEW t \in Task, RunNotReady(t) \/ RunBegin(t)
  PROVE  InOrder' /\ Paced'
<1> USE Known
<1>1. /\ ~Interrupted /\ main.at # "linked" /\ main' = main /\ tracked' = tracked
      /\ NextTask(mTasks) = t /\ mTasks' = AdvanceCursor(mTasks)
  BY DEF RunNotReady, RunBegin, Fires, IInv, Served, Turns, Adding, history
<1>2. Linked(t) /\ \A u \in Task : Linked(u)' <=> Linked(u)
  BY <1>1, NextIsFirst, AdvanceCursorList DEF Linked
<1>3. \A u \in Task : Linked(u) => Far(mRank[t]) <= Far(mRank[u])
  BY <1>1, NextIsNearest DEF InOrder, Linked, Far
<1>4. mRank[t] \in Rank /\ mRank[Cursor] \in Rank /\ Far(mCounter) <= Far(mRank[t])
  BY <1>2 DEF Paced
<1>5. CASE RunNotReady(t)
  <2> DEFINE d == Minus(mRank[t], mCounter)
  <2>1. Program(d) /\ Shift(d) /\ mRank' = mRank /\ mCurrentTask' = mCurrentTask
    BY <1>5 DEF RunNotReady
  <2> HIDE DEF d
  <2>2. mCounter' = mRank[t] /\ Paced'
    BY <1>1, <1>2, <1>3, <2>1, ProgramKeepsPace DEF d
  <2>3. Ordered(mTasks', mRank) \/ Fronted(mTasks', mRank)
    BY <1>1, AdvanceKeepsOrder, FrontedStays DEF InOrder
  <2>4. Fronted(mTasks', mRank) => mCounter' # mRank[Cursor]
    BY <1>2, <1>4, <2>2, WordsAreIntegers DEF Fronted, Linked
  <2> QED BY <1>1, <2>1, <2>2, <2>3, <2>4 DEF InOrder, Interrupted
<1>6. CASE RunBegin(t)
  <2>1. /\ Ready(t) /\ mCurrentTask' = t /\ mCounter' = mCounter /\ ahead' = ahead
        /\ mRank' = [mRank EXCEPT ![Cursor] = mRank[t]]
    BY <1>6 DEF RunBegin, history
  <2>2. Far(mCounter) = Far(mRank[t])
    BY <1>4, <2>1 DEF Ready, Far
  <2>3. mCounter = mRank[t]
    BY <1>4, <2>2, PlusDistance DEF Far
  <2>4. mRank'[Cursor] = mRank[t] /\ \A u \in Task : mRank'[u] = mRank[u]
    BY <2>1
  <2>5. Ordered(mTasks', mRank')
    BY <1>1, <2>1, BeginKeepsOrder DEF InOrder
  <2>6. InOrder'
    BY <1>1, <2>1, <2>3, <2>4, <2>5 DEF InOrder
  <2>7. ASSUME NEW u \in Task, Linked(u)
        PROVE  Far(mRank[u])' = Far(mRank[u]) - Far(mRank[t])
    BY <1>3, <1>4, <2>4, <2>7, DistanceBetween DEF Far
  <2>8. Far(mCounter)' = 0
    BY <1>4, <2>1, <2>3, <2>4, NoDistance DEF Far
  <2>9. ASSUME NEW u \in Task, Linked(u)' PROVE Far(mCounter)' <= Far(mRank[u])'
    BY <1>2, <1>3, <1>4, <2>7, <2>8, <2>9
  <2>10. ASSUME NEW u \in tracked
         PROVE  Linked(u)' /\ ~Placing(u)' /\ ahead'[u] = (Far(mRank[u]) - Far(mCounter))'
    <3>1. u \in Task /\ Linked(u) /\ ahead[u] = Far(mRank[u]) - Far(mCounter)
      BY <1>1 DEF Paced, Placing
    <3>2. (Far(mRank[u]) - Far(mCounter))' = Far(mRank[u]) - Far(mRank[t])
      BY <1>4, <2>7, <2>8, <3>1
    <3> QED BY <1>1, <1>2, <2>1, <2>2, <3>1, <3>2 DEF Placing
  <2> QED BY <1>1, <2>6, <2>9, <2>10 DEF Paced
<1> QED BY <1>5, <1>6

\* The interrupt, after the body.
LEMMA EndTimely ==
  ASSUME IInv, InOrder, Paced, undisturbed', NEW t \in Task,
         RunEndLinked(t) \/ RunEndUnlinked(t) \/ RunEndEmpty(t)
  PROVE  InOrder' /\ Paced'
<1> USE Known
<1>1. /\ mCurrentTask = t /\ Interrupted /\ ~Interrupted' /\ main.at # "linked" /\ main' = main
      /\ mCounter = mRank[Cursor] /\ Ordered(mTasks, mRank)
      /\ mRank[Cursor] \in Rank /\ Far(mCounter) = 0
  BY NoDistance DEF RunEndLinked, RunEndUnlinked, RunEndEmpty, Interrupted, InOrder, Far
<1>2. CASE RunEndEmpty(t)
  <2>1. UNCHANGED <<mTasks, mRank, mCounter, ahead, tracked>>
    BY <1>2 DEF RunEndEmpty, Stop, lists, history
  <2> QED BY <1>1, <2>1 DEF InOrder, Paced, Far, Placing, Linked
<1>3. CASE RunEndUnlinked(t)
  <2> DEFINE n == NextTask(mTasks)
             d == Minus(mRank[n], mCounter)
  <2>1. n \in Task /\ NextRank(mTasks, mRank) = mRank[n]
    BY <1>3, NonEmptyNext DEF RunEndUnlinked, NextRank
  <2>2. Program(d) /\ Shift(d) /\ mTasks' = mTasks /\ mRank' = mRank /\ tracked' = tracked
    BY <1>1, <1>3, <2>1 DEF RunEndUnlinked, lists
  <2> HIDE DEF d
  <2>3. Linked(n) /\ \A u \in Task : Linked(u) => Far(mRank[n]) <= Far(mRank[u])
    BY <1>1, <2>1, NextIsFirst, NextIsNearest DEF Linked, Far
  <2> HIDE DEF n
  <2>4. Paced'
    BY <1>1, <2>1, <2>2, <2>3, ProgramKeepsPace DEF d, Linked
  <2> QED BY <1>1, <2>2, <2>4 DEF InOrder
<1>4. CASE RunEndLinked(t)
  <2> DEFINE p == mPeriod[t]
             k == Plus(mRank[Cursor], p)
             n == NextTask(mTasks')
             d == Minus(NextRank(mTasks', mRank'), mRank[Cursor])
  <2>1. p \in Rank /\ p \in Int /\ 0 <= p /\ k \in Rank /\ Far(k) = p
    BY PlusWord, PlusDistance, WordsAreIntegers DEF Far
  <2>2. /\ Linked(t) /\ mRank' = [mRank EXCEPT ![t] = k]
        /\ mTasks' = SortTask(mTasks, mRank', t)
        /\ Program(d) /\ tracked' = tracked \cup {t}
        /\ ahead' = [u \in Task |-> IF u = t THEN Behind(p, d)
                                    ELSE IF u \in tracked THEN Behind(ahead[u], d) ELSE 0]
    BY <1>4 DEF RunEndLinked
  <2> HIDE DEF k, p
  <2>3. mRank' \in [Node -> Rank] /\ mRank'[Cursor] = mRank[Cursor] /\ mRank'[t] = k
        /\ \A u \in Task : u # t => mRank'[u] = mRank[u]
    BY <2>1, <2>2
  <2>4. k # mRank[Cursor] \/ mRank[t] = mRank[Cursor]
    <3>1. p # 0 \/ mRank[t] = mRank[Cursor]
      BY <1>4 DEF RunEndLinked, p
    <3> QED BY <1>1, <2>1, <3>1, NoDistance DEF Far
  <2>5. Ordered(mTasks', mRank')
    BY <1>1, <2>1, <2>2, <2>4, SortKeepsOrder DEF Linked
  <2>6. Keeps(mTasks, mTasks', t)
    BY <2>2, <2>3, SortTaskList
  <2>7. /\ IsList(mTasks') /\ IsLinked(mTasks', Cursor)
        /\ \A u \in Task : Linked(u)' <=> Linked(u)
    BY <2>2, <2>6 DEF Keeps, Linked
  <2>8. ~IsEmpty(mTasks')
    BY <2>2, <2>7, LinkedNotEmpty DEF Linked
  <2>9. n \in Task /\ d = Far(mRank'[n])
    BY <2>7, <2>8, NonEmptyNext DEF NextRank, Far
  <2> HIDE DEF d
  <2>10. ASSUME NEW u \in Task, Linked(u) PROVE d <= Far(mRank'[u])
    BY <2>3, <2>5, <2>7, <2>9, <2>10, NextIsNearest DEF Linked, Far
  <2>11. mRank'[n] \in Rank /\ d \in Int
    BY <2>3, <2>9
  <2> HIDE DEF n
  <2>12. mCounter' = mRank'[n]
    BY <1>1, <2>2, <2>9, <2>11, PlusDistance DEF Program, Far
  <2>13. Far(mCounter)' = d
    BY <2>3, <2>9, <2>12 DEF Far
  <2>14. \A u \in Task : Far(mRank[u])' = Far(mRank'[u])
    BY <2>3 DEF Far
  <2>15. ASSUME NEW u \in tracked' PROVE Linked(u)' /\ ahead'[u] = (Far(mRank[u]) - Far(mCounter))'
    <3>1. u \in Task /\ Linked(u) /\ Linked(u)'
      BY <2>2, <2>7 DEF Paced
    <3>2. d <= Far(mRank'[u]) /\ Far(mRank'[u]) \in Int
      BY <2>3, <2>10, <3>1
    <3>3. CASE u = t
      BY <2>1, <2>2, <2>3, <2>11, <2>13, <2>14, <3>1, <3>2, <3>3, BehindExact
    <3>4. CASE u # t
      <4>1. ahead[u] = Far(mRank'[u])
        <5>1. u \in tracked /\ mRank'[u] = mRank[u]
          BY <2>2, <2>3, <3>1, <3>4
        <5>2. ahead[u] = Far(mRank[u]) - 0
          BY <1>1, <5>1 DEF Paced, Placing
        <5> QED BY <3>2, <5>1, <5>2
      <4> QED BY <2>2, <2>11, <2>13, <2>14, <3>1, <3>2, <3>4, <4>1, BehindExact
    <3> QED BY <3>1, <3>3, <3>4
  <2>16. Paced'
    BY <1>1, <2>7, <2>10, <2>13, <2>14, <2>15 DEF Paced, Placing
  <2> QED BY <1>1, <2>5, <2>16 DEF InOrder
<1> QED BY <1>2, <1>3, <1>4

\* What a delay does to a task that has the cursor's rank: it comes to stand
\* that far from the cursor, and the list stays in order.
LEMMA DelayTimely ==
  ASSUME NEW list, IsList(list), IsLinked(list, Cursor), NEW rank \in [Node -> Rank],
         Ordered(list, rank), NEW t \in Task, IsLinked(list, t), rank[t] = rank[Cursor],
         NEW d \in Rank,
         NEW to, to = DelayedRank(rank, t, d), NEW new, new = Delayed(list, rank, t, d)
  PROVE  /\ Ordered(new, to) /\ IsLinked(new, t)
         /\ \A u \in Task : IsLinked(new, u) <=> IsLinked(list, u)
         /\ to[Cursor] = rank[Cursor] /\ \A u \in Task : u # t => to[u] = rank[u]
         /\ Minus(to[t], rank[Cursor]) = d
         /\ d = 0 => to[t] = rank[Cursor]
<1>0. Cursor \in Node /\ t \in Node /\ Cursor # t /\ rank[Cursor] \in Rank
      /\ 0 \in Rank /\ d \in Int
  BY NodeAssumption, WordsAreIntegers DEF Node, Rank
<1> DEFINE c == rank[Cursor]
           k == Plus(c, d)
<1>1. to = [rank EXCEPT ![t] = k] /\ c \in Rank
  BY <1>0 DEF DelayedRank
<1> HIDE DEF c
<1>10. k \in Rank /\ Minus(k, c) = d
  BY <1>1, PlusWord, PlusDistance
<1>11. d = 0 => k = c
  BY <1>1, PlusWord, WordsAreIntegers
<1> HIDE DEF k
<1>2. /\ to \in [Node -> Rank] /\ to[t] = k
      /\ to[Cursor] = rank[Cursor] /\ \A u \in Task : u # t => to[u] = rank[u]
  BY <1>0, <1>1, <1>10 DEF c
<1>3. Minus(to[t], rank[Cursor]) = d
  BY <1>2, <1>10 DEF c
<1>4. d = 0 => to[t] = rank[Cursor]
  BY <1>2, <1>11 DEF c
<1>5. CASE d = 0
  <2>1. to = rank /\ new = list
    BY <1>0, <1>1, <1>2, <1>4, <1>5 DEF Delayed
  <2> QED BY <1>2, <1>3, <1>4, <2>1
<1>6. CASE d # 0
  <2>1. new = SortTask(list, to, t)
    BY <1>6 DEF Delayed
  <2>2. to[t] # rank[Cursor]
    BY <1>0, <1>3, <1>6, NoDistance
  <2>3. Ordered(new, to)
    <3>1. Ordered(SortTask(list, [rank EXCEPT ![t] = k], t), [rank EXCEPT ![t] = k])
      BY <1>2, <1>10, <2>2, SortKeepsOrder
    <3> QED BY <1>1, <2>1, <3>1
  <2>4. Keeps(list, new, t)
    BY <1>0, <1>2, <2>1, SortTaskList
  <2>5. \A u \in Task : IsLinked(new, u) <=> IsLinked(list, u)
    BY <2>4 DEF Keeps, Node
  <2> QED BY <1>2, <1>3, <1>4, <2>3, <2>5
<1> QED BY <1>5, <1>6

\* addTask links its task at the cursor's rank.
LEMMA LinkTimely ==
  ASSUME IInv, Ordered(mTasks, mRank), NEW t \in Task, ~Linked(t),
         NEW rank, rank = AddedRank(mRank, t), NEW list, list = AddedList(mTasks, mRank, t)
  PROVE  /\ rank \in [Node -> Rank] /\ IsList(list) /\ IsLinked(list, Cursor)
         /\ Ordered(list, rank)
         /\ \A u \in Task : IsLinked(list, u) <=> u = t \/ Linked(u)
         /\ rank[Cursor] = mRank[Cursor] /\ rank[t] = mRank[Cursor]
         /\ \A u \in Task : u # t => rank[u] = mRank[u]
<1> USE Known
<1>1. rank = [mRank EXCEPT ![t] = mRank[Cursor]]
  BY DEF AddedRank
<1>2. Ordered(list, rank)
  BY AddKeepsOrder DEF Linked
<1>3. IsList(list) /\ \A m \in Node : IsLinked(list, m) <=> m = t \/ IsLinked(mTasks, m)
  BY AddedListList DEF Linked
<1> QED BY <1>1, <1>2, <1>3 DEF Linked

\* While the cursor stays at mCounter, a new task's distance is its delay.
LEMMA NewDistance ==
  ASSUME IInv, mCounter = mRank[Cursor], mCounter' = mCounter, mRank'[Cursor] = mRank[Cursor],
         NEW t \in Task, \A u \in Task : u # t => mRank'[u] = mRank[u],
         NEW d \in Rank, Minus(mRank'[t], mRank[Cursor]) = d
  PROVE  /\ Far(mCounter)' = 0 /\ Far(mCounter) = 0 /\ Far(mRank[t])' = d
         /\ \A u \in Task : u # t => Far(mRank[u])' = Far(mRank[u])
         /\ \A u \in Task : Far(mRank[u])' \in Int /\ 0 <= Far(mRank[u])'
<1>1. mRank[Cursor] \in Rank /\ \A u \in Task : Far(mRank[u]) \in Int /\ 0 <= Far(mRank[u])
  BY Known
<1>2. Far(mCounter)' = 0 /\ Far(mCounter) = 0
  BY <1>1, NoDistance DEF Far
<1>3. Far(mRank[t])' = d /\ d \in Int /\ 0 <= d
  BY WordsAreIntegers DEF Far
<1>4. ASSUME NEW u \in Task, u # t PROVE Far(mRank[u])' = Far(mRank[u])
  BY <1>4 DEF Far
<1>5. \A u \in Task : Far(mRank[u])' \in Int /\ 0 <= Far(mRank[u])'
  BY <1>1, <1>3, <1>4
<1> QED BY <1>2, <1>3, <1>4, <1>5

\* The steps of addTask.
LEMMA AddTimely ==
  ASSUME IInv, InOrder, Paced, undisturbed',
         AddSteps \/ \E t \in Task, d \in Delays : AddCall(t, d) \/ BodyAdds(t, d)
  PROVE  InOrder' /\ Paced'
<1> USE Known
<1>0. 0 \in Rank
  BY WordsAreIntegers DEF Rank
<1>1. ASSUME NEW t \in Task, NEW d \in Delays, AddCall(t, d) PROVE InOrder' /\ Paced'
  <2>1. main'.at # "linked" /\ main.at # "linked" /\ ~Interrupted
    BY <1>1 DEF AddCall, MainIdle
  <2> QED BY <1>1, <2>1 DEF AddCall, lists, history, InOrder, Paced, Far, Placing, Linked,
                            Interrupted
<1>2. ASSUME NEW t \in Task, NEW d \in Delays, BodyAdds(t, d) PROVE InOrder' /\ Paced'
  <2> DEFINE rank == AddedRank(mRank, t)
             list == AddedList(mTasks, mRank, t)
  <2>1. /\ Interrupted /\ ~Linked(t)
        /\ mRank' = DelayedRank(rank, t, d) /\ mTasks' = Delayed(list, rank, t, d)
        /\ mCurrentTask' = mCurrentTask /\ mCounter' = mCounter /\ main' = main
        /\ tracked' = tracked \cup {t} /\ ahead' = [ahead EXCEPT ![t] = d]
    BY <1>2 DEF BodyAdds, Track
  <2>2. Ordered(mTasks, mRank) /\ mCounter = mRank[Cursor] /\ main.at # "linked"
    BY <2>1 DEF InOrder
  <2>3. /\ rank \in [Node -> Rank] /\ IsList(list) /\ IsLinked(list, Cursor)
        /\ Ordered(list, rank)
        /\ \A u \in Task : IsLinked(list, u) <=> u = t \/ Linked(u)
        /\ rank[Cursor] = mRank[Cursor] /\ rank[t] = mRank[Cursor]
        /\ \A u \in Task : u # t => rank[u] = mRank[u]
    BY <2>1, <2>2, LinkTimely
  <2> HIDE DEF rank, list
  <2>4. /\ Ordered(mTasks', mRank') /\ IsLinked(mTasks', t)
        /\ \A u \in Task : IsLinked(mTasks', u) <=> IsLinked(list, u)
        /\ mRank'[Cursor] = rank[Cursor] /\ \A u \in Task : u # t => mRank'[u] = rank[u]
        /\ Minus(mRank'[t], rank[Cursor]) = d
        /\ d = 0 => mRank'[t] = rank[Cursor]
    BY <2>1, <2>3, DelayTimely
  <2>5. \A u \in Task : Linked(u)' <=> u = t \/ Linked(u)
    BY <2>3, <2>4 DEF Linked
  <2>6. InOrder'
    BY <2>1, <2>2, <2>3, <2>4, <2>5 DEF InOrder, Interrupted
  <2>7. /\ Far(mCounter)' = 0 /\ Far(mCounter) = 0 /\ Far(mRank[t])' = d
        /\ \A u \in Task : u # t => Far(mRank[u])' = Far(mRank[u])
        /\ \A u \in Task : Far(mRank[u])' \in Int /\ 0 <= Far(mRank[u])'
    BY <2>1, <2>2, <2>3, <2>4, NewDistance
  <2>8. \A u \in Task : Linked(u)' => Far(mCounter)' <= Far(mRank[u])'
    BY <2>7
  <2>9. ASSUME NEW u \in tracked' PROVE Linked(u)' /\ ahead'[u] = (Far(mRank[u]) - Far(mCounter))'
    <3>1. CASE u = t
      BY <2>1, <2>5, <2>7, <3>1
    <3>2. CASE u # t
      BY <2>1, <2>2, <2>5, <2>7, <3>2 DEF Paced, Placing
    <3> QED BY <3>1, <3>2
  <2> QED BY <2>1, <2>2, <2>6, <2>8, <2>9 DEF Paced, Placing
<1>3. CASE AddRefused
  <2>1. main'.at # "linked" /\ main.at # "linked"
    BY <1>3 DEF AddRefused, MainIdle
  <2> QED BY <1>3, <2>1 DEF AddRefused, lists, history, InOrder, Paced, Far, Placing, Linked,
                            Interrupted
<1>4. CASE AddLink
  <2> DEFINE t == main.task
  <2>1. /\ t \in Task /\ ~Linked(t) /\ ~Interrupted /\ main.at = "guarded"
        /\ mRank' = AddedRank(mRank, t) /\ mTasks' = AddedList(mTasks, mRank, t)
        /\ mCurrentTask' = mCurrentTask /\ mCounter' = mCounter /\ mCounter = mRank[Cursor]
        /\ tracked' = tracked \cup {t} /\ ahead' = [ahead EXCEPT ![t] = main.delay]
    BY <1>4 DEF AddLink, Track, Adding
  <2>2. main'.at = "linked" /\ main'.task = t /\ main'.delay = main.delay
    BY <1>4 DEF AddLink, IInv, Served, TypeOK
  <2>3. Ordered(mTasks, mRank)
    BY <2>1 DEF InOrder
  <2> HIDE DEF t
  <2>4. /\ Ordered(mTasks', mRank')
        /\ \A u \in Task : Linked(u)' <=> u = t \/ Linked(u)
        /\ mRank'[Cursor] = mRank[Cursor] /\ mRank'[t] = mRank[Cursor]
        /\ \A u \in Task : u # t => mRank'[u] = mRank[u]
    BY <2>1, <2>3, LinkTimely DEF Linked
  <2>5. InOrder'
    BY <2>1, <2>2, <2>4 DEF InOrder, Interrupted
  <2>6. /\ Far(mCounter)' = 0 /\ Far(mCounter) = 0
        /\ \A u \in Task : u # t => Far(mRank[u])' = Far(mRank[u])
        /\ \A u \in Task : Far(mRank[u])' \in Int /\ 0 <= Far(mRank[u])'
    BY <1>0, <2>1, <2>4, NoDistance, NewDistance
  <2>7. \A u \in Task : Linked(u)' => Far(mCounter)' <= Far(mRank[u])'
    BY <2>6
  <2>8. ASSUME NEW u \in tracked'
        PROVE  Linked(u)' /\ ahead'[u] = IF Placing(u)' THEN main'.delay
                                         ELSE (Far(mRank[u]) - Far(mCounter))'
    <3>1. CASE u = t
      BY <2>1, <2>2, <2>4, <3>1 DEF Placing
    <3>2. CASE u # t
      BY <2>1, <2>2, <2>4, <2>6, <3>2 DEF Paced, Placing
    <3> QED BY <3>1, <3>2
  <2> QED BY <2>5, <2>7, <2>8 DEF Paced
<1>5. ASSUME AddSort, NEW t \in Task, t = main.task, NEW d \in Rank, d = main.delay
      PROVE  InOrder' /\ Paced'
  <2>1. /\ ~Interrupted /\ main.at = "linked"
        /\ mRank' = DelayedRank(mRank, t, d) /\ mTasks' = Delayed(mTasks, mRank, t, d)
        /\ mCurrentTask' = mCurrentTask /\ mCounter' = mCounter
        /\ tracked' = tracked /\ ahead' = ahead
    BY <1>5 DEF AddSort, history
  <2>2. main'.at = "sorted"
    BY <1>5 DEF AddSort, IInv, Served, TypeOK
  <2>3. Ordered(mTasks, mRank) /\ Linked(t) /\ mRank[t] = mRank[Cursor] /\ mCounter = mRank[Cursor]
    BY <1>5, <2>1 DEF InOrder
  <2>9. ASSUME NEW u \in tracked
        PROVE  Linked(u) /\ ahead[u] = IF u = t THEN d ELSE Far(mRank[u]) - Far(mCounter)
    BY <1>5, <2>1 DEF Paced, Placing
  <2>4. /\ Ordered(mTasks', mRank')
        /\ \A u \in Task : Linked(u)' <=> Linked(u)
        /\ mRank'[Cursor] = mRank[Cursor] /\ \A u \in Task : u # t => mRank'[u] = mRank[u]
        /\ Minus(mRank'[t], mRank[Cursor]) = d
    BY <2>1, <2>3, DelayTimely DEF Linked
  <2>5. InOrder'
    BY <2>1, <2>2, <2>4 DEF InOrder, Interrupted
  <2>6. /\ Far(mCounter)' = 0 /\ Far(mCounter) = 0 /\ Far(mRank[t])' = d
        /\ \A u \in Task : u # t => Far(mRank[u])' = Far(mRank[u])
        /\ \A u \in Task : Far(mRank[u])' \in Int /\ 0 <= Far(mRank[u])'
    BY <2>1, <2>3, <2>4, NewDistance
  <2>7. \A u \in Task : Linked(u)' => Far(mCounter)' <= Far(mRank[u])'
    BY <2>6
  <2>8. ASSUME NEW u \in tracked PROVE Linked(u)' /\ ahead'[u] = (Far(mRank[u]) - Far(mCounter))'
    <3>1. CASE u = t
      BY <2>1, <2>4, <2>6, <2>9, <3>1
    <3>2. CASE u # t
      BY <2>1, <2>4, <2>6, <2>9, <3>2
    <3> QED BY <3>1, <3>2
  <2> QED BY <2>1, <2>2, <2>5, <2>7, <2>8 DEF Paced, Placing
<1>6. CASE AddStart
  <2>1. main'.at # "linked" /\ main.at # "linked"
    BY <1>6 DEF AddStart, MainIdle
  <2> QED BY <1>6, <2>1 DEF AddStart, lists, history, InOrder, Paced, Far, Placing, Linked,
                            Interrupted
<1>7. AddSort => main.task \in Task /\ main.delay \in Rank
  BY DEF AddSort, Adding
<1> QED BY <1>1, <1>2, <1>3, <1>4, <1>5, <1>6, <1>7 DEF AddSteps

LEMMA RemoveTimely ==
  ASSUME IInv, InOrder, Paced, NEW t \in Task, RemoveTask(t)
  PROVE  InOrder' /\ Paced'
<1> USE Known
<1>1. /\ mTasks' = Unlink(mTasks, t) /\ mRank' = mRank /\ mCounter' = mCounter
      /\ mCurrentTask' = mCurrentTask /\ main' = main /\ main.at # "linked"
      /\ tracked' = tracked \ {t} /\ ahead' = [ahead EXCEPT ![t] = 0]
  BY DEF RemoveTask, Untrack, MayCall, MainIdle
<1>2. \A u \in Task : Linked(u)' <=> u # t /\ Linked(u)
  BY <1>1, UnlinkList DEF Linked
<1>3. /\ Ordered(mTasks, mRank) => Ordered(mTasks', mRank')
      /\ Fronted(mTasks, mRank) => Fronted(mTasks', mRank')
  BY <1>1, UnlinkKeepsOrder
<1>4. InOrder'
  BY <1>1, <1>2, <1>3 DEF InOrder, Interrupted
<1>5. Paced'
  BY <1>1, <1>2 DEF Paced, Far, Placing
<1> QED BY <1>4, <1>5

\* clear(), and a scheduler that starts from nothing.
LEMMA ClearTimely ==
  ASSUME IInv, (Clear /\ InOrder) \/ DestroyRelease
  PROVE  InOrder' /\ Paced'
<1> USE Known
<1>1. /\ mTasks' = <<Cursor>> /\ mCurrentTask' = mCurrentTask /\ tracked' = {}
      /\ main'.at # "linked"
  BY DEF Clear, DestroyRelease, NewScheduler, MayCall, MainIdle
<1>2. Ordered(mTasks', mRank') /\ \A u \in Task : ~Linked(u)'
  BY <1>1, OnlyCursorOrdered DEF Linked
<1>3. Interrupted => mCounter' = mRank'[Cursor]
  BY DEF Clear, DestroyRelease, NewScheduler, InOrder
<1>4. InOrder'
  BY <1>1, <1>2, <1>3 DEF InOrder, Interrupted
<1> QED BY <1>1, <1>2, <1>4 DEF Paced

LEMMA InitTimely == Init => Timely
<1> SUFFICES ASSUME Init PROVE InOrder /\ Paced
  BY DEF Timely
<1>1. Ordered(mTasks, mRank) /\ \A u \in Task : ~Linked(u)
  BY OnlyCursorOrdered DEF Init, Linked
<1>2. main.at # "linked" /\ ~Interrupted /\ tracked = {}
  BY DEF Init, MainIdle, Interrupted
<1> QED BY <1>1, <1>2 DEF InOrder, Paced

LEMMA NextTimely == IInv /\ Timely /\ [Next]_vars => Timely'
<1> SUFFICES ASSUME IInv, Timely, [Next]_vars, undisturbed' PROVE InOrder' /\ Paced'
  BY DEF Timely
<1>1. CASE DestroyRelease
  BY <1>1, ClearTimely
<1>2. CASE ~DestroyRelease
  <2>1. undisturbed
    BY <1>2 DEF Next, LifeSteps, Call, AddSteps, Run, SetTask, SetTimer, DestroyStop, AddCall,
                BodyAdds, RemoveTask, Clear, SetPeriod, AddRefused, AddLink, AddSort, AddStart,
                RunEmpty, RunNotReady, RunBegin, RunEndLinked, RunEndUnlinked, RunEndEmpty, Tick,
                history, vars
  <2>2. InOrder /\ Paced
    BY <2>1 DEF Timely
  <2>3. ASSUME NEW t \in Task, NEW p \in Periods, SetPeriod(t, p) PROVE InOrder' /\ Paced'
    BY <2>2, <2>3 DEF SetPeriod, lists, history, InOrder, Paced, Far, Placing, Linked, Interrupted
  <2>4. CASE Tick
    BY <2>2, <2>4 DEF Tick, lists, history, InOrder, Paced, Far, Placing, Linked, Interrupted
  <2>5. CASE RunEmpty
    BY <2>2, <2>5 DEF RunEmpty, Stop, lists, history, InOrder, Paced, Far, Placing, Linked,
                      Interrupted
  <2>6. CASE SetTask \/ SetTimer \/ DestroyStop
    <3>1. /\ main.at # "linked" /\ main'.at # "linked"
          /\ UNCHANGED <<mTasks, mRank, mCurrentTask, mCounter, ahead, tracked>>
      <4>1. CASE SetTask
        BY <4>1 DEF SetTask, MainIdle, lists, history
      <4>2. CASE SetTimer
        BY <4>2 DEF SetTimer, MainIdle, lists, history
      <4>3. CASE DestroyStop
        BY <4>3 DEF DestroyStop, Stop, MainIdle, lists, history
      <4> QED BY <2>6, <4>1, <4>2, <4>3
    <3> QED BY <2>2, <3>1 DEF InOrder, Paced, Far, Placing, Linked, Interrupted
  <2>7. CASE UNCHANGED vars
    BY <2>2, <2>7 DEF vars, lists, history, InOrder, Paced, Far, Placing, Linked, Interrupted
  <2> QED BY <1>2, <2>2, <2>3, <2>4, <2>5, <2>6, <2>7, AddTimely, BeginTimely, EndTimely,
             RemoveTimely, ClearTimely
          DEF Next, Call, Run, LifeSteps
<1> QED BY <1>1, <1>2

LEMMA TimelyHolds == Spec => [](IInv /\ Timely)
BY InitInv, NextInv, InitTimely, NextTimely, PTL DEF Spec

\* From the cursor on, around the list, tasks stand in the order of their
\* ranks' distances from the cursor, though sortTask compares the ranks and they
\* wrap around, whatever main and the bodies call, until main adds a task after
\* an interrupt has moved mCounter on, or a body that has added its own task again
\* with a delay returns with a period of 0: there the code breaks the order.
THEOREM InDueOrder == Spec => []DueOrder
<1>1. ASSUME IInv, Timely PROVE DueOrder
  <2> DEFINE v == Visits(mTasks)
  <2>1. \A i \in 1 .. Len(v) :
          /\ v[i] \in Task /\ IsLinked(mTasks, v[i])
          /\ \A j \in 1 .. Len(v) : i < j => VisitedBefore(mTasks, v[i], v[j])
    BY <1>1, Known, VisitsInOrder
  <2> HIDE DEF v
  <2>2. ASSUME undisturbed, NEW i \in 1 .. Len(v), NEW j \in 1 .. Len(v), i < j
        PROVE  Far(mRank[v[i]]) <= Far(mRank[v[j]])
    <3>1. /\ v[i] \in Task /\ IsLinked(mTasks, v[i]) /\ v[j] \in Task /\ IsLinked(mTasks, v[j])
          /\ VisitedBefore(mTasks, v[i], v[j])
      BY <2>1, <2>2
    <3>2. Ordered(mTasks, mRank) \/ Fronted(mTasks, mRank)
      BY <1>1, <2>2 DEF Timely, InOrder
    <3> QED BY <1>1, <3>1, <3>2, Known, OrderedDistance, FrontedDistance DEF Far
  <2> QED BY <2>2 DEF DueOrder, InVisitOrder, Far, v
<1> QED BY <1>1, TimelyHolds, PTL

\* Tasks start at the very wake-up that is theirs, one period after the last one
\* or a delay after they were added, however late interrupts come and bodies
\* end, and whatever main and the bodies call, until one of the two disturbs the
\* order in the ways InDueOrder names.
THEOREM StartsOnTime == Spec => OnTime
<1>1. ASSUME IInv, Timely, [Next]_vars
      PROVE  [\A t \in tracked : Starts(t) /\ undisturbed => ahead[t] = 0]_vars
  <2> SUFFICES ASSUME NEW t \in tracked, Starts(t), undisturbed, ~UNCHANGED vars
               PROVE  ahead[t] = 0
    OBVIOUS
  <2>1. InOrder /\ Paced /\ t \in Task
    BY <1>1, Known DEF Timely
  <2>2. RunBegin(t)
    <3>1. t # NoTask /\ mCurrentTask = NoTask /\ mCurrentTask' = t
      BY <1>1, <2>1, Known DEF Starts
    <3> QED BY <1>1, <3>1 DEF Next, LifeSteps, Call, AddSteps, Run, SetTask, SetTimer, DestroyStop,
              DestroyRelease, AddCall, BodyAdds, RemoveTask, Clear, SetPeriod, AddRefused, AddLink,
              AddSort, AddStart, RunEmpty, RunNotReady, RunBegin, RunEndLinked, RunEndUnlinked,
              RunEndEmpty, Tick
  <2>3. main.at # "linked"
    BY <1>1, <2>2 DEF RunBegin, Fires, IInv, Served, Turns, Adding
  <2>4. Linked(t) /\ ahead[t] = Far(mRank[t]) - Far(mCounter)
    BY <2>1, <2>3 DEF Paced, Placing
  <2>5. Far(mRank[t]) <= Far(mCounter) /\ Far(mCounter) <= Far(mRank[t])
    BY <2>1, <2>2, <2>4 DEF RunBegin, Ready, Far, Paced
  <2>6. Far(mRank[t]) \in Int /\ Far(mCounter) \in Int
    BY <1>1, <2>1, Known
  <2> QED BY <2>4, <2>5, <2>6
<1> QED BY <1>1, TimelyHolds, PTL DEF Spec, OnTime
=============================================================================
