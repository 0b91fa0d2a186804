----------------------- MODULE PeriodicSchedulerProofs -----------------------
(***************************************************************************)
(* Theorems of PeriodicScheduler, for any number of tasks, any width of    *)
(* rank_t, any periods and delays and every kind of call, and of the       *)
(* CallableTask and IResumableTask objects it runs.                        *)
(***************************************************************************)
EXTENDS CallableTask, ResumableTask, TaskListLemmas, FiniteSetTheorems

-----------------------------------------------------------------------------
(* The list stays a list, and words stay words. *)

\* What RunBegin and RunIdle take from the list is a node that is in it.
LEMMA NextTaskLinked ==
  ASSUME NEW list, IsList(list), IsLinked(list, Cursor), NEW t \in Task,
         NextTask(list) = t
  PROVE  IsLinked(list, t)
<1> DEFINE c == Position(list, Cursor)
<1>1. /\ c \in 1 .. Len(list) /\ list[c] = Cursor
      /\ Len(list) \in Nat
  BY PositionOf, LenProperties DEF IsList
<1>2. ~IsEmpty(list)
  BY NodeAssumption DEF NextTask
<1> HIDE DEF c
<1>3. CASE CursorIsLast(list)
  <2>1. list[1] = t /\ 1 \in 1 .. Len(list)
    BY <1>1, <1>2, <1>3 DEF NextTask
  <2> QED BY <2>1 DEF IsLinked, Contains
<1>4. CASE ~CursorIsLast(list)
  <2>1. c # Len(list)
    BY <1>1, <1>4 DEF CursorIsLast
  <2>2. list[c + 1] = t /\ c + 1 \in 1 .. Len(list)
    BY <1>1, <1>2, <1>4, <2>1 DEF NextTask, c
  <2> QED BY <2>2 DEF IsLinked, Contains
<1> QED BY <1>3, <1>4

Shape == TypeOK /\ LinkedOnce

LEMMA ShapeIsList == Shape => IsList(mTasks) /\ IsLinked(mTasks, Cursor) /\ Cursor \in Node
BY DEF Shape, TypeOK, LinkedOnce, IsList, Node

LEMMA InitShape == Init => Shape
<1> SUFFICES ASSUME Init PROVE Shape
  OBVIOUS
<1>1. mTasks \in Seq(Node) /\ Len(mTasks) = 1 /\ mTasks[1] = Cursor
  BY DEF Init, Node
<1>2. LinkedOnce
  BY <1>1 DEF LinkedOnce, IsLinked, Contains
<1>3. 0 \in Rank /\ clock \in Rank /\ elapsed \in Int
  BY TickAssumption, WordsAreIntegers DEF Init, Rank
<1>4. mRank \in [Node -> Rank] /\ wait \in [Task -> Int] /\ initialised \in [Task -> BOOLEAN]
  BY <1>3 DEF Init
<1>5. TypeOK
  BY <1>1, <1>3, <1>4 DEF Init, TypeOK
<1> QED BY <1>2, <1>5 DEF Shape

LEMMA NextShape == Shape /\ [Next]_vars => Shape'
<1> SUFFICES ASSUME Shape, [Next]_vars PROVE Shape'
  OBVIOUS
<1> USE DEF Shape
<1>0. /\ IsList(mTasks) /\ IsLinked(mTasks, Cursor) /\ Cursor \in Node
      /\ Task \subseteq Node /\ Cursor \notin Task
  BY ShapeIsList, NodeAssumption DEF Node
<1>1. ASSUME NEW t \in Task, AddTask(t) PROVE Shape'
  <2>1. /\ IsList(mTasks') /\ IsLinked(mTasks', Cursor)
        /\ mRank' \in [Node -> Rank]
    BY <1>0, <1>1, AddedListList DEF AddTask, Linked, TypeOK
  <2>2. wait' \in [Task -> Int]
    BY <1>1 DEF AddTask, TypeOK
  <2> QED BY <1>1, <2>1, <2>2 DEF AddTask, TypeOK, LinkedOnce, IsList
<1>2. ASSUME NEW t \in Task, RemoveTask(t) PROVE Shape'
  <2>1. IsList(mTasks') /\ IsLinked(mTasks', Cursor)
    BY <1>0, <1>2, UnlinkList DEF RemoveTask
  <2> QED BY <1>2, <2>1 DEF RemoveTask, TypeOK, LinkedOnce, IsList
<1>3. ASSUME NEW t \in Task, Destroy(t) PROVE Shape'
  <2>1. IsList(mTasks') /\ IsLinked(mTasks', Cursor)
    BY <1>0, <1>3, UnlinkList DEF Destroy
  <2>2. mRank' \in [Node -> Rank]
    BY <1>0, <1>3, WordsAreIntegers DEF Destroy, TypeOK, Rank
  <2> QED BY <1>3, <2>1, <2>2 DEF Destroy, TypeOK, LinkedOnce, IsList
<1>4. ASSUME NEW t \in Task, NEW p \in Periods, SetPeriod(t, p) PROVE Shape'
  BY <1>4 DEF SetPeriod, TypeOK, LinkedOnce, history
<1>5. ASSUME NEW t \in Task, NEW d \in Delays, SetDelay(t, d) PROVE Shape'
  <2> DEFINE rank == [mRank EXCEPT ![t] = Plus(clock, d)]
  <2>1. rank \in [Node -> Rank]
    BY <1>0, PlusWord, TickAssumption DEF TypeOK
  <2>2. mRank' = rank /\ mTasks' = SortTask(mTasks, rank, t)
    BY <1>5 DEF SetDelay
  <2> HIDE DEF rank
  <2>3. Keeps(mTasks, mTasks', t)
    BY <1>0, <2>1, <2>2, SortTaskList
  <2>4. IsList(mTasks') /\ IsLinked(mTasks', Cursor)
    BY <1>0, <2>3 DEF Keeps
  <2>5. wait' \in [Task -> Int]
    BY <1>5, TickAssumption, WordsAreIntegers DEF SetDelay, TypeOK
  <2> QED BY <1>5, <2>1, <2>2, <2>4, <2>5 DEF SetDelay, TypeOK, LinkedOnce, IsList
<1>6. CASE Clear
  <2>1. mTasks' \in Seq(Node) /\ Len(mTasks') = 1 /\ mTasks'[1] = Cursor
    BY <1>0, <1>6 DEF Clear
  <2>2. LinkedOnce'
    BY <2>1 DEF LinkedOnce, IsLinked, Contains
  <2> QED BY <1>6, <2>1, <2>2 DEF Clear, TypeOK
<1>7. CASE RunIdle
  <2>1. IsList(mTasks') /\ IsLinked(mTasks', Cursor)
    BY <1>0, <1>7, AdvanceCursorList DEF RunIdle
  <2> QED BY <1>7, <2>1 DEF RunIdle, TypeOK, LinkedOnce, IsList, history
<1>8. ASSUME NEW t \in Task, RunBegin(t) PROVE Shape'
  <2>1. IsList(mTasks') /\ IsLinked(mTasks', Cursor)
    BY <1>0, <1>8, AdvanceCursorList DEF RunBegin
  <2>2. mRank' \in [Node -> Rank] /\ elapsed' \in Int
    BY <1>0, <1>8 DEF RunBegin, TypeOK
  <2> QED BY <1>8, <2>1, <2>2 DEF RunBegin, TypeOK, LinkedOnce, IsList
<1>9. ASSUME NEW t \in Task, RunEnd(t) PROVE Shape'
  <2>1. CASE Linked(t)
    <3> DEFINE rank == [mRank EXCEPT ![t] = Plus(tick, mPeriod[t])]
    <3>1. mPeriod[t] \in Rank /\ tick \in Rank
      BY TickAssumption DEF TypeOK
    <3>2. rank \in [Node -> Rank]
      BY <1>0, <3>1, PlusWord DEF TypeOK
    <3>3. mRank' = rank /\ mTasks' = SortTask(mTasks, rank, t)
      BY <1>9, <2>1 DEF RunEnd
    <3> HIDE DEF rank
    <3>4. Keeps(mTasks, mTasks', t)
      BY <1>0, <3>2, <3>3, SortTaskList
    <3>5. IsList(mTasks') /\ IsLinked(mTasks', Cursor)
      BY <1>0, <3>4 DEF Keeps
    <3>6. wait' \in [Task -> Int]
      <4>1. mPeriod[t] - Minus(clock, tick) \in Int
        BY <3>1, MinusWord, WordsAreIntegers DEF TypeOK
      <4> QED BY <1>9, <2>1, <4>1 DEF RunEnd, TypeOK
    <3> QED BY <1>9, <3>2, <3>3, <3>5, <3>6, WordsAreIntegers
          DEF RunEnd, TypeOK, LinkedOnce, IsList, Rank
  <2>2. CASE ~Linked(t)
    BY <1>9, <2>2, WordsAreIntegers DEF RunEnd, TypeOK, LinkedOnce, Rank
  <2> QED BY <2>1, <2>2
<1>10. CASE Tick
  <2>1. Plus(clock, 1) \in Rank
    <3>1. CASE 1 \in Rank
      BY <3>1, PlusWord DEF TypeOK
    <3>2. CASE 1 \notin Rank
      <4>1. clock = 0 /\ Wrap = 1
        BY <3>2, WordsAreIntegers DEF TypeOK, Rank
      <4> QED BY <4>1, WordOf DEF Plus
    <3> QED BY <3>1, <3>2
  <2> QED BY <1>10, <2>1 DEF Tick, code, TypeOK, LinkedOnce
<1>11. CASE UNCHANGED vars
  BY <1>11 DEF vars, code, history, TypeOK, LinkedOnce
<1> QED BY <1>1, <1>2, <1>3, <1>4, <1>5, <1>6, <1>7, <1>8, <1>9, <1>10, <1>11
      DEF Next, Call, Run

THEOREM ShapeHolds == Spec => []Shape
BY InitShape, NextShape, PTL DEF Spec

\* Every variable of the scheduler keeps its type, whatever the application
\* calls from bodies, from the idle function or from the main loop.
THEOREM TypeCorrect == Spec => []TypeOK
BY ShapeHolds, PTL DEF Shape

\* The intrusive list never links a node twice and never loses the cursor:
\* getNextTask, empty and sortTask may read its ends without a check.
THEOREM NodesLinkedOnce == Spec => []LinkedOnce
BY ShapeHolds, PTL DEF Shape

-----------------------------------------------------------------------------
(* run() is never early. *)

\* The main loop is never so far behind that a period or a delay, counted
\* from the cursor's instant, goes once around the clock.
LagBounded ==
  /\ MaxLate <= MaxLag
  /\ StartTicks \subseteq 0 .. MaxLag
  /\ \A d \in Periods \cup Delays : MaxLag + d < Wrap

\* The instant the rank of a linked task denotes, against its word.
RankMatches(t) ==
  /\ -MaxLag <= wait[t] /\ MaxLag + wait[t] < Wrap
  /\ mRank[t] = (clock + wait[t]) % Wrap

\* Words and instants agree: the rank of the cursor lies elapsed ticks in the
\* past, that of a linked task wait[t] ticks in the future, and a body has
\* not been running for longer than that.
ClockInv ==
  /\ elapsed \in 0 .. MaxLag
  /\ mRank[Cursor] = Minus(clock, elapsed)
  /\ \A t \in Task : Linked(t) => RankMatches(t)
  /\ ~Idle => Minus(clock, tick) <= elapsed

IInv == Shape /\ ClockInv

LEMMA LagIsWord ==
  ASSUME LagBounded
  PROVE  /\ MaxLag \in Rank /\ MaxLag \in Nat /\ MaxLate \in Nat /\ MaxLate <= MaxLag
         /\ 0 .. MaxLag \subseteq Rank
         /\ \A d \in Periods \cup Delays : d \in Rank /\ d \in Nat /\ MaxLag + d < Wrap
<1>1. PICK p \in Periods : TRUE
  BY TickAssumption
<1>2. p \in Rank /\ MaxLag + p < Wrap
  BY TickAssumption DEF LagBounded
<1>3. \A d \in Periods \cup Delays : d \in Rank /\ d \in Nat /\ MaxLag + d < Wrap
  BY TickAssumption, WordsAreIntegers DEF LagBounded, Rank
<1> QED BY <1>2, <1>3, BoundAssumption, WordsAreIntegers DEF LagBounded, Rank

\* The readiness test of run() picks a task that is linked and due.
LEMMA PicksDue ==
  ASSUME LagBounded, IInv, NEW t \in Task, Picks(t)
  PROVE  Linked(t) /\ wait[t] <= 0
<1>1. Linked(t)
  BY NextTaskLinked, ShapeIsList DEF IInv, Picks, Linked
<1>2. clock \in Rank /\ elapsed \in Rank /\ wait[t] \in Int /\ elapsed + wait[t] < Wrap
  <2>1. clock \in Rank /\ wait[t] \in Int
    BY DEF IInv, Shape, TypeOK
  <2>2. elapsed \in 0 .. MaxLag /\ MaxLag + wait[t] < Wrap
    BY <1>1 DEF IInv, ClockInv, RankMatches
  <2>3. elapsed \in Rank
    BY <2>2, LagIsWord
  <2> QED BY <2>1, <2>2, <2>3, LagIsWord, WordsAreIntegers
<1>3. CASE 0 < wait[t]
  <2>1. mRank[Cursor] = Minus(clock, elapsed) /\ mRank[t] = (clock + wait[t]) % Wrap
    BY <1>1 DEF IInv, ClockInv, RankMatches
  <2>2. 0 <= elapsed + wait[t]
    BY <1>2, <1>3, WordsAreIntegers
  <2>3. ~(Minus(clock, mRank[Cursor]) >= Minus(mRank[t], mRank[Cursor]))
    BY <1>2, <1>3, <2>1, <2>2, ReadyIfReached
  <2> QED BY <2>3 DEF Picks
<1> QED BY <1>1, <1>2, <1>3

LEMMA InitClock == LagBounded /\ Init => ClockInv
<1> SUFFICES ASSUME LagBounded, Init PROVE ClockInv
  OBVIOUS
<1>1. clock \in Rank /\ clock \in 0 .. MaxLag /\ Cursor \in Node
  BY LagIsWord DEF Init, LagBounded, Node
<1>2. Minus(clock, elapsed) = 0
  BY <1>1, MinusWord, WordsAreIntegers DEF Init
<1>3. \A t \in Task : ~Linked(t)
  <2>1. Len(mTasks) = 1 /\ mTasks[1] = Cursor
    BY DEF Init
  <2> QED BY <2>1, NodeAssumption DEF Linked, IsLinked, Contains
<1> QED BY <1>1, <1>2, <1>3 DEF Init, ClockInv, Idle

\* The word of a task's next period, counted from the tick run() read.
LEMMA PeriodWord ==
  ASSUME NEW c \in Rank, NEW k \in Rank, NEW p \in Rank
  PROVE  Plus(k, p) = (c + (p - Minus(c, k))) % Wrap
<1>1. CASE k <= c
  <2>1. c + (p - Minus(c, k)) = k + p
    BY <1>1, MinusWord, WordsAreIntegers
  <2> QED BY <2>1 DEF Plus
<1>2. CASE c < k
  <2> DEFINE x == k + p - Wrap
  <2>1. c + (p - Minus(c, k)) = x
    BY <1>2, MinusWord, WordsAreIntegers
  <2>2. x \in Int /\ -Wrap <= x /\ x < Wrap /\ x < 2 * Wrap
    BY WordsAreIntegers
  <2> HIDE DEF x
  <2>3. (x < 0 => x % Wrap = x + Wrap) /\ (0 <= x => x % Wrap = x)
    BY <2>2, WordOf
  <2>4. (x < 0 => k + p < Wrap) /\ (0 <= x => k + p >= Wrap) /\ x + Wrap = k + p
    BY WordsAreIntegers DEF x
  <2>5. Plus(k, p) = x % Wrap
    BY <2>2, <2>3, <2>4, PlusWord, WordsAreIntegers DEF x
  <2> QED BY <2>1, <2>5
<1> QED BY <1>1, <1>2, WordsAreIntegers

LEMMA NextClock == LagBounded /\ IInv /\ [Next]_vars => ClockInv'
<1> SUFFICES ASSUME LagBounded, IInv, [Next]_vars PROVE ClockInv'
  OBVIOUS
<1> USE DEF IInv
<1>0. /\ IsList(mTasks) /\ IsLinked(mTasks, Cursor) /\ Cursor \in Node
      /\ Task \subseteq Node /\ Cursor \notin Task
      /\ TypeOK /\ clock \in Rank /\ clock \in Int
      /\ elapsed \in Int /\ 0 <= elapsed /\ elapsed <= MaxLag
      /\ elapsed \in Rank
  <2>1. /\ IsList(mTasks) /\ IsLinked(mTasks, Cursor) /\ Cursor \in Node
        /\ Task \subseteq Node /\ Cursor \notin Task
    BY ShapeIsList, NodeAssumption DEF Node
  <2>2. TypeOK /\ clock \in Rank /\ elapsed \in 0 .. MaxLag
    BY DEF Shape, TypeOK, ClockInv
  <2>3. elapsed \in Rank
    BY <2>2, LagIsWord
  <2> QED BY <2>1, <2>2, <2>3, LagIsWord, WordsAreIntegers
<1>1. ASSUME NEW t \in Task, AddTask(t) PROVE ClockInv'
  <2>1. \A u \in Task : u # t => (Linked(u)' <=> Linked(u))
    <3>1. mTasks' = AddedList(mTasks, mRank, t) /\ ~IsLinked(mTasks, t) /\ mRank \in [Node -> Rank]
      BY <1>0, <1>1 DEF AddTask, Linked, TypeOK
    <3>2. \A m \in Node : IsLinked(mTasks', m) <=> m = t \/ IsLinked(mTasks, m)
      BY <1>0, <3>1, AddedListList
    <3> QED BY <1>0, <3>2 DEF Linked
  <2>2. mRank' = [mRank EXCEPT ![t] = mRank[Cursor]]
    BY <1>1 DEF AddTask, AddedRank
  <2>3. clock + (-elapsed) = clock - elapsed
    BY <1>0
  <2>4. RankMatches(t)'
    <3>1. wait'[t] = -elapsed /\ clock' = clock /\ mRank'[t] = Minus(clock, elapsed)
      BY <1>0, <1>1, <2>2 DEF AddTask, TypeOK, ClockInv
    <3>2. mRank'[t] = (clock' + wait'[t]) % Wrap
      BY <2>3, <3>1 DEF Minus
    <3> QED BY <1>0, <3>1, <3>2, LagIsWord, WordsAreIntegers DEF RankMatches
  <2>5. \A u \in Task : u # t /\ Linked(u) => RankMatches(u)'
    BY <1>0, <1>1, <2>2 DEF AddTask, TypeOK, ClockInv, RankMatches
  <2> QED BY <1>0, <1>1, <2>1, <2>2, <2>4, <2>5 DEF AddTask, TypeOK, ClockInv, Idle
<1>2. ASSUME NEW t \in Task, RemoveTask(t) PROVE ClockInv'
  <2>1. ~Linked(t)' /\ \A u \in Task : u # t => (Linked(u)' <=> Linked(u))
    BY <1>0, <1>2, UnlinkList DEF RemoveTask, Linked
  <2> QED BY <1>0, <1>2, <2>1 DEF RemoveTask, TypeOK, ClockInv, RankMatches, Idle
<1>3. ASSUME NEW t \in Task, Destroy(t) PROVE ClockInv'
  <2>1. ~Linked(t)' /\ \A u \in Task : u # t => (Linked(u)' <=> Linked(u))
    BY <1>0, <1>3, UnlinkList DEF Destroy, Linked
  <2> QED BY <1>0, <1>3, <2>1 DEF Destroy, TypeOK, ClockInv, RankMatches, Idle
<1>4. ASSUME NEW t \in Task, NEW p \in Periods, SetPeriod(t, p) PROVE ClockInv'
  BY <1>4 DEF SetPeriod, ClockInv, RankMatches, Idle, Linked, history
<1>5. ASSUME NEW t \in Task, NEW d \in Delays, SetDelay(t, d) PROVE ClockInv'
  <2> DEFINE rank == [mRank EXCEPT ![t] = Plus(clock, d)]
  <2>1. mRank' = rank /\ mTasks' = SortTask(mTasks, rank, t) /\ clock' = clock
    BY <1>5 DEF SetDelay
  <2>2. d \in Rank /\ d \in Nat /\ MaxLag + d < Wrap
    BY LagIsWord
  <2>3. rank \in [Node -> Rank]
    BY <1>0, <2>2, PlusWord DEF TypeOK
  <2>4. \A u \in Task : u # t => (Linked(u)' <=> Linked(u))
    <3> HIDE DEF rank
    <3>1. Keeps(mTasks, mTasks', t)
      BY <1>0, <2>1, <2>3, SortTaskList
    <3> QED BY <1>0, <3>1 DEF Keeps, Linked
  <2>5. ASSUME Linked(t)' PROVE RankMatches(t)'
    <3>1. wait'[t] = d /\ mRank'[t] = (clock + d) % Wrap
      BY <1>0, <1>5, <2>1, <2>5 DEF SetDelay, TypeOK, Linked, Plus
    <3> QED BY <2>1, <2>2, <3>1, LagIsWord, WordsAreIntegers DEF RankMatches
  <2>6. \A u \in Task : u # t /\ Linked(u) => RankMatches(u)'
    BY <1>0, <1>5, <2>1 DEF SetDelay, TypeOK, ClockInv, RankMatches
  <2> QED BY <1>0, <1>5, <2>1, <2>4, <2>5, <2>6 DEF SetDelay, TypeOK, ClockInv, Idle
<1>6. CASE Clear
  <2>1. \A u \in Task : ~Linked(u)'
    <3>1. Len(mTasks') = 1 /\ mTasks'[1] = Cursor
      BY <1>6 DEF Clear
    <3> QED BY <1>0, <3>1 DEF Linked, IsLinked, Contains
  <2> QED BY <1>6, <2>1 DEF Clear, ClockInv, Idle
<1>7. CASE RunIdle
  <2>1. \A u \in Task : Linked(u)' <=> Linked(u)
    BY <1>0, <1>7, AdvanceCursorList DEF RunIdle, Linked
  <2> QED BY <1>7, <2>1 DEF RunIdle, ClockInv, RankMatches, Idle, history
<1>8. ASSUME NEW t \in Task, RunBegin(t) PROVE ClockInv'
  <2>1. Linked(t) /\ wait[t] <= 0 /\ RankMatches(t)
    BY <1>8, PicksDue DEF RunBegin, ClockInv
  <2>2. \A u \in Task : Linked(u)' <=> Linked(u)
    BY <1>0, <1>8, AdvanceCursorList DEF RunBegin, Linked
  <2>3. elapsed' = -wait[t] /\ wait[t] \in Int /\ clock' = clock /\ tick' = clock /\ wait' = wait
    BY <1>8 DEF RunBegin, Shape, TypeOK
  <2>4. elapsed' \in 0 .. MaxLag
    BY <2>1, <2>3, LagIsWord DEF RankMatches
  <2>5. mRank' = [mRank EXCEPT ![Cursor] = mRank[t]]
    BY <1>8 DEF RunBegin
  <2>6. mRank'[Cursor] = Minus(clock', elapsed')
    <3>1. clock + wait[t] = clock - (-wait[t])
      BY <1>0, <2>3
    <3>2. mRank'[Cursor] = mRank[t]
      BY <1>0, <2>5 DEF TypeOK
    <3> QED BY <2>1, <2>3, <3>1, <3>2 DEF RankMatches, Minus
  <2>7. \A u \in Task : Linked(u)' => RankMatches(u)'
    BY <1>0, <2>2, <2>3, <2>5 DEF TypeOK, ClockInv, RankMatches
  <2>8. Minus(clock', tick') = 0
    BY <1>0, <2>3, MinusWord
  <2> QED BY <2>4, <2>6, <2>7, <2>8 DEF ClockInv
<1>9. ASSUME NEW t \in Task, RunEnd(t) PROVE ClockInv'
  <2>0. ~Idle /\ tick \in Rank /\ clock' = clock /\ elapsed' = elapsed /\ mCurrentTask' = NoTask
    BY <1>0, <1>9, NodeAssumption DEF RunEnd, Idle, TypeOK
  <2>1. CASE Linked(t)
    <3> DEFINE rank == [mRank EXCEPT ![t] = Plus(tick, mPeriod[t])]
               p == mPeriod[t]
    <3>1. mRank' = rank /\ mTasks' = SortTask(mTasks, rank, t)
          /\ wait' = [wait EXCEPT ![t] = p - Minus(clock, tick)]
      BY <1>9, <2>1 DEF RunEnd
    <3>2. p \in Rank /\ p \in Nat /\ MaxLag + p < Wrap
      BY <1>0, LagIsWord DEF TypeOK
    <3>3. rank \in [Node -> Rank]
      BY <1>0, <2>0, <3>2, PlusWord DEF TypeOK
    <3>4. \A u \in Task : u # t => (Linked(u)' <=> Linked(u))
      <4> HIDE DEF rank
      <4>1. Keeps(mTasks, mTasks', t)
        BY <1>0, <3>1, <3>3, SortTaskList
      <4> QED BY <1>0, <4>1 DEF Keeps, Linked
    <3>5. RankMatches(t)'
      <4> HIDE DEF p
      <4>1. Minus(clock, tick) \in Int /\ 0 <= Minus(clock, tick) /\ Minus(clock, tick) <= MaxLag
        <5>1. Minus(clock, tick) \in Rank /\ Minus(clock, tick) <= elapsed
          BY <1>0, <2>0, MinusWord DEF ClockInv
        <5> DEFINE ran == Minus(clock, tick)
        <5> HIDE DEF ran
        <5>2. ran \in Int /\ 0 <= ran /\ ran <= elapsed
          BY <5>1, WordsAreIntegers DEF ran
        <5>3. ran <= MaxLag
          BY <1>0, <5>2, LagIsWord
        <5> QED BY <5>2, <5>3 DEF ran
      <4>2. wait'[t] = p - Minus(clock, tick) /\ mRank'[t] = Plus(tick, p)
        BY <1>0, <3>1 DEF TypeOK, p
      <4>3. Plus(tick, p) = (clock + (p - Minus(clock, tick))) % Wrap
        BY <1>0, <2>0, <3>2, PeriodWord
      <4>4. mRank'[t] = (clock' + wait'[t]) % Wrap
        BY <2>0, <4>2, <4>3
      <4>5. -MaxLag <= wait'[t] /\ MaxLag + wait'[t] < Wrap
        BY <3>2, <4>1, <4>2, LagIsWord, WordsAreIntegers
      <4> QED BY <4>4, <4>5 DEF RankMatches
    <3>6. \A u \in Task : u # t /\ Linked(u) => RankMatches(u)'
      BY <1>0, <2>0, <3>1 DEF TypeOK, ClockInv, RankMatches
    <3>7. mRank'[Cursor] = mRank[Cursor]
      BY <1>0, <3>1 DEF TypeOK
    <3> QED BY <2>0, <3>4, <3>5, <3>6, <3>7 DEF ClockInv, Idle
  <2>2. CASE ~Linked(t)
    BY <1>9, <2>0, <2>2 DEF RunEnd, ClockInv, RankMatches, Idle, Linked
  <2> QED BY <2>1, <2>2
<1>10. CASE Tick
  <2>1. /\ clock' = Plus(clock, 1) /\ elapsed' = elapsed + 1
        /\ wait' = [u \in Task |-> IF Linked(u) THEN wait[u] - 1 ELSE wait[u]]
        /\ mTasks' = mTasks /\ mRank' = mRank /\ mCurrentTask' = mCurrentTask /\ tick' = tick
    BY <1>10 DEF Tick, code
  <2>2. elapsed + 1 <= MaxLag /\ elapsed' \in 0 .. MaxLag /\ MaxLag < Wrap /\ 1 \in Rank
    BY <1>0, <1>10, LagIsWord, WordsAreIntegers DEF Tick, Rank
  <2>3. Minus(clock', elapsed') = Minus(clock, elapsed)
    <3>1. -elapsed \in Int /\ -Wrap < -elapsed /\ -elapsed < Wrap
      BY <1>0, <2>2, WordsAreIntegers
    <3>2. (Plus(clock, 1) + (-elapsed - 1)) % Wrap = (clock + (-elapsed)) % Wrap
      BY <1>0, <3>1, TickKeepsWord
    <3>3. Plus(clock, 1) + (-elapsed - 1) = Plus(clock, 1) - (elapsed + 1)
          /\ clock + (-elapsed) = clock - elapsed
      BY <1>0, <2>2, PlusWord, WordsAreIntegers
    <3> QED BY <2>1, <3>2, <3>3 DEF Minus
  <2>4. ASSUME NEW u \in Task, Linked(u)' PROVE RankMatches(u)'
    <3>1. Linked(u) /\ RankMatches(u) /\ wait'[u] = wait[u] - 1 /\ wait[u] \in Int
      BY <1>0, <2>1, <2>4 DEF Linked, ClockInv, TypeOK
    <3>2. -Wrap < wait[u] /\ wait[u] < Wrap /\ wait[u] > -MaxLate
      BY <1>0, <1>10, <2>2, <3>1, LagIsWord, WordsAreIntegers DEF RankMatches, Tick
    <3>3. (Plus(clock, 1) + (wait[u] - 1)) % Wrap = (clock + wait[u]) % Wrap
      BY <1>0, <3>1, <3>2, TickKeepsWord
    <3>4. mRank'[u] = (clock' + wait'[u]) % Wrap
      BY <2>1, <3>1, <3>3 DEF RankMatches
    <3>5. -MaxLag <= wait'[u] /\ MaxLag + wait'[u] < Wrap
      BY <3>1, <3>2, LagIsWord, WordsAreIntegers DEF RankMatches
    <3> QED BY <3>4, <3>5 DEF RankMatches
  <2>5. ASSUME ~Idle' PROVE Minus(clock', tick') <= elapsed'
    <3>1. Minus(clock, tick) <= elapsed /\ tick \in Rank
      BY <1>0, <2>1, <2>5 DEF ClockInv, Idle, TypeOK
    <3>2. clock' \in Rank /\ (clock + 1 < Wrap => clock' = clock + 1)
          /\ (clock + 1 >= Wrap => clock' = 0 /\ clock = Wrap - 1)
      BY <1>0, <2>1, <2>2, PlusWord, WordsAreIntegers
    <3>3. /\ clock < tick => Minus(clock, tick) = clock - tick + Wrap
          /\ tick <= clock => Minus(clock, tick) = clock - tick
          /\ clock' < tick => Minus(clock', tick) = clock' - tick + Wrap
          /\ tick <= clock' => Minus(clock', tick) = clock' - tick
      BY <1>0, <3>1, <3>2, MinusWord
    <3> QED BY <1>0, <2>1, <3>1, <3>2, <3>3, WordsAreIntegers
  <2> QED BY <2>1, <2>2, <2>3, <2>4, <2>5 DEF ClockInv
<1>11. CASE UNCHANGED vars
  BY <1>11 DEF vars, code, history, ClockInv, RankMatches, Idle, Linked
<1> QED BY <1>1, <1>2, <1>3, <1>4, <1>5, <1>6, <1>7, <1>8, <1>9, <1>10, <1>11
      DEF Next, Call, Run

\* run() starts no task before the instant its rank was computed for, whatever
\* the application calls, however often clock and ranks wrap around, as long
\* as the main loop is less than a turn of the clock behind.
THEOREM NeverEarly ==
  ASSUME LagBounded
  PROVE  Spec => NotEarly
<1>1. Init => IInv
  BY InitShape, InitClock DEF IInv
<1>2. IInv /\ [Next]_vars => IInv'
  BY NextShape, NextClock DEF IInv
<1>3. IInv /\ [Next]_vars =>
        [\A t \in Task : mCurrentTask # t /\ mCurrentTask' = t => wait[t] <= 0]_vars
  <2> SUFFICES ASSUME IInv, Next, NEW t \in Task, mCurrentTask # t, mCurrentTask' = t
               PROVE  wait[t] <= 0
    BY DEF vars
  <2>1. CASE \E u \in Task : RunBegin(u)
    <3>1. PICK u \in Task : RunBegin(u)
      BY <2>1
    <3>2. u = t /\ Picks(t)
      BY <3>1 DEF RunBegin
    <3> QED BY <3>2, PicksDue
  <2>2. CASE \A u \in Task : ~RunBegin(u)
    <3>1. mCurrentTask' \in {mCurrentTask, NoTask}
      BY <2>2 DEF Next, Call, Run, AddTask, RemoveTask, Destroy, SetPeriod, SetDelay,
                  Clear, RunIdle, RunEnd, Tick, code
    <3> QED BY <3>1, NodeAssumption
  <2> QED BY <2>1, <2>2
<1> QED BY <1>1, <1>2, <1>3, PTL DEF Spec, NotEarly
-----------------------------------------------------------------------------
(* init() and deinit() pair up. *)

LEMMA NextInitialised ==
  ASSUME "clear" \notin Calls, "stray" \notin Calls
  PROVE  Shape /\ InitialisedWhileLinked /\ [Next]_vars => InitialisedWhileLinked'
<1> SUFFICES ASSUME Shape, InitialisedWhileLinked, [Next]_vars
             PROVE  InitialisedWhileLinked'
  OBVIOUS
<1>0. /\ IsList(mTasks) /\ IsLinked(mTasks, Cursor) /\ Cursor \in Node
      /\ Task \subseteq Node /\ Cursor \notin Task
      /\ initialised \in [Task -> BOOLEAN] /\ mRank \in [Node -> Rank]
  BY ShapeIsList, NodeAssumption DEF Node, Shape, TypeOK
<1>1. ASSUME NEW t \in Task, AddTask(t) PROVE InitialisedWhileLinked'
  <2>1. mTasks' = AddedList(mTasks, mRank, t) /\ ~IsLinked(mTasks, t)
    BY <1>1 DEF AddTask, Linked
  <2>2. \A m \in Node : IsLinked(mTasks', m) <=> m = t \/ IsLinked(mTasks, m)
    BY <1>0, <2>1, AddedListList
  <2>3. initialised' = [initialised EXCEPT ![t] = TRUE]
    BY <1>1 DEF AddTask
  <2> QED BY <1>0, <2>2, <2>3 DEF InitialisedWhileLinked, Linked
<1>2. ASSUME NEW t \in Task, RemoveTask(t) \/ Destroy(t) PROVE InitialisedWhileLinked'
  <2>1. mTasks' = Unlink(mTasks, t) /\ initialised' = [initialised EXCEPT ![t] = FALSE]
    BY <1>2 DEF RemoveTask, Destroy
  <2>2. ~Linked(t)' /\ \A u \in Task : u # t => (Linked(u)' <=> Linked(u))
    BY <1>0, <2>1, UnlinkList DEF Linked
  <2> QED BY <1>0, <2>1, <2>2 DEF InitialisedWhileLinked
<1>3. ASSUME NEW t \in Task, NEW k \in Rank, Linked(t),
             mRank' = [mRank EXCEPT ![t] = k], mTasks' = SortTask(mTasks, mRank', t),
             initialised' = initialised
      PROVE  InitialisedWhileLinked'
  <2>1. mRank' \in [Node -> Rank]
    BY <1>0, <1>3
  <2>2. Keeps(mTasks, mTasks', t)
    BY <1>0, <1>3, <2>1, SortTaskList
  <2> QED BY <1>0, <1>3, <2>2 DEF Keeps, InitialisedWhileLinked, Linked
<1>4. ASSUME NEW t \in Task, NEW d \in Delays, SetDelay(t, d) PROVE InitialisedWhileLinked'
  <2>1. Plus(clock, d) \in Rank
    BY PlusWord, TickAssumption DEF Shape, TypeOK
  <2>2. Linked(t)
    BY <1>4 DEF SetDelay
  <2>3. /\ mRank' = [mRank EXCEPT ![t] = Plus(clock, d)]
        /\ mTasks' = SortTask(mTasks, mRank', t)
        /\ initialised' = initialised
    BY <1>4 DEF SetDelay
  <2> QED BY <1>3, <2>1, <2>2, <2>3
<1>5. CASE Clear
  BY <1>5 DEF Clear
<1>6. ASSUME RunIdle \/ \E t \in Task : RunBegin(t) PROVE InitialisedWhileLinked'
  <2>1. mTasks' = AdvanceCursor(mTasks) /\ initialised' = initialised
    BY <1>6 DEF RunIdle, RunBegin
  <2>2. \A u \in Task : Linked(u)' <=> Linked(u)
    BY <1>0, <2>1, AdvanceCursorList DEF Linked
  <2> QED BY <2>1, <2>2 DEF InitialisedWhileLinked
<1>7. ASSUME NEW t \in Task, RunEnd(t) PROVE InitialisedWhileLinked'
  <2>1. CASE Linked(t)
    <3>1. Plus(tick, mPeriod[t]) \in Rank
      BY PlusWord, TickAssumption DEF Shape, TypeOK
    <3>2. /\ mRank' = [mRank EXCEPT ![t] = Plus(tick, mPeriod[t])]
          /\ mTasks' = SortTask(mTasks, mRank', t)
          /\ initialised' = initialised
      BY <1>7, <2>1 DEF RunEnd
    <3> QED BY <1>3, <2>1, <3>1, <3>2
  <2>2. CASE ~Linked(t)
    BY <1>7, <2>2 DEF RunEnd, InitialisedWhileLinked, Linked
  <2> QED BY <2>1, <2>2
<1>8. CASE \/ Tick \/ UNCHANGED vars \/ \E t \in Task, p \in Periods : SetPeriod(t, p)
  BY <1>8 DEF Tick, SetPeriod, vars, code, InitialisedWhileLinked, Linked
<1> QED BY <1>1, <1>2, <1>4, <1>5, <1>6, <1>7, <1>8 DEF Next, Call, Run

\* Whatever bodies and the main loop call, but clear() (which leaves tasks
\* initialised: MCPeriodicClear.cfg) and setDelay on an unlinked task
\* (which links it without init()), a task is initialised exactly while the
\* scheduler holds it.
THEOREM InitPairs ==
  ASSUME "clear" \notin Calls, "stray" \notin Calls
  PROVE  Spec => []InitialisedWhileLinked
<1>1. Init => InitialisedWhileLinked
  BY NodeAssumption DEF Init, InitialisedWhileLinked, Linked, IsLinked, Contains
<1>2. Shape /\ InitialisedWhileLinked /\ [Next]_vars => InitialisedWhileLinked'
  BY NextInitialised
<1> QED BY <1>1, <1>2, ShapeHolds, PTL DEF Spec

-----------------------------------------------------------------------------
(* The list is in the order in which tasks are due. *)

\* What the runs of DueOrder leave out as well.  addTask and setDelay come from
\* bodies or before the first run(): later ones would use a rank as old as the
\* last start (MCPeriodicLate.cfg).  setDelay names a linked task, not that of
\* the running body, and no delay is 0: with a delay of 0 set in the very tick
\* that was due, a task that stands in front of the cursor stays there with the
\* cursor's own rank, and is visited last (MCPeriodicZero.cfg).
Punctual == LagBounded /\ {"late", "stray", "self"} \cap Calls = {} /\ 0 \notin Delays

\* No rank denotes an instant before the cursor's.  The list is in the order of
\* the ranks, those that have wrapped around in front of the cursor; but when
\* run() has called the idle function the cursor may have started over in
\* front of them.  The rank of a task whose body runs is the cursor's.
OrderInv ==
  /\ \A t \in Task : Linked(t) => 0 <= elapsed + wait[t]
  /\ Ordered(mTasks, mRank) \/ (Idle /\ started /\ Fronted(mTasks, mRank))
  /\ ~Idle /\ Linked(mCurrentTask) => mRank[mCurrentTask] = mRank[Cursor]

\* The distances of the words are those of the instants.
LEMMA InstantDistance ==
  ASSUME LagBounded, IInv, NEW w \in Int, 0 <= elapsed + w, MaxLag + w < Wrap
  PROVE  /\ Minus((clock + w) % Wrap, mRank[Cursor]) = elapsed + w
         /\ Minus(clock, mRank[Cursor]) >= Minus((clock + w) % Wrap, mRank[Cursor]) <=> w <= 0
<1>1. clock \in Rank /\ elapsed \in 0 .. MaxLag /\ mRank[Cursor] = Minus(clock, elapsed)
  BY DEF IInv, Shape, TypeOK, ClockInv
<1>2. elapsed \in Rank /\ elapsed + w < Wrap
  BY <1>1, LagIsWord, WordsAreIntegers
<1> QED BY <1>1, <1>2, WordDistance, ReadyIfReached

\* The scheduler comes to the tasks in the order of their instants,
LEMMA VisitedWhenDue ==
  ASSUME LagBounded, IInv, OrderInv, NEW a \in Task, NEW b \in Task, Linked(a), Linked(b),
         VisitedBefore(mTasks, a, b)
  PROVE  wait[a] <= wait[b]
<1>1. IsLinked(mTasks, Cursor) /\ mRank \in [Node -> Rank]
      /\ wait[a] \in Int /\ wait[b] \in Int /\ elapsed \in Int
  BY ShapeIsList DEF IInv, Shape, TypeOK
<1>2. /\ Minus(mRank[a], mRank[Cursor]) = elapsed + wait[a]
      /\ Minus(mRank[b], mRank[Cursor]) = elapsed + wait[b]
  <2>1. RankMatches(a) /\ RankMatches(b) /\ 0 <= elapsed + wait[a] /\ 0 <= elapsed + wait[b]
    BY DEF IInv, ClockInv, OrderInv
  <2> QED BY <1>1, <2>1, InstantDistance DEF RankMatches
<1>3. Minus(mRank[a], mRank[Cursor]) <= Minus(mRank[b], mRank[Cursor])
  BY <1>1, OrderedDistance, FrontedDistance DEF OrderInv, Linked
<1> QED BY <1>1, <1>2, <1>3

\* so that the task run() looks at is due before the others.
LEMMA NextIsDueFirst ==
  ASSUME LagBounded, IInv, OrderInv, NEW t \in Task, NextTask(mTasks) = t,
         NEW u \in Task, Linked(u)
  PROVE  Linked(t) /\ wait[t] <= wait[u]
<1>1. IsList(mTasks) /\ IsLinked(mTasks, Cursor)
  BY ShapeIsList DEF IInv
<1>2. Linked(t)
  BY <1>1, NextIsFirst DEF Linked
<1>3. CASE u = t
  BY <1>2, <1>3 DEF IInv, Shape, TypeOK
<1>4. CASE u # t
  BY <1>1, <1>2, <1>4, NextIsVisitedFirst, VisitedWhenDue DEF Linked
<1> QED BY <1>2, <1>3, <1>4

LEMMA InitOrder == Init => OrderInv
BY OnlyCursorOrdered DEF Init, OrderInv, Linked, Idle

LEMMA NextOrder ==
  ASSUME Punctual, IInv, OrderInv, [Next]_vars
  PROVE  OrderInv'
<1> USE DEF IInv
<1>0. /\ IsList(mTasks) /\ IsLinked(mTasks, Cursor) /\ Cursor \in Node /\ Task \subseteq Node
      /\ Cursor \notin Task /\ NoTask \notin Task /\ TypeOK /\ mRank \in [Node -> Rank]
      /\ elapsed \in 0 .. MaxLag /\ clock \in Rank /\ wait \in [Task -> Int]
      /\ mCurrentTask \in Task \cup {NoTask} /\ LagBounded
  BY ShapeIsList, NodeAssumption DEF Shape, TypeOK, ClockInv, Node, Punctual
<1>1. MayCall => Ordered(mTasks, mRank)
  BY DEF MayCall, Punctual, OrderInv
<1>2. ASSUME NEW t \in Task, AddTask(t) PROVE OrderInv'
  <2>1. Ordered(mTasks', mRank')
    <3>1. Ordered(AddedList(mTasks, mRank, t), AddedRank(mRank, t))
      BY <1>0, <1>1, <1>2, AddKeepsOrder DEF AddTask, Linked
    <3> QED BY <1>2, <3>1 DEF AddTask
  <2>2. \A u \in Task : Linked(u)' => u = t \/ Linked(u)
    <3>1. mTasks' = AddedList(mTasks, mRank, t) /\ ~IsLinked(mTasks, t)
      BY <1>2 DEF AddTask, Linked
    <3> QED BY <1>0, <3>1, AddedListList DEF Linked
  <2>3. /\ mRank' = [mRank EXCEPT ![t] = mRank[Cursor]]
        /\ wait' = [wait EXCEPT ![t] = -elapsed]
        /\ mCurrentTask' = mCurrentTask /\ elapsed' = elapsed
    BY <1>2 DEF AddTask, AddedRank
  <2>4. \A u \in Task : Linked(u)' => 0 <= elapsed' + wait'[u]
    BY <1>0, <2>2, <2>3 DEF OrderInv
  <2> QED BY <1>0, <2>1, <2>2, <2>3, <2>4 DEF OrderInv, Idle
<1>3. ASSUME NEW t \in Task, RemoveTask(t) \/ Destroy(t) PROVE OrderInv'
  <2>1. /\ mTasks' = Unlink(mTasks, t) /\ mCurrentTask' = mCurrentTask
        /\ elapsed' = elapsed /\ started' = started
    BY <1>3 DEF RemoveTask, Destroy
  <2>2. \A m \in Node : m # t => mRank'[m] = mRank[m]
    BY <1>0, <1>3 DEF RemoveTask, Destroy
  <2>3. \A u \in Task : u # t => wait'[u] = wait[u]
    BY <1>0, <1>3 DEF RemoveTask, Destroy
  <2>4. \A u \in Task : Linked(u)' => u # t /\ Linked(u)
    BY <1>0, <2>1, UnlinkList DEF Linked
  <2>5. /\ Ordered(mTasks, mRank) => Ordered(mTasks', mRank')
        /\ Fronted(mTasks, mRank) => Fronted(mTasks', mRank')
    BY <1>0, <2>1, <2>2, UnlinkKeepsOrder
  <2> QED BY <1>0, <2>1, <2>2, <2>3, <2>4, <2>5 DEF OrderInv, Idle
<1>4. CASE Clear
  BY <1>0, <1>4, OnlyCursorOrdered DEF Clear, OrderInv, Linked, Idle
<1>5. ASSUME NEW t \in Task, NEW p \in Periods, SetPeriod(t, p) PROVE OrderInv'
  BY <1>5 DEF SetPeriod, history, OrderInv, Linked, Idle
<1>6. ASSUME NEW t \in Task, NEW d \in Delays, SetDelay(t, d) PROVE OrderInv'
  <2> DEFINE k == Plus(clock, d)
  <2>1. d \in Rank /\ d \in Int /\ 0 < d /\ MaxLag + d < Wrap
    <3>1. d \in Rank /\ d \in Nat /\ MaxLag + d < Wrap
      BY <1>0, LagIsWord
    <3> QED BY <3>1 DEF Punctual
  <2>2. k \in Rank /\ k # mRank[Cursor]
    <3>1. k \in Rank /\ mRank[Cursor] \in Rank
      BY <1>0, <2>1, PlusWord
    <3>2. Minus(k, mRank[Cursor]) = elapsed + d
      BY <1>0, <2>1, InstantDistance DEF Plus
    <3> HIDE DEF k
    <3>3. elapsed + d # 0
      BY <1>0, <2>1
    <3> QED BY <3>1, <3>2, <3>3, NoDistance
  <2>3. /\ MayCall /\ Linked(t) /\ mCurrentTask # t
        /\ mRank' = [mRank EXCEPT ![t] = k]
        /\ mTasks' = SortTask(mTasks, mRank', t)
        /\ mCurrentTask' = mCurrentTask /\ elapsed' = elapsed
    BY <1>6 DEF SetDelay, Punctual
  <2> HIDE DEF k
  <2>4. Ordered(mTasks', mRank')
    BY <1>0, <1>1, <2>2, <2>3, SortKeepsOrder DEF Linked
  <2>5. mRank' \in [Node -> Rank]
    BY <1>0, <2>2, <2>3
  <2>6. Keeps(mTasks, mTasks', t)
    BY <1>0, <2>3, <2>5, SortTaskList
  <2>7. \A u \in Task : Linked(u)' => Linked(u)
    BY <1>0, <2>3, <2>6 DEF Keeps, Linked
  <2>8. \A u \in Task : Linked(u)' => 0 <= elapsed' + wait'[u]
    <3> TAKE u \in Task
    <3>1. CASE u = t
      BY <1>0, <1>6, <2>1, <2>3, <3>1 DEF SetDelay, Linked
    <3>2. CASE u # t
      BY <1>0, <1>6, <2>3, <2>7, <3>2 DEF SetDelay, OrderInv
    <3> QED BY <3>1, <3>2
  <2> QED BY <1>0, <2>3, <2>4, <2>7, <2>8 DEF OrderInv, Idle
<1>7. CASE RunIdle
  <2>1. /\ Idle /\ mTasks' = AdvanceCursor(mTasks) /\ started' /\ mRank' = mRank
        /\ mCurrentTask' = mCurrentTask /\ elapsed' = elapsed /\ wait' = wait
    BY <1>7 DEF RunIdle, history
  <2>2. \A u \in Task : Linked(u)' <=> Linked(u)
    BY <1>0, <2>1, AdvanceCursorList DEF Linked
  <2>3. Ordered(mTasks', mRank') \/ Fronted(mTasks', mRank')
    BY <1>0, <2>1, AdvanceKeepsOrder, FrontedStays DEF OrderInv
  <2> QED BY <2>1, <2>2, <2>3 DEF OrderInv, Idle
<1>8. ASSUME NEW t \in Task, RunBegin(t) PROVE OrderInv'
  <2>1. /\ NextTask(mTasks) = t /\ mTasks' = AdvanceCursor(mTasks)
        /\ mRank' = [mRank EXCEPT ![Cursor] = mRank[t]]
        /\ mCurrentTask' = t /\ elapsed' = -wait[t] /\ wait' = wait
    BY <1>8 DEF RunBegin, Picks
  <2>2. \A u \in Task : Linked(u)' => Linked(u)
    BY <1>0, <2>1, AdvanceCursorList DEF Linked
  <2>3. Ordered(mTasks', mRank')
    BY <1>0, <2>1, BeginKeepsOrder DEF OrderInv
  <2>4. \A u \in Task : Linked(u)' => 0 <= elapsed' + wait'[u]
    BY <1>0, <2>1, <2>2, NextIsDueFirst
  <2>5. mRank'[t] = mRank'[Cursor]
    BY <1>0, <2>1
  <2> QED BY <2>1, <2>3, <2>4, <2>5 DEF OrderInv
<1>9. ASSUME NEW t \in Task, RunEnd(t) PROVE OrderInv'
  <2>0. /\ mCurrentTask = t /\ ~Idle /\ Idle' /\ elapsed' = elapsed /\ tick \in Rank
        /\ Ordered(mTasks, mRank)
    BY <1>0, <1>9 DEF RunEnd, Idle, TypeOK, OrderInv
  <2>1. CASE ~Linked(t)
    BY <1>9, <2>0, <2>1 DEF RunEnd, OrderInv, Linked
  <2>2. CASE Linked(t)
    <3> DEFINE p == mPeriod[t]
               k == Plus(tick, p)
               ran == Minus(clock, tick)
    <3>1. p \in Rank /\ k \in Rank /\ mRank[t] = mRank[Cursor]
      BY <1>0, <2>0, <2>2, LagIsWord, PlusWord DEF TypeOK, OrderInv
    <3>2. /\ mRank' = [mRank EXCEPT ![t] = k]
          /\ mTasks' = SortTask(mTasks, mRank', t)
          /\ wait' = [wait EXCEPT ![t] = p - ran]
      BY <1>9, <2>2 DEF RunEnd
    <3>3. ran \in Rank /\ ran <= elapsed
      BY <1>0, <2>0, MinusWord DEF ClockInv
    <3> HIDE DEF p, k, ran
    <3>4. Ordered(mTasks', mRank')
      BY <1>0, <2>0, <2>2, <3>1, <3>2, SortKeepsOrder DEF Linked
    <3>5. mRank' \in [Node -> Rank]
      BY <1>0, <3>1, <3>2
    <3>6. Keeps(mTasks, mTasks', t)
      BY <1>0, <3>2, <3>5, SortTaskList
    <3>7. \A u \in Task : Linked(u)' => Linked(u)
      BY <1>0, <2>2, <3>6 DEF Keeps, Linked
    <3>8. \A u \in Task : Linked(u)' => 0 <= elapsed' + wait'[u]
      <4> TAKE u \in Task
      <4>1. CASE u = t
        BY <1>0, <2>0, <3>1, <3>2, <3>3, <4>1, WordsAreIntegers
      <4>2. CASE u # t
        BY <1>0, <2>0, <3>2, <3>7, <4>2 DEF OrderInv
      <4> QED BY <4>1, <4>2
    <3> QED BY <2>0, <3>4, <3>8 DEF OrderInv
  <2> QED BY <2>1, <2>2
<1>10. CASE Tick
  <2>1. /\ mTasks' = mTasks /\ mRank' = mRank /\ mCurrentTask' = mCurrentTask
        /\ started' = started /\ elapsed' = elapsed + 1
        /\ wait' = [u \in Task |-> IF Linked(u) THEN wait[u] - 1 ELSE wait[u]]
    BY <1>10 DEF Tick, code
  <2>2. \A u \in Task : Linked(u)' => 0 <= elapsed' + wait'[u]
    BY <1>0, <2>1 DEF OrderInv, Linked
  <2> QED BY <2>1, <2>2 DEF OrderInv, Linked, Idle
<1>11. CASE UNCHANGED vars
  BY <1>11 DEF vars, code, history, OrderInv, Linked, Idle
<1> QED BY <1>2, <1>3, <1>4, <1>5, <1>6, <1>7, <1>8, <1>9, <1>10, <1>11 DEF Next, Call, Run

LEMMA OrderHolds == ASSUME Punctual PROVE Spec => [](IInv /\ OrderInv)
<1>1. Init => IInv /\ OrderInv
  BY InitShape, InitClock, InitOrder DEF IInv, Punctual
<1>2. IInv /\ OrderInv /\ [Next]_vars => IInv' /\ OrderInv'
  BY NextShape, NextClock, NextOrder DEF IInv, Punctual
<1> QED BY <1>1, <1>2, PTL DEF Spec

\* From the cursor on, around the list, tasks stand in the order in which they
\* are due, for any number of tasks and however often ranks wrap around.
THEOREM InDueOrder == ASSUME Punctual PROVE Spec => []DueOrder
<1>1. ASSUME IInv, OrderInv PROVE DueOrder
  <2>1. IsList(mTasks) /\ IsLinked(mTasks, Cursor)
    BY <1>1, ShapeIsList DEF IInv
  <2>2. LET v == Visits(mTasks)
        IN  \A i \in 1 .. Len(v) :
              /\ v[i] \in Task /\ Linked(v[i])
              /\ \A j \in 1 .. Len(v) : i < j => VisitedBefore(mTasks, v[i], v[j])
    BY <2>1, VisitsInOrder DEF Linked
  <2> DEFINE v == Visits(mTasks)
  <2> HIDE DEF v
  <2>3. \A i, j \in 1 .. Len(v) : i < j => wait[v[i]] <= wait[v[j]]
    BY <1>1, <2>2, VisitedWhenDue DEF Punctual, v
  <2> QED BY <2>3 DEF DueOrder, v
<1> QED BY <1>1, OrderHolds, PTL

\* If the task run() looks at is not ready, no task is due: run() calls the
\* idle function only when there is nothing to run.
THEOREM IdleIsJustified == ASSUME Punctual PROVE Spec => []IdleOnlyWhenNothingDue
<1>1. ASSUME IInv, OrderInv PROVE IdleOnlyWhenNothingDue
  <2> SUFFICES ASSUME \A t \in Task : ~Picks(t), NEW u \in Task, Linked(u) PROVE wait[u] > 0
    BY DEF IdleOnlyWhenNothingDue
  <2> DEFINE t == NextTask(mTasks)
  <2>1. t \in Task /\ ~Picks(t)
    BY <1>1, ShapeIsList, NextExists DEF IInv, Linked
  <2> HIDE DEF t
  <2>2. Linked(t) /\ wait[t] <= wait[u]
    BY <1>1, <2>1, NextIsDueFirst DEF Punctual, t
  <2>3. RankMatches(t) /\ 0 <= elapsed + wait[t] /\ wait[t] \in Int /\ wait[u] \in Int
    BY <1>1, <2>1, <2>2 DEF IInv, ClockInv, OrderInv, Shape, TypeOK
  <2>4. Minus(clock, mRank[Cursor]) >= Minus(mRank[t], mRank[Cursor]) <=> wait[t] <= 0
    BY <1>1, <2>3, InstantDistance DEF RankMatches, Punctual
  <2>5. wait[t] > 0
    BY <2>1, <2>3, <2>4 DEF Picks, t
  <2> QED BY <2>2, <2>3, <2>5
<1> QED BY <1>1, OrderHolds, PTL

-----------------------------------------------------------------------------
(* PeriodicScheduler implements the scheduler that has instants only. *)

Armed == {t \in Task : Linked(t)}
Since == IF Idle THEN 0 ELSE Minus(clock, tick)

LEMMA RefineInit == LagBounded /\ Init => Deadlines!Init
<1> SUFFICES ASSUME LagBounded, Init PROVE Deadlines!Init
  OBVIOUS
<1>1. \A t \in Task : ~Linked(t)
  BY OnlyCursorOrdered DEF Init, Linked
<1>2. elapsed \in Nat
  BY LagIsWord DEF Init, LagBounded
<1> QED BY <1>1, <1>2 DEF Init, Idle, Deadlines!Init

\* The ticks a body has run for are counted on, although clock and tick wrap around.
LEMMA TickCounts ==
  ASSUME NEW c \in Rank, NEW k \in Rank, Minus(c, k) < Wrap - 1
  PROVE  Minus(Plus(c, 1), k) = Minus(c, k) + 1
<1>1. 1 \in Rank
  BY MinusWord, WordsAreIntegers DEF Rank
<1>2. /\ Plus(c, 1) \in Rank
      /\ c + 1 < Wrap => Plus(c, 1) = c + 1
      /\ c + 1 >= Wrap => Plus(c, 1) = 0 /\ c = Wrap - 1
  BY <1>1, PlusWord, WordsAreIntegers
<1>3. /\ c < k => Minus(c, k) = c - k + Wrap
      /\ k <= c => Minus(c, k) = c - k
      /\ Plus(c, 1) < k => Minus(Plus(c, 1), k) = Plus(c, 1) - k + Wrap
      /\ k <= Plus(c, 1) => Minus(Plus(c, 1), k) = Plus(c, 1) - k
  BY <1>2, MinusWord
<1> QED BY <1>2, <1>3, WordsAreIntegers

LEMMA RefineNext ==
  ASSUME Punctual, IInv, OrderInv, [Next]_vars
  PROVE  [Deadlines!Next]_(Deadlines!vars)
<1> USE DEF IInv, Deadlines!vars
<1>0. /\ IsList(mTasks) /\ IsLinked(mTasks, Cursor) /\ Cursor \in Node /\ Task \subseteq Node
      /\ Cursor \notin Task /\ NoTask \notin Task /\ TypeOK /\ mRank \in [Node -> Rank]
      /\ elapsed \in 0 .. MaxLag /\ clock \in Rank /\ wait \in [Task -> Int] /\ LagBounded
  BY ShapeIsList, NodeAssumption DEF Shape, TypeOK, ClockInv, Node, Punctual
<1>1. ASSUME NEW t \in Task, AddTask(t) PROVE Deadlines!Add(t)
  <2>1. mTasks' = AddedList(mTasks, mRank, t) /\ ~IsLinked(mTasks, t)
    BY <1>1 DEF AddTask, Linked
  <2>2. \A u \in Task : Linked(u)' <=> u = t \/ Linked(u)
    BY <1>0, <2>1, AddedListList DEF Linked
  <2>3. Armed' = Armed \cup {t} /\ t \notin Armed
    BY <2>1, <2>2 DEF Armed, Linked
  <2> QED BY <1>1, <2>3 DEF AddTask, Deadlines!Add, Armed, Idle
<1>2. ASSUME NEW t \in Task, RemoveTask(t) \/ Destroy(t)
      PROVE  Deadlines!Remove(t) \/ Deadlines!Replace(t)
  <2>1. mTasks' = Unlink(mTasks, t)
    BY <1>2 DEF RemoveTask, Destroy
  <2>2. \A u \in Task : Linked(u)' <=> u # t /\ Linked(u)
    BY <1>0, <2>1, UnlinkList DEF Linked
  <2>3. Armed' = Armed \ {t}
    BY <2>2 DEF Armed
  <2>4. CASE RemoveTask(t)
    BY <2>3, <2>4 DEF RemoveTask, Deadlines!Remove, Armed, Idle
  <2>5. CASE Destroy(t)
    BY <2>3, <2>5 DEF Destroy, Deadlines!Replace, Armed, Idle
  <2> QED BY <1>2, <2>4, <2>5
<1>3. CASE Clear
  <2>1. Armed' = {}
    BY <1>3, OnlyCursorOrdered DEF Clear, Armed, Linked
  <2> QED BY <1>3, <2>1 DEF Clear, Deadlines!Next, Deadlines!RemoveAll, Armed, Idle
<1>4. ASSUME NEW t \in Task, NEW p \in Periods, SetPeriod(t, p) PROVE Deadlines!ChangePeriod(t)
  BY <1>4 DEF SetPeriod, history, Deadlines!ChangePeriod, Linked, Idle
<1>5. ASSUME NEW t \in Task, NEW k \in Rank, mTasks' = SortTask(mTasks, mRank', t),
             mRank' = [mRank EXCEPT ![t] = k], Linked(t)
      PROVE  Armed' = Armed /\ Linked(t)'
  <2>1. mRank' \in [Node -> Rank]
    BY <1>0, <1>5
  <2>2. Keeps(mTasks, mTasks', t)
    BY <1>0, <1>5, <2>1, SortTaskList
  <2>3. \A u \in Task : Linked(u)' <=> Linked(u)
    BY <1>0, <1>5, <2>2 DEF Keeps, Linked
  <2> QED BY <1>5, <2>3 DEF Armed
<1>6. ASSUME NEW t \in Task, NEW d \in Delays, SetDelay(t, d) PROVE Deadlines!Delay(t)
  <2> DEFINE k == Plus(clock, d)
  <2>1. k \in Rank
    BY <1>0, LagIsWord, PlusWord
  <2>2. /\ Linked(t) /\ mCurrentTask # t
        /\ mRank' = [mRank EXCEPT ![t] = k]
        /\ mTasks' = SortTask(mTasks, mRank', t)
    BY <1>6 DEF SetDelay, Punctual
  <2> HIDE DEF k
  <2>3. Armed' = Armed /\ Linked(t)'
    BY <1>5, <2>1, <2>2
  <2>4. wait' = [wait EXCEPT ![t] = d] /\ UNCHANGED <<mPeriod, mCurrentTask, clock, tick, elapsed>>
    BY <1>6, <2>3 DEF SetDelay, Linked
  <2> QED BY <2>2, <2>3, <2>4 DEF Deadlines!Delay, Armed, Idle
<1>7. \A u \in Task : IsLinked(AdvanceCursor(mTasks), u) <=> IsLinked(mTasks, u)
  BY <1>0, AdvanceCursorList
<1>8. CASE RunIdle
  <2>1. Armed' = Armed
    BY <1>7, <1>8 DEF RunIdle, Armed, Linked
  <2> QED BY <1>8, <2>1 DEF RunIdle, history, Armed, Idle
<1>9. ASSUME NEW t \in Task, RunBegin(t) PROVE Deadlines!Start(t)
  <2>1. Armed' = Armed
    BY <1>7, <1>9 DEF RunBegin, Armed, Linked
  <2>2. Idle /\ Picks(t) /\ NextTask(mTasks) = t
        /\ mCurrentTask' = t /\ tick' = clock /\ clock' = clock /\ elapsed' = -wait[t]
        /\ UNCHANGED <<mPeriod, wait>>
    BY <1>9 DEF RunBegin, Picks
  <2>3. wait[t] <= 0 /\ Linked(t)
    BY <1>0, <2>2, PicksDue
  <2>4. \A u \in Armed : wait[t] <= wait[u]
    BY <1>0, <2>2, NextIsDueFirst DEF Armed
  <2>5. Since' = 0
    BY <1>0, <2>2, NoDistance DEF Since, Idle
  <2> QED BY <2>1, <2>2, <2>3, <2>4, <2>5 DEF Deadlines!Start, Armed, Since, Idle
<1>10. ASSUME NEW t \in Task, RunEnd(t) PROVE Deadlines!Finish(t)
  <2>1. mCurrentTask = t /\ ~Idle /\ Idle' /\ mCurrentTask' = NoTask
        /\ UNCHANGED <<mPeriod, elapsed>>
    BY <1>0, <1>10 DEF RunEnd, Idle
  <2>2. CASE Linked(t)
    <3> DEFINE k == Plus(tick, mPeriod[t])
    <3>1. k \in Rank
      BY <1>0, LagIsWord, PlusWord DEF TypeOK
    <3>2. /\ mRank' = [mRank EXCEPT ![t] = k]
          /\ mTasks' = SortTask(mTasks, mRank', t)
          /\ wait' = [wait EXCEPT ![t] = mPeriod[t] - Minus(clock, tick)]
      BY <1>10, <2>2 DEF RunEnd
    <3> HIDE DEF k
    <3>3. Armed' = Armed
      BY <1>5, <2>2, <3>1, <3>2
    <3> QED BY <2>1, <2>2, <3>2, <3>3 DEF Deadlines!Finish, Armed, Idle
  <2>3. CASE ~Linked(t)
    BY <1>10, <2>1, <2>3 DEF RunEnd, Deadlines!Finish, Idle, Linked
  <2> QED BY <2>2, <2>3
<1>11. CASE Tick
  <2>1. /\ UNCHANGED <<mTasks, mPeriod, mCurrentTask, tick>>
        /\ clock' = Plus(clock, 1) /\ elapsed' = elapsed + 1
        /\ wait' = [u \in Task |-> IF Linked(u) THEN wait[u] - 1 ELSE wait[u]]
        /\ elapsed < MaxLag
    BY <1>0, <1>11, LagIsWord DEF Tick, code
  <2>2. Armed' = Armed
    BY <2>1 DEF Armed, Linked
  <2>3. Since' = IF Idle THEN 0 ELSE Since + 1
    <3>1. CASE Idle
      BY <2>1, <3>1 DEF Since, Idle
    <3>2. CASE ~Idle
      <4>1. Minus(clock, tick) \in Rank /\ tick \in Rank /\ Minus(clock, tick) <= elapsed
        BY <1>0, <3>2, MinusWord DEF ClockInv, TypeOK
      <4>2. Minus(clock, tick) < Wrap - 1
        BY <1>0, <2>1, <4>1, LagIsWord, WordsAreIntegers
      <4> QED BY <1>0, <2>1, <3>2, <4>1, <4>2, TickCounts DEF Since, Idle
    <3> QED BY <3>1, <3>2
  <2>4. wait' = [u \in Task |-> IF u \in Armed THEN wait[u] - 1 ELSE wait[u]]
    BY <2>1 DEF Armed
  <2> QED BY <2>1, <2>2, <2>3, <2>4 DEF Deadlines!Next, Deadlines!Tick, Armed, Since, Idle
<1>12. CASE UNCHANGED vars
  BY <1>12 DEF vars, code, history, Linked, Idle
<1> QED BY <1>1, <1>2, <1>3, <1>4, <1>6, <1>8, <1>9, <1>10, <1>11, <1>12
      DEF Next, Call, Run, Deadlines!Next

\* Whatever bodies call and however late run() is called, the sorted list of
\* wrapping ranks does what a scheduler with a set of tasks and ideal time would:
\* run() starts the task that was due first, and a task that stays is due again
\* one period after the tick its run() read.
THEOREM MeetsDeadlines == ASSUME Punctual PROVE Spec => ImplementsDeadlines
<1>1. IInv /\ OrderInv /\ [Next]_vars => [Deadlines!Next]_(Deadlines!vars)
  BY RefineNext
<1>2. Init => Deadlines!Init
  BY RefineInit DEF Punctual
<1> QED BY <1>1, <1>2, OrderHolds, PTL DEF Spec, ImplementsDeadlines, Deadlines!Spec

-----------------------------------------------------------------------------
(* Tasks that hold callables *)

\* A scheduler of CallableTask objects is a scheduler: whatever is stored in
\* them and moved between them, and with empty tasks that leave, it takes no
\* step that PeriodicScheduler does not take.
LEMMA CallableStep == [CallableNext]_allCallableVars => [Next]_vars
<1> SUFFICES ASSUME [CallableNext]_allCallableVars PROVE [Next]_vars
  OBVIOUS
<1>1. CASE CallableUse
  BY <1>1 DEF CallableUse, Next, Call
<1>2. CASE Store
  BY <1>2 DEF Store, Assign, Construct, CopyAssign, MoveAssign, CopyConstruct, MoveConstruct,
              Next, Call
<1>3. CASE CallableRun
  BY <1>3 DEF CallableRun, RunSelf, Next, Run, Call
<1>4. CASE CallableTick
  BY <1>4 DEF CallableTick, Next
<1>5. CASE UNCHANGED allCallableVars
  BY <1>5 DEF allCallableVars
<1> QED BY <1>1, <1>2, <1>3, <1>4, <1>5 DEF CallableNext

THEOREM CallablesAreTasks == CallableSpec => Spec
BY CallableStep, PTL DEF CallableSpec, CallableInit, Spec

\* The tasks that hold a callable.
Holders(ops) == {t \in Task : ops[t]}

\* Storing into one buffer, or emptying it, changes the number of holders by
\* what that buffer holds before and after.
LEMMA HoldersCount ==
  ASSUME IsFiniteSet(Task), NEW ops \in [Task -> BOOLEAN], NEW t \in Task, NEW b \in BOOLEAN
  PROVE  Cardinality(Holders([ops EXCEPT ![t] = b])) =
           Cardinality(Holders(ops)) - Objects(ops[t]) + Objects(b)
<1> DEFINE rest == Holders(ops) \ {t}
<1>1. IsFiniteSet(Holders(ops)) /\ IsFiniteSet(rest)
  BY FS_Subset, Zenon DEF Holders
<1>2. Cardinality(Holders(ops)) \in Nat /\ Cardinality(rest) \in Nat
  BY <1>1, FS_CardinalityType
<1>3. ASSUME NEW f \in [Task -> BOOLEAN], Holders(f) \ {t} = rest
      PROVE  Cardinality(Holders(f)) = Cardinality(rest) + Objects(f[t])
  <2>1. CASE f[t]
    <3>1. Holders(f) = rest \cup {t} /\ t \notin rest
      BY <1>3, <2>1, Zenon DEF Holders
    <3>2. Objects(f[t]) = 1
      BY <2>1, Zenon DEF Objects
    <3> HIDE DEF rest
    <3> QED BY <1>1, <3>1, <3>2, FS_AddElement
  <2>2. CASE ~f[t]
    <3>1. Holders(f) = rest
      BY <1>3, <2>2, Zenon DEF Holders
    <3>2. Objects(f[t]) = 0
      BY <2>2, Zenon DEF Objects
    <3> QED BY <1>2, <3>1, <3>2
  <2> QED BY <2>1, <2>2
<1>4. /\ [ops EXCEPT ![t] = b] \in [Task -> BOOLEAN]
      /\ [ops EXCEPT ![t] = b][t] = b
      /\ \A u \in Task : u # t => [ops EXCEPT ![t] = b][u] = ops[u]
  OBVIOUS
<1>5. Holders([ops EXCEPT ![t] = b]) \ {t} = rest
  BY <1>4, Zenon DEF Holders
<1>6. /\ Cardinality(Holders([ops EXCEPT ![t] = b])) = Cardinality(rest) + Objects(b)
      /\ Cardinality(Holders(ops)) = Cardinality(rest) + Objects(ops[t])
  BY <1>3, <1>4, <1>5
<1>7. Objects(b) \in Nat /\ Objects(ops[t]) \in Nat
  BY DEF Objects
<1> HIDE DEF rest
<1> QED BY <1>2, <1>6, <1>7

CallableInv == mOps \in [Task -> BOOLEAN] /\ live = Cardinality(Holders(mOps))

LEMMA InitCallable == ASSUME IsFiniteSet(Task) PROVE CallableInit => CallableInv
<1> SUFFICES ASSUME CallableInit PROVE CallableInv
  OBVIOUS
<1>1. mOps \in [Task -> BOOLEAN] /\ Holders(mOps) = {}
  BY Zenon DEF CallableInit, Holders
<1> QED BY <1>1, FS_EmptySet DEF CallableInit, CallableInv

LEMMA NextCallable ==
  ASSUME IsFiniteSet(Task)
  PROVE  CallableInv /\ [CallableNext]_allCallableVars => CallableInv'
<1> SUFFICES ASSUME CallableInv, [CallableNext]_allCallableVars PROVE CallableInv'
  OBVIOUS
<1>0. /\ mOps \in [Task -> BOOLEAN] /\ live = Cardinality(Holders(mOps))
      /\ live \in Nat
  BY FS_Subset, FS_CardinalityType DEF CallableInv, Holders
<1>1. ASSUME NEW ops \in [Task -> BOOLEAN], NEW t \in Task, NEW b \in BOOLEAN,
             mOps' = [ops EXCEPT ![t] = b],
             live' = Cardinality(Holders(ops)) - Objects(ops[t]) + Objects(b)
      PROVE  CallableInv'
  <2>1. mOps' \in [Task -> BOOLEAN]
    BY <1>1
  <2>2. live' = Cardinality(Holders(mOps'))
    BY <1>1, HoldersCount
  <2> QED BY <2>1, <2>2 DEF CallableInv, Holders
<1>2. \A b \in BOOLEAN : Objects(b) \in Nat
  BY DEF Objects
<1>3. Objects(TRUE) = 1 /\ Objects(FALSE) = 0
  BY DEF Objects
<1>4. ASSUME NEW t \in Task, Assign(t) PROVE CallableInv'
  <2>1. mOps' = [mOps EXCEPT ![t] = TRUE] /\ live' = live + 1 - Objects(mOps[t])
    BY <1>4 DEF Assign
  <2>2. Objects(mOps[t]) \in Nat
    BY <1>0, <1>2
  <2>3. live' = live - Objects(mOps[t]) + Objects(TRUE)
    <3> DEFINE old == Objects(mOps[t])
               one == Objects(TRUE)
    <3>1. live' = live + 1 - old /\ old \in Nat /\ one = 1
      BY <1>3, <2>1, <2>2
    <3> HIDE DEF old, one
    <3>2. live' = live - old + one
      BY <1>0, <3>1
    <3> QED BY <3>2 DEF old, one
  <2> QED BY <1>0, <1>1, <2>1, <2>3
<1>5. ASSUME NEW t \in Task, NEW u \in Task, CopyAssign(t, u) PROVE CallableInv'
  BY <1>0, <1>1, <1>5 DEF CopyAssign
<1>6. ASSUME NEW t \in Task, NEW held \in BOOLEAN, Construct(t, held) PROVE CallableInv'
  BY <1>0, <1>1, <1>6 DEF Construct
<1>7. ASSUME NEW t \in Task, NEW u \in Task, t # u,
             mOps' = [mOps EXCEPT ![t] = mOps[u], ![u] = FALSE],
             live' = live - Objects(mOps[t])
      PROVE  CallableInv'
  <2> DEFINE ops == [mOps EXCEPT ![t] = mOps[u]]
  <2>1. ops \in [Task -> BOOLEAN] /\ ops[u] = mOps[u] /\ mOps' = [ops EXCEPT ![u] = FALSE]
    BY <1>0, <1>7
  <2>2. Cardinality(Holders(ops)) = live - Objects(mOps[t]) + Objects(mOps[u])
    BY <1>0, HoldersCount
  <2>3. Objects(mOps[t]) \in Nat /\ Objects(mOps[u]) \in Nat
    BY <1>0, <1>2
  <2> HIDE DEF ops
  <2>4. live' = Cardinality(Holders(ops)) - Objects(ops[u]) + Objects(FALSE)
    <3> DEFINE a == Objects(mOps[t])
               b == Objects(ops[u])
               none == Objects(FALSE)
    <3>1. Objects(ops[u]) = Objects(mOps[u])
      BY <2>1, Zenon
    <3>2. /\ live' = live - a /\ a \in Nat /\ b \in Nat /\ none = 0
          /\ Cardinality(Holders(ops)) = live - a + b
      BY <1>3, <1>7, <2>2, <2>3, <3>1
    <3> HIDE DEF a, b, none
    <3>3. live' = Cardinality(Holders(ops)) - b + none
      BY <1>0, <3>2
    <3> QED BY <3>3 DEF b, none
  <2> QED BY <1>1, <2>1, <2>4
<1>8. CASE Store
  <2>1. ASSUME NEW t \in Task, NEW u \in Task, MoveAssign(t, u) \/ MoveConstruct(t, u)
        PROVE  CallableInv'
    BY <1>7, <2>1 DEF MoveAssign, MoveConstruct
  <2>2. ASSUME NEW t \in Task, NEW u \in Task, CopyConstruct(t, u) PROVE CallableInv'
    BY <1>0, <1>6, <2>2 DEF CopyConstruct
  <2> QED BY <1>4, <1>5, <1>6, <1>8, <2>1, <2>2 DEF Store
<1>9. CASE UNCHANGED callableVars
  BY <1>9 DEF callableVars, CallableInv, Holders
<1>10. CASE CallableUse \/ CallableRun \/ CallableTick \/ UNCHANGED allCallableVars
  BY <1>9, <1>10 DEF CallableUse, CallableRun, RunSelf, CallableTick, allCallableVars
<1> QED BY <1>8, <1>10 DEF CallableNext

\* Whatever is assigned, copied, moved and destroyed, among any number of
\* tasks, as many callables exist as tasks hold one: none is forgotten in a
\* buffer and none is destroyed twice.
THEOREM ObjectsAreHeld ==
  ASSUME IsFiniteSet(Task) PROVE CallableSpec => []OneObjectPerTask
<1>1. CallableInv => OneObjectPerTask
  BY DEF CallableInv, OneObjectPerTask, Holders
<1> QED BY <1>1, InitCallable, NextCallable, PTL DEF CallableSpec

-----------------------------------------------------------------------------
(* Tasks that are resumed *)

\* The macros call the scheduler: what a body of macros does is a step of the
\* application, but for UCOSM_END, which sets a period and removes the task.
LEMMA ResumableStep ==
  [ResumableNext]_allResumableVars => [Next]_vars \/ \E t \in Task : End(t)
<1> SUFFICES ASSUME [ResumableNext]_allResumableVars, \A t \in Task : ~End(t)
             PROVE  [Next]_vars
  OBVIOUS
<1>0. Sleeps \cup Checks \cup {0} \subseteq Periods
  BY SleepAssumption
<1>1. CASE ResumableUse
  BY <1>0, <1>1 DEF ResumableUse, TakeOut, DestroyTask, Reset, Next, Call
<1>2. CASE Body
  <2>1. \E t \in Task, p \in Periods : SetPeriod(t, p)
    BY <1>0, <1>2 DEF Body, StillUntil, Flicker, Restart, SleepFor, SleepUntil
  <2> QED BY <2>1 DEF Next, Call
<1>3. CASE ResumableRun
  BY <1>2, <1>3 DEF ResumableRun, Return, Next, Run
<1>4. CASE ResumableTick
  BY <1>4 DEF ResumableTick, Next
<1>5. CASE UNCHANGED allResumableVars
  BY <1>5 DEF allResumableVars
<1> QED BY <1>1, <1>3, <1>4, <1>5 DEF ResumableNext

\* UCOSM_END keeps what the scheduler's own steps keep.
LEMMA EndInv ==
  ASSUME Shape, NEW t \in Task, End(t)
  PROVE  /\ Shape'
         /\ ClockInv => ClockInv'
         /\ InitialisedWhileLinked => InitialisedWhileLinked'
<1>0. /\ IsList(mTasks) /\ IsLinked(mTasks, Cursor) /\ Cursor \in Node
      /\ Task \subseteq Node /\ Cursor \notin Task
      /\ initialised \in [Task -> BOOLEAN]
  BY ShapeIsList, NodeAssumption DEF Node, Shape, TypeOK
<1>1. /\ mTasks' = Unlink(mTasks, t)
      /\ initialised' = [initialised EXCEPT ![t] = FALSE]
      /\ wait' = [wait EXCEPT ![t] = 0]
      /\ UNCHANGED <<mRank, mCurrentTask, clock, tick, started, elapsed>>
      /\ \E p \in Periods : mPeriod' = [mPeriod EXCEPT ![t] = p]
  BY DEF End
<1>2. IsList(mTasks') /\ IsLinked(mTasks', Cursor)
  BY <1>0, <1>1, UnlinkList
<1>3. Shape'
  BY <1>1, <1>2 DEF Shape, TypeOK, LinkedOnce, IsList
<1>4. ~Linked(t)' /\ \A u \in Task : u # t => (Linked(u)' <=> Linked(u))
  BY <1>0, <1>1, UnlinkList DEF Linked
<1>5. ClockInv => ClockInv'
  BY <1>0, <1>1, <1>4 DEF Shape, TypeOK, ClockInv, RankMatches, Idle
<1>6. InitialisedWhileLinked => InitialisedWhileLinked'
  BY <1>0, <1>1, <1>4 DEF InitialisedWhileLinked
<1> QED BY <1>3, <1>5, <1>6

\* init() and deinit() pair up for tasks written with the macros too, those
\* that end by themselves with UCOSM_END included.
THEOREM MacrosPair ==
  ASSUME "clear" \notin Calls, "stray" \notin Calls
  PROVE  ResumableSpec => []InitialisedWhileLinked
<1>1. ResumableInit => Shape /\ InitialisedWhileLinked
  BY InitShape, NodeAssumption
     DEF ResumableInit, Init, InitialisedWhileLinked, Linked, IsLinked, Contains
<1>2. Shape /\ InitialisedWhileLinked /\ [ResumableNext]_allResumableVars
        => (Shape /\ InitialisedWhileLinked)'
  BY ResumableStep, EndInv, NextShape, NextInitialised
<1> QED BY <1>1, <1>2, PTL DEF ResumableSpec

\* A task that is to sleep on, counted from the tick of its run(), is linked, and
\* its rank is not before the end of that sleep, or will not be when the run() of
\* its body gives it one.
Sleeper(t) ==
  /\ Linked(t)
  /\ IF mCurrentTask = t
     THEN returned /\ asleep[t] - spent[t] <= mPeriod[t] - Minus(clock, tick)
     ELSE asleep[t] - spent[t] <= wait[t]

SleepInv ==
  /\ returned \in BOOLEAN /\ (returned => ~Idle)
  /\ mLine \in [Task -> {"init", "sleep", "until"}]
  /\ asleep \in [Task -> Nat] /\ spent \in [Task -> Nat] /\ polled \in [Task -> Nat]
  /\ \A t \in Task : mLine[t] = "sleep" /\ asleep[t] > spent[t] => Sleeper(t)

LEMMA InitSleep == ResumableInit => SleepInv
<1> SUFFICES ASSUME ResumableInit PROVE SleepInv
  OBVIOUS
<1>1. /\ mLine \in [Task -> {"init", "sleep", "until"}]
      /\ asleep \in [Task -> Nat] /\ spent \in [Task -> Nat] /\ polled \in [Task -> Nat]
      /\ \A t \in Task : asleep[t] = 0 /\ spent[t] = 0
  BY DEF ResumableInit
<1>2. returned \in BOOLEAN /\ ~returned
  BY Zenon DEF ResumableInit
<1>3. ASSUME NEW t \in Task PROVE ~(mLine[t] = "sleep" /\ asleep[t] > spent[t])
  BY <1>1
<1> QED BY <1>1, <1>2, <1>3, Zenon DEF SleepInv

\* A body that leaves a resume point: what it asks for is what it will get.
LEMMA LeaveSleeps ==
  ASSUME IInv, SleepInv, NEW t \in Task, NEW line \in {"init", "sleep", "until"},
         NEW d \in Nat, NEW p \in Nat, Leave(t, line, d, p),
         \A u \in Task : u # t => (Linked(u)' <=> Linked(u)) /\ wait'[u] = wait[u],
         UNCHANGED <<mCurrentTask, clock, tick>>,
         line = "sleep" /\ d > 0 => (Linked(t) => Linked(t)') /\ mPeriod'[t] = d
  PROVE  SleepInv'
<1> DEFINE ran == Minus(clock, tick)
<1>0. ran \in Nat /\ t # NoTask
  BY MinusWord, WordsAreIntegers, NodeAssumption DEF IInv, Shape, TypeOK
<1>1. /\ mCurrentTask = t /\ returned' = TRUE
      /\ mLine' = [mLine EXCEPT ![t] = line] /\ polled' = [polled EXCEPT ![t] = p]
      /\ asleep' = [asleep EXCEPT ![t] = IF Linked(t) THEN d ELSE 0]
      /\ spent' = [spent EXCEPT ![t] = IF Linked(t) /\ d > 0 THEN ran ELSE 0]
  BY DEF Leave, Runs
<1>2. ran' = ran
  OBVIOUS
<1> HIDE DEF ran
<1>3. (IF Linked(t) THEN d ELSE 0) \in Nat /\ (IF Linked(t) /\ d > 0 THEN ran ELSE 0) \in Nat
  BY <1>0
<1>4. /\ asleep' \in [Task -> Nat] /\ mLine' \in [Task -> {"init", "sleep", "until"}]
      /\ spent' \in [Task -> Nat] /\ polled' \in [Task -> Nat]
  BY <1>1, <1>3 DEF SleepInv
<1>5. ASSUME NEW u \in Task, u # t, mLine'[u] = "sleep", asleep'[u] > spent'[u]
      PROVE  Sleeper(u)'
  <2>1. /\ mLine[u] = "sleep" /\ asleep[u] > spent[u]
        /\ asleep'[u] = asleep[u] /\ spent'[u] = spent[u]
    BY <1>1, <1>5 DEF SleepInv
  <2>2. Linked(u) /\ asleep[u] - spent[u] <= wait[u]
    BY <1>1, <1>5, <2>1 DEF SleepInv, Sleeper
  <2> QED BY <1>1, <1>5, <2>1, <2>2 DEF Sleeper
<1>6. ASSUME mLine'[t] = "sleep", asleep'[t] > spent'[t] PROVE Sleeper(t)'
  <2>1. line = "sleep" /\ Linked(t) /\ d > 0 /\ asleep'[t] = d /\ spent'[t] = ran
    BY <1>1, <1>3, <1>6 DEF SleepInv
  <2>2. Linked(t)' /\ mPeriod'[t] = d
    BY <1>0, <2>1
  <2>3. asleep'[t] - spent'[t] <= mPeriod'[t] - ran'
    BY <1>0, <1>2, <2>1, <2>2
  <2> QED BY <1>1, <2>2, <2>3 DEF Sleeper, ran
<1>7. returned' /\ ~Idle'
  BY <1>0, <1>1 DEF Idle
<1> QED BY <1>1, <1>4, <1>5, <1>6, <1>7 DEF SleepInv

LEMMA BodySleeps == ASSUME IInv, SleepInv, Body PROVE SleepInv'
<1>0. /\ Sleeps \cup Checks \cup {0} \subseteq Periods /\ \A p \in Periods : p \in Nat
      /\ IsList(mTasks) /\ Task \subseteq Node
      /\ mPeriod \in [Task -> Periods] /\ wait \in [Task -> Int]
  BY SleepAssumption, TickAssumption, WordsAreIntegers, ShapeIsList
     DEF Rank, IInv, Shape, TypeOK, Node
<1>1. ASSUME NEW t \in Task, NEW p \in Periods, SetPeriod(t, p)
      PROVE  /\ \A u \in Task : (Linked(u)' <=> Linked(u)) /\ wait'[u] = wait[u]
             /\ UNCHANGED <<mCurrentTask, clock, tick>> /\ mPeriod'[t] = p
  BY <1>0, <1>1 DEF SetPeriod, history, Linked
<1>2. ASSUME NEW t \in Task, StillUntil(t) PROVE SleepInv'
  <2>1. Leave(t, "until", polled[t], polled[t]) /\ SetPeriod(t, 0) /\ polled[t] \in Nat
    BY <1>2 DEF StillUntil, SleepInv
  <2> QED BY <1>0, <1>1, <2>1, LeaveSleeps
<1>3. ASSUME NEW t \in Task, Flicker(t) PROVE SleepInv'
  <2>1. /\ Leave(t, mLine[t], 0, polled[t]) /\ SetPeriod(t, 0) /\ polled[t] \in Nat
        /\ mLine[t] \in {"init", "sleep", "until"}
    BY <1>3 DEF Flicker, SleepInv
  <2> QED BY <1>0, <1>1, <2>1, LeaveSleeps
<1>4. ASSUME NEW t \in Task, Restart(t) PROVE SleepInv'
  <2>1. PICK p \in Periods : Leave(t, "init", 0, 0) /\ SetPeriod(t, p)
    BY <1>4 DEF Restart
  <2> QED BY <1>0, <1>1, <2>1, LeaveSleeps
<1>5. ASSUME NEW t \in Task, End(t) PROVE SleepInv'
  <2>1. /\ Leave(t, "init", 0, 0) /\ mTasks' = Unlink(mTasks, t)
        /\ wait' = [wait EXCEPT ![t] = 0] /\ UNCHANGED <<mCurrentTask, clock, tick>>
    BY <1>5 DEF End
  <2>2. \A u \in Task : u # t => (Linked(u)' <=> Linked(u)) /\ wait'[u] = wait[u]
    BY <1>0, <2>1, UnlinkList DEF Linked
  <2> QED BY <2>1, <2>2, LeaveSleeps
<1>6. ASSUME NEW t \in Task, NEW d \in Sleeps \cup {0}, SleepFor(t, d) PROVE SleepInv'
  <2>1. Leave(t, "sleep", d, 0) /\ SetPeriod(t, d) /\ d \in Periods
    BY <1>0, <1>6 DEF SleepFor
  <2> QED BY <1>0, <1>1, <2>1, LeaveSleeps
<1>7. ASSUME NEW t \in Task, NEW d \in Checks, SleepUntil(t, d) PROVE SleepInv'
  <2>1. Leave(t, "until", d, d) /\ SetPeriod(t, d) /\ d \in Periods
    BY <1>0, <1>7 DEF SleepUntil
  <2> QED BY <1>0, <1>1, <2>1, LeaveSleeps
<1> QED BY <1>2, <1>3, <1>4, <1>5, <1>6, <1>7 DEF Body

\* Calls of other bodies and of the main loop: a task that is taken out of the
\* list, by whomever, sleeps no longer, and one that is in it cannot be added.
LEMMA UseSleeps == ASSUME IInv, SleepInv, ResumableUse PROVE SleepInv'
<1>0. /\ IsList(mTasks) /\ Task \subseteq Node /\ IsLinked(mTasks, Cursor) /\ Cursor \in Node
      /\ mRank \in [Node -> Rank] /\ wait \in [Task -> Int]
      /\ ~returned /\ returned' = returned
  BY ShapeIsList DEF IInv, Shape, TypeOK, Node, ResumableUse, resumableVars, TakeOut,
                     DestroyTask, Reset
<1>1. ASSUME NEW t \in Task, UNCHANGED <<mCurrentTask, returned>>,
             mLine' \in [Task -> {"init", "sleep", "until"}],
             asleep' \in [Task -> Nat], spent' \in [Task -> Nat], polled' \in [Task -> Nat],
             ~(mLine'[t] = "sleep" /\ asleep'[t] > spent'[t]),
             \A u \in Task : u # t =>
               /\ mLine'[u] = mLine[u] /\ asleep'[u] = asleep[u] /\ spent'[u] = spent[u]
               /\ Linked(u) => Linked(u)' /\ wait'[u] = wait[u]
      PROVE  SleepInv'
  <2>1. ASSUME NEW u \in Task, mLine'[u] = "sleep", asleep'[u] > spent'[u] PROVE Sleeper(u)'
    <3>1. u # t
      BY <1>1, <2>1
    <3>2. Sleeper(u)
      BY <1>1, <2>1, <3>1 DEF SleepInv
    <3> QED BY <1>0, <1>1, <3>1, <3>2 DEF Sleeper
  <2> QED BY <1>0, <1>1, <2>1 DEF SleepInv, Idle
<1>2. ASSUME NEW t \in Task, AddTask(t), UNCHANGED resumableVars PROVE SleepInv'
  <2>1. /\ mTasks' = AddedList(mTasks, mRank, t) /\ ~IsLinked(mTasks, t)
        /\ wait' = [wait EXCEPT ![t] = -elapsed] /\ mCurrentTask' = mCurrentTask
    BY <1>2 DEF AddTask, Linked
  <2>2. \A m \in Node : IsLinked(mTasks', m) <=> m = t \/ IsLinked(mTasks, m)
    BY <1>0, <2>1, AddedListList
  <2>3. \A u \in Task : u # t => (Linked(u) => Linked(u)') /\ wait'[u] = wait[u]
    BY <1>0, <2>1, <2>2 DEF Linked
  <2>4. ~(mLine[t] = "sleep" /\ asleep[t] > spent[t])
    BY <2>1 DEF SleepInv, Sleeper, Linked
  <2> QED BY <1>1, <1>2, <2>1, <2>3, <2>4 DEF resumableVars, SleepInv
<1>3. ASSUME NEW t \in Task, mTasks' = Unlink(mTasks, t)
      PROVE  \A u \in Task : u # t => (Linked(u) => Linked(u)')
  BY <1>0, <1>3, UnlinkList DEF Linked
<1>4. ASSUME NEW t \in Task, TakeOut(t) PROVE SleepInv'
  BY <1>0, <1>1, <1>3, <1>4 DEF TakeOut, RemoveTask, SleepInv
<1>5. ASSUME NEW t \in Task, DestroyTask(t) PROVE SleepInv'
  BY <1>0, <1>1, <1>3, <1>5 DEF DestroyTask, Destroy, SleepInv
<1>6. ASSUME NEW t \in Task, Reset(t) PROVE SleepInv'
  BY <1>0, <1>1, <1>6 DEF Reset, SetPeriod, SleepInv, Linked, history
<1>7. ASSUME NEW t \in Task, NEW p \in Periods, SetPeriod(t, p), UNCHANGED resumableVars
      PROVE  SleepInv'
  BY <1>0, <1>7 DEF SetPeriod, resumableVars, history, SleepInv, Sleeper, Linked, Idle
<1> QED BY <1>2, <1>4, <1>5, <1>6, <1>7 DEF ResumableUse

LEMMA NextSleep ==
  ASSUME LagBounded, IInv, SleepInv, [ResumableNext]_allResumableVars
  PROVE  SleepInv'
<1>0. /\ IsList(mTasks) /\ Task \subseteq Node /\ IsLinked(mTasks, Cursor) /\ Cursor \in Node
      /\ mRank \in [Node -> Rank] /\ wait \in [Task -> Int] /\ NoTask \notin Task
      /\ clock \in Rank /\ tick \in Rank /\ mPeriod \in [Task -> Periods]
  BY ShapeIsList, NodeAssumption DEF IInv, Shape, TypeOK, Node
<1>1. CASE ResumableUse
  BY <1>1, UseSleeps
<1>2. CASE Body
  BY <1>2, BodySleeps
<1>3. ASSUME RunIdle \/ \E t \in Task : RunBegin(t), UNCHANGED resumableVars PROVE SleepInv'
  <2>1. mTasks' = AdvanceCursor(mTasks) /\ Idle /\ wait' = wait /\ ~returned
    BY <1>3 DEF RunIdle, RunBegin, history, SleepInv
  <2>2. \A u \in Task : Linked(u)' <=> Linked(u)
    BY <1>0, <2>1, AdvanceCursorList DEF Linked
  <2>3. ASSUME NEW u \in Task, mLine[u] = "sleep", asleep[u] > spent[u] PROVE Sleeper(u)'
    <3>1. /\ mCurrentTask # u /\ Linked(u) /\ asleep[u] - spent[u] <= wait[u]
          /\ asleep[u] \in Nat /\ spent[u] \in Nat
      BY <1>0, <2>1, <2>3 DEF Idle, SleepInv, Sleeper
    <3>2. mCurrentTask' # u
      <4>1. CASE RunIdle
        BY <1>0, <2>1, <4>1 DEF RunIdle, Idle
      <4>2. CASE \E t \in Task : RunBegin(t)
        <5>1. PICK t \in Task : RunBegin(t)
          BY <4>2
        <5>2. wait[t] <= 0 /\ mCurrentTask' = t
          BY <5>1, PicksDue DEF RunBegin
        <5> QED BY <1>0, <2>3, <3>1, <5>2
      <4> QED BY <1>3, <4>1, <4>2
    <3> QED BY <1>3, <2>1, <2>2, <3>1, <3>2 DEF Sleeper, resumableVars
  <2> QED BY <1>3, <2>1, <2>3 DEF SleepInv, resumableVars
<1>4. CASE Return
  <2>1. PICK t \in Task : RunEnd(t)
    BY <1>4 DEF Return
  <2>2. /\ returned /\ returned' = FALSE /\ UNCHANGED <<mLine, asleep, spent, polled>>
        /\ mCurrentTask = t /\ mCurrentTask' = NoTask
    BY <1>4, <2>1 DEF Return, RunEnd
  <2>3. ASSUME NEW u \in Task, mLine[u] = "sleep", asleep[u] > spent[u] PROVE Sleeper(u)'
    <3>1. Sleeper(u)
      BY <2>3 DEF SleepInv
    <3>2. CASE ~Linked(t)
      BY <1>0, <2>1, <2>2, <3>1, <3>2 DEF RunEnd, Sleeper, Linked
    <3>3. CASE Linked(t)
      <4> DEFINE rank == [mRank EXCEPT ![t] = Plus(tick, mPeriod[t])]
      <4>1. /\ mTasks' = SortTask(mTasks, rank, t)
            /\ wait' = [wait EXCEPT ![t] = mPeriod[t] - Minus(clock, tick)]
        BY <2>1, <3>3 DEF RunEnd
      <4>2. rank \in [Node -> Rank]
        BY <1>0, PlusWord, TickAssumption
      <4> HIDE DEF rank
      <4>3. Keeps(mTasks, mTasks', t)
        BY <1>0, <4>1, <4>2, SortTaskList
      <4>4. Linked(u)'
        BY <1>0, <3>1, <3>3, <4>3 DEF Keeps, Linked, Sleeper
      <4>5. asleep[u] - spent[u] <= wait'[u]
        BY <1>0, <2>2, <3>1, <4>1 DEF Sleeper
      <4> QED BY <1>0, <2>2, <4>4, <4>5 DEF Sleeper
    <3> QED BY <3>2, <3>3
  <2> QED BY <2>2, <2>3 DEF SleepInv
<1>5. CASE ResumableTick
  <2>1. /\ asleep' = [t \in Task |-> IF asleep[t] = 0 THEN 0 ELSE asleep[t] - 1]
        /\ UNCHANGED <<mLine, returned, spent, polled, mTasks, mPeriod, mCurrentTask, tick>>
        /\ clock' = Plus(clock, 1) /\ elapsed' = elapsed + 1
        /\ wait' = [t \in Task |-> IF Linked(t) THEN wait[t] - 1 ELSE wait[t]]
    BY <1>5 DEF ResumableTick, Tick, code
  <2>2. asleep' \in [Task -> Nat]
    BY <2>1 DEF SleepInv
  <2>3. ASSUME ~Idle PROVE Minus(clock', tick) = Minus(clock, tick) + 1
    <3>1. Minus(clock, tick) <= elapsed /\ elapsed \in 0 .. MaxLag /\ elapsed < MaxLate
      BY <1>5, <2>3 DEF ResumableTick, Tick, IInv, ClockInv
    <3>2. Minus(clock, tick) \in Rank /\ MaxLag \in Rank /\ MaxLate <= MaxLag /\ MaxLate \in Nat
      BY <1>0, MinusWord, LagIsWord
    <3> DEFINE ran == Minus(clock, tick)
    <3> HIDE DEF ran
    <3>3. ran \in Rank /\ ran <= elapsed
      BY <3>1, <3>2 DEF ran
    <3>4. ran < Wrap - 1
      BY <3>1, <3>2, <3>3, WordsAreIntegers
    <3> QED BY <1>0, <2>1, <3>4, TickCounts DEF ran
  <2>4. ASSUME NEW u \in Task, mLine'[u] = "sleep", asleep'[u] > spent'[u] PROVE Sleeper(u)'
    <3>1. /\ mLine[u] = "sleep" /\ asleep[u] \in Nat /\ spent[u] \in Nat /\ spent'[u] = spent[u]
          /\ asleep[u] > spent[u] /\ asleep'[u] = asleep[u] - 1
      BY <2>1, <2>4 DEF SleepInv
    <3>2. Sleeper(u) /\ Linked(u) /\ Linked(u)'
      BY <2>1, <3>1 DEF SleepInv, Sleeper, Linked
    <3>3. CASE mCurrentTask = u
      <4> DEFINE ran == Minus(clock, tick)
                 per == mPeriod[u]
      <4>1. Minus(clock', tick') = ran + 1 /\ mPeriod'[u] = per
        BY <1>0, <2>1, <2>3, <3>3 DEF Idle
      <4>2. ran \in Int /\ per \in Int
        BY <1>0, MinusWord, TickAssumption, WordsAreIntegers
      <4>3. returned /\ asleep[u] - spent[u] <= per - ran
        BY <3>2, <3>3 DEF Sleeper
      <4> HIDE DEF ran, per
      <4>4. asleep'[u] - spent'[u] <= per - (ran + 1)
        BY <3>1, <4>2, <4>3
      <4> QED BY <2>1, <3>2, <3>3, <4>1, <4>3, <4>4 DEF Sleeper
    <3>4. CASE mCurrentTask # u
      BY <1>0, <2>1, <3>1, <3>2, <3>4 DEF Sleeper
    <3> QED BY <3>3, <3>4
  <2> QED BY <2>1, <2>2, <2>4 DEF SleepInv, Idle
<1>6. CASE UNCHANGED allResumableVars
  BY <1>6 DEF allResumableVars, resumableVars, vars, code, history, SleepInv, Sleeper, Linked, Idle
<1> QED BY <1>1, <1>2, <1>3, <1>4, <1>5, <1>6 DEF ResumableNext, ResumableRun

\* A sleep ends no sooner than its ticks, counted from the tick of the run() whose
\* body asked for it: the time that body took before it asked is lost, and nothing
\* else is, whatever other tasks and the main loop do and however often the clock
\* wraps around, as long as the main loop is less than a turn of the clock behind.
THEOREM SleepsAreKept ==
  ASSUME LagBounded PROVE ResumableSpec => SleepsFromRun
<1>1. ResumableInit => IInv /\ SleepInv
  BY InitShape, InitClock, InitSleep DEF ResumableInit, IInv
<1>2. IInv /\ SleepInv /\ [ResumableNext]_allResumableVars => IInv' /\ SleepInv'
  BY ResumableStep, EndInv, NextShape, NextClock, NextSleep DEF IInv
<1>3. ASSUME IInv, SleepInv, SleepInv', [ResumableNext]_allResumableVars
      PROVE  [\A t \in Task : Resumes(t) /\ mLine[t] = "sleep" => asleep[t] <= spent[t]]_allResumableVars
  <2> SUFFICES ASSUME ResumableNext, NEW t \in Task, Resumes(t), mLine[t] = "sleep"
               PROVE  asleep[t] <= spent[t]
    BY <1>3 DEF allResumableVars
  <2>1. mCurrentTask # t /\ mCurrentTask' = t /\ t # NoTask
    BY NodeAssumption DEF Resumes
  <2>2. RunBegin(t) /\ UNCHANGED resumableVars
    BY <2>1, NodeAssumption DEF ResumableNext, ResumableUse, ResumableRun, ResumableTick, Body,
         StillUntil, Flicker, Restart, End, SleepFor, SleepUntil, TakeOut, DestroyTask, Reset,
         Return, AddTask, RemoveTask, Destroy, SetPeriod, RunIdle, RunBegin, RunEnd, Tick, code
  <2>3. wait[t] <= 0 /\ wait[t] \in Int
    BY <1>3, <2>2, PicksDue DEF RunBegin, IInv, Shape, TypeOK
  <2>4. asleep[t] > spent[t] => asleep[t] - spent[t] <= wait[t]
    BY <1>3, <2>1 DEF SleepInv, Sleeper
  <2>5. asleep[t] \in Nat /\ spent[t] \in Nat
    BY <1>3 DEF SleepInv
  <2> QED BY <2>3, <2>4, <2>5
<1> QED BY <1>1, <1>2, <1>3, PTL DEF ResumableSpec, SleepsFromRun
=============================================================================
