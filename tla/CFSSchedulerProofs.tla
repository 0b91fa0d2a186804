------------------------- MODULE CFSSchedulerProofs -------------------------
(***************************************************************************)
(* Theorems of CFSScheduler, for any number of tasks, any width of rank_t  *)
(* and any priorities: types and the shape of the list, and, as long as    *)
(* no body is charged a whole turn of the counter, that run() starts the   *)
(* task with the least weighted time and that the shares stay fair.        *)
(***************************************************************************)
EXTENDS CFSScheduler, TaskListLemmas

\* What a body of MaxRun ticks costs at the lowest priority.
MaxShare == MaxRun * 2 ^ Lowest

\* No body costs a whole turn of the counter.  That 2 ^ p grows with p is
\* arithmetic, which the provers lack.
SharesBounded ==
  /\ MaxShare < Wrap
  /\ \A p \in 0 .. Lowest : 0 <= 2 ^ p /\ 2 ^ p <= 2 ^ Lowest

\* A task's lead is its word's distance from the cursor's, and no more than
\* one body; the task whose body runs has none.
Leads ==
  /\ \A t \in Task : Linked(t) =>
       lead[t] = Minus(mRank[t], mRank[Cursor]) /\ lead[t] \in 0 .. MaxShare
  /\ ~Idle /\ Linked(mCurrentTask) => mRank[mCurrentTask] = mRank[Cursor]

IInv == TypeOK /\ Ordered(mTasks, mRank) /\ Leads

-----------------------------------------------------------------------------
(* Types *)

LEMMA ShapeIsList ==
  ASSUME TypeOK
  PROVE  IsList(mTasks) /\ IsLinked(mTasks, Cursor) /\ Cursor \in Node /\ Task \subseteq Node
BY DEF TypeOK, IsList, Node

LEMMA ChargeTyped ==
  ASSUME NEW d \in Nat, NEW p \in 0 .. Lowest
  PROVE  Weighted(d, p) \in Rank /\ d * 2 ^ p \in Int
<1> DEFINE x == d * 2 ^ p
<1>1. p \in Nat /\ 2 ^ p \in Int
  BY PriorityAssumption
<1>2. x \in Int
  BY <1>1
<1> HIDE DEF x
<1>3. x % Wrap \in 0 .. Wrap - 1
  BY <1>2, WrapAssumption
<1> QED BY <1>2, <1>3 DEF Weighted, Rank, x

LEMMA InitTyped == Init => TypeOK
<1> SUFFICES ASSUME Init PROVE TypeOK
  OBVIOUS
<1>1. mTasks \in Seq(Node) /\ Len(mTasks) = 1 /\ mTasks[1] = Cursor
  BY DEF Init, Node
<1>2. 0 \in Rank /\ 0 \in Int
  BY WordsAreIntegers DEF Rank
<1>3. IsLinked(mTasks, Cursor)
  BY <1>1 DEF IsLinked, Contains
<1> QED BY <1>1, <1>2, <1>3, PriorityAssumption, RunAssumption DEF Init, TypeOK

LEMMA NextTyped == TypeOK /\ [Next]_vars => TypeOK'
<1> SUFFICES ASSUME TypeOK, [Next]_vars PROVE TypeOK'
  OBVIOUS
<1>0. IsList(mTasks) /\ IsLinked(mTasks, Cursor) /\ Cursor \in Node /\ Task \subseteq Node
      /\ Cursor \notin Task
  BY ShapeIsList, NodeAssumption
<1>1. ASSUME NEW t \in Task, AddTask(t) PROVE TypeOK'
  <2>1. IsList(mTasks') /\ IsLinked(mTasks', Cursor) /\ mRank' \in [Node -> Rank]
    BY <1>0, <1>1, AddedListList DEF AddTask, Linked, TypeOK
  <2> QED BY <1>1, <2>1 DEF AddTask, TypeOK, IsList
<1>2. ASSUME NEW t \in Task, RemoveTask(t) \/ Destroy(t) PROVE TypeOK'
  <2>1. IsList(mTasks') /\ IsLinked(mTasks', Cursor)
    BY <1>0, <1>2, UnlinkList DEF RemoveTask, Destroy
  <2>2. mRank' \in [Node -> Rank] /\ mPriority' \in [Task -> 0 .. Lowest]
    <3>1. 0 \in Rank /\ DefaultPriority \in 0 .. Lowest
      BY PriorityAssumption, WordsAreIntegers DEF Rank
    <3>2. /\ [mRank EXCEPT ![t] = 0] \in [Node -> Rank]
          /\ [mPriority EXCEPT ![t] = DefaultPriority] \in [Task -> 0 .. Lowest]
      BY <1>0, <3>1 DEF TypeOK
    <3> QED BY <1>2, <3>2 DEF RemoveTask, Destroy, TypeOK
  <2> QED BY <1>2, <2>1, <2>2 DEF RemoveTask, Destroy, TypeOK, IsList
<1>3. CASE Clear
  <2>1. mTasks' \in Seq(Node) /\ Len(mTasks') = 1 /\ mTasks'[1] = Cursor
    BY <1>3 DEF Clear, Node
  <2>2. IsLinked(mTasks', Cursor)
    BY <2>1 DEF IsLinked, Contains
  <2> QED BY <1>3, <2>1, <2>2 DEF Clear, TypeOK
<1>4. ASSUME NEW t \in Task, NEW p \in Priorities, SetPriority(t, p) PROVE TypeOK'
  BY <1>4, PriorityAssumption DEF SetPriority, TypeOK
<1>5. ASSUME NEW t \in Task, RunBegin(t) PROVE TypeOK'
  <2>1. IsList(mTasks') /\ IsLinked(mTasks', Cursor) /\ mRank' \in [Node -> Rank]
    BY <1>0, <1>5, AdvanceCursorList DEF RunBegin, TypeOK
  <2> QED BY <1>5, <2>1 DEF RunBegin, TypeOK, IsList
<1>6. ASSUME NEW t \in Task, RunEnd(t) PROVE TypeOK'
  <2> DEFINE rank == [mRank EXCEPT ![t] = Plus(Weighted(elapsed, mPriority[t]), mRank[Cursor])]
  <2>1. /\ Weighted(elapsed, mPriority[t]) \in Rank
        /\ elapsed * 2 ^ mPriority[t] \in Int
    BY ChargeTyped, RunAssumption DEF TypeOK
  <2>2. rank \in [Node -> Rank]
    BY <1>0, <2>1, PlusWord DEF TypeOK
  <2>3. CASE Linked(t)
    <3>1. mRank' = rank /\ mTasks' = SortTask(mTasks, rank, t)
          /\ lead' = [lead EXCEPT ![t] = elapsed * 2 ^ mPriority[t]]
      BY <1>6, <2>3 DEF RunEnd
    <3> HIDE DEF rank
    <3>2. Keeps(mTasks, SortTask(mTasks, rank, t), t)
      BY <1>0, <2>2, SortTaskList
    <3>3. IsList(mTasks') /\ IsLinked(mTasks', Cursor)
      BY <1>0, <3>1, <3>2 DEF Keeps
    <3> QED BY <1>6, <2>1, <2>2, <3>1, <3>3, RunAssumption DEF RunEnd, TypeOK, IsList
  <2>4. CASE ~Linked(t)
    BY <1>6, <2>4, RunAssumption DEF RunEnd, TypeOK
  <2> QED BY <2>3, <2>4
<1>7. CASE Tick
  BY <1>7, RunAssumption DEF Tick, TypeOK
<1>8. CASE UNCHANGED vars
  BY <1>8 DEF vars, TypeOK
<1> QED BY <1>1, <1>2, <1>3, <1>4, <1>5, <1>6, <1>7, <1>8 DEF Next, Call, Run

\* Words and priorities keep their width, and no sequence of calls links a node
\* twice or loses the cursor.
THEOREM TypeCorrect == Spec => []TypeOK
BY InitTyped, NextTyped, PTL DEF Spec

-----------------------------------------------------------------------------
(* The order of the list *)

\* The task getNextTask returns has the least lead of all, and the leads of the
\* others from it are what their leads from the cursor were, less its own.
LEMMA FirstIsLeast ==
  ASSUME SharesBounded, IInv, NEW t \in Task, NextTask(mTasks) = t,
         NEW u \in Task, Linked(u)
  PROVE  /\ Linked(t)
         /\ lead[t] <= lead[u]
         /\ lead[u] - lead[t] = Minus(mRank[u], mRank[t])
         /\ lead[t] \in 0 .. MaxShare /\ lead[u] \in 0 .. MaxShare
<1> DEFINE c == mRank[Cursor]
           x == mRank[t]
           y == mRank[u]
<1>1. IsList(mTasks) /\ IsLinked(mTasks, Cursor) /\ Cursor \in Node /\ Task \subseteq Node
  BY ShapeIsList DEF IInv
<1>2. Linked(t)
  BY <1>1, NextIsFirst DEF Linked
<1>3. c \in Rank /\ x \in Rank /\ y \in Rank
  BY <1>1 DEF IInv, TypeOK
<1>4. /\ lead[t] = Minus(x, c) /\ lead[u] = Minus(y, c)
      /\ lead[t] \in 0 .. MaxShare /\ lead[u] \in 0 .. MaxShare
  BY <1>2 DEF IInv, Leads
<1>5. /\ x < c => lead[t] = x - c + Wrap
      /\ c <= x => lead[t] = x - c
      /\ y < c => lead[u] = y - c + Wrap
      /\ c <= y => lead[u] = y - c
      /\ y < x => Minus(y, x) = y - x + Wrap
      /\ x <= y => Minus(y, x) = y - x
  BY <1>3, <1>4, MinusWord
<1>6. /\ Before(mTasks, u, Cursor) => y < c
      /\ Before(mTasks, t, Cursor) => x < c
      /\ Before(mTasks, t, u) => x <= y
      /\ Before(mTasks, Cursor, t) => c <= x
  BY <1>1, <1>2 DEF IInv, Ordered, Linked
<1>7. c \in 0 .. Wrap - 1 /\ x \in 0 .. Wrap - 1 /\ y \in 0 .. Wrap - 1 /\ Wrap \in Nat
  BY <1>3, WordsAreIntegers DEF Rank
<1>8. \/ x < c /\ y < c /\ x <= y
      \/ c <= x /\ (y < c \/ x <= y)
  <2>1. CASE CursorIsLast(mTasks)
    <3>1. Before(mTasks, u, Cursor) /\ Before(mTasks, t, Cursor) /\ (u = t \/ Before(mTasks, t, u))
      BY <1>1, <1>2, <2>1, NextIsFirst DEF Linked
    <3> QED BY <1>6, <1>7, <3>1
  <2>2. CASE ~CursorIsLast(mTasks)
    <3>1. /\ Before(mTasks, Cursor, t)
          /\ u = t \/ Before(mTasks, u, Cursor) \/ Before(mTasks, t, u)
      BY <1>1, <1>2, <2>2, NextIsFirst DEF Linked
    <3> QED BY <1>6, <1>7, <3>1
  <2> QED BY <2>1, <2>2
<1> HIDE DEF c, x, y
<1>9. lead[t] <= lead[u] /\ lead[u] - lead[t] = Minus(y, x)
  BY <1>5, <1>7, <1>8
<1> QED BY <1>2, <1>4, <1>9 DEF x, y

-----------------------------------------------------------------------------
(* The invariant *)

\* A charge of less than a turn is the distance of the new rank.
LEMMA ChargeIsLead ==
  ASSUME SharesBounded, NEW d \in 0 .. MaxRun, NEW p \in 0 .. Lowest, NEW c \in Rank
  PROVE  /\ d * 2 ^ p \in 0 .. MaxShare
         /\ Plus(Weighted(d, p), c) \in Rank
         /\ Minus(Plus(Weighted(d, p), c), c) = d * 2 ^ p
<1> DEFINE w == 2 ^ p
           v == 2 ^ Lowest
           x == d * w
           y == Plus(Weighted(d, p), c)
<1>1. w \in Int /\ v \in Int /\ 0 <= w /\ w <= v /\ MaxRun \in Nat /\ Wrap \in Nat \ {0}
  BY PriorityAssumption, RunAssumption, WrapAssumption DEF SharesBounded
<1>2. MaxRun * v < Wrap /\ MaxShare = MaxRun * v
  BY DEF SharesBounded, MaxShare
<1>3. Weighted(d, p) = x % Wrap
  BY DEF Weighted
<1> HIDE DEF w, v
<1>4. x \in Int /\ 0 <= x /\ x <= MaxRun * v
  <2>1. d \in Int /\ 0 <= d /\ d <= MaxRun
    BY <1>1
  <2>2. 0 <= d * w /\ d * w <= d * v /\ d * v <= MaxRun * v
    BY <1>1, <2>1
  <2> QED BY <1>1, <2>1, <2>2
<1> HIDE DEF x
<1>5. x % Wrap = x /\ x \in Rank
  BY <1>1, <1>2, <1>4, WordOf DEF Rank
<1>6. y \in Rank /\ (x + c < Wrap => y = x + c) /\ (x + c >= Wrap => y = x + c - Wrap)
  BY <1>3, <1>5, PlusWord
<1> HIDE DEF y
<1>7. /\ y < c => Minus(y, c) = y - c + Wrap
      /\ c <= y => Minus(y, c) = y - c
  BY <1>6, MinusWord
<1>8. Minus(y, c) = x
  BY <1>1, <1>5, <1>6, <1>7, WordsAreIntegers DEF Rank
<1> QED BY <1>2, <1>4, <1>6, <1>8 DEF x, y, w

LEMMA ShareIsNatural ==
  ASSUME SharesBounded
  PROVE  MaxShare \in Nat
<1> DEFINE v == 2 ^ Lowest
<1>1. v \in Int /\ 0 <= v
  BY PriorityAssumption DEF SharesBounded
<1>2. MaxShare = MaxRun * v
  BY DEF MaxShare
<1> HIDE DEF v
<1> QED BY <1>1, <1>2, RunAssumption

LEMMA InitInv == SharesBounded /\ Init => IInv
<1> SUFFICES ASSUME SharesBounded, Init PROVE IInv
  OBVIOUS
<1>1. TypeOK
  BY InitTyped
<1>2. mTasks = <<Cursor>> /\ Idle
  BY DEF Init, Idle
<1>3. \A n \in Node : IsLinked(mTasks, n) => n = Cursor
  BY <1>2 DEF IsLinked, Contains
<1>4. ~Before(mTasks, Cursor, Cursor)
  BY <1>1, PositionOf, LenProperties DEF Before, TypeOK
<1> QED BY <1>1, <1>2, <1>3, <1>4, NodeAssumption DEF IInv, Ordered, Leads, Linked, Node

\* The calls of the application.
LEMMA AddTaskInv ==
  ASSUME SharesBounded, IInv, NEW t \in Task, AddTask(t)
  PROVE  Ordered(mTasks', mRank') /\ Leads'
<1>0. /\ IsList(mTasks) /\ IsLinked(mTasks, Cursor) /\ Cursor \in Node /\ Task \subseteq Node
      /\ Cursor \notin Task /\ mRank \in [Node -> Rank] /\ ~IsLinked(mTasks, t)
      /\ lead \in [Task -> Int] /\ 0 \in 0 .. MaxShare
  BY ShapeIsList, NodeAssumption, ShareIsNatural DEF IInv, TypeOK, AddTask, Linked
<1>1. /\ mRank'[Cursor] = mRank[Cursor] /\ mRank'[t] = mRank[Cursor]
      /\ \A m \in Node : m # t => mRank'[m] = mRank[m]
      /\ mRank[Cursor] \in Int /\ mRank[Cursor] \in Rank
  BY <1>0, WordsAreIntegers DEF AddTask, AddedRank
<1>2. mTasks' = AddedList(mTasks, mRank, t)
  BY DEF AddTask
<1>3. \A m \in Node : IsLinked(mTasks', m) <=> m = t \/ IsLinked(mTasks, m)
  BY <1>0, <1>2, AddedListList
<1>8. Ordered(mTasks', mRank')
  <2>1. Ordered(AddedList(mTasks, mRank, t), AddedRank(mRank, t))
    BY <1>0, AddKeepsOrder DEF IInv
  <2> QED BY <2>1 DEF AddTask
<1>9. \A u \in Task : Linked(u)' =>
        lead'[u] = Minus(mRank'[u], mRank'[Cursor]) /\ lead'[u] \in 0 .. MaxShare
  <2> SUFFICES ASSUME NEW u \in Task, IsLinked(mTasks', u)
               PROVE  lead'[u] = Minus(mRank'[u], mRank'[Cursor]) /\ lead'[u] \in 0 .. MaxShare
    BY DEF Linked
  <2>1. lead' = [lead EXCEPT ![t] = 0]
    BY DEF AddTask
  <2>2. CASE u = t
    BY <1>0, <1>1, <2>1, <2>2, NoDistance
  <2>3. CASE u # t
    BY <1>0, <1>1, <1>3, <2>1, <2>3 DEF IInv, Leads, Linked
  <2> QED BY <2>2, <2>3
<1>10. ~Idle' /\ Linked(mCurrentTask)' => mRank'[mCurrentTask'] = mRank'[Cursor]
  <2>1. mCurrentTask' = mCurrentTask /\ (mCurrentTask # NoTask => mCurrentTask \in Task)
    BY DEF AddTask, IInv, TypeOK
  <2> QED BY <1>0, <1>1, <1>3, <2>1 DEF IInv, Leads, Linked, Idle
<1> QED BY <1>8, <1>9, <1>10 DEF Leads

LEMMA UnlinkInv ==
  ASSUME SharesBounded, IInv, NEW t \in Task, RemoveTask(t) \/ Destroy(t)
  PROVE  Ordered(mTasks', mRank') /\ Leads'
<1>0. /\ IsList(mTasks) /\ IsLinked(mTasks, Cursor) /\ Cursor \in Node /\ Task \subseteq Node
      /\ Cursor \notin Task /\ mRank \in [Node -> Rank] /\ lead \in [Task -> Int]
  BY ShapeIsList, NodeAssumption DEF IInv, TypeOK
<1>1. mTasks' = Unlink(mTasks, t) /\ mCurrentTask' = mCurrentTask
  BY DEF RemoveTask, Destroy
<1>2. \A m \in Node : m # t => mRank'[m] = mRank[m]
  BY <1>0 DEF RemoveTask, Destroy
<1>3. \A u \in Task : u # t => lead'[u] = lead[u]
  BY <1>0 DEF RemoveTask, Destroy
<1>4. /\ ~IsLinked(mTasks', t)
      /\ \A m \in Node : m # t => (IsLinked(mTasks', m) <=> IsLinked(mTasks, m))
  BY <1>0, <1>1, UnlinkList
<1>6. mRank'[Cursor] = mRank[Cursor]
  BY <1>0, <1>2
<1>7. Ordered(mTasks', mRank')
  <2>1. Ordered(Unlink(mTasks, t), mRank')
    BY <1>0, <1>2, UnlinkKeepsOrder DEF IInv
  <2> QED BY <1>1, <2>1
<1>8. \A u \in Task : IsLinked(mTasks', u) => u # t /\ Linked(u) /\ mRank'[u] = mRank[u]
  BY <1>0, <1>2, <1>4 DEF Linked
<1>9. mCurrentTask # NoTask => mCurrentTask \in Task
  BY DEF IInv, TypeOK
<1> QED BY <1>1, <1>3, <1>6, <1>7, <1>8, <1>9 DEF IInv, Leads, Linked, Idle

LEMMA ClearInv ==
  ASSUME IInv, Clear
  PROVE  Ordered(mTasks', mRank') /\ Leads'
<1>1. mTasks' = <<Cursor>> /\ mRank' = mRank /\ mCurrentTask' = mCurrentTask
  BY DEF Clear
<1>2. \A n \in Node : IsLinked(mTasks', n) => n = Cursor
  BY <1>1 DEF IsLinked, Contains
<1>3. IsLinked(mTasks', Cursor)
  BY <1>1 DEF IsLinked, Contains
<1>4. ~Before(mTasks', Cursor, Cursor)
  BY <1>1, <1>3, PositionOf DEF Before
<1>5. mCurrentTask # NoTask => mCurrentTask \in Task
  BY DEF IInv, TypeOK
<1>6. Cursor \notin Task /\ Cursor \in Node /\ Task \subseteq Node
  BY NodeAssumption DEF Node
<1>7. mRank[Cursor] <= mRank[Cursor]
  BY <1>6, WordsAreIntegers DEF IInv, TypeOK
<1>8. Ordered(mTasks', mRank')
  BY <1>1, <1>2, <1>4, <1>6, <1>7 DEF Ordered
<1> QED BY <1>1, <1>2, <1>5, <1>6, <1>8 DEF Leads, Linked, Idle

\* run()
LEMMA RunBeginInv ==
  ASSUME SharesBounded, IInv, NEW t \in Task, RunBegin(t)
  PROVE  Ordered(mTasks', mRank') /\ Leads'
<1>0. /\ IsList(mTasks) /\ IsLinked(mTasks, Cursor) /\ Cursor \in Node /\ Task \subseteq Node
      /\ Cursor \notin Task /\ mRank \in [Node -> Rank] /\ lead \in [Task -> Int]
  BY ShapeIsList, NodeAssumption DEF IInv, TypeOK
<1>1. /\ NextTask(mTasks) = t /\ mTasks' = AdvanceCursor(mTasks) /\ mCurrentTask' = t
      /\ mRank' = [mRank EXCEPT ![Cursor] = mRank[t]]
      /\ lead' = [u \in Task |-> IF Linked(u) THEN lead[u] - lead[t] ELSE 0]
  BY DEF RunBegin
<1>2. mRank'[Cursor] = mRank[t] /\ \A u \in Task : mRank'[u] = mRank[u]
  BY <1>0, <1>1
<1>3. Ordered(mTasks', mRank')
  BY <1>0, <1>1, AdvancedOrder DEF IInv
<1>4. \A m \in Node : IsLinked(mTasks', m) <=> IsLinked(mTasks, m)
  BY <1>0, <1>1, AdvanceCursorList
<1>5. ASSUME NEW u \in Task, IsLinked(mTasks', u)
      PROVE  lead'[u] = Minus(mRank'[u], mRank'[Cursor]) /\ lead'[u] \in 0 .. MaxShare
  <2>1. Linked(u)
    BY <1>0, <1>4, <1>5 DEF Linked
  <2>2. /\ lead[t] <= lead[u] /\ lead[u] - lead[t] = Minus(mRank[u], mRank[t])
        /\ lead[t] \in 0 .. MaxShare /\ lead[u] \in 0 .. MaxShare
    BY <1>1, <2>1, FirstIsLeast
  <2>3. lead'[u] = lead[u] - lead[t]
    BY <1>1, <2>1
  <2>4. lead[u] - lead[t] \in 0 .. MaxShare
    BY <2>2, ShareIsNatural
  <2> QED BY <1>2, <2>2, <2>3, <2>4
<1> QED BY <1>1, <1>2, <1>3, <1>5 DEF Leads, Linked

LEMMA RunEndInv ==
  ASSUME SharesBounded, IInv, NEW t \in Task, RunEnd(t)
  PROVE  Ordered(mTasks', mRank') /\ Leads'
<1>0. /\ IsList(mTasks) /\ IsLinked(mTasks, Cursor) /\ Cursor \in Node /\ Task \subseteq Node
      /\ Cursor \notin Task /\ mRank \in [Node -> Rank] /\ lead \in [Task -> Int] /\ NoTask \notin Task
  BY ShapeIsList, NodeAssumption DEF IInv, TypeOK
<1>1. mCurrentTask = t /\ Idle'
  BY DEF RunEnd, Idle
<1>2. CASE ~Linked(t)
  <2>1. UNCHANGED <<mTasks, mRank, lead>>
    BY <1>2 DEF RunEnd
  <2> QED BY <1>1, <2>1 DEF IInv, Leads, Linked
<1>3. CASE Linked(t)
  <2> DEFINE r == Plus(Weighted(elapsed, mPriority[t]), mRank[Cursor])
             x == elapsed * 2 ^ mPriority[t]
             rank == [mRank EXCEPT ![t] = r]
  <2>1. mRank' = rank /\ mTasks' = SortTask(mTasks, rank, t) /\ lead' = [lead EXCEPT ![t] = x]
    BY <1>3 DEF RunEnd
  <2>2. mRank[Cursor] \in Rank /\ elapsed \in 0 .. MaxRun /\ mPriority[t] \in 0 .. Lowest
    BY <1>0 DEF IInv, TypeOK
  <2>3. x \in 0 .. MaxShare /\ r \in Rank /\ Minus(r, mRank[Cursor]) = x
    BY <2>2, ChargeIsLead
  <2> HIDE DEF r, x
  <2>4. /\ rank \in [Node -> Rank] /\ rank[t] = r /\ rank[Cursor] = mRank[Cursor]
        /\ \A m \in Node : m # t => rank[m] = mRank[m]
    BY <1>0, <2>3
  <2> HIDE DEF rank
  <2>7. Keeps(mTasks, mTasks', t)
    BY <1>0, <2>1, <2>4, SortTaskList
  <2>10. /\ \A m \in Node : m # t => (IsLinked(mTasks', m) <=> IsLinked(mTasks, m))
         /\ IsLinked(mTasks', t)
    BY <1>3, <2>7 DEF Keeps, Linked
  <2>14. Ordered(mTasks', mRank')
    <3>1. mRank[t] = mRank[Cursor]
      BY <1>0, <1>1, <1>3 DEF IInv, Leads, Idle
    <3>2. Ordered(SortTask(mTasks, rank, t), rank)
      BY <1>0, <1>3, <2>3, <3>1, SortKeepsOrder DEF IInv, Linked, rank
    <3> QED BY <2>1, <3>2
  <2>15. ASSUME NEW u \in Task, IsLinked(mTasks', u)
         PROVE  lead'[u] = Minus(mRank'[u], mRank'[Cursor]) /\ lead'[u] \in 0 .. MaxShare
    <3>1. CASE u = t
      BY <1>0, <2>1, <2>3, <2>4, <3>1
    <3>2. CASE u # t
      BY <1>0, <2>1, <2>4, <2>10, <2>15, <3>2 DEF IInv, Leads, Linked
    <3> QED BY <3>1, <3>2
  <2> QED BY <1>1, <2>14, <2>15 DEF Leads, Linked
<1> QED BY <1>2, <1>3

LEMMA NextInv == SharesBounded /\ IInv /\ [Next]_vars => IInv'
<1> SUFFICES ASSUME SharesBounded, IInv, [Next]_vars PROVE IInv'
  OBVIOUS
<1>1. TypeOK'
  BY NextTyped DEF IInv
<1>2. ASSUME UNCHANGED <<mTasks, mRank, mCurrentTask, lead>>
      PROVE  Ordered(mTasks', mRank') /\ Leads'
  BY <1>2 DEF IInv, Leads, Linked, Idle
<1>3. CASE Tick \/ UNCHANGED vars \/ \E t \in Task, p \in Priorities : SetPriority(t, p)
  BY <1>1, <1>2, <1>3 DEF Tick, vars, SetPriority, IInv
<1>4. CASE \E t \in Task : AddTask(t) \/ RemoveTask(t) \/ Destroy(t)
  BY <1>1, <1>4, AddTaskInv, UnlinkInv DEF IInv
<1>5. CASE Clear
  BY <1>1, <1>5, ClearInv DEF IInv
<1>6. CASE Run
  BY <1>1, <1>6, RunBeginInv, RunEndInv DEF Run, IInv
<1> QED BY <1>3, <1>4, <1>5, <1>6 DEF Next, Call

LEMMA InvHolds == ASSUME SharesBounded PROVE Spec => []IInv
BY InitInv, NextInv, PTL DEF Spec

\* Fair shares: the weighted times of two tasks in the scheduler differ by one
\* body at the lowest priority at most, if no such body costs a turn of the
\* counter.
THEOREM SharesAreFair == ASSUME SharesBounded PROVE Spec => []FairShare
<1>1. IInv => FairShare
  BY DEF IInv, Leads, FairShare, MaxShare
<1> QED BY <1>1, InvHolds, PTL

\* Under the same condition run() starts a task with the least weighted time of
\* all that are in the scheduler, as cfs_scheduler.hpp promises.
THEOREM LeastIsFirst == ASSUME SharesBounded PROVE Spec => LeastFirst
<1>1. ASSUME IInv, [Next]_vars
      PROVE  \A t \in Task : Idle /\ mCurrentTask' = t =>
               \A u \in Task : Linked(u) => lead[t] <= lead[u]
  <2> SUFFICES ASSUME NEW t \in Task, Idle, mCurrentTask' = t, NEW u \in Task, Linked(u)
               PROVE  lead[t] <= lead[u]
    OBVIOUS
  <2>1. mCurrentTask = NoTask /\ NoTask \notin Task
    BY NodeAssumption DEF Idle
  <2>2. RunBegin(t)
    BY <1>1, <2>1 DEF Next, Call, AddTask, RemoveTask, Destroy, Clear, SetPriority, Run, RunBegin,
                      RunEnd, Tick, Idle, vars
  <2> QED BY <1>1, <2>2, FirstIsLeast DEF RunBegin
<1> QED BY <1>1, InvHolds, PTL DEF Spec, LeastFirst
=============================================================================
