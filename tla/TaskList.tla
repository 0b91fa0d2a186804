------------------------------ MODULE TaskList ------------------------------
(***************************************************************************)
(* The intrusive, rank-sorted task list every ucosm scheduler is built on: *)
(* ITask::updateRank and the list operations of IScheduler, as operators   *)
(* on a sequence of nodes.  A list is the sequence of the nodes between    *)
(* the two sentinels of a ulink::List, first node first; one of its nodes  *)
(* is the scheduler's mCursorTask.  Ranks are unsigned words: they live in *)
(* 0 .. Wrap-1 and every sum and difference is taken modulo Wrap.          *)
(***************************************************************************)
EXTENDS Integers, SequencesExt

CONSTANTS
  Task,     \* the ITask objects
  Cursor,   \* the CursorTask node every scheduler keeps in its own list
  NoTask,   \* the null task pointer
  Wrap      \* number of values of rank_t and tick_t (2^32 in the code)

ASSUME NodeAssumption == Cursor \notin Task /\ NoTask \notin Task \cup {Cursor}
ASSUME WrapAssumption == Wrap \in Nat \ {0}

Node == Task \cup {Cursor}
Rank == 0 .. Wrap - 1

\* Mutant of Plus: a sum that does not wrap around.
PlusUnbounded(a, b) == a + b

\* rank_t and tick_t arithmetic.
Plus(a, b)  == (a + b) % Wrap
Minus(a, b) == (a - b) % Wrap

-----------------------------------------------------------------------------
(* ulink::List and ulink::Node, external: as ITask and IScheduler use them. *)

\* Node::isLinked.
IsLinked(list, n) == Contains(list, n)

\* Where a linked node stands.
Position(list, n) == CHOOSE i \in 1 .. Len(list) : list[i] = n

\* Node::remove: harmless on a node that is in no list.
Unlink(list, n) ==
  IF IsLinked(list, n) THEN RemoveAt(list, Position(list, n)) ELSE list

\* List::push_front and List::push_back move a node that is already linked.
PushFront(list, n) == InsertAt(Unlink(list, n), 1, n)
PushBack(list, n)  == Append(Unlink(list, n), n)

\* List::insert_after links a node that is not linked yet.
InsertAfter(list, p, n) == InsertAt(list, Position(list, p) + 1, n)

-----------------------------------------------------------------------------
(* ITask<rank_t> *)

\* Both branches of updateRank look one node away first, then walk on from
\* the second neighbour: leftwards to the last node not ranked above the
\* moved one, rightwards to the first node not ranked below it.
MovesLeft(list, rank, n) ==
  LET i == Position(list, n) IN i > 1 /\ rank[n] < rank[list[i - 1]]

MovesRight(list, rank, n) ==
  LET i == Position(list, n) IN i < Len(list) /\ rank[list[i + 1]] < rank[n]

LeftStop(list, rank, n) ==
  LET i == Position(list, n)
  IN  CHOOSE k \in 0 .. i - 2 :
        /\ k = 0 \/ rank[list[k]] <= rank[n]
        /\ \A j \in k + 1 .. i - 2 : rank[n] < rank[list[j]]

RightStop(list, rank, n) ==
  LET i == Position(list, n)
  IN  CHOOSE k \in i + 2 .. Len(list) + 1 :
        /\ k = Len(list) + 1 \/ rank[n] <= rank[list[k]]
        /\ \A j \in i + 2 .. k - 1 : rank[list[j]] < rank[n]

\* Mutant of UpdateRank: a task is only ever moved rightwards.
UpdateRankRightOnly(list, rank, n) ==
  IF IsLinked(list, n) /\ MovesRight(list, rank, n)
  THEN InsertAt(Unlink(list, n), RightStop(list, rank, n) - 1, n)
  ELSE list

\* ITask::updateRank.
UpdateRank(list, rank, n) ==
  IF ~IsLinked(list, n) THEN list
  ELSE IF MovesLeft(list, rank, n)
    THEN InsertAt(Unlink(list, n), LeftStop(list, rank, n) + 1, n)
  ELSE IF MovesRight(list, rank, n)
    THEN InsertAt(Unlink(list, n), RightStop(list, rank, n) - 1, n)
  ELSE list

-----------------------------------------------------------------------------
(* IScheduler<task_t, sched_task_t> *)

\* IScheduler::sortTask: the ends of the list first, then the neighbours.
SortTask(list, rank, n) ==
  IF rank[n] < rank[list[1]] THEN PushFront(list, n)
  ELSE IF rank[n] > rank[list[Len(list)]] THEN PushBack(list, n)
  ELSE UpdateRank(list, rank, n)

\* IScheduler::empty: the cursor is first and last.
IsEmpty(list) == list[1] = list[Len(list)]

\* IScheduler::getNextTask returns NextTask(list) and leaves the list as
\* AdvanceCursor(list): a cursor that is last starts over in front.
CursorIsLast(list) == list[Len(list)] = Cursor

NextTask(list) ==
  IF IsEmpty(list) THEN NoTask
  ELSE IF CursorIsLast(list) THEN list[1]
  ELSE list[Position(list, Cursor) + 1]

\* Mutant of AdvanceCursor: a cursor that is last stays there.
AdvanceCursorStays(list) == list

AdvanceCursor(list) ==
  IF ~IsEmpty(list) /\ CursorIsLast(list) THEN PushFront(list, Cursor) ELSE list

\* IScheduler::getNextRank: the rank of the task getNextTask would return, 0 in
\* an empty list; the cursor stays where it is.
NextRank(list, rank) == IF IsEmpty(list) THEN 0 ELSE rank[NextTask(list)]

\* IScheduler::addTask, once the task is known to be unlinked and initialised:
\* it takes the cursor's rank right behind the cursor, and is sorted.
AddedRank(rank, n)       == [rank EXCEPT ![n] = rank[Cursor]]
AddedList(list, rank, n) ==
  SortTask(InsertAfter(list, Cursor, n), AddedRank(rank, n), n)

\* The order in which the scheduler will visit the nodes: from the cursor to
\* the end of the list, then from its front.
Visits(list) ==
  LET c == Position(list, Cursor)
  IN  SubSeq(list, c + 1, Len(list)) \o SubSeq(list, 1, c - 1)
=============================================================================
