---------------------------- MODULE CallableTask ----------------------------
(***************************************************************************)
(* CallableTask<IPeriodicTask>: tasks of a PeriodicScheduler that hold a   *)
(* callable of the application in a buffer of their own.  Which callable   *)
(* it is makes no difference: a task holds one or is empty.  Objects are   *)
(* counted when they are constructed and when they are destroyed.          *)
(***************************************************************************)
EXTENDS PeriodicScheduler

VARIABLES
  mOps,  \* the task holds a callable (mOps is not null)
  live   \* history: callables constructed in a buffer and not destroyed yet

callableVars    == <<mOps, live>>
allCallableVars == <<vars, callableVars>>

CallableInit ==
  /\ Init
  /\ mOps = [t \in Task |-> FALSE]
  /\ live = 0

\* Objects in a buffer that holds a callable, or does not.
Objects(held) == IF held THEN 1 ELSE 0

\* Calls come from the main loop or the idle function, before and after run()
\* has been called, or from a callable that is running, never from the body of an
\* empty task.  (addTask and setDelay have MayCall, the scheduler's own condition.)
MayAct == ~Idle => mOps[mCurrentTask]

-----------------------------------------------------------------------------
(* Constructors, assignments and the destructor.  None of them may destroy *)
(* the callable that is running, its own code: undefined behaviour.        *)

\* t = callable: the operand is converted to a CallableTask, which is then
\* moved, that is copied and destroyed.
Assign(t) ==
  /\ MayAct /\ mCurrentTask # t
  /\ mOps' = [mOps EXCEPT ![t] = TRUE]
  /\ live' = live + 1 - Objects(mOps[t])
  /\ UNCHANGED vars

\* t = u.  Nothing but the callable is copied: neither link, rank nor period.
CopyAssign(t, u) ==
  /\ MayAct /\ t # u /\ mCurrentTask # t
  /\ mOps' = [mOps EXCEPT ![t] = mOps[u]]
  /\ live' = live - Objects(mOps[t]) + Objects(mOps[u])
  /\ UNCHANGED vars

\* Mutant of MoveAssign: what the task held is overwritten.
MoveAssignOver(t, u) ==
  /\ MayAct /\ t # u /\ mCurrentTask \notin {t, u}
  /\ mOps' = [mOps EXCEPT ![t] = mOps[u], ![u] = FALSE]
  /\ UNCHANGED <<vars, live>>

\* t = std::move(u): the callable is copied, then destroyed in u, which stays
\* where it is in its scheduler: one object is constructed, one destroyed.
MoveAssign(t, u) ==
  /\ MayAct /\ t # u /\ mCurrentTask \notin {t, u}
  /\ mOps' = [mOps EXCEPT ![t] = mOps[u], ![u] = FALSE]
  /\ live' = live - Objects(mOps[t])
  /\ UNCHANGED vars

\* The destructor, and a new task in the place of the old one: empty, with a
\* callable, or copied or moved from another task.  It is in no scheduler and
\* has the default period.
Construct(t, held) ==
  /\ MayAct
  /\ Destroy(t) /\ mPeriod'[t] = 0
  /\ mOps' = [mOps EXCEPT ![t] = held]
  /\ live' = live - Objects(mOps[t]) + Objects(held)

CopyConstruct(t, u) == t # u /\ Construct(t, mOps[u])

MoveConstruct(t, u) ==
  /\ MayAct /\ t # u /\ mCurrentTask # u
  /\ Destroy(t) /\ mPeriod'[t] = 0
  /\ mOps' = [mOps EXCEPT ![t] = mOps[u], ![u] = FALSE]
  /\ live' = live - Objects(mOps[t])

-----------------------------------------------------------------------------

\* Mutant of RunSelf: an empty task stays in the scheduler.
RunSelfEmptyStays(t) ==
  /\ mCurrentTask = t
  /\ RunEnd(t)
  /\ UNCHANGED callableVars

\* CallableTask::run: the callable is invoked and may make any calls, an
\* empty task removes itself.
RunSelf(t) ==
  /\ mCurrentTask = t
  /\ IF mOps[t] \/ ~Linked(t) THEN RunEnd(t) ELSE RemoveTask(t)
  /\ UNCHANGED callableVars

CallableRun ==
  \/ RunIdle /\ UNCHANGED callableVars
  \/ \E t \in Task : RunBegin(t) /\ UNCHANGED callableVars
  \/ \E t \in Task : RunSelf(t)

CallableTick == Tick /\ UNCHANGED callableVars

\* What the application calls on its tasks and the scheduler.
CallableUse ==
  /\ MayAct
  /\ \/ \E t \in Task : AddTask(t) \/ RemoveTask(t)
     \/ \E t \in Task, p \in Periods : SetPeriod(t, p)
     \/ \E t \in Task, d \in Delays : SetDelay(t, d)
     \/ Clear
  /\ UNCHANGED callableVars

Store ==
  \/ \E t \in Task : Assign(t) \/ \E held \in BOOLEAN : Construct(t, held)
  \/ \E t, u \in Task :
       CopyAssign(t, u) \/ MoveAssign(t, u) \/ CopyConstruct(t, u) \/ MoveConstruct(t, u)

CallableNext == CallableUse \/ Store \/ CallableRun \/ CallableTick

CallableSpec == CallableInit /\ [][CallableNext]_allCallableVars

\* README: the main loop calls run() for ever, a body returns, time passes.
FairCallableSpec ==
  CallableSpec /\ WF_allCallableVars(CallableRun) /\ WF_allCallableVars(CallableTick)

-----------------------------------------------------------------------------
(* Properties *)

\* Every callable that was copied into a buffer is destroyed once and only
\* once, whatever is assigned, copied and moved: as many exist as tasks hold one.
OneObjectPerTask == live = Cardinality({t \in Task : mOps[t]})

LeftAlone == <>[][CallableRun \/ CallableTick]_allCallableVars

\* Once the application leaves the scheduler alone, every task that is in it
\* is run again and again: none is lost behind the cursor or starved by tasks
\* of period 0, although clock and ranks wrap around.
NoStarvation ==
  LeftAlone => \A t \in Task : []<>(Linked(t) => mCurrentTask = t)

\* A task that is empty, or was emptied by a move while it was scheduled,
\* leaves the scheduler by itself and does not keep run() busy.
EmptyTasksLeave ==
  LeftAlone => \A t \in Task : <>[](Linked(t) => mOps[t])
=============================================================================
