---------------------------- MODULE ResumableTask ----------------------------
(***************************************************************************)
(* IResumableTask: tasks of a PeriodicScheduler whose bodies are written   *)
(* with the UCOSM_ macros, a switch over the line to resume at.  Bodies    *)
(* are any programs made of the macros: of a resume point only the macro   *)
(* that left it matters.  A body runs from its resume point to the next    *)
(* return in one step; it takes time before that.                          *)
(***************************************************************************)
EXTENDS PeriodicScheduler

CONSTANTS
  Sleeps,  \* arguments of UCOSM_SLEEP_FOR; UCOSM_YIELD is a sleep for 0
  Checks   \* check periods of UCOSM_SLEEP_UNTIL

ASSUME SleepAssumption == Sleeps \cup Checks \cup {0} \subseteq Periods

VARIABLES
  mLine,     \* where the body goes on: "init", behind a "sleep", in an "until"
  returned,  \* the running body has returned to the scheduler
  asleep,    \* history: ticks for which a task is still to sleep
  spent,     \* history: ticks its body had run when it asked for that sleep
  polled     \* history: the check period of the SLEEP_UNTIL a task is in, else 0

resumableVars    == <<mLine, returned, asleep, spent, polled>>
allResumableVars == <<vars, resumableVars>>

ResumableInit ==
  /\ Init
  /\ mLine = [t \in Task |-> "init"]
  /\ returned = FALSE
  /\ asleep = [t \in Task |-> 0]
  /\ spent = [t \in Task |-> 0]
  /\ polled = [t \in Task |-> 0]

-----------------------------------------------------------------------------
(* The body of t, from its resume point to a return *)

Runs(t) == mCurrentTask = t /\ ~returned

\* The body leaves the resume point line and returns.  It asks not to be resumed
\* for d ticks from now; p > 0 is the period of its looks.
Leave(t, line, d, p) ==
  /\ Runs(t)
  /\ mLine' = [mLine EXCEPT ![t] = line]
  /\ returned' = TRUE
  /\ asleep' = [asleep EXCEPT ![t] = IF Linked(t) THEN d ELSE 0]
  /\ spent' = [spent EXCEPT ![t] = IF Linked(t) /\ d > 0 THEN Minus(clock, tick) ELSE 0]
  /\ polled' = [polled EXCEPT ![t] = p]

\* Mutant of SleepFor: the setPeriod(0) of the label comes before the return.
SleepForNoPeriod(t, d) == Leave(t, "sleep", d, 0) /\ SetPeriod(t, 0)

\* It goes on to a UCOSM_SLEEP_FOR.
SleepFor(t, d) == Leave(t, "sleep", d, 0) /\ SetPeriod(t, d)

\* It goes on to a UCOSM_SLEEP_UNTIL whose condition is false.
SleepUntil(t, d) == Leave(t, "until", d, d) /\ SetPeriod(t, d)

\* It was resumed in a UCOSM_SLEEP_UNTIL whose condition is still false: it
\* returns behind the setPeriod(0) of the label.
StillUntil(t) ==
  mLine[t] = "until" /\ Leave(t, "until", polled[t], polled[t]) /\ SetPeriod(t, 0)

\* It goes on to a UCOSM_SLEEP_UNTIL whose condition is true when it is looked at
\* first, false when it is looked at again: it returns to where it came from.
Flicker(t) == Leave(t, mLine[t], 0, polled[t]) /\ SetPeriod(t, 0)

\* It goes on to a UCOSM_RESTART, with the period of the label it was resumed
\* at or one it has set itself.
Restart(t) == \E p \in Periods : Leave(t, "init", 0, 0) /\ SetPeriod(t, p)

\* It goes on to UCOSM_END, which removes the task.
End(t) ==
  /\ Leave(t, "init", 0, 0)
  /\ \E p \in Periods : mPeriod' = [mPeriod EXCEPT ![t] = p]
  /\ mTasks' = Unlink(mTasks, t)
  /\ initialised' = [initialised EXCEPT ![t] = FALSE]
  /\ wait' = [wait EXCEPT ![t] = 0]
  /\ UNCHANGED <<mRank, mCurrentTask, clock, tick, started, elapsed>>

\* IResumableTask::reset, called by the main loop or by another body.
Reset(t) ==
  /\ MayCall /\ ~returned /\ mCurrentTask # t
  /\ mLine' = [mLine EXCEPT ![t] = "init"]
  /\ asleep' = [asleep EXCEPT ![t] = 0]
  /\ spent' = [spent EXCEPT ![t] = 0]
  /\ polled' = [polled EXCEPT ![t] = 0]
  /\ SetPeriod(t, 0)
  /\ UNCHANGED returned

Body ==
  \E t \in Task :
    \/ StillUntil(t) \/ Flicker(t) \/ Restart(t) \/ End(t)
    \/ \E d \in Sleeps \cup {0} : SleepFor(t, d)
    \/ \E d \in Checks : SleepUntil(t, d)

-----------------------------------------------------------------------------
(* The scheduler and the application around it *)

\* A new object starts at its beginning.
DestroyTask(t) ==
  /\ Destroy(t)
  /\ mLine' = [mLine EXCEPT ![t] = "init"]
  /\ asleep' = [asleep EXCEPT ![t] = 0]
  /\ spent' = [spent EXCEPT ![t] = 0]
  /\ polled' = [polled EXCEPT ![t] = 0]
  /\ UNCHANGED returned

\* A task that is taken out of the scheduler sleeps no longer: added again, it
\* goes on at once, at the line where it left.
TakeOut(t) ==
  /\ RemoveTask(t)
  /\ asleep' = [asleep EXCEPT ![t] = 0]
  /\ spent' = [spent EXCEPT ![t] = 0]
  /\ UNCHANGED <<mLine, returned, polled>>

ResumableUse ==
  /\ ~returned
  /\ \E t \in Task :
       \/ AddTask(t) /\ UNCHANGED resumableVars
       \/ TakeOut(t)
       \/ \E p \in Periods : SetPeriod(t, p) /\ UNCHANGED resumableVars
       \/ MayCall /\ DestroyTask(t)
       \/ Reset(t)

\* RunEnd follows the return of the body.
Return ==
  /\ returned
  /\ \E t \in Task : RunEnd(t)
  /\ returned' = FALSE
  /\ UNCHANGED <<mLine, asleep, spent, polled>>

ResumableRun ==
  \/ (RunIdle \/ \E t \in Task : RunBegin(t)) /\ UNCHANGED resumableVars
  \/ Body \/ Return

ResumableTick ==
  /\ Tick
  /\ asleep' = [t \in Task |-> IF asleep[t] = 0 THEN 0 ELSE asleep[t] - 1]
  /\ UNCHANGED <<mLine, returned, spent, polled>>

ResumableNext == ResumableUse \/ ResumableRun \/ ResumableTick

ResumableSpec == ResumableInit /\ [][ResumableNext]_allResumableVars

\* README: the main loop calls run() for ever, a body returns, time passes.
FairResumableSpec ==
  ResumableSpec /\ WF_allResumableVars(ResumableRun) /\ WF_allResumableVars(ResumableTick)

-----------------------------------------------------------------------------
(* Properties *)

Resumes(t) == mCurrentTask # t /\ mCurrentTask' = t

\* README: UCOSM_SLEEP_FOR waits for the specified scheduler ticks.
SleepsInFull ==
  [][\A t \in Task : Resumes(t) /\ mLine[t] = "sleep" => asleep[t] = 0]_allResumableVars

\* The code starts to count when run() reads its tick, before it calls the body:
\* a sleep is cut short by the time the body ran before it asked, and by nothing
\* else, whatever other tasks do, however late they make the scheduler, and
\* while clock and ranks wrap around.
SleepsFromRun ==
  [][\A t \in Task : Resumes(t) /\ mLine[t] = "sleep" => asleep[t] <= spent[t]]_allResumableVars

\* Once the application leaves the scheduler alone, every task in it goes on
\* again and again: one that sleeps wakes up and one that waits for a condition
\* looks at it, though others poll theirs with period 0.
GoesOn ==
  <>[][ResumableRun \/ ResumableTick]_allResumableVars =>
    \A t \in Task : []<>(Linked(t) => Runs(t))

\* resumable_test.cpp: three more looks at the condition, 100 ms apart, are a
\* timeout of 300 ms; a SLEEP_UNTIL looks no sooner than its check period, from
\* the tick of the run() that looked last, allows.
ChecksAtPeriod ==
  [][\A t \in Task : Resumes(t) /\ mLine[t] = "until" => asleep[t] <= spent[t]]_allResumableVars
=============================================================================
