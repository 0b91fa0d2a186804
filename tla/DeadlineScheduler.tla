-------------------------- MODULE DeadlineScheduler --------------------------
(***************************************************************************)
(* What PeriodicScheduler promises its application, in ideal time: tasks   *)
(* are armed with an instant, time never wraps around, and there is no     *)
(* list, no cursor and no rank.  Instants are kept relative to now.        *)
(***************************************************************************)
EXTENDS Integers

CONSTANTS Task, NoTask, Periods, Delays

VARIABLES
  armed,    \* the tasks that are in the scheduler
  wait,     \* ticks until the instant an armed task is due at
  period,   \* the period of each task
  running,  \* the task whose body runs, or NoTask
  since,    \* ticks since that body was called
  behind    \* ticks since the instant the last started task was due at

vars == <<armed, wait, period, running, since, behind>>

Init ==
  /\ armed = {}
  /\ wait = [t \in Task |-> 0]
  /\ period \in [Task -> Periods]
  /\ running = NoTask
  /\ since = 0
  /\ behind \in Nat

\* A new task is due with the task that was started last.
Add(t) ==
  /\ t \notin armed
  /\ armed' = armed \cup {t}
  /\ wait' = [wait EXCEPT ![t] = -behind]
  /\ UNCHANGED <<period, running, since, behind>>

Remove(t) ==
  /\ t \in armed
  /\ armed' = armed \ {t}
  /\ wait' = [wait EXCEPT ![t] = 0]
  /\ UNCHANGED <<period, running, since, behind>>

\* All tasks are removed at once.
RemoveAll ==
  /\ armed' = {}
  /\ wait' = [t \in Task |-> 0]
  /\ UNCHANGED <<period, running, since, behind>>

\* A task object is destroyed and another one takes its place.
Replace(t) ==
  /\ running # t
  /\ armed' = armed \ {t}
  /\ wait' = [wait EXCEPT ![t] = 0]
  /\ \E p \in Periods : period' = [period EXCEPT ![t] = p]
  /\ UNCHANGED <<running, since, behind>>

ChangePeriod(t) ==
  /\ \E p \in Periods : period' = [period EXCEPT ![t] = p]
  /\ UNCHANGED <<armed, wait, running, since, behind>>

Delay(t) ==
  /\ t \in armed /\ running # t
  /\ \E d \in Delays : wait' = [wait EXCEPT ![t] = d]
  /\ UNCHANGED <<armed, period, running, since, behind>>

\* Nothing starts before it is due, or before a task that is due earlier.
Start(t) ==
  /\ running = NoTask
  /\ t \in armed /\ wait[t] <= 0
  /\ \A u \in armed : wait[t] <= wait[u]
  /\ running' = t
  /\ since' = 0
  /\ behind' = -wait[t]
  /\ UNCHANGED <<armed, wait, period>>

\* A task that is still armed is due again one period after its start.
Finish(t) ==
  /\ running = t
  /\ wait' = IF t \in armed THEN [wait EXCEPT ![t] = period[t] - since] ELSE wait
  /\ running' = NoTask
  /\ since' = 0
  /\ UNCHANGED <<armed, period, behind>>

Tick ==
  /\ wait' = [t \in Task |-> IF t \in armed THEN wait[t] - 1 ELSE wait[t]]
  /\ since' = IF running = NoTask THEN 0 ELSE since + 1
  /\ behind' = behind + 1
  /\ UNCHANGED <<armed, period, running>>

Next ==
  \/ Tick
  \/ RemoveAll
  \/ \E t \in Task :
       \/ Add(t) \/ Remove(t) \/ Replace(t) \/ ChangePeriod(t) \/ Delay(t)
       \/ Start(t) \/ Finish(t)

Spec == Init /\ [][Next]_vars
=============================================================================
