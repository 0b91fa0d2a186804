----------------------------- MODULE RTEventPoll -----------------------------
(***************************************************************************)
(* A thread beside the setters and waiters of RTEventFlags looks at the    *)
(* flags without clearing them: testAny, testAll, and waitAny, waitAll,    *)
(* which look as often as their timeout says.                              *)
(***************************************************************************)
EXTENDS RTEventFlags

CONSTANT Timeouts  \* arguments of waitAny and waitAll; 0 answers false unseen

ASSUME TimeoutAssumption == Timeouts \subseteq Nat \ {0}

VARIABLES
  wait,    \* the call that runs: its test ("any", "all" or none), its flags
           \* and the looks it has left
  answer,  \* what the last call returned
  seen     \* history: what its test would have told since the call began

pollVars == <<wait, answer, seen>>
allVars  == <<vars, pollVars>>

NoWait == [test |-> "none", flags |-> {}, left |-> 0]

PollInit == Init /\ wait = NoWait /\ answer = FALSE /\ seen = {}

\* testAny and testAll on what mFlags is.
TestAny(f, m) == f \cap m # {}
TestAll(f, m) == f \subseteq m
Holds(w, m)   == IF w.test = "any" THEN TestAny(w.flags, m) ELSE TestAll(w.flags, m)

\* waitAny or waitAll is called.
WaitCall(test, f, timeout) ==
  /\ wait = NoWait
  /\ wait' = [test |-> test, flags |-> f, left |-> timeout]
  /\ seen' = {Holds(wait', mFlags)}
  /\ UNCHANGED <<vars, answer>>

\* Mutant of WaitLook: waitAll looks with testAny.
WaitLookAny ==
  /\ wait.left > 0
  /\ IF TestAny(wait.flags, mFlags)
     THEN wait' = NoWait /\ answer' = TRUE /\ seen' = {}
     ELSE wait' = [wait EXCEPT !.left = @ - 1] /\ UNCHANGED <<answer, seen>>
  /\ UNCHANGED vars

\* One round of the loop.  A plain testAny or testAll is the only round of a
\* call with timeout 1.
WaitLook ==
  /\ wait.left > 0
  /\ IF Holds(wait, mFlags)
     THEN wait' = NoWait /\ answer' = TRUE /\ seen' = {}
     ELSE wait' = [wait EXCEPT !.left = @ - 1] /\ UNCHANGED <<answer, seen>>
  /\ UNCHANGED vars

\* The last look has failed as well.
WaitTimeout ==
  /\ wait # NoWait /\ wait.left = 0
  /\ wait' = NoWait
  /\ answer' = FALSE /\ seen' = {}
  /\ UNCHANGED vars

Poll ==
  \/ \E test \in {"any", "all"}, f \in Masks, timeout \in Timeouts : WaitCall(test, f, timeout)
  \/ WaitLook \/ WaitTimeout

\* The others go on while a call runs.
Others ==
  /\ Next
  /\ seen' = IF wait = NoWait THEN seen ELSE seen \cup {Holds(wait, mFlags')}
  /\ UNCHANGED <<wait, answer>>

PollNext == Poll \/ Others

PollSpec == PollInit /\ [][PollNext]_allVars

FairPollSpec == PollSpec /\ \A w \in Waiter : WF_vars(WaitAndClear(w))

-----------------------------------------------------------------------------

\* What waitAny and waitAll answer was true at some moment of the call, though
\* flags are set, cleared and taken by waiters between two looks: flags that
\* are set one after the other are not all set, flags that stay set are seen.
WaitAnswersTruly == [][wait # NoWait /\ wait' = NoWait => answer' \in seen]_allVars
=============================================================================
