------------------------- MODULE RTEventFlagsProofs -------------------------
(***************************************************************************)
(* Theorems of RTEventFlags and of RTEventPoll, for any set of flags, any  *)
(* waiters and any timeouts.                                               *)
(***************************************************************************)
EXTENDS RTEventPoll, TLAPS

IInv == TypeOK /\ NoEventLost

LEMMA InitInv == Init => IInv
BY DEF Init, IInv, TypeOK, NoEventLost

LEMMA NextInv == IInv /\ [Next]_vars => IInv'
<1> SUFFICES ASSUME IInv, [Next]_vars PROVE IInv'
  OBVIOUS
<1> USE DEF IInv, TypeOK, NoEventLost
<1>1. ASSUME NEW f \in Masks, SetFlags(f) PROVE IInv'
  BY <1>1 DEF SetFlags, Masks, waitVars
<1>2. ASSUME NEW f \in Masks, ClearFlags(f) PROVE IInv'
  BY <1>2 DEF ClearFlags, Masks, waitVars
<1>3. ASSUME NEW w \in Waiter, Call(w) PROVE IInv'
  BY <1>3 DEF Call
<1>4. ASSUME NEW w \in Waiter, Load(w) PROVE IInv'
  BY <1>4 DEF Load
<1>5. ASSUME NEW w \in Waiter, Swap(w) PROVE IInv'
  <2>1. TypeOK'
    BY <1>5 DEF Swap, Return
  <2>2. NoEventLost'
    BY <1>5 DEF Swap, Return
  <2> QED BY <2>1, <2>2
<1>6. ASSUME NEW w \in Waiter, SwapFails(w) PROVE IInv'
  <2>1. TypeOK'
    BY <1>6 DEF SwapFails, Return
  <2>2. NoEventLost'
    BY <1>6 DEF SwapFails, Return
  <2> QED BY <2>1, <2>2
<1>7. CASE UNCHANGED vars
  BY <1>7 DEF vars, waitVars
<1> QED BY <1>1, <1>2, <1>3, <1>4, <1>5, <1>6, <1>7 DEF Next, WaitAndClear

\* Every local holds what it should: a waiter tries its compare-exchange only
\* with one of its flags in hand.
THEOREM TypeCorrect == Spec => []TypeOK
<1>1. IInv => TypeOK
  BY DEF IInv
<1> QED BY <1>1, InitInv, NextInv, PTL DEF Spec

\* No event is lost between the load and the compare-exchange of a
\* waitAndClear, for any number of flags, waiters, setters and clearers.
THEOREM NoFlagLost == Spec => []NoEventLost
<1>1. IInv => NoEventLost
  BY DEF IInv
<1> QED BY <1>1, InitInv, NextInv, PTL DEF Spec

-----------------------------------------------------------------------------
(* waitAny and waitAll *)

\* While a call runs, the history knows what its test tells now; and once the
\* looks are used up, one of them has failed.
WaitInv ==
  wait # NoWait =>
    /\ wait \in [test : {"any", "all"}, flags : Masks, left : Nat]
    /\ Holds(wait, mFlags) \in seen
    /\ wait.left > 0 \/ FALSE \in seen

\* A look that fails is in the history, and the call goes on as it was.
LEMMA LookFails ==
  ASSUME WaitInv, wait.left > 0, ~Holds(wait, mFlags),
         wait' = [wait EXCEPT !.left = @ - 1], UNCHANGED <<seen, mFlags>>
  PROVE  WaitInv' /\ wait' # NoWait
<1>1. wait # NoWait
  BY DEF NoWait
<1>2. wait \in [test : {"any", "all"}, flags : Masks, left : Nat]
  BY <1>1 DEF WaitInv
<1>3. /\ wait' \in [test : {"any", "all"}, flags : Masks, left : Nat]
      /\ wait'.test = wait.test /\ wait'.flags = wait.flags
  BY <1>2
<1>4. Holds(wait', mFlags) = Holds(wait, mFlags)
  BY <1>3, Zenon DEF Holds
<1>5. Holds(wait, mFlags) \in seen
  BY <1>1 DEF WaitInv
<1>6. Holds(wait, mFlags) = FALSE
  BY Zenon DEF Holds, TestAny, TestAll
<1>7. FALSE \in seen
  BY <1>5, <1>6, Zenon
<1>8. Holds(wait', mFlags') \in seen'
  BY <1>4, <1>5, Zenon
<1>9. wait' # NoWait
  BY <1>3 DEF NoWait
<1> QED BY <1>3, <1>7, <1>8, <1>9, Zenon DEF WaitInv

LEMMA NextWait == WaitInv /\ [PollNext]_allVars => WaitInv'
<1> SUFFICES ASSUME WaitInv, [PollNext]_allVars PROVE WaitInv'
  OBVIOUS
<1>1. ASSUME NEW test \in {"any", "all"}, NEW f \in Masks, NEW timeout \in Timeouts,
             WaitCall(test, f, timeout)
      PROVE  WaitInv'
  <2>1. wait' = [test |-> test, flags |-> f, left |-> timeout] /\ mFlags' = mFlags
    BY <1>1 DEF WaitCall, vars
  <2>2. wait' \in [test : {"any", "all"}, flags : Masks, left : Nat] /\ wait'.left > 0
    BY <2>1, TimeoutAssumption
  <2>3. seen' = {Holds(wait', mFlags)}
    BY <1>1, Zenon DEF WaitCall
  <2>4. Holds(wait', mFlags') \in seen'
    BY <2>1, <2>3, Zenon
  <2> QED BY <2>2, <2>4, Zenon DEF WaitInv
<1>2. CASE WaitLook
  <2>1. CASE Holds(wait, mFlags)
    BY <1>2, <2>1, Zenon DEF WaitLook, WaitInv
  <2>2. CASE ~Holds(wait, mFlags)
    BY <1>2, <2>2, LookFails, Zenon DEF WaitLook, vars
  <2> QED BY <2>1, <2>2
<1>3. CASE WaitTimeout
  BY <1>3, Zenon DEF WaitTimeout, WaitInv
<1>4. CASE Others
  <2>1. CASE wait = NoWait
    BY <1>4, <2>1, Zenon DEF Others, WaitInv
  <2>2. CASE wait # NoWait
    <3>1. wait' = wait /\ seen' = seen \cup {Holds(wait, mFlags')}
      BY <1>4, <2>2, Zenon DEF Others
    <3>2. Holds(wait', mFlags') \in seen' /\ seen \subseteq seen'
      BY <3>1, Zenon
    <3> QED BY <2>2, <3>1, <3>2, Zenon DEF WaitInv
  <2> QED BY <2>1, <2>2
<1>5. CASE UNCHANGED allVars
  <2>1. wait' = wait /\ seen' = seen /\ mFlags' = mFlags
    BY <1>5 DEF allVars, pollVars, vars
  <2> QED BY <2>1, Zenon DEF WaitInv
<1> QED BY <1>1, <1>2, <1>3, <1>4, <1>5, Zenon DEF PollNext, Poll

\* What waitAny and waitAll answer was true at some moment of the call, for any
\* number of flags, waiters and looks, whatever is set, cleared and taken
\* between two looks.
THEOREM AnswersAreTrue == PollSpec => WaitAnswersTruly
<1>1. PollInit => WaitInv
  BY Zenon DEF PollInit, WaitInv
<1>2. ASSUME WaitInv, [PollNext]_allVars
      PROVE  [wait # NoWait /\ wait' = NoWait => answer' \in seen]_allVars
  <2> SUFFICES ASSUME wait # NoWait, wait' = NoWait, PollNext PROVE answer' \in seen
    BY <1>2, Zenon
  <2>1. CASE WaitLook
    <3>1. CASE Holds(wait, mFlags)
      <4>1. answer' = TRUE /\ Holds(wait, mFlags) \in seen
        BY <1>2, <2>1, <3>1, Zenon DEF WaitLook, WaitInv
      <4>2. Holds(wait, mFlags) = TRUE
        BY <3>1, Zenon DEF Holds, TestAny, TestAll
      <4> QED BY <4>1, <4>2, Zenon
    <3>2. CASE ~Holds(wait, mFlags)
      <4>1. wait' # NoWait
        BY <1>2, <2>1, <3>2, LookFails, Zenon DEF WaitLook, vars
      <4> QED BY <4>1
    <3> QED BY <3>1, <3>2
  <2>2. CASE WaitTimeout
    <3>1. wait.left = 0 /\ answer' = FALSE
      BY <2>2, Zenon DEF WaitTimeout
    <3>2. ~(wait.left > 0)
      BY <3>1
    <3> QED BY <1>2, <3>1, <3>2, Zenon DEF WaitInv
  <2>3. CASE Others
    BY <2>3, Zenon DEF Others
  <2>4. ASSUME NEW test \in {"any", "all"}, NEW f \in Masks, NEW timeout \in Timeouts,
               WaitCall(test, f, timeout)
        PROVE  FALSE
    BY <2>4, Zenon DEF WaitCall
  <2> QED BY <2>1, <2>2, <2>3, <2>4, Zenon DEF PollNext, Poll
<1> QED BY <1>1, <1>2, NextWait, PTL DEF PollSpec, WaitAnswersTruly
=============================================================================
