---------------------------- MODULE RTEventFlags ----------------------------
(***************************************************************************)
(* RTEventFlags: one atomic word of event flags, set and cleared by tasks  *)
(* and interrupts, and waited for by waiters that call waitAndClear again  *)
(* and again.  Sets of flags stand for the bit masks.  A step is one       *)
(* access to mFlags.                                                       *)
(***************************************************************************)
EXTENDS Integers

CONSTANTS
  Flag,     \* the bits in use
  Waiter    \* the threads or tasks that call waitAndClear

VARIABLES
  mFlags,
  waiter,     \* where each waiter is: "ready", "load" or "swap"
  flags,      \* what each waiter waits for, the argument of its calls
  current,    \* the local of waitAndClear
  returned,   \* what its last call returned, {} while a call runs
  pending     \* history: the flags set and since then neither cleared by
              \* clearFlags nor returned to a waiter

waitVars == <<waiter, current, returned>>
vars     == <<mFlags, waitVars, flags, pending>>

Masks == SUBSET Flag \ {{}}

Init ==
  /\ mFlags = {} /\ pending = {}
  /\ waiter = [w \in Waiter |-> "ready"]
  /\ flags \in [Waiter -> Masks]
  /\ current = [w \in Waiter |-> {}] /\ returned = [w \in Waiter |-> {}]

SetFlags(f) ==
  /\ mFlags' = mFlags \cup f
  /\ pending' = pending \cup f
  /\ UNCHANGED <<waitVars, flags>>

ClearFlags(f) ==
  /\ mFlags' = mFlags \ f
  /\ pending' = pending \ f
  /\ UNCHANGED <<waitVars, flags>>

-----------------------------------------------------------------------------
(* waitAndClear *)

Call(w) ==
  /\ waiter[w] = "ready"
  /\ waiter' = [waiter EXCEPT ![w] = "load"]
  /\ returned' = [returned EXCEPT ![w] = {}]
  /\ UNCHANGED <<mFlags, flags, current, pending>>

\* Mutant of Load: what was loaded is not looked at.
LoadUnchecked(w) ==
  /\ waiter[w] = "load"
  /\ waiter' = [waiter EXCEPT ![w] = "swap"]
  /\ current' = [current EXCEPT ![w] = mFlags]
  /\ UNCHANGED <<mFlags, flags, returned, pending>>

\* Mutant of Load: all of the flags are waited for.
LoadAll(w) ==
  /\ waiter[w] = "load"
  /\ flags[w] \subseteq mFlags
  /\ waiter' = [waiter EXCEPT ![w] = "swap"]
  /\ current' = [current EXCEPT ![w] = mFlags]
  /\ UNCHANGED <<mFlags, flags, returned, pending>>

\* A load that finds none of the flags is repeated, which changes nothing.
Load(w) ==
  /\ waiter[w] = "load"
  /\ mFlags \cap flags[w] # {}
  /\ waiter' = [waiter EXCEPT ![w] = "swap"]
  /\ current' = [current EXCEPT ![w] = mFlags]
  /\ UNCHANGED <<mFlags, flags, returned, pending>>

Return(w, result) ==
  /\ waiter' = [waiter EXCEPT ![w] = "ready"]
  /\ returned' = [returned EXCEPT ![w] = result]
  /\ pending' = pending \ result
  /\ current' = [current EXCEPT ![w] = {}]
  /\ UNCHANGED flags

\* Mutant of Swap: a store instead of the compare-exchange.
SwapBlindly(w) ==
  /\ waiter[w] = "swap"
  /\ mFlags' = current[w] \ flags[w]
  /\ Return(w, current[w] \cap flags[w])

Swap(w) ==
  /\ waiter[w] = "swap"
  /\ mFlags = current[w]
  /\ mFlags' = current[w] \ flags[w]
  /\ Return(w, current[w] \cap flags[w])

\* The weak compare-exchange fails, because another flag was set or cleared
\* or for no reason, and leaves in current what mFlags is.  The loop goes on
\* only when none of the flags is set in that.
SwapFails(w) ==
  /\ waiter[w] = "swap"
  /\ UNCHANGED mFlags
  /\ IF mFlags \cap flags[w] = {}
     THEN /\ waiter' = [waiter EXCEPT ![w] = "load"]
          /\ current' = [current EXCEPT ![w] = {}]
          /\ UNCHANGED <<flags, returned, pending>>
     ELSE Return(w, mFlags \cap flags[w])

WaitAndClear(w) == Call(w) \/ Load(w) \/ Swap(w) \/ SwapFails(w)

-----------------------------------------------------------------------------

Next ==
  \/ \E f \in Masks : SetFlags(f) \/ ClearFlags(f)
  \/ \E w \in Waiter : WaitAndClear(w)

Spec == Init /\ [][Next]_vars

\* Every waiter keeps running and calls waitAndClear again and again.
FairSpec == Spec /\ \A w \in Waiter : WF_vars(WaitAndClear(w))

-----------------------------------------------------------------------------
(* Properties *)

TypeOK ==
  /\ mFlags \subseteq Flag /\ pending \subseteq Flag
  /\ waiter \in [Waiter -> {"ready", "load", "swap"}]
  /\ flags \in [Waiter -> Masks]
  /\ current \in [Waiter -> SUBSET Flag]
  /\ \A w \in Waiter : waiter[w] = "swap" <=> current[w] \cap flags[w] # {}
  /\ returned \in [Waiter -> SUBSET Flag]

\* No event is lost: a flag stays in mFlags until clearFlags clears it or a
\* waiter gets it, whatever is set between the load and the compare-exchange
\* of a waitAndClear and however many waiters race for it.
NoEventLost == pending \subseteq mFlags

\* An event somebody waits for is taken: waitAndClear returns it, though
\* setFlags, clearFlags and other waiters disturb its compare-exchange.
EventTaken ==
  \A w \in Waiter, e \in Flag :
    (e \in flags[w] /\ e \in pending) ~> e \notin pending

\* rt_inter_task.hpp: waitAndClear waits for any of the flags and clears them:
\* an event that has been returned once is not returned again.
DeliveredOnce ==
  [][\A w \in Waiter : waiter[w] = "swap" /\ waiter'[w] = "ready" => returned'[w] \subseteq pending]_vars
=============================================================================
