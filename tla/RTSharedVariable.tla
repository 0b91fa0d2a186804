-------------------------- MODULE RTSharedVariable --------------------------
(***************************************************************************)
(* RTSharedVariable<T>: a value and a version in two atomic words, stored  *)
(* by several writers and read by a reader that polls hasChanged() and     *)
(* then calls loadWithVersion(), or getVersion() and load().  A step is    *)
(* one access to one of the words (a compare-exchange is one access); the  *)
(* release and acquire orders of the code keep the accesses of a caller in *)
(* program order.                                                          *)
(***************************************************************************)
EXTENDS Integers

CONSTANTS
  Writer,       \* the threads and interrupts that store
  Value,        \* the values of T
  Initial,      \* the value given to the constructor
  Wrap,         \* number of values of mVersion (2^32 in the code)
  MaxBehind     \* bound: how many updates happen between two loads of
                \* mVersion by the reader

ASSUME ValueAssumption == Initial \in Value
ASSUME VersionAssumption == Wrap \in Nat \ {0} /\ MaxBehind \in 0 .. Wrap - 1

Version == 0 .. Wrap - 1

VARIABLES
  mVersion, mValue,
  writer,       \* where each writer is in its call
  expected,     \* the local of store
  newValue,     \* the argument of store
  reader,       \* where the reader is in loadWithVersion
  version1,     \* the local of loadWithVersion
  value,        \* the argument loadWithVersion stores to
  last,         \* the version and value the reader got last
  behind        \* history: updates since the reader last loaded mVersion

writeVars == <<writer, expected, newValue>>
readVars  == <<reader, version1, value, last>>
vars      == <<mVersion, mValue, writeVars, readVars, behind>>

Init ==
  /\ mVersion = 0 /\ mValue = Initial
  /\ writer = [w \in Writer |-> "ready"]
  /\ expected = [w \in Writer |-> Initial] /\ newValue = [w \in Writer |-> Initial]
  /\ reader = "ready" /\ version1 = 0 /\ value = Initial
  /\ last = [version |-> 0, value |-> Initial]
  /\ behind = 0

-----------------------------------------------------------------------------
(* A writer.  Its locals are reset when a call returns. *)

Return(w) ==
  /\ writer' = [writer EXCEPT ![w] = "ready"]
  /\ expected' = [expected EXCEPT ![w] = Initial]
  /\ newValue' = [newValue EXCEPT ![w] = Initial]

\* store loads the value; it returns at once if that is the new one already.
StoreLoad(w, v) ==
  /\ writer[w] = "ready"
  /\ mValue # v
  /\ writer' = [writer EXCEPT ![w] = "store"]
  /\ expected' = [expected EXCEPT ![w] = mValue]
  /\ newValue' = [newValue EXCEPT ![w] = v]
  /\ UNCHANGED <<mVersion, mValue, readVars, behind>>

\* The weak compare-exchange of store fails, because the value is no longer
\* the expected one or for no reason, and says what the value is.
StoreRetry(w) ==
  /\ writer[w] = "store"
  /\ IF mValue = newValue[w]
     THEN Return(w)
     ELSE expected' = [expected EXCEPT ![w] = mValue] /\ UNCHANGED <<writer, newValue>>
  /\ UNCHANGED <<mVersion, mValue, readVars, behind>>

StoreSwap(w) ==
  /\ writer[w] = "store"
  /\ mValue = expected[w]
  /\ mValue' = newValue[w]
  /\ writer' = [writer EXCEPT ![w] = "version"]
  /\ UNCHANGED <<mVersion, expected, newValue, readVars, behind>>

\* Mutant of CompareAndSwap: the version is not incremented.
CompareAndSwapNoVersion(w, desired) ==
  /\ writer[w] = "ready"
  /\ mValue' = desired
  /\ UNCHANGED <<mVersion, writeVars, readVars, behind>>

\* compareAndSwap finds the value its caller expects.  Otherwise, or when it
\* fails for no reason, it returns false and changes nothing shared.
CompareAndSwap(w, desired) ==
  /\ writer[w] = "ready"
  /\ mValue' = desired
  /\ writer' = [writer EXCEPT ![w] = "version"]
  /\ UNCHANGED <<mVersion, expected, newValue, readVars, behind>>

\* Mutant of IncrementVersion: the version does not wrap around.
IncrementVersionUnbounded(w) ==
  /\ writer[w] = "version"
  /\ behind < MaxBehind
  /\ mVersion' = mVersion + 1
  /\ behind' = behind + 1
  /\ Return(w)
  /\ UNCHANGED <<mValue, readVars>>

\* The fetch_add at the end of both.
IncrementVersion(w) ==
  /\ writer[w] = "version"
  /\ behind < MaxBehind
  /\ mVersion' = (mVersion + 1) % Wrap
  /\ behind' = behind + 1
  /\ Return(w)
  /\ UNCHANGED <<mValue, readVars>>

-----------------------------------------------------------------------------
(* The reader *)

\* hasChanged, with the version read last.
HasChanged == mVersion # last.version

\* The first load of loadWithVersion, the first time or once more; getVersion.
ReadVersion1 ==
  /\ reader \in {"ready", "again"}
  /\ reader' = "value"
  /\ version1' = mVersion
  /\ behind' = 0
  /\ UNCHANGED <<mVersion, mValue, writeVars, value, last>>

\* The second load of loadWithVersion; load.
ReadValue ==
  /\ reader = "value"
  /\ reader' = "version"
  /\ value' = mValue
  /\ UNCHANGED <<mVersion, mValue, writeVars, version1, last, behind>>

\* The second load finds another version: the loop starts over.
ReadAgain ==
  /\ reader = "version"
  /\ mVersion # version1
  /\ reader' = "again"
  /\ version1' = 0 /\ value' = Initial
  /\ behind' = 0
  /\ UNCHANGED <<mVersion, mValue, writeVars, last>>

\* Mutant of ReadVersion2: the two versions are not compared.
ReadVersion2Unchecked ==
  /\ reader = "version"
  /\ reader' = "ready"
  /\ last' = [version |-> mVersion, value |-> value]
  /\ version1' = 0 /\ value' = Initial
  /\ behind' = 0
  /\ UNCHANGED <<mVersion, mValue, writeVars>>

ReadVersion2 ==
  /\ reader = "version"
  /\ mVersion = version1
  /\ reader' = "ready"
  /\ last' = [version |-> mVersion, value |-> value]
  /\ version1' = 0 /\ value' = Initial
  /\ behind' = 0
  /\ UNCHANGED <<mVersion, mValue, writeVars>>

\* A reader that has called getVersion() and then load() uses what they gave
\* although versions may have gone on: the version is the older one of the two.
TakePair ==
  /\ reader = "version"
  /\ reader' = "ready"
  /\ last' = [version |-> version1, value |-> value]
  /\ version1' = 0 /\ value' = Initial
  /\ UNCHANGED <<mVersion, mValue, writeVars, behind>>

-----------------------------------------------------------------------------

Write(w) == StoreRetry(w) \/ StoreSwap(w) \/ IncrementVersion(w)
Read     == ReadVersion1 \/ ReadValue \/ ReadAgain \/ ReadVersion2 \/ TakePair

Call(w) == \E v \in Value : StoreLoad(w, v) \/ CompareAndSwap(w, v)

Next == Read \/ \E w \in Writer : Write(w) \/ Call(w)

Spec == Init /\ [][Next]_vars

\* A reader that asks hasChanged() for ever and reads when it says so; writers
\* that finish their calls, as a compare-exchange that could succeed does not
\* fail for ever.
FairSpec ==
  /\ Spec
  /\ WF_vars(Read /\ (reader = "ready" => HasChanged))
  /\ \A w \in Writer : WF_vars(Write(w)) /\ SF_vars(StoreSwap(w))

-----------------------------------------------------------------------------
(* Properties *)

TypeOK ==
  /\ mVersion \in Version /\ mValue \in Value
  /\ writer \in [Writer -> {"ready", "store", "version"}]
  /\ expected \in [Writer -> Value] /\ newValue \in [Writer -> Value]
  /\ reader \in {"ready", "value", "version", "again"}
  /\ version1 \in Version /\ value \in Value
  /\ last \in [version : Version, value : Value]
  /\ behind \in 0 .. MaxBehind

\* No update is missed: while no writer is between its two accesses, a reader
\* that hasChanged tells of no change has the current value, although value
\* and version are read and written one after the other and versions wrap, and
\* also if it took the version before the value and never compared versions.
NothingMissed ==
  reader = "ready" /\ ~HasChanged /\ (\A w \in Writer : writer[w] # "version")
    => last.value = mValue

\* Once the writers start no more calls, the polling reader ends up with the
\* final value: hasChanged reports the last update however it raced with a
\* loadWithVersion, whose loop ends.
SettlesOnFinalValue ==
  <>[][Read \/ \E w \in Writer : Write(w)]_vars => <>[](last.value = mValue)

\* rt_inter_task.hpp: loadWithVersion ensures consistent version-value pair
\* reading: a version that is read twice comes with the same value twice.
ConsistentPairs ==
  [][ReadVersion2 /\ last'.version = last.version => last'.value = last.value]_vars
=============================================================================
