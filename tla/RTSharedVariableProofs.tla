----------------------- MODULE RTSharedVariableProofs -----------------------
(***************************************************************************)
(* Theorems of RTSharedVariable, for any number of writers, any value type *)
(* and any width of the version, as long as fewer updates than there are   *)
(* versions happen between two looks of the reader (MaxBehind < Wrap).     *)
(***************************************************************************)
EXTENDS RTSharedVariable, WordLemmas, TLAPS

LEMMA Words == Wrap \in Nat \ {0} /\ MaxBehind \in Int /\ 0 <= MaxBehind /\ MaxBehind < Wrap
BY VersionAssumption

\* One update more, b updates after version v.
LEMMA OneUpdateMore ==
  ASSUME NEW v \in Version, NEW b \in 0 .. MaxBehind, b < MaxBehind
  PROVE  /\ (((v + b) % Wrap) + 1) % Wrap = (v + (b + 1)) % Wrap
         /\ (((v + b) % Wrap) + 1) % Wrap \in Version
<1> DEFINE u == (v + b) % Wrap
           c == b + 1
<1>1. v \in 0 .. Wrap - 1 /\ b \in 0 .. Wrap /\ c \in 0 .. Wrap /\ 1 \in 0 .. Wrap
  BY Words DEF Version
<1>2. /\ u \in 0 .. Wrap - 1
      /\ v + b < Wrap => u = v + b
      /\ v + b >= Wrap => u = v + b - Wrap
  BY <1>1, Words, SumOnce
<1> HIDE DEF u
<1>3. /\ (u + 1) % Wrap \in 0 .. Wrap - 1
      /\ u + 1 < Wrap => (u + 1) % Wrap = u + 1
      /\ u + 1 >= Wrap => (u + 1) % Wrap = u + 1 - Wrap
  BY <1>1, <1>2, Words, SumOnce
<1> HIDE DEF c
<1>4. /\ v + c < Wrap => (v + c) % Wrap = v + c
      /\ v + c >= Wrap => (v + c) % Wrap = v + c - Wrap
  BY <1>1, Words, SumOnce
<1>5. b < Wrap - 1 /\ b \in Int /\ v \in Int /\ 0 <= b
  BY <1>1, Words
<1> DEFINE l == (u + 1) % Wrap
           r == (v + c) % Wrap
<1>6. /\ u + 1 < Wrap => l = u + 1
      /\ u + 1 >= Wrap => l = u + 1 - Wrap
      /\ v + c < Wrap => r = v + c
      /\ v + c >= Wrap => r = v + c - Wrap
  BY <1>3, <1>4
<1> HIDE DEF l, r
<1>7. l = r
  BY <1>1, <1>2, <1>5, <1>6, Words DEF c
<1> QED BY <1>3, <1>7 DEF l, r, u, c, Version

\* No update leaves the version as it was, and only that.
LEMMA SameVersion ==
  ASSUME NEW v \in Version, NEW b \in 0 .. MaxBehind
  PROVE  (v + b) % Wrap = v <=> b = 0
<1> DEFINE u == (v + b) % Wrap
<1>1. v \in 0 .. Wrap - 1 /\ b \in 0 .. Wrap /\ b < Wrap
  BY Words DEF Version
<1>2. /\ v + b < Wrap => u = v + b
      /\ v + b >= Wrap => u = v + b - Wrap
  BY <1>1, Words, SumOnce
<1> HIDE DEF u
<1>3. u = v <=> b = 0
  BY <1>1, <1>2, Words
<1> QED BY <1>3 DEF u

-----------------------------------------------------------------------------

NoWriterBetween == \A w \in Writer : writer[w] # "version"

\* "behind" counts the updates since the version the reader has.
BehindInv ==
  /\ reader = "ready" => mVersion = (last.version + behind) % Wrap
  /\ reader \in {"value", "version"} => mVersion = (version1 + behind) % Wrap

\* If there is no update, and none is on its way, the value is the current one.
CurrentInv ==
  NoWriterBetween /\ behind = 0 =>
    /\ reader = "ready" => last.value = mValue
    /\ reader = "version" => value = mValue

IInv == TypeOK /\ BehindInv /\ CurrentInv

LEMMA InitInv == Init => IInv
<1> SUFFICES ASSUME Init PROVE IInv
  OBVIOUS
<1>1. 0 \in Version /\ 0 \in 0 .. MaxBehind /\ Initial \in Value
  BY Words, ValueAssumption DEF Version
<1>2. TypeOK
  BY <1>1 DEF Init, TypeOK
<1>3. BehindInv
  BY <1>1, SameVersion DEF Init, BehindInv
<1>4. CurrentInv
  BY DEF Init, CurrentInv
<1> QED BY <1>2, <1>3, <1>4 DEF IInv

LEMMA NextInv == IInv /\ [Next]_vars => IInv'
<1> SUFFICES ASSUME IInv, [Next]_vars PROVE IInv'
  OBVIOUS
<1> USE DEF IInv
<1>0. /\ mVersion \in Version /\ behind \in 0 .. MaxBehind /\ version1 \in Version
      /\ last.version \in Version /\ 0 \in Version /\ 0 \in 0 .. MaxBehind
      /\ Initial \in Value
  BY Words, ValueAssumption DEF TypeOK, Version
<1>1. ASSUME NEW w \in Writer, NEW v \in Value, StoreLoad(w, v) PROVE IInv'
  BY <1>1 DEF StoreLoad, TypeOK, BehindInv, CurrentInv, NoWriterBetween, readVars
<1>2. ASSUME NEW w \in Writer, NEW v \in Value, CompareAndSwap(w, v) PROVE IInv'
  <2>1. ~NoWriterBetween'
    BY <1>2 DEF CompareAndSwap, NoWriterBetween, TypeOK
  <2> QED BY <1>2, <2>1 DEF CompareAndSwap, TypeOK, BehindInv, CurrentInv, readVars
<1>3. ASSUME NEW w \in Writer, StoreRetry(w) PROVE IInv'
  BY <1>0, <1>3 DEF StoreRetry, Return, TypeOK, BehindInv, CurrentInv, NoWriterBetween, readVars
<1>4. ASSUME NEW w \in Writer, StoreSwap(w) PROVE IInv'
  <2>1. ~NoWriterBetween'
    BY <1>4 DEF StoreSwap, NoWriterBetween, TypeOK
  <2> QED BY <1>4, <2>1 DEF StoreSwap, TypeOK, BehindInv, CurrentInv, readVars
<1>5. ASSUME NEW w \in Writer, IncrementVersion(w) PROVE IInv'
  <2>1. behind' = behind + 1 /\ behind' \in 0 .. MaxBehind /\ behind' # 0
    BY <1>0, <1>5, Words DEF IncrementVersion
  <2>2. (mVersion + 1) % Wrap \in Version
    <3>1. (mVersion + 0) % Wrap = mVersion
      BY <1>0, SameVersion
    <3>2. 0 < MaxBehind
      BY <1>0, <1>5, Words DEF IncrementVersion
    <3>3. (((mVersion + 0) % Wrap) + 1) % Wrap \in Version
      BY <1>0, <3>2, OneUpdateMore
    <3> QED BY <3>1, <3>3
  <2>3. TypeOK'
    BY <1>0, <1>5, <2>1, <2>2 DEF IncrementVersion, Return, TypeOK, readVars
  <2>4. BehindInv'
    <3>1. \A v \in Version : mVersion = (v + behind) % Wrap
                               => mVersion' = (v + (behind + 1)) % Wrap
      BY <1>0, <1>5, OneUpdateMore DEF IncrementVersion
    <3> QED BY <1>0, <1>5, <2>1, <3>1 DEF IncrementVersion, BehindInv, readVars
  <2>5. CurrentInv'
    BY <2>1 DEF CurrentInv
  <2> QED BY <2>3, <2>4, <2>5
<1>6. CASE ReadVersion1
  <2>1. mVersion = (mVersion + 0) % Wrap
    BY <1>0, SameVersion
  <2> QED BY <1>0, <1>6, <2>1
        DEF ReadVersion1, TypeOK, BehindInv, CurrentInv, writeVars
<1>7. CASE ReadValue
  BY <1>7 DEF ReadValue, TypeOK, BehindInv, CurrentInv, NoWriterBetween, writeVars
<1>8. CASE ReadAgain
  BY <1>0, <1>8 DEF ReadAgain, TypeOK, BehindInv, CurrentInv, NoWriterBetween, writeVars
<1>9. CASE ReadVersion2
  <2>1. behind = 0
    BY <1>0, <1>9, SameVersion DEF ReadVersion2, BehindInv
  <2>2. mVersion = (mVersion + 0) % Wrap
    BY <1>0, SameVersion
  <2>3. TypeOK'
    BY <1>0, <1>9 DEF ReadVersion2, TypeOK, writeVars
  <2>4. BehindInv'
    BY <1>9, <2>2 DEF ReadVersion2, BehindInv
  <2>5. CurrentInv'
    BY <1>9, <2>1 DEF ReadVersion2, CurrentInv, NoWriterBetween, writeVars
  <2> QED BY <2>3, <2>4, <2>5
<1>10. CASE TakePair
  BY <1>0, <1>10 DEF TakePair, TypeOK, BehindInv, CurrentInv, NoWriterBetween, writeVars
<1>11. CASE UNCHANGED vars
  BY <1>11 DEF vars, writeVars, readVars, TypeOK, BehindInv, CurrentInv, NoWriterBetween
<1> QED BY <1>1, <1>2, <1>3, <1>4, <1>5, <1>6, <1>7, <1>8, <1>9, <1>10, <1>11
      DEF Next, Read, Write, Call

THEOREM InvHolds == Spec => []IInv
BY InitInv, NextInv, PTL DEF Spec

\* Every word keeps its width and every local its type.
THEOREM TypeCorrect == Spec => []TypeOK
BY InvHolds, PTL DEF IInv

\* hasChanged misses no update, for any number of writers and any width of
\* the version.
THEOREM NoUpdateMissed == Spec => []NothingMissed
<1>1. IInv => NothingMissed
  <2> SUFFICES ASSUME IInv, reader = "ready", ~HasChanged, NoWriterBetween
               PROVE  last.value = mValue
    BY DEF NothingMissed, NoWriterBetween
  <2>1. last.version \in Version /\ behind \in 0 .. MaxBehind
    BY DEF IInv, TypeOK
  <2>2. (last.version + behind) % Wrap = last.version
    BY DEF IInv, BehindInv, HasChanged
  <2>3. behind = 0
    BY <2>1, <2>2, SameVersion
  <2> QED BY <2>3 DEF IInv, CurrentInv
<1> QED BY <1>1, InvHolds, PTL
=============================================================================
