------------------------ MODULE RTMessageQueueProofs ------------------------
(***************************************************************************)
(* Theorems of RTMessageQueue and of its status functions in RTQueueStatus,*)
(* for every Size and every set of messages.                               *)
(***************************************************************************)
EXTENDS RTQueueStatus, WordLemmas, SequenceTheorems, TLAPS

-----------------------------------------------------------------------------
(* Indices *)

LEMMA StepIndex ==
  ASSUME NEW i \in Index, NEW k \in 0 .. Size
  PROVE  /\ Step(i, k) \in Index
         /\ i + k < Size => Step(i, k) = i + k
         /\ i + k >= Size => Step(i, k) = i + k - Size
BY SizeAssumption, SumOnce DEF Step, Index

LEMMA DistanceIndex ==
  ASSUME NEW i \in Index, NEW j \in Index
  PROVE  /\ Distance(i, j) \in Index
         /\ i <= j => Distance(i, j) = j - i
         /\ j < i => Distance(i, j) = j - i + Size
BY SizeAssumption, DifferenceOnce DEF Distance, Index

LEMMA IndexIsInt == Size \in Nat /\ Size > 0 /\ \A i \in Index : i \in Int /\ 0 <= i /\ i < Size
BY SizeAssumption DEF Index

LEMMA StepOne ==
  ASSUME NEW i \in Index
  PROVE  /\ Step(i, 1) \in Index
         /\ i + 1 < Size => Step(i, 1) = i + 1
         /\ i + 1 >= Size => Step(i, 1) = 0
<1>1. 1 \in 0 .. Size
  BY IndexIsInt
<1>2. /\ Step(i, 1) \in Index
      /\ i + 1 < Size => Step(i, 1) = i + 1
      /\ i + 1 >= Size => Step(i, 1) = i + 1 - Size
  BY <1>1, StepIndex
<1>3. i + 1 >= Size => i + 1 - Size = 0
  BY IndexIsInt
<1> QED BY <1>2, <1>3

LEMMA ZeroIsIndex == 0 \in Index
BY SizeAssumption DEF Index

\* Going from i to j: what one step of either end, or a jump, changes.
LEMMA Distances ==
  ASSUME NEW i \in Index, NEW j \in Index
  PROVE  /\ Step(i, 1) \in Index /\ Step(j, 1) \in Index
         /\ i # j <=> Distance(i, j) # 0
         /\ Distance(i, j) \in 0 .. Size - 1
         /\ i = Step(j, 1) <=> Distance(i, j) = Size - 1
         /\ i # Step(j, 1) => Distance(i, Step(j, 1)) = Distance(i, j) + 1
         /\ i # j => Distance(Step(i, 1), j) = Distance(i, j) - 1
<1>1. /\ Step(i, 1) \in Index
      /\ i + 1 < Size => Step(i, 1) = i + 1
      /\ i + 1 >= Size => Step(i, 1) = 0
  BY StepOne
<1>2. /\ Step(j, 1) \in Index
      /\ j + 1 < Size => Step(j, 1) = j + 1
      /\ j + 1 >= Size => Step(j, 1) = 0
  BY StepOne
<1>3. /\ Distance(i, j) \in Index
      /\ i <= j => Distance(i, j) = j - i
      /\ j < i => Distance(i, j) = j - i + Size
  BY DistanceIndex
<1>4. /\ i <= Step(j, 1) => Distance(i, Step(j, 1)) = Step(j, 1) - i
      /\ Step(j, 1) < i => Distance(i, Step(j, 1)) = Step(j, 1) - i + Size
  BY <1>2, DistanceIndex
<1>5. /\ Step(i, 1) <= j => Distance(Step(i, 1), j) = j - Step(i, 1)
      /\ j < Step(i, 1) => Distance(Step(i, 1), j) = j - Step(i, 1) + Size
  BY <1>1, DistanceIndex
<1>6. i # j <=> Distance(i, j) # 0
  BY <1>3, IndexIsInt
<1>7. Distance(i, j) \in 0 .. Size - 1
  BY <1>3 DEF Index
<1>8. i = Step(j, 1) <=> Distance(i, j) = Size - 1
  BY <1>2, <1>3, IndexIsInt
<1>9. i # Step(j, 1) => Distance(i, Step(j, 1)) = Distance(i, j) + 1
  BY <1>2, <1>3, <1>4, IndexIsInt
<1>10. i # j => Distance(Step(i, 1), j) = Distance(i, j) - 1
  BY <1>1, <1>3, <1>5, IndexIsInt
<1> QED BY <1>1, <1>2, <1>6, <1>7, <1>8, <1>9, <1>10

\* A point on the way from i to j.
LEMMA DistanceSplits ==
  ASSUME NEW i \in Index, NEW h \in Index, NEW j \in Index, Distance(i, h) <= Distance(i, j)
  PROVE  Distance(h, j) = Distance(i, j) - Distance(i, h)
<1>1. /\ i <= h => Distance(i, h) = h - i
      /\ h < i => Distance(i, h) = h - i + Size
  BY DistanceIndex
<1>2. /\ i <= j => Distance(i, j) = j - i
      /\ j < i => Distance(i, j) = j - i + Size
  BY DistanceIndex
<1>3. /\ h <= j => Distance(h, j) = j - h
      /\ j < h => Distance(h, j) = j - h + Size
  BY DistanceIndex
<1> QED BY <1>1, <1>2, <1>3, IndexIsInt

-----------------------------------------------------------------------------
(* The two sides never share a slot. *)

\* The producer still sees a free slot while it fills it; the consumer reads
\* the first message, or clears up to a point it has not gone beyond.
SlotInv ==
  /\ producer # "ready" => mReadIndex # Step(mWriteIndex, 1)
  /\ consumer \in {"low", "high", "publish"} => held = mReadIndex /\ mReadIndex # mWriteIndex
  /\ consumer = "clear" => Distance(mReadIndex, held) <= Count

\* What each side has moved so far of its message.
CopyInv ==
  /\ producer # "ready" => message \in Message
  /\ producer \in {"high", "publish"} => mBuffer[mWriteIndex].low = message
  /\ producer = "publish" => mBuffer[mWriteIndex].high = message
  /\ consumer \in {"high", "publish"} => copy.low = mBuffer[held].low
  /\ consumer = "publish" => copy.high = mBuffer[held].high

IInv == TypeOK /\ SlotInv /\ CopyInv

LEMMA InitInv == Init => IInv
<1> SUFFICES ASSUME Init PROVE IInv
  OBVIOUS
<1>1. 0 \in Index
  BY ZeroIsIndex
<1>2. Blank \in [low : Content, high : Content]
  BY DEF Blank, Content
<1> QED BY <1>1, <1>2 DEF Init, IInv, TypeOK, SlotInv, CopyInv, Content

LEMMA NextInv == IInv /\ [Next]_vars => IInv'
<1> SUFFICES ASSUME IInv, [Next]_vars PROVE IInv'
  OBVIOUS
<1> USE DEF IInv
<1>0. /\ mReadIndex \in Index /\ mWriteIndex \in Index /\ held \in Index
      /\ Step(mReadIndex, 1) \in Index /\ Step(mWriteIndex, 1) \in Index /\ 0 \in Index
  BY StepOne, ZeroIsIndex DEF TypeOK
<1>1. CASE SendRefused
  BY <1>1 DEF SendRefused, TypeOK, SlotInv, CopyInv, receiveVars, Count
<1>2. ASSUME NEW m \in Message, SendStart(m) PROVE IInv'
  BY <1>2 DEF SendStart, Full, TypeOK, SlotInv, CopyInv, receiveVars, Content, Count
<1>3. CASE SendLow
  BY <1>3 DEF SendLow, TypeOK, SlotInv, CopyInv, receiveVars, Content, Count
<1>4. CASE SendHigh
  BY <1>4 DEF SendHigh, TypeOK, SlotInv, CopyInv, receiveVars, Content, Count
<1>5. CASE SendPublish
  BY <1>0, <1>5, Distances DEF SendPublish, TypeOK, SlotInv, CopyInv, receiveVars, Content, Count
<1>6. CASE ReceiveStart
  BY <1>6 DEF ReceiveStart, TypeOK, SlotInv, CopyInv, sendVars, Count
<1>7. CASE ReceiveLow
  BY <1>7 DEF ReceiveLow, TypeOK, SlotInv, CopyInv, sendVars, Count
<1>8. CASE ReceiveHigh
  BY <1>8 DEF ReceiveHigh, TypeOK, SlotInv, CopyInv, sendVars, Count
<1>9. CASE ReceivePublish
  <2>1. mReadIndex' = Step(mReadIndex, 1) /\ mReadIndex # mWriteIndex
    BY <1>9 DEF ReceivePublish, SlotInv
  <2>2. mReadIndex' # Step(mWriteIndex, 1)
    <3> DEFINE next == Step(mReadIndex, 1)
    <3>1. Distance(next, mWriteIndex) = Count - 1 /\ Count \in 0 .. Size - 1
      BY <1>0, <2>1, Distances DEF Count
    <3>2. next = Step(mWriteIndex, 1) <=> Distance(next, mWriteIndex) = Size - 1
      BY <1>0, Distances
    <3> QED BY <2>1, <3>1, <3>2, IndexIsInt
  <2>3. Blank \in [low : Content, high : Content]
    BY DEF Blank, Content
  <2>4. TypeOK'
    BY <1>0, <1>9, <2>1, <2>3 DEF ReceivePublish, TypeOK, sendVars
  <2>5. SlotInv'
    BY <1>9, <2>1, <2>2 DEF ReceivePublish, SlotInv, sendVars
  <2>6. CopyInv'
    BY <1>9 DEF ReceivePublish, CopyInv, sendVars
  <2> QED BY <2>4, <2>5, <2>6
<1>10. CASE ClearLoad
  BY <1>0, <1>10, Distances, IndexIsInt DEF ClearLoad, TypeOK, SlotInv, CopyInv, sendVars, Count
<1>11. CASE ClearStore
  <2>1. mReadIndex' = held /\ Distance(mReadIndex, held) <= Count
    BY <1>11 DEF ClearStore, SlotInv
  <2>2. ASSUME producer # "ready" PROVE held # Step(mWriteIndex, 1)
    <3>1. Count # Size - 1 /\ Count \in 0 .. Size - 1 /\ Distance(mReadIndex, held) \in 0 .. Size - 1
      BY <1>0, <2>2, Distances DEF SlotInv, Count
    <3>2. Distance(held, mWriteIndex) = Count - Distance(mReadIndex, held)
      BY <1>0, <2>1, DistanceSplits DEF Count
    <3>3. held = Step(mWriteIndex, 1) <=> Distance(held, mWriteIndex) = Size - 1
      BY <1>0, Distances
    <3> QED BY <3>1, <3>2, <3>3, IndexIsInt
  <2>3. TypeOK'
    BY <1>0, <1>11, <2>1 DEF ClearStore, TypeOK, sendVars
  <2>4. SlotInv'
    BY <1>11, <2>1, <2>2 DEF ClearStore, SlotInv, sendVars
  <2>5. CopyInv'
    BY <1>11 DEF ClearStore, CopyInv, sendVars
  <2> QED BY <2>3, <2>4, <2>5
<1>12. CASE UNCHANGED vars
  BY <1>12 DEF vars, sendVars, receiveVars, TypeOK, SlotInv, CopyInv, Count
<1> QED BY <1>1, <1>2, <1>3, <1>4, <1>5, <1>6, <1>7, <1>8, <1>9, <1>10, <1>11, <1>12
      DEF Next, ProducerNext, ConsumerNext, Produce, Consume

THEOREM InvHolds == Spec => []IInv
BY InitInv, NextInv, PTL DEF Spec

\* Indices stay inside the ring and every variable keeps its type.
THEOREM TypeCorrect == Spec => []TypeOK
BY InvHolds, PTL DEF IInv

\* mBuffer has no data race: trySend and tryReceive never work on one slot at
\* the same time, for every ring size.
THEOREM NoSharedSlot == Spec => []ExclusiveSlots
<1>1. IInv => ExclusiveSlots
  BY DEF IInv, SlotInv, ExclusiveSlots
<1> QED BY <1>1, InvHolds, PTL

-----------------------------------------------------------------------------
(* Walking along the ring *)

LEMMA WalkThenMeasure ==
  ASSUME NEW i \in Index, NEW k \in 0 .. Size - 1
  PROVE  Step(i, k) \in Index /\ Distance(i, Step(i, k)) = k
<1>1. k \in 0 .. Size
  BY IndexIsInt
<1>2. /\ Step(i, k) \in Index
      /\ i + k < Size => Step(i, k) = i + k
      /\ i + k >= Size => Step(i, k) = i + k - Size
  BY <1>1, StepIndex
<1>3. /\ i <= Step(i, k) => Distance(i, Step(i, k)) = Step(i, k) - i
      /\ Step(i, k) < i => Distance(i, Step(i, k)) = Step(i, k) - i + Size
  BY <1>2, DistanceIndex
<1> QED BY <1>2, <1>3, IndexIsInt

LEMMA MeasureThenWalk ==
  ASSUME NEW i \in Index, NEW j \in Index
  PROVE  Step(i, Distance(i, j)) = j
<1>1. /\ Distance(i, j) \in Index
      /\ i <= j => Distance(i, j) = j - i
      /\ j < i => Distance(i, j) = j - i + Size
  BY DistanceIndex
<1>2. Distance(i, j) \in 0 .. Size
  BY <1>1, IndexIsInt
<1>3. /\ i + Distance(i, j) < Size => Step(i, Distance(i, j)) = i + Distance(i, j)
      /\ i + Distance(i, j) >= Size => Step(i, Distance(i, j)) = i + Distance(i, j) - Size
  BY <1>2, StepIndex
<1> QED BY <1>1, <1>3, IndexIsInt

LEMMA WalkOn ==
  ASSUME NEW i \in Index, NEW k \in Nat, NEW l \in Nat, k + l <= Size - 1
  PROVE  Step(Step(i, k), l) = Step(i, k + l)
<1>1. k \in 0 .. Size /\ l \in 0 .. Size /\ k + l \in 0 .. Size
  BY IndexIsInt
<1>2. /\ Step(i, k) \in Index
      /\ i + k < Size => Step(i, k) = i + k
      /\ i + k >= Size => Step(i, k) = i + k - Size
  BY <1>1, StepIndex
<1>3. /\ Step(i, k) + l < Size => Step(Step(i, k), l) = Step(i, k) + l
      /\ Step(i, k) + l >= Size => Step(Step(i, k), l) = Step(i, k) + l - Size
  BY <1>1, <1>2, StepIndex
<1>4. /\ i + (k + l) < Size => Step(i, k + l) = i + (k + l)
      /\ i + (k + l) >= Size => Step(i, k + l) = i + (k + l) - Size
  BY <1>1, StepIndex
<1> QED BY <1>1, <1>2, <1>3, <1>4, IndexIsInt

\* The n messages of buffer b from slot r on.
Ring(b, r, n) == [k \in 1 .. n |-> b[Step(r, k - 1)]]

LEMMA RingSeq ==
  ASSUME NEW S, NEW b \in [Index -> S], NEW r \in Index, NEW n \in 0 .. Size - 1
  PROVE  /\ Ring(b, r, n) \in Seq(S)
         /\ Len(Ring(b, r, n)) = n
         /\ \A k \in 1 .. n : Ring(b, r, n)[k] = b[Step(r, k - 1)]
<1>1. n \in Nat
  BY IndexIsInt
<1>2. ASSUME NEW k \in 1 .. n PROVE b[Step(r, k - 1)] \in S
  <2>1. k - 1 \in 0 .. Size - 1
    BY <1>1, IndexIsInt
  <2> QED BY <2>1, WalkThenMeasure
<1>3. Ring(b, r, n) \in [1 .. n -> S]
  BY <1>2 DEF Ring
<1>4. Ring(b, r, n) \in Seq(S) /\ Len(Ring(b, r, n)) = n
  BY <1>1, <1>3
<1> QED BY <1>4 DEF Ring

\* The slot behind the last message holds the next one.
LEMMA RingAppend ==
  ASSUME NEW S, NEW b \in [Index -> S], NEW r \in Index, NEW n \in 0 .. Size - 1,
         n + 1 <= Size - 1
  PROVE  Ring(b, r, n + 1) = Append(Ring(b, r, n), b[Step(r, n)])
<1> DEFINE old == Ring(b, r, n)
           new == Ring(b, r, n + 1)
           e   == b[Step(r, n)]
<1>1. n \in Nat /\ n + 1 \in 0 .. Size - 1
  BY IndexIsInt
<1>2. /\ old \in Seq(S) /\ Len(old) = n
      /\ \A k \in 1 .. n : old[k] = b[Step(r, k - 1)]
  BY RingSeq
<1>3. /\ new \in Seq(S) /\ Len(new) = n + 1
      /\ \A k \in 1 .. n + 1 : new[k] = b[Step(r, k - 1)]
  BY <1>1, RingSeq
<1>4. e \in S
  BY WalkThenMeasure
<1>5. new[n + 1] = e
  <2>1. n + 1 \in 1 .. n + 1 /\ (n + 1) - 1 = n
    BY <1>1
  <2> QED BY <1>3, <2>1
<1> HIDE DEF old, new, e
<1>6. /\ Append(old, e) \in Seq(S) /\ Len(Append(old, e)) = n + 1
      /\ \A k \in 1 .. n : Append(old, e)[k] = old[k]
      /\ Append(old, e)[n + 1] = e
  BY <1>2, <1>4, AppendProperties
<1>7. \A k \in 1 .. n + 1 : k \in 1 .. n \/ k = n + 1
  BY <1>1
<1>8. \A k \in 1 .. n : k \in 1 .. n + 1
  BY <1>1
<1>9. \A k \in 1 .. Len(new) : new[k] = Append(old, e)[k]
  BY <1>2, <1>3, <1>5, <1>6, <1>7, <1>8
<1>10. new = Append(old, e)
  BY <1>3, <1>6, <1>9, SeqEqual
<1> QED BY <1>10 DEF old, new, e

\* Going k slots further drops the first k messages.
LEMMA RingDrop ==
  ASSUME NEW S, NEW b \in [Index -> S], NEW r \in Index, NEW n \in 0 .. Size - 1,
         NEW k \in 0 .. n
  PROVE  Ring(b, Step(r, k), n - k) = SubSeq(Ring(b, r, n), k + 1, n)
<1> DEFINE old == Ring(b, r, n)
           new == Ring(b, Step(r, k), n - k)
           sub == SubSeq(old, k + 1, n)
<1>1. /\ n \in Nat /\ k \in Nat /\ k \in 0 .. Size - 1 /\ n - k \in 0 .. Size - 1
      /\ k + 1 \in Int /\ n \in Int
  BY IndexIsInt
<1>2. Step(r, k) \in Index
  BY <1>1, WalkThenMeasure
<1>3. /\ old \in Seq(S) /\ Len(old) = n
      /\ \A j \in 1 .. n : old[j] = b[Step(r, j - 1)]
  BY RingSeq
<1>4. /\ new \in Seq(S) /\ Len(new) = n - k
      /\ \A j \in 1 .. n - k : new[j] = b[Step(Step(r, k), j - 1)]
  <2> DEFINE q == Step(r, k)
             m == n - k
  <2>1. q \in Index /\ m \in 0 .. Size - 1
    BY <1>1, <1>2
  <2> HIDE DEF q, m
  <2>2. /\ Ring(b, q, m) \in Seq(S) /\ Len(Ring(b, q, m)) = m
        /\ \A j \in 1 .. m : Ring(b, q, m)[j] = b[Step(q, j - 1)]
    BY <2>1, RingSeq
  <2> QED BY <2>2 DEF q, m
<1> HIDE DEF old, new
<1>5. \A j \in k + 1 .. n : old[j] \in S
  BY <1>1, <1>3
<1>6. /\ sub \in Seq(S)
      /\ Len(sub) = IF k + 1 <= n THEN n - (k + 1) + 1 ELSE 0
      /\ \A j \in 1 .. n - (k + 1) + 1 : sub[j] = old[(k + 1) + j - 1]
  BY <1>1, <1>5, SubSeqProperties
<1>7. Len(sub) = n - k
  BY <1>1, <1>6
<1>8. ASSUME NEW j \in 1 .. n - k PROVE new[j] = sub[j]
  <2>1. /\ j - 1 \in Nat /\ k + (j - 1) <= Size - 1 /\ j \in 1 .. n - (k + 1) + 1
        /\ (k + 1) + j - 1 \in 1 .. n /\ ((k + 1) + j - 1) - 1 = k + (j - 1)
    BY <1>1, IndexIsInt
  <2>2. Step(Step(r, k), j - 1) = Step(r, k + (j - 1))
    BY <1>1, <2>1, WalkOn
  <2>3. sub[j] = b[Step(r, k + (j - 1))]
    BY <1>3, <1>6, <2>1
  <2> QED BY <1>4, <2>2, <2>3
<1> HIDE DEF sub
<1>9. new = sub
  BY <1>4, <1>6, <1>7, <1>8, SeqEqual
<1> QED BY <1>9 DEF old, new, sub

\* What the slot at the producer's index holds is not on the way.
LEMMA RingElsewhere ==
  ASSUME NEW S, NEW b \in [Index -> S], NEW c \in [Index -> S],
         NEW r \in Index, NEW w \in Index,
         \A i \in Index : i # w => b[i] = c[i]
  PROVE  Ring(b, r, Distance(r, w)) = Ring(c, r, Distance(r, w))
<1> DEFINE n == Distance(r, w)
<1>1. n \in 0 .. Size - 1
  BY DistanceIndex DEF Index
<1> HIDE DEF n
<1>2. ASSUME NEW k \in 1 .. n PROVE b[Step(r, k - 1)] = c[Step(r, k - 1)]
  <2>1. k - 1 \in 0 .. Size - 1 /\ k - 1 # n
    BY <1>1, IndexIsInt
  <2>2. Step(r, k - 1) \in Index /\ Distance(r, Step(r, k - 1)) = k - 1
    BY <2>1, WalkThenMeasure
  <2>3. Step(r, k - 1) # w
    BY <2>1, <2>2 DEF n
  <2> QED BY <2>2, <2>3
<1> QED BY <1>2 DEF Ring, n

-----------------------------------------------------------------------------
(* The queue is a first-in first-out channel. *)

Slot == [low : Content, high : Content]

LEMMA PublishedRing ==
  TypeOK => /\ Published = Ring(mBuffer, mReadIndex, Count)
            /\ Count \in 0 .. Size - 1
            /\ Published \in Seq(Slot) /\ Len(Published) = Count
            /\ \A k \in 1 .. Count : Published[k] = mBuffer[Step(mReadIndex, k - 1)]
<1> SUFFICES ASSUME TypeOK
             PROVE  /\ Published = Ring(mBuffer, mReadIndex, Count)
                    /\ Count \in 0 .. Size - 1
                    /\ Published \in Seq(Slot) /\ Len(Published) = Count
                    /\ \A k \in 1 .. Count : Published[k] = mBuffer[Step(mReadIndex, k - 1)]
  OBVIOUS
<1>1. mReadIndex \in Index /\ mWriteIndex \in Index /\ mBuffer \in [Index -> Slot]
  BY DEF TypeOK, Slot
<1>2. Count \in 0 .. Size - 1
  BY <1>1, Distances DEF Count
<1>3. Published = Ring(mBuffer, mReadIndex, Count)
  BY DEF Published, Ring
<1> QED BY <1>1, <1>2, <1>3, RingSeq

\* A step that leaves the indices alone and writes the producer's slot only.
LEMMA SlotWriteHidden ==
  ASSUME TypeOK, TypeOK', UNCHANGED <<mReadIndex, mWriteIndex>>,
         \A i \in Index : i # mWriteIndex => mBuffer[i] = mBuffer'[i]
  PROVE  Published' = Published
<1>1. mReadIndex \in Index /\ mWriteIndex \in Index
      /\ mBuffer \in [Index -> Slot] /\ mBuffer' \in [Index -> Slot]
  BY DEF TypeOK, Slot
<1>2. Ring(mBuffer, mReadIndex, Count) = Ring(mBuffer', mReadIndex, Count)
  BY <1>1, RingElsewhere DEF Count
<1> QED BY <1>2 DEF Published, Ring, Count

LEMMA SendAppends ==
  ASSUME IInv, SendPublish
  PROVE  /\ message \in Message /\ Len(Published) < Size - 1
         /\ Published' = Append(Published, Whole(message))
<1>1. /\ mReadIndex \in Index /\ mWriteIndex \in Index /\ mBuffer \in [Index -> Slot]
      /\ message \in Message /\ mReadIndex # Step(mWriteIndex, 1)
  BY DEF IInv, TypeOK, SlotInv, CopyInv, SendPublish, Slot
<1>2. mBuffer[mWriteIndex] = Whole(message)
  <2>1. mBuffer[mWriteIndex] \in Slot
    BY <1>1
  <2>2. mBuffer[mWriteIndex].low = message /\ mBuffer[mWriteIndex].high = message
    BY DEF IInv, CopyInv, SendPublish
  <2> QED BY <2>1, <2>2 DEF Slot, Whole
<1>3. Count \in 0 .. Size - 1 /\ Count # Size - 1
      /\ Distance(mReadIndex, Step(mWriteIndex, 1)) = Count + 1
  BY <1>1, Distances DEF Count
<1>4. Count + 1 <= Size - 1
  BY <1>3, IndexIsInt
<1>5. Step(mReadIndex, Count) = mWriteIndex
  BY <1>1, MeasureThenWalk DEF Count
<1>6. Ring(mBuffer, mReadIndex, Count + 1)
        = Append(Ring(mBuffer, mReadIndex, Count), mBuffer[Step(mReadIndex, Count)])
  BY <1>1, <1>3, <1>4, RingAppend
<1>7. mReadIndex' = mReadIndex /\ mBuffer' = mBuffer /\ Count' = Count + 1
  BY <1>3 DEF SendPublish, Count
<1>8. Published' = Ring(mBuffer, mReadIndex, Count + 1)
  BY <1>7 DEF Published, Ring
<1>9. Published = Ring(mBuffer, mReadIndex, Count) /\ Len(Published) = Count
  BY PublishedRing DEF IInv
<1>10. Len(Published) < Size - 1
  BY <1>3, <1>4, <1>9, IndexIsInt
<1> QED BY <1>1, <1>2, <1>5, <1>6, <1>8, <1>9, <1>10

\* Moving the read index to a slot h on the way to the write index.
LEMMA JumpDrops ==
  ASSUME TypeOK, NEW h \in Index, Distance(mReadIndex, h) <= Count,
         mReadIndex' = h, UNCHANGED <<mWriteIndex, mBuffer>>
  PROVE  /\ Distance(mReadIndex, h) \in 0 .. Len(Published)
         /\ Published' = SubSeq(Published, Distance(mReadIndex, h) + 1, Len(Published))
<1> DEFINE n == Distance(mReadIndex, h)
<1>1. mReadIndex \in Index /\ mWriteIndex \in Index /\ mBuffer \in [Index -> Slot]
  BY DEF TypeOK, Slot
<1>2. n \in 0 .. Size - 1 /\ Count \in 0 .. Size - 1
  BY <1>1, Distances DEF Count
<1>3. n \in 0 .. Count
  BY <1>2, IndexIsInt
<1>4. Step(mReadIndex, n) = h
  BY <1>1, MeasureThenWalk
<1>5. Count' = Count - n
  BY <1>1, DistanceSplits DEF Count
<1>6. Published' = Ring(mBuffer, h, Count - n)
  BY <1>5 DEF Published, Ring
<1>7. Published = Ring(mBuffer, mReadIndex, Count) /\ Len(Published) = Count
  BY PublishedRing
<1> HIDE DEF n
<1>8. Ring(mBuffer, Step(mReadIndex, n), Count - n)
        = SubSeq(Ring(mBuffer, mReadIndex, Count), n + 1, Count)
  BY <1>1, <1>2, <1>3, RingDrop
<1>9. Published' = SubSeq(Published, n + 1, Len(Published)) /\ n \in 0 .. Len(Published)
  BY <1>3, <1>4, <1>6, <1>7, <1>8
<1> QED BY <1>9 DEF n

LEMMA ReceiveTakesHead ==
  ASSUME IInv, ReceivePublish
  PROVE  /\ Published # <<>>
         /\ received' = Head(Published)
         /\ Published' = Tail(Published)
<1>1. /\ mReadIndex \in Index /\ mWriteIndex \in Index /\ mBuffer \in [Index -> Slot]
      /\ copy \in Slot /\ held = mReadIndex /\ mReadIndex # mWriteIndex
  BY DEF IInv, TypeOK, SlotInv, ReceivePublish, Slot
<1>2. /\ Published \in Seq(Slot) /\ Len(Published) = Count
      /\ \A k \in 1 .. Count : Published[k] = mBuffer[Step(mReadIndex, k - 1)]
  BY PublishedRing DEF IInv
<1>3. Count \in 0 .. Size - 1 /\ Count # 0
  BY <1>1, Distances DEF Count
<1>4. Published # <<>> /\ 1 \in 1 .. Count
  BY <1>2, <1>3, IndexIsInt
<1>5. Step(mReadIndex, 0) = mReadIndex
  <2>1. 0 \in 0 .. Size /\ mReadIndex + 0 < Size /\ mReadIndex + 0 = mReadIndex
    BY <1>1, IndexIsInt
  <2> QED BY <1>1, <2>1, StepIndex
<1>6. mBuffer[held] = Published[1]
  <2>1. Published[1] = mBuffer[Step(mReadIndex, 1 - 1)] /\ 1 - 1 = 0
    BY <1>2, <1>4
  <2> QED BY <1>1, <1>5, <2>1
<1>7. copy = mBuffer[held]
  <2>1. mBuffer[held] \in Slot
    BY <1>1
  <2>2. copy.low = mBuffer[held].low /\ copy.high = mBuffer[held].high
    BY DEF IInv, CopyInv, ReceivePublish
  <2> QED BY <1>1, <2>1, <2>2 DEF Slot
<1>8. received' = Head(Published)
  BY <1>2, <1>4, <1>6, <1>7 DEF ReceivePublish
<1> DEFINE next == Step(mReadIndex, 1)
<1>9. next \in Index
  BY <1>1, StepOne
<1>10. Distance(mReadIndex, next) = 1
  <2>1. 1 \in 0 .. Size - 1
    BY <1>3, IndexIsInt
  <2> QED BY <1>1, <2>1, WalkThenMeasure
<1>11. Distance(mReadIndex, next) <= Count
  BY <1>3, <1>10, IndexIsInt
<1>12. mReadIndex' = next /\ UNCHANGED <<mWriteIndex, mBuffer>>
  BY <1>1 DEF ReceivePublish
<1> HIDE DEF next
<1>13. Published' = SubSeq(Published, Distance(mReadIndex, next) + 1, Len(Published))
  BY <1>9, <1>11, <1>12, JumpDrops DEF IInv
<1>14. Published' = SubSeq(Published, 2, Len(Published))
  BY <1>10, <1>13
<1> QED BY <1>2, <1>4, <1>8, <1>14, TailIsSubSeq

LEMMA RefineInit == Init => Channel!Init
<1> SUFFICES ASSUME Init PROVE Channel!Init
  OBVIOUS
<1>1. TypeOK
  BY InitInv DEF IInv
<1>2. Count = 0
  BY <1>1, Distances DEF Init, Count, TypeOK
<1>3. Published \in Seq(Slot) /\ Len(Published) = 0
  BY <1>1, <1>2, PublishedRing
<1>4. Published = <<>>
  BY <1>3
<1> QED BY <1>4 DEF Init, Channel!Init, Doomed

LEMMA RefineNext ==
  ASSUME IInv, IInv', [Next]_vars
  PROVE  [Channel!Next]_(Channel!vars)
<1> USE DEF Channel!vars
<1>0. TypeOK /\ TypeOK'
  BY DEF IInv
<1>1. CASE SendRefused
  <2>1. Published' = Published
    BY <1>1 DEF SendRefused, Published, Count
  <2>2. Len(Published) = Count
    BY <1>0, PublishedRing
  <2>3. Count = Size - 1
    BY <1>0, <1>1, Distances DEF SendRefused, Full, Count, TypeOK
  <2>4. Doomed' = Doomed
    BY <1>1 DEF SendRefused, receiveVars, Doomed
  <2> QED BY <1>1, <2>1, <2>2, <2>3, <2>4
          DEF SendRefused, receiveVars, Channel!Next, Channel!Refuse
<1>2. ASSUME NEW m \in Message, SendStart(m) PROVE Channel!CallSend
  <2>1. Published' = Published
    BY <1>2 DEF SendStart, Published, Count
  <2>2. Doomed' = Doomed
    BY <1>2 DEF SendStart, receiveVars, Doomed
  <2> QED BY <1>2, <2>1, <2>2 DEF SendStart, receiveVars, Channel!CallSend
<1>3. CASE SendLow
  <2>1. Published' = Published
    BY <1>0, <1>3, SlotWriteHidden DEF SendLow, TypeOK
  <2> QED BY <1>3, <2>1 DEF SendLow, receiveVars, Doomed
<1>4. CASE SendHigh
  <2>1. Published' = Published
    BY <1>0, <1>4, SlotWriteHidden DEF SendHigh, TypeOK
  <2> QED BY <1>4, <2>1 DEF SendHigh, receiveVars, Doomed
<1>5. CASE SendPublish
  <2>1. Channel!Send(Whole(message))
    BY <1>5, SendAppends DEF SendPublish, receiveVars, Channel!Send, Doomed
  <2>2. Whole(message) \in {Whole(m) : m \in Message}
    BY <1>5, SendAppends
  <2> QED BY <2>1, <2>2 DEF Channel!Next
<1>6. CASE ReceiveStart \/ ReceiveLow \/ ReceiveHigh
  BY <1>6 DEF ReceiveStart, ReceiveLow, ReceiveHigh, sendVars, Published, Count, Doomed
<1>7. CASE ReceivePublish
  <2>1. Doomed = 0 /\ Doomed' = 0
    BY <1>7 DEF ReceivePublish, Doomed
  <2> QED BY <1>7, <2>1, ReceiveTakesHead
          DEF ReceivePublish, sendVars, Channel!Next, Channel!Receive
<1>10. CASE ClearLoad
  <2>1. Doomed = 0 /\ Doomed' = Count
    BY <1>10 DEF ClearLoad, Doomed, Count
  <2>2. Published' = Published /\ Len(Published) = Count
    BY <1>0, <1>10, PublishedRing DEF ClearLoad, Published, Count
  <2> QED BY <1>10, <2>1, <2>2 DEF ClearLoad, sendVars, Channel!Next, Channel!Clear
<1>8. CASE ClearStore
  <2>1. /\ held \in Index /\ Distance(mReadIndex, held) <= Count
        /\ mReadIndex' = held /\ UNCHANGED <<mWriteIndex, mBuffer>>
    BY <1>8 DEF IInv, TypeOK, SlotInv, ClearStore
  <2>2. /\ Distance(mReadIndex, held) \in 0 .. Len(Published)
        /\ Published' = SubSeq(Published, Distance(mReadIndex, held) + 1, Len(Published))
    BY <1>0, <2>1, JumpDrops
  <2>3. Doomed = Distance(mReadIndex, held) /\ Doomed' = 0
    BY <1>8 DEF ClearStore, Doomed
  <2> QED BY <1>8, <2>2, <2>3 DEF ClearStore, sendVars, Channel!Next, Channel!Drop
<1>9. CASE UNCHANGED vars
  BY <1>9 DEF vars, sendVars, receiveVars, Published, Count, Doomed
<1> QED BY <1>1, <1>2, <1>3, <1>4, <1>5, <1>6, <1>7, <1>8, <1>9, <1>10
      DEF Next, ProducerNext, ConsumerNext, Produce, Consume, Channel!Next

\* RTMessageQueue is a bounded first-in first-out channel of whole messages
\* for every ring size and every set of messages: no interleaving of trySend,
\* tryReceive and clear() duplicates, reorders or tears one, or loses one but those
\* that were on their way when a clear() began.
THEOREM QueueIsChannel == Spec => ImplementsChannel
<1>1. IInv /\ IInv' /\ [Next]_vars => [Channel!Next]_(Channel!vars)
  BY RefineNext
<1> QED BY <1>1, InvHolds, RefineInit, PTL DEF Spec, ImplementsChannel, Channel!Spec

-----------------------------------------------------------------------------
(* empty(), full() and size() *)

\* Between the two loads of a call: the index loaded first and the one still
\* to be loaded are a number apart that was queued during the call.  The index
\* of the side that asks does not move, so that this remains so when the other
\* side publishes or takes messages.
StatusInv ==
  /\ asker \in Askers \cup {"nobody"}
  /\ loaded \in Index
  /\ asker # "nobody" =>
       /\ question \in {"size", "full", "empty"}
       /\ question = "empty" => Distance(loaded, mWriteIndex) \in counts
       /\ question # "empty" => Distance(mReadIndex, loaded) \in counts
  /\ asker = "producer" /\ question # "empty" => loaded = mWriteIndex
  /\ asker = "consumer" /\ question = "empty" => loaded = mReadIndex

StatusStep == [StatusNext]_<<vars, statusVars>>

LEMMA StatusStepQueue == StatusStep => [Next]_vars
BY DEF StatusStep, StatusNext, statusVars, ProducerGoes, ConsumerGoes, Ask, Answer, Next

LEMMA ProducerSide == ProducerNext => UNCHANGED mReadIndex
BY DEF ProducerNext, Produce, SendRefused, SendStart, SendLow, SendHigh, SendPublish

LEMMA ConsumerSide == ConsumerNext => UNCHANGED mWriteIndex
BY DEF ConsumerNext, Consume, ReceiveStart, ReceiveLow, ReceiveHigh, ReceivePublish, ClearLoad, ClearStore

LEMMA InitStatus == StatusInit => StatusInv
BY ZeroIsIndex DEF StatusInit, StatusInv, Askers

LEMMA NextStatus == IInv /\ StatusInv /\ StatusStep => StatusInv'
<1> SUFFICES ASSUME IInv, StatusInv, StatusStep PROVE StatusInv'
  OBVIOUS
<1>0. mReadIndex \in Index /\ mWriteIndex \in Index /\ 0 \in Index
  BY ZeroIsIndex DEF IInv, TypeOK
<1>1. CASE ProducerGoes
  <2>1. /\ asker # "producer" /\ UNCHANGED <<mReadIndex, asker, question, loaded>>
        /\ asker # "nobody" => counts' = counts \cup {Distance(mReadIndex', mWriteIndex')}
    BY <1>1, ProducerSide DEF ProducerGoes, Observe, Count
  <2> QED BY <2>1 DEF StatusInv, Askers
<1>2. CASE ConsumerGoes
  <2>1. /\ asker # "consumer" /\ UNCHANGED <<mWriteIndex, asker, question, loaded>>
        /\ asker # "nobody" => counts' = counts \cup {Distance(mReadIndex', mWriteIndex')}
    BY <1>2, ConsumerSide DEF ConsumerGoes, Observe, Count
  <2> QED BY <2>1 DEF StatusInv, Askers
<1>3. CASE Answer
  BY <1>0, <1>3 DEF Answer, StatusInv, Askers
<1>4. ASSUME NEW a \in Askers, NEW q \in {"size", "full", "empty"}, Ask(a, q) PROVE StatusInv'
  <2>1. /\ asker' = a /\ question' = q /\ counts' = {Distance(mReadIndex, mWriteIndex)}
        /\ loaded' = IF q = "empty" THEN mReadIndex ELSE mWriteIndex
        /\ UNCHANGED <<mReadIndex, mWriteIndex>>
    BY <1>4 DEF Ask, Count, vars
  <2> QED BY <1>0, <2>1 DEF StatusInv, Askers
<1>5. CASE UNCHANGED <<vars, statusVars>>
  BY <1>5 DEF vars, statusVars, StatusInv
<1> QED BY <1>1, <1>2, <1>3, <1>4, <1>5 DEF StatusStep, StatusNext

LEMMA NextAnswer == IInv /\ StatusInv /\ AnswerWasTrue /\ StatusStep => AnswerWasTrue'
<1> SUFFICES ASSUME IInv, StatusInv, AnswerWasTrue, StatusStep PROVE AnswerWasTrue'
  OBVIOUS
<1>1. CASE answer' = [question |-> "none"]
  BY <1>1 DEF AnswerWasTrue
<1>2. CASE Answer
  <2>0. /\ mReadIndex \in Index /\ mWriteIndex \in Index /\ loaded \in Index
        /\ question \in {"size", "full", "empty"} /\ counts' = counts
    BY <1>2 DEF IInv, TypeOK, StatusInv, Answer
  <2>1. CASE question = "size"
    <3>1. answer' = [question |-> "size", value |-> Distance(mReadIndex, loaded)]
      BY <1>2, <2>1 DEF Answer
    <3>2. Distance(mReadIndex, loaded) \in counts
      BY <1>2, <2>1 DEF Answer, StatusInv
    <3> QED BY <2>0, <3>1, <3>2 DEF AnswerWasTrue
  <2>2. CASE question = "full"
    <3> DEFINE n == Distance(mReadIndex, loaded)
    <3>1. answer' = [question |-> "full", value |-> Step(loaded, 1) = mReadIndex]
      BY <1>2, <2>2 DEF Answer
    <3>2. n \in counts
      BY <1>2, <2>2 DEF Answer, StatusInv
    <3>3. (Step(loaded, 1) = mReadIndex) = (n = Size - 1)
      BY <2>0, Distances
    <3>4. (Step(loaded, 1) = mReadIndex) \in {k = Size - 1 : k \in counts}
      BY <3>2, <3>3, Zenon
    <3>5. answer'.question = "full" /\ answer'.value \in {k = Size - 1 : k \in counts'}
      BY <2>0, <3>1, <3>4, Zenon
    <3> QED BY <3>5, Zenon DEF AnswerWasTrue
  <2>3. CASE question = "empty"
    <3> DEFINE n == Distance(loaded, mWriteIndex)
    <3>1. answer' = [question |-> "empty", value |-> loaded = mWriteIndex]
      BY <1>2, <2>3 DEF Answer
    <3>2. n \in counts
      BY <1>2, <2>3 DEF Answer, StatusInv
    <3>3. (loaded = mWriteIndex) = (n = 0)
      <4>1. loaded # mWriteIndex <=> n # 0
        BY <2>0, Distances
      <4> QED BY <4>1, Zenon
    <3>4. (loaded = mWriteIndex) \in {k = 0 : k \in counts}
      BY <3>2, <3>3, Zenon
    <3>5. answer'.question = "empty" /\ answer'.value \in {k = 0 : k \in counts'}
      BY <2>0, <3>1, <3>4, Zenon
    <3> QED BY <3>5, Zenon DEF AnswerWasTrue
  <2> QED BY <2>0, <2>1, <2>2, <2>3
<1>3. CASE UNCHANGED <<vars, statusVars>>
  BY <1>3 DEF statusVars, AnswerWasTrue
<1> QED BY <1>1, <1>2, <1>3 DEF StatusStep, StatusNext, ProducerGoes, ConsumerGoes, Ask, Observe

\* What empty(), full() and size() return was true at some time during the
\* call, for every ring size: the two loads never make up a number of messages
\* that was not queued.
THEOREM AnswersWereTrue == StatusSpec => []AnswerWasTrue
<1>1. StatusInit => IInv /\ StatusInv /\ AnswerWasTrue
  BY InitInv, InitStatus DEF StatusInit, AnswerWasTrue
<1>2. IInv /\ StatusInv /\ AnswerWasTrue /\ [StatusNext]_<<vars, statusVars>>
        => (IInv /\ StatusInv /\ AnswerWasTrue)'
  BY StatusStepQueue, NextInv, NextStatus, NextAnswer DEF StatusStep
<1> QED BY <1>1, <1>2, PTL DEF StatusSpec
=============================================================================
