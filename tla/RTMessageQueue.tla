--------------------------- MODULE RTMessageQueue ---------------------------
(***************************************************************************)
(* RTMessageQueue<T, Size>: a ring of Size slots between one producer and  *)
(* one consumer that run concurrently (a task and a timer interrupt, or    *)
(* two threads).  Each step accesses at most one thing the other side      *)
(* writes or reads.  A message is written and read in two halves, so that  *)
(* a slot used by both sides at once shows as a torn message.  The release *)
(* stores and acquire loads of the two indices make the steps of each side *)
(* take effect in program order, the order kept here.                      *)
(***************************************************************************)
EXTENDS Integers, Sequences

CONSTANTS
  Size,        \* number of slots, a power of two in the code
  Message,     \* the messages the producer sends
  NoMessage    \* content of memory no message was written to yet

ASSUME SizeAssumption == Size \in Nat \ {0}
ASSUME MessageAssumption == NoMessage \notin Message

Index   == 0 .. Size - 1
Content == Message \cup {NoMessage}

VARIABLES
  mReadIndex,    \* next slot to read
  mWriteIndex,   \* next slot to write
  mBuffer,       \* the slots, two halves each
  producer,      \* where the producer is in its call
  message,       \* the argument of the trySend that runs
  sendResult,    \* what the last trySend returned, "none" while one runs
  consumer,      \* where the consumer is in its call
  held,          \* the index the consumer loaded: currentRead of tryReceive,
                 \* the write index in clear
  copy,          \* the argument of the tryReceive that runs
  received       \* the message the last successful tryReceive returned

sendVars    == <<producer, message, sendResult>>
receiveVars == <<consumer, held, copy, received>>
vars        == <<mReadIndex, mWriteIndex, mBuffer, sendVars, receiveVars>>

\* Mutant of Step: the mask is forgotten.
StepUnmasked(i, k) == i + k

\* (i + k) & (Size - 1), and the distance from one index to another.
Step(i, k)     == (i + k) % Size
Distance(i, j) == (j - i) % Size

\* Messages published and not yet received.
Count == Distance(mReadIndex, mWriteIndex)

Blank    == [low |-> NoMessage, high |-> NoMessage]
Whole(m) == [low |-> m, high |-> m]

Init ==
  /\ mReadIndex = 0 /\ mWriteIndex = 0
  /\ mBuffer = [i \in Index |-> Blank]
  /\ producer = "ready" /\ message = NoMessage /\ sendResult = "none"
  /\ consumer = "ready" /\ held = 0 /\ copy = Blank /\ received = Blank

-----------------------------------------------------------------------------
(* The producer *)

Full == Step(mWriteIndex, 1) = mReadIndex

\* trySend finds the queue full.
SendRefused ==
  /\ producer = "ready" /\ Full
  /\ sendResult' = "full"
  /\ UNCHANGED <<mReadIndex, mWriteIndex, mBuffer, producer, message, receiveVars>>

\* Mutant of SendStart: a full queue is not noticed.
SendStartUnchecked(m) ==
  /\ producer = "ready"
  /\ producer' = "low"
  /\ message' = m
  /\ sendResult' = "none"
  /\ UNCHANGED <<mReadIndex, mWriteIndex, mBuffer, receiveVars>>

\* trySend finds a free slot, then fills it, then publishes it.
SendStart(m) ==
  /\ producer = "ready" /\ ~Full
  /\ producer' = "low"
  /\ message' = m
  /\ sendResult' = "none"
  /\ UNCHANGED <<mReadIndex, mWriteIndex, mBuffer, receiveVars>>

SendLow ==
  /\ producer = "low"
  /\ mBuffer' = [mBuffer EXCEPT ![mWriteIndex].low = message]
  /\ producer' = "high"
  /\ UNCHANGED <<mReadIndex, mWriteIndex, message, sendResult, receiveVars>>

SendHigh ==
  /\ producer = "high"
  /\ mBuffer' = [mBuffer EXCEPT ![mWriteIndex].high = message]
  /\ producer' = "publish"
  /\ UNCHANGED <<mReadIndex, mWriteIndex, message, sendResult, receiveVars>>

SendPublish ==
  /\ producer = "publish"
  /\ mWriteIndex' = Step(mWriteIndex, 1)
  /\ producer' = "ready"
  /\ message' = NoMessage
  /\ sendResult' = "sent"
  /\ UNCHANGED <<mReadIndex, mBuffer, receiveVars>>

-----------------------------------------------------------------------------
(* The consumer.  A tryReceive on an empty queue returns false and changes *)
(* nothing.                                                                *)

ReceiveStart ==
  /\ consumer = "ready"
  /\ mReadIndex # mWriteIndex
  /\ consumer' = "low"
  /\ held' = mReadIndex
  /\ UNCHANGED <<mReadIndex, mWriteIndex, mBuffer, sendVars, copy, received>>

ReceiveLow ==
  /\ consumer = "low"
  /\ copy' = [copy EXCEPT !.low = mBuffer[held].low]
  /\ consumer' = "high"
  /\ UNCHANGED <<mReadIndex, mWriteIndex, mBuffer, sendVars, held, received>>

ReceiveHigh ==
  /\ consumer = "high"
  /\ copy' = [copy EXCEPT !.high = mBuffer[held].high]
  /\ consumer' = "publish"
  /\ UNCHANGED <<mReadIndex, mWriteIndex, mBuffer, sendVars, held, received>>

\* Mutant of ReceivePublish: the read index is not advanced.
ReceivePublishStays ==
  /\ consumer = "publish"
  /\ mReadIndex' = held
  /\ received' = copy
  /\ copy' = Blank
  /\ held' = 0
  /\ consumer' = "ready"
  /\ UNCHANGED <<mWriteIndex, mBuffer, sendVars>>

ReceivePublish ==
  /\ consumer = "publish"
  /\ mReadIndex' = Step(held, 1)
  /\ received' = copy
  /\ copy' = Blank
  /\ held' = 0
  /\ consumer' = "ready"
  /\ UNCHANGED <<mWriteIndex, mBuffer, sendVars>>

\* clear() stores mReadIndex, which is the consumer's: it is called on the
\* consumer's side.  A load, then a store.
ClearLoad ==
  /\ consumer = "ready"
  /\ held' = mWriteIndex
  /\ consumer' = "clear"
  /\ UNCHANGED <<mReadIndex, mWriteIndex, mBuffer, sendVars, copy, received>>

\* Mutant of ClearStore: the read index is reset to 0.
ClearStoreZero ==
  /\ consumer = "clear"
  /\ mReadIndex' = 0
  /\ held' = 0
  /\ consumer' = "ready"
  /\ UNCHANGED <<mWriteIndex, mBuffer, sendVars, copy, received>>

ClearStore ==
  /\ consumer = "clear"
  /\ mReadIndex' = held
  /\ held' = 0
  /\ consumer' = "ready"
  /\ UNCHANGED <<mWriteIndex, mBuffer, sendVars, copy, received>>

-----------------------------------------------------------------------------

Produce == SendLow \/ SendHigh \/ SendPublish
Consume == ReceiveStart \/ ReceiveLow \/ ReceiveHigh \/ ReceivePublish \/ ClearStore

ProducerNext == SendRefused \/ Produce \/ \E m \in Message : SendStart(m)
ConsumerNext == Consume \/ ClearLoad

Next == ProducerNext \/ ConsumerNext

Spec == Init /\ [][Next]_vars

\* A call that has begun is finished, and the consumer polls the queue.
FairSpec == Spec /\ WF_vars(Produce) /\ WF_vars(Consume)

-----------------------------------------------------------------------------
(* Properties *)

TypeOK ==
  /\ mReadIndex \in Index /\ mWriteIndex \in Index /\ held \in Index
  /\ mBuffer \in [Index -> [low : Content, high : Content]]
  /\ producer \in {"ready", "low", "high", "publish"}
  /\ message \in Content
  /\ sendResult \in {"none", "sent", "full"}
  /\ consumer \in {"ready", "low", "high", "publish", "clear"}
  /\ copy \in [low : Content, high : Content]
  /\ received \in [low : Content, high : Content]

\* The two sides never work on one slot at a time: mBuffer, which is not
\* atomic, has no data race, for every interleaving of trySend, tryReceive and
\* clear() with wrapping indices.
ExclusiveSlots ==
  producer # "ready" /\ consumer \in {"low", "high", "publish"} => mWriteIndex # held

\* What has been published and not yet received, oldest message first.
Published ==
  [i \in 1 .. Count |-> mBuffer[Step(mReadIndex, i - 1)]]

\* How many of them the clear() under way drops.
Doomed == IF consumer = "clear" THEN Distance(mReadIndex, held) ELSE 0

Channel == INSTANCE MessageChannel WITH
  Message <- {Whole(m) : m \in Message}, NoMessage <- Blank, Capacity <- Size - 1,
  channel <- Published, doomed <- Doomed

\* The queue is a first-in first-out channel of whole messages: none is lost,
\* duplicated, reordered, torn or overwritten, trySend refuses a message only
\* when the queue is full, and clear() drops exactly what had been sent and not
\* received when it began.
ImplementsChannel == Channel!Spec

\* The oldest message of the queue is taken out of it, received or cleared,
\* however trySend and clear() interleave with the polling consumer.
EveryMessageTaken ==
  \A i \in Index : mReadIndex = i /\ mWriteIndex # i ~> mReadIndex # i
=============================================================================
