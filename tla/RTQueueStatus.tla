--------------------------- MODULE RTQueueStatus ---------------------------
(***************************************************************************)
(* empty(), full() and size() of RTMessageQueue, each two loads apart, on  *)
(* the producer's side or on the consumer's, while the other side goes on  *)
(* using the queue.                                                        *)
(***************************************************************************)
EXTENDS RTMessageQueue

Askers == {"producer", "consumer"}

VARIABLES
  asker,     \* who is between the two loads of a call, or "nobody"
  question,  \* the function called, "none" while nobody asks
  loaded,    \* the index loaded first
  answer,    \* what the last call returned
  counts     \* history: the numbers of messages queued since the call began

statusVars == <<asker, question, loaded, answer, counts>>

StatusInit ==
  /\ Init
  /\ asker = "nobody" /\ question = "none" /\ loaded = 0
  /\ answer = [question |-> "none"] /\ counts = {}

\* size() and full() load the write index first, empty() the read index.
Ask(a, q) ==
  /\ asker = "nobody"
  /\ a = "producer" => producer = "ready"
  /\ a = "consumer" => consumer = "ready"
  /\ asker' = a
  /\ question' = q
  /\ loaded' = IF q = "empty" THEN mReadIndex ELSE mWriteIndex
  /\ answer' = [question |-> "none"]
  /\ counts' = {Count}
  /\ UNCHANGED vars

\* Mutant of Answer: size() subtracts the write index from the read index.
AnswerSwapped ==
  /\ question = "size"
  /\ answer' = [question |-> "size", value |-> Distance(loaded, mReadIndex)]
  /\ asker' = "nobody" /\ question' = "none" /\ loaded' = 0
  /\ UNCHANGED <<counts, vars>>

Answer ==
  /\ asker # "nobody"
  /\ answer' = CASE question = "size"  -> [question |-> "size", value |-> Distance(mReadIndex, loaded)]
                 [] question = "full"  -> [question |-> "full", value |-> Step(loaded, 1) = mReadIndex]
                 [] question = "empty" -> [question |-> "empty", value |-> loaded = mWriteIndex]
  /\ asker' = "nobody" /\ question' = "none" /\ loaded' = 0
  /\ UNCHANGED <<counts, vars>>

\* The queue goes on, except on the side that is asking.
Observe ==
  /\ counts' = IF asker = "nobody" THEN {} ELSE counts \cup {Count'}
  /\ answer' = [question |-> "none"]
  /\ UNCHANGED <<asker, question, loaded>>

ProducerGoes == asker # "producer" /\ ProducerNext /\ Observe
ConsumerGoes == asker # "consumer" /\ ConsumerNext /\ Observe

StatusNext ==
  \/ ProducerGoes \/ ConsumerGoes \/ Answer
  \/ \E a \in Askers, q \in {"size", "full", "empty"} : Ask(a, q)

\* A call that has begun is finished, and a consumer that asks now and then
\* polls the queue in between.
StatusSpec ==
  /\ StatusInit /\ [][StatusNext]_<<vars, statusVars>>
  /\ WF_<<vars, statusVars>>(Answer)
  /\ WF_<<vars, statusVars>>(asker # "producer" /\ Produce /\ Observe)
  /\ SF_<<vars, statusVars>>(asker # "consumer" /\ Consume /\ Observe)

-----------------------------------------------------------------------------

\* What empty(), full() and size() return may be stale, but it was true at
\* some time during the call: a producer that asks before it sends, and a consumer
\* that asks before it receives, is not misled by a torn pair of indices.
AnswerWasTrue ==
  CASE answer.question = "size"  -> answer.value \in counts
    [] answer.question = "full"  -> answer.value \in {n = Size - 1 : n \in counts}
    [] answer.question = "empty" -> answer.value \in {n = 0 : n \in counts}
    [] OTHER -> TRUE
=============================================================================
