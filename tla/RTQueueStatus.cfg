SPECIFICATION StatusSpec
CONSTANTS
  Size = 4
  Message = {m1, m2}
  NoMessage = NoMessage
INVARIANTS
  TypeOK
  ExclusiveSlots
  AnswerWasTrue
PROPERTIES
  ImplementsChannel
  EveryMessageTaken
