SPECIFICATION FairPollSpec
CONSTANTS
  Flag = {e1, e2}
  Waiter = {w1, w2}
  Timeouts = {1, 2}
INVARIANTS
  TypeOK
  NoEventLost
PROPERTIES
  EventTaken
  WaitAnswersTruly
