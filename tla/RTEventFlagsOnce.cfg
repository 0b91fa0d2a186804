SPECIFICATION FairSpec
CONSTANTS
  Flag = {e1, e2}
  Waiter = {w1}
PROPERTY DeliveredOnce
