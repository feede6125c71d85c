CONSTANTS
  c1 = c1
  lower = lower
  upper = upper
  Cid <- MCCid
  Spelling <- MCSpelling
  toupper <- MCtoupper
  Price <- MCPrice
  Quantity <- MCQuantity
  MaxOrders = 4
SPECIFICATION Spec
INVARIANTS
  TypeOK
  NoCrossedBook
  ArrivalOrder
  ExecutedOnce
\* All order numbers are handed out.
CHECK_DEADLOCK FALSE
