CONSTANTS
  c1 = c1
  upper = upper
  ip1 = ip1
  Cid <- MCCid
  Spelling <- MCSpelling
  toupper <- MCtoupper
  Price <- MCPrice
  Quantity <- MCQuantity
  Ip <- MCIp
  NULL = NULL
  ListpackMax = 8
  MaxOrders = 4
  MaxCrashes = 1
  MaxErrors = 1
SPECIFICATION Spec
INVARIANTS
  TypeOK
  ActiveHaveDetails
  ExecutedHaveDetails
  BookInRedis
  ExecutedTraded
  TradesInRedis
  NumbersAhead
  NoCrossedBook
  ArrivalOrder
PROPERTIES
  AckedRecorded
  ImplementsActiveOrders
\* All orders are handled.
CHECK_DEADLOCK FALSE
