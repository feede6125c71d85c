CONSTANTS
  c1 = c1
  upper = upper
  ip1 = ip1
  Cid <- MCCid
  Spelling <- MCSpelling
  toupper <- MCtoupper
  Price <- MCPrice
  Quantity <- MCQuantity
  Ip <- MCIp
  NULL = NULL
  ListpackMax = 8
  MaxOrders = 2
  MaxCrashes = 1
  MaxErrors = 0
SPECIFICATION Spec
PROPERTY AckedReachesBook
\* All orders are handled.
CHECK_DEADLOCK FALSE
