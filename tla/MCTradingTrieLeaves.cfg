CONSTANTS
  c1 = c1
  lower = lower
  upper = upper
  Cid <- MCCid
  Spelling <- MCSpelling
  toupper <- MCtoupper
  Price <- MCPrice
  Quantity <- MCQuantity
  Node = {n1, n2, n3}
  NULL = NULL
  MaxOrders = 5
SPECIFICATION HSpec
PROPERTY OnlyTheMatchedLeaves
\* All order numbers are handed out, or every node is in use.
CHECK_DEADLOCK FALSE
