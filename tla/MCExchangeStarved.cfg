CONSTANTS
  c1 = c1
  c2 = c2
  upper = upper
  ip1 = ip1
  ip2 = ip2
  Cid <- MCCid
  Spelling <- MCSpelling
  toupper <- MCtoupper
  Price <- MCPrice
  Quantity <- MCQuantity
  Ip <- MCIp
  address <- MCaddress
  Unreliable <- MCUnreliable
  NULL = NULL
  ListpackMax = 8
  MaxOrders = 2
  MaxCrashes = 0
  MaxErrors = 0
SPECIFICATION ExchangeSpec
PROPERTY ReliableNotified
\* All orders are handled and notified.
CHECK_DEADLOCK FALSE
