CONSTANTS
  c1 = c1
  c2 = c2
  upper = upper
  ip1 = ip1
  ip2 = ip2
  Cid <- MCCid
  Spelling <- MCSpelling
  toupper <- MCtoupper
  Price <- MCPrice
  Quantity <- MCQuantity
  Ip <- MCIp
  address <- MCaddress
  Unreliable <- MCUnreliable
  NULL = NULL
  ListpackMax = 8
  MaxOrders = 2
  MaxCrashes = 1
  MaxErrors = 1
SPECIFICATION ExchangeSpec
INVARIANTS
  ExchangeTypeOK
  AddressKnown
  DetailsKnown
  OwnerNotified
PROPERTIES
  ImplementsOrderLife
  NotifiedOnce
  EventuallyNotified
\* All orders are handled and notified.
CHECK_DEADLOCK FALSE
