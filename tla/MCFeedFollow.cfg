CONSTANTS
  c1 = c1
  c2 = c2
  lower = lower
  upper = upper
  Cid <- MCCid
  Spelling <- MCSpelling
  toupper <- MCtoupper
  Price <- MCPrice
  Quantity <- MCQuantity
  NULL = NULL
  ListpackMax = 8
  MaxOrders = 1
  MayAccept <- MCAcceptAgain
  MayType <- MCType
  MaxFlight = 2
  Time <- MCTime
  MaxStops = 1
  MaxErrors = 0
  MaxFaults = 1
  Me = c1
SPECIFICATION Spec
INVARIANT QuotesAccepted
PROPERTY QuotesFollowActive
