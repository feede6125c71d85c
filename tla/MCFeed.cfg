CONSTANTS
  c1 = c1
  c2 = c2
  lower = upper
  upper = upper
  Cid <- MCCid
  Spelling <- MCSpelling
  toupper <- MCtoupper
  Price <- MCPrice
  Quantity <- MCQuantity
  NULL = NULL
  ListpackMax = 8
  MaxOrders = 2
  MayAccept <- MCAccept
  MayType = {}
  MaxFlight = 1
  Time <- MCTime
  MaxStops = 1
  MaxErrors = 1
  MaxFaults = 1
  Me = c1
SPECIFICATION Spec
INVARIANTS
  TypeOK
  TapeComplete
  QuotesAccepted
  QuotesOfLastTape
PROPERTY CompleteTapeRepairs
