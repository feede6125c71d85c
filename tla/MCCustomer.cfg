CONSTANTS
  s1 = s1
  s2 = s2
  Me = Me
  Other = Other
  Home = Home
  Elsewhere = Elsewhere
  Sender <- MCSender
  amount <- MCamount
  NULL = NULL
  ListpackMax = 8
  IntHalf = 2
  Wide = 1
  MaxOrders = 2
  MayGet <- MCMayGet
  MaxFaults = 1
SPECIFICATION Spec
INVARIANTS
  TypeOK
  ListedHaveDetails
  OpenListed
  ToldUnlisted
PROPERTY ExecutedUnlisted
