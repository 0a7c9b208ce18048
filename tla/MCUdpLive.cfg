CONSTANTS
  MaxIndex = 8
  Setups <- LiveSetups
  MaxChain = 2
SPECIFICATION FairSpec
PROPERTY EventuallyDelivered
