\* Every index wraps or is about to; the setups are in MCReliableUdp.
CONSTANTS
  MaxIndex = 8
  Setups <- SafetySetups
  MaxChain = 2
SPECIFICATION Spec
INVARIANTS WindowsAgree RepeatsOnlyInHoles SentMeansDelivered
INVARIANTS NothingForgotten 
