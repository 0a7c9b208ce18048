CONSTANTS
  MaxIndex = 8
  Setups <- DuplicateSetups
  MaxChain = 2
SPECIFICATION Spec
INVARIANT DeliveredOnce
