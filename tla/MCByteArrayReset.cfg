CONSTANTS
  Base = 4
  Word = 512
  MinCapacity = 2
  MaxPrealloc = 4
  CacheLine = 2
  Junk = Junk
  Uses = {"modes"}
  Chunks <- MCChunks
  Numbers <- MCNumbers
  Feed <- MCFeed
  Memory <- MCMemory
  ResetAfterEmpty = TRUE
  MaxLength = 5
SPECIFICATION Spec
INVARIANT AvailableIsReal
