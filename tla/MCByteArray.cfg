CONSTANTS
  Base = 4
  Word = 512
  MinCapacity = 2
  MaxPrealloc = 4
  CacheLine = 2
  Junk = Junk
  Uses = {"any", "modes", "feed"}
  Chunks <- MCChunks
  Numbers <- MCNumbers
  Feed <- MCFeed
  Memory <- MCMemory
  ResetAfterEmpty = FALSE
  MaxLength = 5
SPECIFICATION Spec
INVARIANTS Bounds WrittenBeforeRead StringsWhole U30RoundTrip
PROPERTIES ActsAsQueue
