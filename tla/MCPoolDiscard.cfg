\* onunbind may return nil to retire a broken resource.
CONSTANTS
  Coroutines = {c1, c2, c3}
  Items = {i1, i2}
  NoItem = NoItem
  PoolSize = 2
  OnNew = TRUE
  Faults = {"discard"}
  MaxCapacity = 2
SPECIFICATION Spec
PROPERTY PushResumesWaiter
