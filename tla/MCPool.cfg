\* Two slots, four clients, so that two may wait; every callback may fail, and
\* one resource may be pushed by a client that never popped.
CONSTANTS
  Coroutines = {c1, c2, c3, c4}
  Items = {i1, i2, i3}
  NoItem = NoItem
  PoolSize = 2
  OnNew = TRUE
  Faults = {"new", "newnil", "bind", "unbind", "discard"}
  MaxCapacity = 3
  \* Two slaves with one job each, three callers, so that one queues.
  Callers = {c1, c2, c3}
  Slaves = {s1, s2}
  Nobody = Nobody
  Result = Result
  max_job_count = 1
  MaxTasks = 4
  \* One connection; the second coroutine may close it under the first.
  DbCos = {c1, c2}
  Conn = Conn
  Stmts = {s1}
  Curs = {k1}
  NoCo = NoCo
SPECIFICATION MCFairSpec
INVARIANTS ExclusiveUse Conservation QueueIsWaiters WorkerTasks MariaRefs
PROPERTIES ImplementsLease WaiterServed AnswersCome
\* Callbacks that raise lose slots for good; when all are lost everyone waits.
CHECK_DEADLOCK FALSE
