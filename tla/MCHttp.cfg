\* A request with its handler and one more coroutine, three frames and a queue
\* of two.  Two client requests, two loops, two Lua states one after the other:
\* enough for a request dropped by the end of a loop, a resume timer that
\* outlives one, and statics left behind for the next loop or the next state.
\* A request comes to its end; a program stops at a crash or at the bounds.
CONSTANTS
  Coroutines = {h, c}
  Handler = h
  NoCo = NoCo
  QueueLimit = 2
  MaxFrames = 3
  MaxLoops = 2
  MaxStates = 2
  r1 = r1
  r2 = r2
  Reqs <- MCReqs
  Programs <- MCPrograms
  Malloc = {TRUE, FALSE}
SPECIFICATION MCSpec
INVARIANTS  ResponseInOrder 
INVARIANTS  AnsweredOnce 
PROPERTIES ConnectionEnds LoopServes
CHECK_DEADLOCK FALSE
