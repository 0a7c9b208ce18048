-------------------------------- MODULE Pool --------------------------------
(***************************************************************************)
(* The generic resource pool of modules/fan/pool.lua, driven by coroutines *)
(* that use it through pop, push and safe.                                 *)
(*                                                                         *)
(* Coroutines are scheduled cooperatively, so a stretch of Lua between two *)
(* points where control can leave the coroutine is one action.  Control    *)
(* can leave inside the callbacks (onnew, onbind, onunbind may wait for    *)
(* I/O), inside the user's function, and at the yield of pop.              *)
(***************************************************************************)
EXTENDS Integers, Sequences, FiniteSets

CONSTANTS
  Coroutines,   \* the clients of the pool
  Items,        \* the resources that onnew, or a donor, can bring
  NoItem,       \* nil
  PoolSize,     \* config.pool_size
  OnNew,        \* whether the pool was built with an onnew callback
  Faults,       \* what the callbacks may do besides succeeding
  MaxCapacity   \* bound on resources pushed by coroutines that never popped

FaultKinds ==
  {"new",       \* onnew raises an error
   "newnil",    \* onnew returns nil
   "bind",      \* onbind raises an error
   "unbind",    \* onunbind raises an error
   "discard"}   \* onunbind returns nil: the resource is not to be reused

ASSUME PoolAssumption ==
  /\ IsFiniteSet(Coroutines)
  /\ NoItem \notin Items
  /\ PoolSize \in Nat
  /\ MaxCapacity \in Nat /\ PoolSize =< MaxCapacity
  /\ OnNew \in BOOLEAN
  /\ Faults \subseteq FaultKinds

VARIABLES
  idle,      \* the idle list, used as a stack
  count,     \* how many more resources onnew may be asked for
  yielding,  \* the linked list of coroutines suspended in pop
  pc,        \* where each coroutine is
  item,      \* the resource each coroutine has in its hands
  capacity   \* ghost: slots the pool should still account for

vars == <<idle, count, yielding, pc, item, capacity>>

PC == {"out", "creating", "waiting", "binding", "running", "unbinding"}

Creating == {c \in Coroutines : pc[c] = "creating"}
Holding  == {c \in Coroutines : pc[c] \in {"binding", "running", "unbinding"}}

Contents(s) == {s[k] : k \in 1..Len(s)}
HeldItems == {item[c] : c \in Holding} \ {NoItem}
Fresh == Items \ (Contents(idle) \cup HeldItems)

Goto(c, l, i) ==
  /\ pc' = [pc EXCEPT ![c] = l]
  /\ item' = [item EXCEPT ![c] = i]

Init ==
  /\ idle = <<>>
  /\ count = PoolSize
  /\ yielding = <<>>
  /\ pc = [c \in Coroutines |-> "out"]
  /\ item = [c \in Coroutines |-> NoItem]
  /\ capacity = PoolSize

-----------------------------------------------------------------------------
(* pop *)

CanCreate == count > 0 /\ OnNew

PopIdleKeeps(c) ==
  /\ pc[c] = "out"
  /\ idle # <<>>
  /\ Goto(c, "binding", idle[Len(idle)])
  /\ UNCHANGED <<idle, count, yielding, capacity>>

PopIdle(c) ==
  /\ pc[c] = "out"
  /\ idle # <<>>
  /\ idle' = SubSeq(idle, 1, Len(idle) - 1)
  /\ Goto(c, "binding", idle[Len(idle)])
  /\ UNCHANGED <<count, yielding, capacity>>

PopNew(c) ==
  /\ pc[c] = "out"
  /\ idle = <<>>
  /\ CanCreate
  /\ count' = count - 1
  /\ Goto(c, "creating", NoItem)
  /\ UNCHANGED <<idle, yielding, capacity>>

PopWait(c) ==
  /\ pc[c] = "out"
  /\ idle = <<>>
  /\ ~CanCreate
  /\ yielding' = Append(yielding, c)
  /\ Goto(c, "waiting", NoItem)
  /\ UNCHANGED <<idle, count, capacity>>

\* onnew returns, possibly after yielding; nil is passed on like a resource.
NewReturns(c) ==
  /\ pc[c] = "creating"
  /\ \E i \in Fresh \cup (IF "newnil" \in Faults THEN {NoItem} ELSE {}) :
       Goto(c, "binding", i)
  /\ UNCHANGED <<idle, count, yielding, capacity>>

\* onnew raises: the error leaves pop, and the decremented count stays so.
NewFails(c) ==
  /\ "new" \in Faults
  /\ pc[c] = "creating"
  /\ Goto(c, "out", NoItem)
  /\ capacity' = capacity - 1
  /\ UNCHANGED <<idle, count, yielding>>

BindReturns(c) ==
  /\ pc[c] = "binding"
  /\ Goto(c, "running", item[c])
  /\ UNCHANGED <<idle, count, yielding, capacity>>

\* onbind raises: pop is outside the xpcall of safe, so nobody pushes.
BindFails(c) ==
  /\ "bind" \in Faults
  /\ pc[c] = "binding"
  /\ Goto(c, "out", NoItem)
  /\ capacity' = capacity - 1
  /\ UNCHANGED <<idle, count, yielding>>

-----------------------------------------------------------------------------
(* push, and the end of safe.  The user's function may return or raise;    *)
(* xpcall makes both the same for the pool.                                *)

Push(c) ==
  /\ pc[c] = "running"
  /\ Goto(c, "unbinding", item[c])
  /\ UNCHANGED <<idle, count, yielding, capacity>>

\* A coroutine pushes a resource of its own (how a pool without onnew fills).
Donate(c) ==
  /\ pc[c] = "out"
  /\ capacity < MaxCapacity
  /\ \E i \in Fresh : Goto(c, "unbinding", i)
  /\ capacity' = capacity + 1
  /\ UNCHANGED <<idle, count, yielding>>

UnbindFails(c) ==
  /\ "unbind" \in Faults
  /\ pc[c] = "unbinding"
  /\ Goto(c, "out", NoItem)
  /\ capacity' = capacity - 1
  /\ UNCHANGED <<idle, count, yielding>>

DiscardUncounted(c) ==
  /\ pc[c] = "unbinding"
  /\ item[c] = NoItem \/ "discard" \in Faults
  /\ Goto(c, "out", NoItem)
  /\ UNCHANGED <<idle, count, yielding, capacity>>

\* onunbind returned nil, or there is no resource: only the count goes up.
Discard(c) ==
  /\ pc[c] = "unbinding"
  /\ item[c] = NoItem \/ "discard" \in Faults
  /\ count' = count + 1
  /\ Goto(c, "out", NoItem)
  /\ UNCHANGED <<idle, yielding, capacity>>

HandOffKeeps(c) ==
  /\ pc[c] = "unbinding"
  /\ item[c] # NoItem
  /\ yielding # <<>>
  /\ LET w == Head(yielding)
     IN  /\ pc' = [pc EXCEPT ![c] = "out", ![w] = "binding"]
         /\ item' = [item EXCEPT ![c] = NoItem, ![w] = item[c]]
  /\ idle' = Append(idle, item[c])
  /\ yielding' = Tail(yielding)
  /\ UNCHANGED <<count, capacity>>

HandOffLast(c) ==
  /\ pc[c] = "unbinding"
  /\ item[c] # NoItem
  /\ yielding # <<>>
  /\ LET w == yielding[Len(yielding)]
     IN  /\ pc' = [pc EXCEPT ![c] = "out", ![w] = "binding"]
         /\ item' = [item EXCEPT ![c] = NoItem, ![w] = item[c]]
  /\ yielding' = SubSeq(yielding, 1, Len(yielding) - 1)
  /\ UNCHANGED <<idle, count, capacity>>

HandOffQueued(c) ==
  /\ pc[c] = "unbinding"
  /\ item[c] # NoItem
  /\ yielding # <<>>
  /\ LET w == Head(yielding)
     IN  /\ pc' = [pc EXCEPT ![c] = "out", ![w] = "binding"]
         /\ item' = [item EXCEPT ![c] = NoItem, ![w] = item[c]]
  /\ UNCHANGED <<idle, count, yielding, capacity>>

\* The first waiter is resumed with the resource inside push.
HandOff(c) ==
  /\ pc[c] = "unbinding"
  /\ item[c] # NoItem
  /\ yielding # <<>>
  /\ LET w == Head(yielding)
     IN  /\ pc' = [pc EXCEPT ![c] = "out", ![w] = "binding"]
         /\ item' = [item EXCEPT ![c] = NoItem, ![w] = item[c]]
  /\ yielding' = Tail(yielding)
  /\ UNCHANGED <<idle, count, capacity>>

PutIdle(c) ==
  /\ pc[c] = "unbinding"
  /\ item[c] # NoItem
  /\ yielding = <<>>
  /\ idle' = Append(idle, item[c])
  /\ Goto(c, "out", NoItem)
  /\ UNCHANGED <<count, yielding, capacity>>

Pop(c) == PopIdle(c) \/ PopNew(c) \/ PopWait(c)

Callback(c) ==
  \/ NewReturns(c) \/ NewFails(c)
  \/ BindReturns(c) \/ BindFails(c)
  \/ UnbindFails(c) \/ Discard(c) \/ HandOff(c) \/ PutIdle(c)

Next ==
  \E c \in Coroutines : Pop(c) \/ Donate(c) \/ Push(c) \/ Callback(c)

Spec == Init /\ [][Next]_vars

\* Callbacks and the user's function end; nobody is obliged to pop.
Fairness ==
  \A c \in Coroutines : WF_vars(Callback(c)) /\ WF_vars(Push(c))

FairSpec == Spec /\ Fairness

-----------------------------------------------------------------------------
(* Properties *)

\* Type invariant of the pool object and of its clients.
TypeOK ==
  /\ idle \in Seq(Items)
  /\ count \in Nat
  /\ yielding \in Seq(Coroutines)
  /\ pc \in [Coroutines -> PC]
  /\ item \in [Coroutines -> Items \cup {NoItem}]
  /\ capacity \in Int

\* Every slot of the pool is in exactly one place: still creatable, idle,
\* being created, or with a coroutine.  The code keeps no total; pop, push
\* and safe only move slots about, and a slot disappears exactly when a
\* callback raises.
Conservation ==
  count + Len(idle) + Cardinality(Creating) + Cardinality(Holding) = capacity

\* A resource is with one coroutine, or idle once, never both: the hand-off
\* inside push does not leave a second reference in the idle list.
ExclusiveUse ==
  /\ \A c, d \in Holding : c # d /\ item[c] # NoItem => item[c] # item[d]
  /\ \A c \in Holding : item[c] \notin Contents(idle)
  /\ \A j, k \in 1..Len(idle) : j # k => idle[j] # idle[k]

\* Every entry of the queue is a suspended coroutine, none is there twice and
\* no suspended coroutine is missing.
WaitersListed ==
  /\ \A k \in 1..Len(yielding) : pc[yielding[k]] = "waiting"
  /\ \A j, k \in 1..Len(yielding) : j # k => yielding[j] # yielding[k]
  /\ \A c \in Coroutines : pc[c] = "waiting" => c \in Contents(yielding)

\* No resource lies idle while a coroutine waits for one.
NoIdleWhileWaiting == yielding # <<>> => idle = <<>>

\* The queue of pop is exactly the coroutines suspended in it, once each, so
\* that push always resumes one that waits; and a newcomer never finds a
\* resource idle while others wait (pool.lua pop and push).
QueueIsWaiters == WaitersListed /\ NoIdleWhileWaiting

\* "This will automatically resume any waiting coroutines if there are
\* queued requests": a completed push with a non-empty queue serves it.
PushResumesWaiter ==
  [][\A c \in Coroutines :
       pc[c] = "unbinding" /\ pc'[c] = "out" /\ yielding # <<>>
         => Len(yielding') < Len(yielding)]_vars

CallbackRaises ==
  \E c \in Coroutines : NewFails(c) \/ BindFails(c) \/ UnbindFails(c)

\* A coroutine suspended in pop is eventually resumed by a push, unless a slot
\* was freed by a discard or all were lost, or callbacks go on raising for ever
\* (a program that keeps adding resources of its own makes that possible).
WaiterServed ==
  \/ []<><<CallbackRaises>>_vars
  \/ \A c \in Coroutines :
       (pc[c] = "waiting") ~> (pc[c] # "waiting" \/ count > 0 \/ capacity = 0)

\* The pool implements the abstract lease of resources to coroutines.
LeaseOf == INSTANCE Lease WITH
  Borrowers <- Coroutines, Resources <- Items, Free <- NoItem,
  Limit <- MaxCapacity, lease <- item

ImplementsLease == LeaseOf!Spec
=============================================================================
