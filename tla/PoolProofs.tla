----------------------------- MODULE PoolProofs -----------------------------
(***************************************************************************)
(* Proofs about the pool of modules/fan/pool.lua for any number of         *)
(* coroutines and resources, any pool size and any behaviour of the        *)
(* callbacks: its invariants, and that it implements the abstract lease.   *)
(***************************************************************************)
EXTENDS Pool, FiniteSetTheorems, SequenceTheorems, TLAPS

-----------------------------------------------------------------------------
(* Types *)

\* The idle list without its last element, as PopIdle leaves it.
LEMMA PopLast ==
  ASSUME NEW S, NEW s \in Seq(S), s # <<>>
  PROVE  /\ Len(s) \in 1..Len(s)
         /\ s[Len(s)] \in S
         /\ SubSeq(s, 1, Len(s) - 1) \in Seq(S)
         /\ Len(SubSeq(s, 1, Len(s) - 1)) = Len(s) - 1
         /\ \A k \in 1..(Len(s) - 1) : SubSeq(s, 1, Len(s) - 1)[k] = s[k]
<1>1. Len(s) \in Nat /\ Len(s) > 0
  BY EmptySeq
<1>2. PICK n \in Nat : n = Len(s) - 1
  BY <1>1
<1>3. \A k \in 1..n : s[k] \in S
  BY <1>1, <1>2
<1>4. Len(SubSeq(s, 1, n)) = IF 1 =< n THEN n - 1 + 1 ELSE 0
  BY <1>3, SubSeqProperties
<1>5. Len(SubSeq(s, 1, n)) = n
  BY <1>4
<1>6. QED
  BY <1>1, <1>2, <1>5

\* The type invariant holds initially.
LEMMA InitTypeOK == Init => TypeOK
BY PoolAssumption DEF Init, TypeOK, PC

\* Every action of the pool preserves the type invariant.
LEMMA NextTypeOK == TypeOK /\ [Next]_vars => TypeOK'
<1> SUFFICES ASSUME TypeOK, [Next]_vars
             PROVE  TypeOK'
  OBVIOUS
<1> USE DEF TypeOK, PC
<1>1. CASE UNCHANGED vars
  BY <1>1 DEF vars
<1>2. ASSUME NEW c \in Coroutines, PopIdle(c) PROVE TypeOK'
  BY <1>2, PopLast DEF PopIdle, Goto
<1>3. ASSUME NEW c \in Coroutines, PopNew(c) PROVE TypeOK'
  BY <1>3 DEF PopNew, Goto, CanCreate
<1>4. ASSUME NEW c \in Coroutines, PopWait(c) PROVE TypeOK'
  BY <1>4, AppendProperties DEF PopWait, Goto
<1>5. ASSUME NEW c \in Coroutines, NewReturns(c) PROVE TypeOK'
  BY <1>5 DEF NewReturns, Goto, Fresh
<1>6. ASSUME NEW c \in Coroutines, NewFails(c) \/ BindFails(c) \/ UnbindFails(c)
      PROVE  TypeOK'
  BY <1>6 DEF NewFails, BindFails, UnbindFails, Goto
<1>7. ASSUME NEW c \in Coroutines, BindReturns(c) \/ Push(c) PROVE TypeOK'
  BY <1>7 DEF BindReturns, Push, Goto
<1>8. ASSUME NEW c \in Coroutines, Donate(c) PROVE TypeOK'
  BY <1>8 DEF Donate, Goto, Fresh
<1>9. ASSUME NEW c \in Coroutines, Discard(c) PROVE TypeOK'
  BY <1>9 DEF Discard, Goto
<1>10. ASSUME NEW c \in Coroutines, HandOff(c) PROVE TypeOK'
  BY <1>10, HeadTailProperties DEF HandOff
<1>11. ASSUME NEW c \in Coroutines, PutIdle(c) PROVE TypeOK'
  BY <1>11, AppendProperties DEF PutIdle, Goto
<1>12. QED
  BY <1>1, <1>2, <1>3, <1>4, <1>5, <1>6, <1>7, <1>8, <1>9, <1>10, <1>11
  DEF Next, Pop, Callback

\* The pool object and its clients stay well typed: the count never becomes
\* negative, the lists hold resources and coroutines only.
THEOREM TypeCorrect == Spec => []TypeOK
BY InitTypeOK, NextTypeOK, PTL DEF Spec

-----------------------------------------------------------------------------
(* The waiting queue and the idle list *)

Waiting == TypeOK /\ WaitersListed /\ NoIdleWhileWaiting

\* A step of a coroutine outside the queue that stays outside.
LEMMA QueueUntouched ==
  ASSUME Waiting, NEW c \in Coroutines, NEW l \in PC \ {"waiting"},
         pc[c] # "waiting", pc' = [pc EXCEPT ![c] = l], yielding' = yielding
  PROVE  WaitersListed'
BY DEF Waiting, TypeOK, WaitersListed, Contents

\* Every action keeps the queue equal to the coroutines suspended in pop, and
\* the idle list empty while somebody waits.
LEMMA NextWaiting == Waiting /\ [Next]_vars => Waiting'
<1> SUFFICES ASSUME Waiting, [Next]_vars
             PROVE  WaitersListed' /\ NoIdleWhileWaiting'
  BY NextTypeOK DEF Waiting
<1> USE DEF Waiting, NoIdleWhileWaiting, PC
<1>1. CASE UNCHANGED vars
  BY <1>1 DEF vars, Waiting, WaitersListed, Contents
<1>2. ASSUME NEW c \in Coroutines, PopIdle(c)
      PROVE  WaitersListed' /\ NoIdleWhileWaiting'
  BY <1>2, QueueUntouched DEF PopIdle, Goto
<1>3. ASSUME NEW c \in Coroutines, PopNew(c) \/ NewReturns(c) \/ NewFails(c)
      PROVE  WaitersListed' /\ NoIdleWhileWaiting'
  BY <1>3, QueueUntouched DEF PopNew, NewReturns, NewFails, Goto
<1>4. ASSUME NEW c \in Coroutines, PopWait(c)
      PROVE  WaitersListed' /\ NoIdleWhileWaiting'
  <2> USE DEF TypeOK, WaitersListed, Contents
  <2>1. /\ idle' = <<>> /\ pc[c] = "out"
        /\ pc' = [pc EXCEPT ![c] = "waiting"]
        /\ yielding' = Append(yielding, c)
    BY <1>4 DEF PopWait, Goto
  <2>2. /\ Len(yielding) \in Nat /\ Len(yielding') = Len(yielding) + 1
        /\ \A k \in 1..Len(yielding) : yielding'[k] = yielding[k]
        /\ yielding'[Len(yielding) + 1] = c
    BY <2>1, AppendProperties
  <2>3. \A k \in 1..Len(yielding) : yielding[k] # c /\ yielding[k] \in Coroutines
    BY <2>1
  <2>4. \A k \in 1..Len(yielding') : pc'[yielding'[k]] = "waiting"
    BY <2>1, <2>2, <2>3
  <2>5. \A j, k \in 1..Len(yielding') : j # k => yielding'[j] # yielding'[k]
    BY <2>2, <2>3
  <2>6. ASSUME NEW d \in Coroutines, pc'[d] = "waiting"
        PROVE  \E k \in 1..Len(yielding') : yielding'[k] = d
    BY <2>1, <2>2, <2>6
  <2>7. \A d \in Coroutines : pc'[d] = "waiting" => d \in Contents(yielding)'
    BY <2>6
  <2>8. QED
    BY <2>1, <2>4, <2>5, <2>7
<1>5. ASSUME NEW c \in Coroutines, BindReturns(c) \/ BindFails(c) \/ Push(c)
      PROVE  WaitersListed' /\ NoIdleWhileWaiting'
  BY <1>5, QueueUntouched DEF BindReturns, BindFails, Push, Goto
<1>6. ASSUME NEW c \in Coroutines, Donate(c) \/ UnbindFails(c) \/ Discard(c)
      PROVE  WaitersListed' /\ NoIdleWhileWaiting'
  BY <1>6, QueueUntouched DEF Donate, UnbindFails, Discard, Goto
<1>7. ASSUME NEW c \in Coroutines, HandOff(c)
      PROVE  WaitersListed' /\ NoIdleWhileWaiting'
  <2> USE DEF TypeOK, WaitersListed, Contents
  <2> DEFINE w == Head(yielding)
  <2>1. /\ yielding # <<>> /\ pc[c] = "unbinding"
        /\ pc' = [pc EXCEPT ![c] = "out", ![w] = "binding"]
        /\ yielding' = Tail(yielding) /\ idle' = idle
    BY <1>7 DEF HandOff
  <2>2. /\ Len(yielding) \in Nat /\ Len(yielding) > 0 /\ w = yielding[1]
        /\ Tail(yielding) \in Seq(Coroutines)
        /\ Len(Tail(yielding)) = Len(yielding) - 1
        /\ \A k \in 1..Len(Tail(yielding)) : Tail(yielding)[k] = yielding[k + 1]
    BY <2>1, EmptySeq, HeadTailProperties
  <2>3. \A k \in 1..Len(yielding') : /\ yielding'[k] = yielding[k + 1]
                                     /\ k + 1 \in 1..Len(yielding)
    BY <2>1, <2>2
  <2>4. \A k \in 1..Len(yielding') : pc'[yielding'[k]] = "waiting"
    BY <2>1, <2>2, <2>3
  <2>5. \A j, k \in 1..Len(yielding') : j # k => yielding'[j] # yielding'[k]
    BY <2>3
  <2>6. ASSUME NEW d \in Coroutines, pc'[d] = "waiting"
        PROVE  \E k \in 1..Len(yielding') : yielding'[k] = d
    <3>1. pc[d] = "waiting" /\ d # w
      BY <2>1, <2>2, <2>6
    <3>2. PICK j \in 1..Len(yielding) : yielding[j] = d
      BY <3>1
    <3>3. j - 1 \in 1..Len(yielding')
      BY <2>1, <2>2, <3>1, <3>2
    <3>4. yielding'[j - 1] = d
      BY <2>3, <3>2, <3>3
    <3>5. QED
      BY <3>3, <3>4
  <2>7. \A d \in Coroutines : pc'[d] = "waiting" => d \in Contents(yielding)'
    BY <2>6
  <2>8. NoIdleWhileWaiting'
    BY <2>1
  <2>9. QED
    BY <2>4, <2>5, <2>7, <2>8
<1>8. ASSUME NEW c \in Coroutines, PutIdle(c)
      PROVE  WaitersListed' /\ NoIdleWhileWaiting'
  BY <1>8, QueueUntouched DEF PutIdle, Goto
<1>9. QED
  BY <1>1, <1>2, <1>3, <1>4, <1>5, <1>6, <1>7, <1>8 DEF Next, Pop, Callback

\* A push resumes only coroutines that are suspended in pop, each of which is
\* in the queue exactly once; and nothing lies idle while the queue is not
\* empty.
THEOREM QueueCorrect == Spec => []QueueIsWaiters
<1>1. Init => Waiting
  BY InitTypeOK DEF Init, Waiting, WaitersListed, NoIdleWhileWaiting, Contents
<1>2. Waiting => QueueIsWaiters
  BY DEF Waiting, QueueIsWaiters
<1>3. QED
  BY <1>1, <1>2, NextWaiting, PTL DEF Spec

-----------------------------------------------------------------------------
(* Conservation of slots *)

Held == {"binding", "running", "unbinding"}

\* The coroutines creating and the coroutines holding are finitely many.
LEMMA Finite ==
  /\ IsFiniteSet(Creating) /\ Cardinality(Creating) \in Nat
  /\ IsFiniteSet(Holding) /\ Cardinality(Holding) \in Nat
<1>1. Creating \in SUBSET Coroutines /\ Holding \in SUBSET Coroutines
  BY DEF Creating, Holding
<1>2. QED
  BY <1>1, PoolAssumption, FS_Subset, FS_CardinalityType

\* A set that gains or loses at most one element.
LEMMA CountOne ==
  ASSUME NEW S, IsFiniteSet(S), NEW x
  PROVE  /\ Cardinality(S) \in Nat
         /\ x \in S => Cardinality(S \ {x}) = Cardinality(S) - 1 /\ S \cup {x} = S
         /\ x \notin S => Cardinality(S \cup {x}) = Cardinality(S) + 1 /\ S \ {x} = S
<1>1. Cardinality(S) \in Nat
  BY FS_CardinalityType
<1>2. x \in S => Cardinality(S \ {x}) = Cardinality(S) - 1
  BY FS_RemoveElement
<1>3. x \notin S => Cardinality(S \cup {x}) = Cardinality(S) + 1
  BY FS_AddElement
<1>4. QED
  BY <1>1, <1>2, <1>3

\* One coroutine changes place: how the number of those creating changes.
LEMMA MoveCreating ==
  ASSUME TypeOK, NEW c \in Coroutines, NEW l \in PC,
         pc' = [pc EXCEPT ![c] = l]
  PROVE  /\ pc[c] = "creating" /\ l # "creating" =>
              Cardinality(Creating') = Cardinality(Creating) - 1
         /\ pc[c] # "creating" /\ l = "creating" =>
              Cardinality(Creating') = Cardinality(Creating) + 1
         /\ pc[c] # "creating" /\ l # "creating" => Creating' = Creating
<1>1. Creating' = IF l = "creating" THEN Creating \cup {c} ELSE Creating \ {c}
  BY DEF TypeOK, Creating
<1>2. c \in Creating <=> pc[c] = "creating"
  BY DEF Creating
<1>3. QED
  BY <1>1, <1>2, Finite, CountOne

\* One coroutine changes place: how the number of those holding changes.
LEMMA MoveHolding ==
  ASSUME TypeOK, NEW c \in Coroutines, NEW l \in PC,
         pc' = [pc EXCEPT ![c] = l]
  PROVE  /\ pc[c] \in Held /\ l \notin Held =>
              Cardinality(Holding') = Cardinality(Holding) - 1
         /\ pc[c] \notin Held /\ l \in Held =>
              Cardinality(Holding') = Cardinality(Holding) + 1
         /\ (pc[c] \in Held <=> l \in Held) => Holding' = Holding
<1>1. Holding' = IF l \in Held THEN Holding \cup {c} ELSE Holding \ {c}
  BY DEF TypeOK, Holding, Held
<1>2. c \in Holding <=> pc[c] \in Held
  BY DEF Holding, Held
<1>3. QED
  BY <1>1, <1>2, Finite, CountOne

\* What a push leaves behind when it resumes a waiter: the two coroutines
\* are different, and they change places.
LEMMA MoveTwo ==
  ASSUME Waiting, NEW c \in Coroutines, HandOff(c)
  PROVE  LET w == Head(yielding)
         IN  /\ w \in Coroutines /\ pc[w] = "waiting" /\ w # c
             /\ Creating' = Creating
             /\ Holding' = (Holding \ {c}) \cup {w}
             /\ Cardinality(Holding') = Cardinality(Holding)
<1> DEFINE w == Head(yielding)
<1>1. yielding # <<>> /\ pc[c] = "unbinding"
  BY DEF HandOff
<1>2. w = yielding[1] /\ 1 \in 1..Len(yielding) /\ w \in Coroutines
  BY <1>1, EmptySeq, HeadTailProperties DEF Waiting, TypeOK
<1>3. pc[w] = "waiting" /\ w # c
  BY <1>1, <1>2 DEF Waiting, WaitersListed
<1>4. Creating' = Creating
  BY <1>1, <1>2, <1>3 DEF HandOff, Creating, Waiting, TypeOK
<1>5. Holding' = (Holding \ {c}) \cup {w}
  BY <1>1, <1>2, <1>3 DEF HandOff, Holding, Waiting, TypeOK
<1>6. c \in Holding /\ w \notin Holding
  BY <1>1, <1>3 DEF Holding
<1>7. IsFiniteSet(Holding \ {c}) /\ Cardinality(Holding \ {c}) = Cardinality(Holding) - 1
  BY <1>6, Finite, FS_RemoveElement
<1>8. Cardinality((Holding \ {c}) \cup {w}) = Cardinality(Holding \ {c}) + 1
  BY <1>6, <1>7, FS_AddElement
<1>9. Cardinality(Holding') = Cardinality(Holding)
  BY <1>5, <1>7, <1>8, Finite
<1>10. QED
  BY <1>2, <1>3, <1>4, <1>5, <1>9

Bounded == capacity =< MaxCapacity

\* Every action moves slots from one place to another, or loses one together
\* with the capacity that accounts for it.
LEMMA NextConservation ==
  Waiting /\ Conservation /\ Bounded /\ [Next]_vars => Conservation' /\ Bounded'
<1> SUFFICES ASSUME Waiting, Conservation, Bounded, [Next]_vars
             PROVE  Conservation' /\ Bounded'
  OBVIOUS
<1> USE DEF Conservation, Bounded, Held, PC
<1>0. /\ TypeOK /\ count \in Nat /\ capacity \in Int /\ Len(idle) \in Nat
      /\ MaxCapacity \in Nat
  BY PoolAssumption DEF Waiting, TypeOK
<1>1. CASE UNCHANGED vars
  BY <1>1 DEF vars, Creating, Holding
<1>2. ASSUME NEW c \in Coroutines, PopIdle(c) PROVE Conservation' /\ Bounded'
  <2>1. Len(idle') = Len(idle) - 1
    BY <1>2, PopLast DEF PopIdle, Waiting, TypeOK
  <2>2. Cardinality(Creating') = Cardinality(Creating)
    BY <1>0, <1>2, MoveCreating DEF PopIdle, Goto
  <2>3. Cardinality(Holding') = Cardinality(Holding) + 1
    BY <1>0, <1>2, MoveHolding DEF PopIdle, Goto
  <2>4. count' = count /\ capacity' = capacity
    BY <1>2 DEF PopIdle
  <2>5. QED
    BY <1>0, <2>1, <2>2, <2>3, <2>4, Finite
<1>3. ASSUME NEW c \in Coroutines, PopNew(c) PROVE Conservation' /\ Bounded'
  <2>1. Cardinality(Creating') = Cardinality(Creating) + 1
    BY <1>0, <1>3, MoveCreating DEF PopNew, Goto
  <2>2. Cardinality(Holding') = Cardinality(Holding)
    BY <1>0, <1>3, MoveHolding DEF PopNew, Goto
  <2>3. QED
    BY <1>0, <1>3, <2>1, <2>2, Finite DEF PopNew, CanCreate
<1>4. ASSUME NEW c \in Coroutines, PopWait(c) PROVE Conservation' /\ Bounded'
  BY <1>0, <1>4, MoveCreating, MoveHolding, Finite DEF PopWait, Goto
<1>5. ASSUME NEW c \in Coroutines, NewReturns(c) PROVE Conservation' /\ Bounded'
  <2>1. Cardinality(Creating') = Cardinality(Creating) - 1
    BY <1>0, <1>5, MoveCreating DEF NewReturns, Goto
  <2>2. Cardinality(Holding') = Cardinality(Holding) + 1
    BY <1>0, <1>5, MoveHolding DEF NewReturns, Goto
  <2>3. QED
    BY <1>0, <1>5, <2>1, <2>2, Finite DEF NewReturns
<1>6. ASSUME NEW c \in Coroutines, NewFails(c) PROVE Conservation' /\ Bounded'
  <2>1. Cardinality(Creating') = Cardinality(Creating) - 1
    BY <1>0, <1>6, MoveCreating DEF NewFails, Goto
  <2>2. Cardinality(Holding') = Cardinality(Holding)
    BY <1>0, <1>6, MoveHolding DEF NewFails, Goto
  <2>3. QED
    BY <1>0, <1>6, <2>1, <2>2, Finite DEF NewFails
<1>7. ASSUME NEW c \in Coroutines, BindReturns(c) \/ Push(c)
      PROVE  Conservation' /\ Bounded'
  BY <1>0, <1>7, MoveCreating, MoveHolding, Finite DEF BindReturns, Push, Goto
<1>8. ASSUME NEW c \in Coroutines, BindFails(c) \/ UnbindFails(c)
      PROVE  Conservation' /\ Bounded'
  BY <1>0, <1>8, MoveCreating, MoveHolding, Finite DEF BindFails, UnbindFails, Goto
<1>9. ASSUME NEW c \in Coroutines, Donate(c) PROVE Conservation' /\ Bounded'
  <2>1. Cardinality(Creating') = Cardinality(Creating)
    BY <1>0, <1>9, MoveCreating DEF Donate, Goto
  <2>2. Cardinality(Holding') = Cardinality(Holding) + 1
    BY <1>0, <1>9, MoveHolding DEF Donate, Goto
  <2>3. QED
    BY <1>0, <1>9, <2>1, <2>2, Finite DEF Donate
<1>10. ASSUME NEW c \in Coroutines, Discard(c) PROVE Conservation' /\ Bounded'
  <2>1. Cardinality(Creating') = Cardinality(Creating)
    BY <1>0, <1>10, MoveCreating DEF Discard, Goto
  <2>2. Cardinality(Holding') = Cardinality(Holding) - 1
    BY <1>0, <1>10, MoveHolding DEF Discard, Goto
  <2>3. QED
    BY <1>0, <1>10, <2>1, <2>2, Finite DEF Discard
<1>11. ASSUME NEW c \in Coroutines, HandOff(c) PROVE Conservation' /\ Bounded'
  BY <1>0, <1>11, MoveTwo, Finite DEF HandOff
<1>12. ASSUME NEW c \in Coroutines, PutIdle(c) PROVE Conservation' /\ Bounded'
  <2>1. Len(idle') = Len(idle) + 1
    BY <1>12, AppendProperties DEF PutIdle, Waiting, TypeOK
  <2>2. Cardinality(Creating') = Cardinality(Creating)
    BY <1>0, <1>12, MoveCreating DEF PutIdle, Goto
  <2>3. Cardinality(Holding') = Cardinality(Holding) - 1
    BY <1>0, <1>12, MoveHolding DEF PutIdle, Goto
  <2>4. QED
    BY <1>0, <1>12, <2>1, <2>2, <2>3, Finite DEF PutIdle
<1>13. QED
  BY <1>1, <1>2, <1>3, <1>4, <1>5, <1>6, <1>7, <1>8, <1>9, <1>10, <1>11, <1>12
  DEF Next, Pop, Callback

Slots == Waiting /\ Conservation /\ Bounded

\* The slots are accounted for initially.
LEMMA InitSlots == Init => Slots
<1> SUFFICES ASSUME Init PROVE Slots
  OBVIOUS
<1>1. Waiting
  BY InitTypeOK DEF Init, Waiting, WaitersListed, NoIdleWhileWaiting, Contents
<1>2. Creating = {} /\ Holding = {} /\ Len(idle) = 0
  BY DEF Init, Creating, Holding
<1>3. Conservation /\ Bounded
  BY <1>2, FS_EmptySet, PoolAssumption DEF Init, Conservation, Bounded
<1>4. QED
  BY <1>1, <1>3 DEF Slots

\* The accounting is inductive.
LEMMA NextSlots == Slots /\ [Next]_vars => Slots'
BY NextWaiting, NextConservation DEF Slots

\* No slot is lost or made up by pop, push and safe, whatever the callbacks
\* do and however the coroutines interleave.
THEOREM ConservationCorrect == Spec => []Conservation
<1>1. Slots => Conservation
  BY DEF Slots
<1>2. QED
  BY <1>1, InitSlots, NextSlots, PTL DEF Spec

-----------------------------------------------------------------------------
(* Exclusive use *)

\* A coroutine that holds no slot has no resource in its hands.
HandsEmpty == \A c \in Coroutines \ Holding : item[c] = NoItem

Exclusive == TypeOK /\ ExclusiveUse /\ HandsEmpty

\* A coroutine lets go of what it holds, or goes from nothing to nothing.
LEMMA Leave ==
  ASSUME Exclusive, NEW c \in Coroutines, NEW l \in PC \ Held,
         Goto(c, l, NoItem), idle' = idle
  PROVE  ExclusiveUse' /\ HandsEmpty'
<1>1. Holding' = Holding \ {c}
  BY DEF Exclusive, TypeOK, Goto, Holding, Held
<1>2. \A d \in Coroutines : item'[d] = IF d = c THEN NoItem ELSE item[d]
  BY DEF Exclusive, TypeOK, Goto
<1>3. Contents(idle)' = Contents(idle)
  BY DEF Contents
<1>4. Holding \subseteq Coroutines
  BY DEF Holding
<1>5. QED
  BY <1>1, <1>2, <1>3, <1>4 DEF Exclusive, ExclusiveUse, HandsEmpty

\* A coroutine keeps what it holds.
LEMMA Keep ==
  ASSUME Exclusive, NEW c \in Coroutines, NEW l \in Held, pc[c] \in Held,
         Goto(c, l, item[c]), idle' = idle
  PROVE  ExclusiveUse' /\ HandsEmpty'
<1>1. Holding' = Holding
  BY DEF Exclusive, TypeOK, Goto, Holding, Held
<1>2. item' = item
  BY DEF Exclusive, TypeOK, Goto
<1>3. Contents(idle)' = Contents(idle)
  BY DEF Contents
<1>4. QED
  BY <1>1, <1>2, <1>3 DEF Exclusive, ExclusiveUse, HandsEmpty

\* A coroutine takes a resource that nobody holds out of the idle list, or
\* from outside.
LEMMA Take ==
  ASSUME Exclusive, NEW c \in Coroutines, NEW l \in Held, pc[c] \notin Held,
         NEW i \in Items \cup {NoItem}, Goto(c, l, i),
         i \notin HeldItems, i \notin Contents(idle'),
         Contents(idle') \subseteq Contents(idle),
         \A j, k \in 1..Len(idle') : j # k => idle'[j] # idle'[k]
  PROVE  ExclusiveUse' /\ HandsEmpty'
<1>1. Holding' = Holding \cup {c} /\ c \notin Holding
  BY DEF Exclusive, TypeOK, Goto, Holding, Held
<1>2. \A d \in Coroutines : item'[d] = IF d = c THEN i ELSE item[d]
  BY DEF Exclusive, TypeOK, Goto
<1>3. \A d \in Holding : i # NoItem => item[d] # i
  BY DEF HeldItems
<1>4. Holding \subseteq Coroutines
  BY DEF Holding
<1>5. \A d, e \in Holding' : d # e /\ item'[d] # NoItem => item'[d] # item'[e]
  BY <1>1, <1>2, <1>3, <1>4 DEF Exclusive, ExclusiveUse
<1>6. \A d \in Holding' : item'[d] \notin Contents(idle')
  BY <1>1, <1>2, <1>4 DEF Exclusive, ExclusiveUse
<1>7. HandsEmpty'
  BY <1>1, <1>2, <1>4 DEF Exclusive, HandsEmpty
<1>8. QED
  BY <1>5, <1>6, <1>7 DEF ExclusiveUse

\* What lies idle is a resource, never nil.
LEMMA IdleAreItems == TypeOK => Contents(idle) \subseteq Items
BY DEF TypeOK, Contents

\* Every action keeps each resource in one place.
LEMMA NextExclusive == Waiting /\ Exclusive /\ [Next]_vars => Exclusive'
<1> SUFFICES ASSUME Waiting, Exclusive, [Next]_vars
             PROVE  ExclusiveUse' /\ HandsEmpty'
  BY NextTypeOK DEF Exclusive
<1> USE DEF PC, Held
<1>1. CASE UNCHANGED vars
  BY <1>1 DEF vars, Exclusive, ExclusiveUse, HandsEmpty, Holding, Contents
<1>2. ASSUME NEW c \in Coroutines, PopIdle(c) PROVE ExclusiveUse' /\ HandsEmpty'
  <2> DEFINE n == Len(idle)
             i == idle[n]
  <2>1. /\ idle \in Seq(Items) /\ idle # <<>> /\ pc[c] = "out"
        /\ idle' = SubSeq(idle, 1, n - 1) /\ Goto(c, "binding", i)
    BY <1>2 DEF PopIdle, Exclusive, TypeOK
  <2>2. /\ n \in Nat /\ n \in 1..n /\ i \in Items /\ Len(idle') = n - 1
        /\ \A k \in 1..(n - 1) : idle'[k] = idle[k]
    BY <2>1, PopLast
  <2>3. \A j, k \in 1..n : j # k => idle[j] # idle[k]
    BY DEF Exclusive, ExclusiveUse
  <2>4. Contents(idle') \subseteq Contents(idle)
    BY <2>2 DEF Contents
  <2>5. i \notin Contents(idle')
    BY <2>2, <2>3 DEF Contents
  <2>6. i \notin HeldItems
    BY <2>2 DEF HeldItems, Contents, Exclusive, ExclusiveUse
  <2>7. \A j, k \in 1..Len(idle') : j # k => idle'[j] # idle'[k]
    BY <2>2, <2>3
  <2> HIDE DEF n, i
  <2>8. QED
    BY <2>1, <2>2, <2>4, <2>5, <2>6, <2>7, Take
<1>3. ASSUME NEW c \in Coroutines,
             PopNew(c) \/ PopWait(c) \/ NewFails(c) \/ BindFails(c)
      PROVE  ExclusiveUse' /\ HandsEmpty'
  BY <1>3, Leave DEF PopNew, PopWait, NewFails, BindFails
<1>4. ASSUME NEW c \in Coroutines, UnbindFails(c) \/ Discard(c)
      PROVE  ExclusiveUse' /\ HandsEmpty'
  BY <1>4, Leave DEF UnbindFails, Discard
<1>5. ASSUME NEW c \in Coroutines, BindReturns(c) \/ Push(c)
      PROVE  ExclusiveUse' /\ HandsEmpty'
  BY <1>5, Keep DEF BindReturns, Push
<1>6. ASSUME NEW c \in Coroutines, NewReturns(c) \/ Donate(c)
      PROVE  ExclusiveUse' /\ HandsEmpty'
  <2>1. PICK i \in Fresh \cup {NoItem}, l \in Held : Goto(c, l, i)
    BY <1>6 DEF NewReturns, Donate
  <2>2. pc[c] \notin Held /\ idle' = idle
    BY <1>6 DEF NewReturns, Donate
  <2>3. /\ i \in Items \cup {NoItem}
        /\ i \notin HeldItems /\ i \notin Contents(idle)
    BY PoolAssumption, IdleAreItems DEF Fresh, HeldItems, Exclusive
  <2>4. \A j, k \in 1..Len(idle) : j # k => idle[j] # idle[k]
    BY DEF Exclusive, ExclusiveUse
  <2>5. QED
    BY <2>1, <2>2, <2>3, <2>4, Take
<1>7. ASSUME NEW c \in Coroutines, HandOff(c) PROVE ExclusiveUse' /\ HandsEmpty'
  <2> DEFINE w == Head(yielding)
  <2>1. /\ w \in Coroutines /\ w # c
        /\ Holding' = (Holding \ {c}) \cup {w} /\ w \notin Holding /\ c \in Holding
    BY <1>7, MoveTwo DEF HandOff, Holding
  <2>2. \A d \in Coroutines : item'[d] = IF d = c THEN NoItem
                                         ELSE IF d = w THEN item[c] ELSE item[d]
    BY <1>7, <2>1 DEF HandOff, Exclusive, TypeOK
  <2>3. idle' = idle /\ Contents(idle)' = Contents(idle)
    BY <1>7 DEF HandOff, Contents
  <2>4. Holding \subseteq Coroutines
    BY DEF Holding
  <2> HIDE DEF w
  <2>5. \A d, e \in Holding' : d # e /\ item'[d] # NoItem => item'[d] # item'[e]
    BY <2>1, <2>2, <2>4 DEF Exclusive, ExclusiveUse
  <2>6. \A d \in Holding' : item'[d] \notin Contents(idle)
    BY <2>1, <2>2, <2>4 DEF Exclusive, ExclusiveUse
  <2>7. HandsEmpty'
    BY <2>1, <2>2, <2>4 DEF Exclusive, HandsEmpty
  <2>8. QED
    BY <2>3, <2>5, <2>6, <2>7 DEF Exclusive, ExclusiveUse
<1>8. ASSUME NEW c \in Coroutines, PutIdle(c) PROVE ExclusiveUse' /\ HandsEmpty'
  <2>1. /\ idle \in Seq(Items) /\ item[c] \in Items /\ c \in Holding
        /\ Goto(c, "out", NoItem) /\ idle' = Append(idle, item[c])
    BY <1>8 DEF PutIdle, Exclusive, TypeOK, Holding
  <2>2. /\ Len(idle) \in Nat /\ Len(idle') = Len(idle) + 1
        /\ \A k \in 1..Len(idle) : idle'[k] = idle[k]
        /\ idle'[Len(idle) + 1] = item[c]
    BY <2>1, AppendProperties
  <2>3. Contents(idle)' = Contents(idle) \cup {item[c]}
    BY <2>2 DEF Contents
  <2>4. Holding' = Holding \ {c} /\ Holding \subseteq Coroutines
    BY <2>1 DEF Exclusive, TypeOK, Goto, Holding
  <2>5. \A d \in Coroutines : item'[d] = IF d = c THEN NoItem ELSE item[d]
    BY <2>1 DEF Exclusive, TypeOK, Goto
  <2>6. \A k \in 1..Len(idle) : idle[k] # item[c]
    BY <2>1 DEF Exclusive, ExclusiveUse, Contents
  <2>7. \A j, k \in 1..Len(idle') : j # k => idle'[j] # idle'[k]
    BY <2>2, <2>6 DEF Exclusive, ExclusiveUse
  <2>8. \A d \in Holding' : item'[d] \notin Contents(idle)'
    BY <2>1, <2>3, <2>4, <2>5, PoolAssumption DEF Exclusive, ExclusiveUse
  <2>9. \A d, e \in Holding' : d # e /\ item'[d] # NoItem => item'[d] # item'[e]
    BY <2>4, <2>5 DEF Exclusive, ExclusiveUse
  <2>10. HandsEmpty'
    BY <2>4, <2>5 DEF Exclusive, HandsEmpty
  <2>11. QED
    BY <2>7, <2>8, <2>9, <2>10 DEF ExclusiveUse
<1>9. QED
  BY <1>1, <1>2, <1>3, <1>4, <1>5, <1>6, <1>7, <1>8 DEF Next, Pop, Callback

\* Nobody has anything initially.
LEMMA InitExclusive == Init => Exclusive
BY InitTypeOK DEF Init, Exclusive, ExclusiveUse, HandsEmpty, Holding, Contents

IInv == Slots /\ Exclusive

\* The inductive invariant of the pool.
LEMMA Inductive == Spec => []IInv
<1>1. Init => IInv
  BY InitSlots, InitExclusive DEF IInv
<1>2. IInv /\ [Next]_vars => IInv'
  BY NextSlots, NextExclusive DEF IInv, Slots
<1>3. QED
  BY <1>1, <1>2, PTL DEF Spec

\* Two coroutines never have the same resource in their hands, and a resource
\* in use is not in the idle list, whatever the callbacks do.
THEOREM ExclusiveUseCorrect == Spec => []ExclusiveUse
<1>1. IInv => ExclusiveUse
  BY DEF IInv, Exclusive
<1>2. QED
  BY <1>1, Inductive, PTL

-----------------------------------------------------------------------------
(* The pool implements the lease *)

\* When a slot is free somewhere else, the leased resources are below the
\* limit: every leased resource takes a slot of its own.
LEMMA LeasedBelowLimit ==
  ASSUME IInv, \/ idle # <<>>
               \/ Creating # {}
               \/ capacity < MaxCapacity
  PROVE  Cardinality(LeaseOf!Leased) < MaxCapacity
<1>1. /\ count \in Nat /\ capacity \in Int /\ Len(idle) \in Nat /\ MaxCapacity \in Nat
      /\ idle # <<>> => Len(idle) > 0
  BY PoolAssumption, EmptySeq DEF IInv, Slots, Waiting, TypeOK
<1>2. Creating # {} => Cardinality(Creating) > 0
  BY Finite, FS_EmptySet
<1>3. LeaseOf!Leased \in SUBSET Holding
  BY DEF LeaseOf!Leased, IInv, Exclusive, HandsEmpty
<1>4. /\ Cardinality(LeaseOf!Leased) =< Cardinality(Holding)
      /\ Cardinality(LeaseOf!Leased) \in Nat
  BY <1>3, Finite, FS_Subset, FS_CardinalityType
<1>5. count + Len(idle) + Cardinality(Creating) + Cardinality(Holding) = capacity
  BY DEF IInv, Slots, Conservation
<1>6. capacity =< MaxCapacity
  BY DEF IInv, Slots, Bounded
<1>7. Len(idle) > 0 \/ Cardinality(Creating) > 0 \/ capacity < MaxCapacity
  BY <1>1, <1>2
<1>8. Cardinality(Holding) < MaxCapacity
  BY <1>1, <1>5, <1>6, <1>7, Finite
<1>9. QED
  BY <1>1, <1>4, <1>8, Finite

\* A coroutine that held nothing takes an unused resource: it acquires it.
LEMMA TakeAcquires ==
  ASSUME IInv, NEW c \in Coroutines, pc[c] \notin Held, NEW l, NEW i \in Items,
         Goto(c, l, i), i \notin HeldItems,
         Cardinality(LeaseOf!Leased) < MaxCapacity
  PROVE  LeaseOf!Acquire(c, i)
<1>1. item[c] = NoItem
  BY DEF IInv, Exclusive, HandsEmpty, Holding, Held
<1>2. \A a \in Coroutines : item[a] # i
  <2>1. i # NoItem
    BY PoolAssumption
  <2>2. \A a \in Holding : item[a] # i
    BY <2>1 DEF HeldItems
  <2>3. \A a \in Coroutines \ Holding : item[a] # i
    BY <2>1 DEF IInv, Exclusive, HandsEmpty
  <2>4. QED
    BY <2>2, <2>3
<1>3. item' = [item EXCEPT ![c] = i]
  BY DEF Goto
<1>4. QED
  BY <1>1, <1>2, <1>3 DEF LeaseOf!Acquire, Cardinality, LeaseOf!Cardinality

\* Ending with empty hands releases what was held, or changes nothing.
LEMMA LeaveReleases ==
  ASSUME TypeOK, NEW c \in Coroutines, NEW l, Goto(c, l, NoItem)
  PROVE  LeaseOf!Release(c) \/ UNCHANGED item
BY DEF TypeOK, Goto, LeaseOf!Release

\* Every step of the pool is a step of the lease, or leaves it unchanged.
LEMMA StepRefines == IInv /\ [Next]_vars => [LeaseOf!Next]_item
<1> SUFFICES ASSUME IInv, [Next]_vars
             PROVE  [LeaseOf!Next]_item
  OBVIOUS
<1>0. TypeOK
  BY DEF IInv, Exclusive
<1> USE DEF Held
<1>1. CASE UNCHANGED vars
  BY <1>1 DEF vars
<1>2. ASSUME NEW c \in Coroutines, PopIdle(c) PROVE LeaseOf!Next
  <2> DEFINE i == idle[Len(idle)]
  <2>1. i \in Items /\ Len(idle) \in 1..Len(idle)
    BY <1>0, <1>2, PopLast DEF PopIdle, TypeOK
  <2>2. i \notin HeldItems
    BY <2>1 DEF HeldItems, IInv, Exclusive, ExclusiveUse, Contents
  <2>3. pc[c] \notin Held /\ Goto(c, "binding", i) /\ idle # <<>>
    BY <1>2 DEF PopIdle
  <2> HIDE DEF i
  <2>4. LeaseOf!Acquire(c, i)
    BY <2>1, <2>2, <2>3, LeasedBelowLimit, TakeAcquires
  <2>5. QED
    BY <2>1, <2>4 DEF LeaseOf!Next
<1>3. ASSUME NEW c \in Coroutines, NewReturns(c)
      PROVE  LeaseOf!Next \/ UNCHANGED item
  <2>1. PICK i \in Fresh \cup {NoItem} : Goto(c, "binding", i)
    BY <1>3 DEF NewReturns
  <2>2. CASE i = NoItem
    BY <1>0, <2>1, <2>2, LeaveReleases DEF LeaseOf!Next
  <2>3. CASE i \in Fresh
    <3>1. i \in Items /\ i \notin HeldItems
      BY <2>3 DEF Fresh
    <3>2. Creating # {} /\ pc[c] \notin Held
      BY <1>3 DEF NewReturns, Creating
    <3>3. LeaseOf!Acquire(c, i)
      BY <2>1, <3>1, <3>2, LeasedBelowLimit, TakeAcquires
    <3>4. QED
      BY <3>1, <3>3 DEF LeaseOf!Next
  <2>4. QED
    BY <2>2, <2>3
<1>4. ASSUME NEW c \in Coroutines, Donate(c) PROVE LeaseOf!Next
  <2>1. PICK i \in Fresh : Goto(c, "unbinding", i)
    BY <1>4 DEF Donate
  <2>2. i \in Items /\ i \notin HeldItems
    BY DEF Fresh
  <2>3. pc[c] \notin Held /\ capacity < MaxCapacity
    BY <1>4 DEF Donate
  <2>4. LeaseOf!Acquire(c, i)
    BY <2>1, <2>2, <2>3, LeasedBelowLimit, TakeAcquires
  <2>5. QED
    BY <2>2, <2>4 DEF LeaseOf!Next
<1>5. ASSUME NEW c \in Coroutines,
             PopNew(c) \/ PopWait(c) \/ NewFails(c) \/ BindFails(c)
      PROVE  LeaseOf!Next \/ UNCHANGED item
  BY <1>0, <1>5, LeaveReleases DEF PopNew, PopWait, NewFails, BindFails, LeaseOf!Next
<1>6. ASSUME NEW c \in Coroutines, UnbindFails(c) \/ Discard(c) \/ PutIdle(c)
      PROVE  LeaseOf!Next \/ UNCHANGED item
  BY <1>0, <1>6, LeaveReleases DEF UnbindFails, Discard, PutIdle, LeaseOf!Next
<1>7. ASSUME NEW c \in Coroutines, BindReturns(c) \/ Push(c)
      PROVE  UNCHANGED item
  BY <1>0, <1>7 DEF BindReturns, Push, Goto, TypeOK
<1>8. ASSUME NEW c \in Coroutines, HandOff(c) PROVE LeaseOf!Next
  <2> DEFINE w == Head(yielding)
  <2>1. w \in Coroutines /\ w # c /\ pc[w] = "waiting"
    BY <1>8, MoveTwo DEF IInv, Slots
  <2>2. item[w] = NoItem /\ item[c] # NoItem
    BY <1>8, <2>1 DEF HandOff, IInv, Exclusive, HandsEmpty, Holding
  <2>3. item' = [item EXCEPT ![c] = NoItem, ![w] = item[c]]
    BY <1>8 DEF HandOff
  <2> HIDE DEF w
  <2>4. QED
    BY <2>1, <2>2, <2>3 DEF LeaseOf!Next, LeaseOf!Transfer
<1>9. QED
  BY <1>1, <1>2, <1>3, <1>4, <1>5, <1>6, <1>7, <1>8 DEF Next, Pop, Callback

\* The pool, with its queue, idle list, counter and callbacks, implements the
\* lease: at most one borrower per resource and at most MaxCapacity leases.
THEOREM PoolImplementsLease == Spec => ImplementsLease
<1>1. Init => LeaseOf!Init
  BY DEF Init, LeaseOf!Init
<1>2. QED
  BY <1>1, Inductive, StepRefines, PTL DEF Spec, ImplementsLease, LeaseOf!Spec
=============================================================================
