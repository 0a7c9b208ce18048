--------------------------- MODULE MariaDbProofs ----------------------------
(***************************************************************************)
(* MariaRefs holds for any finite set of coroutines and any statements and *)
(* cursors.                                                                *)
(*                                                                         *)
(* What it says of a program that keeps its connection, and whose          *)
(* statements were finalised without waiting, is not inductive: that an    *)
(* operation finds coref free when it starts takes that there is one event *)
(* at a time and that on an open connection nobody waits without one.      *)
(***************************************************************************)
EXTENDS MariaDb, FiniteSetTheorems, TLAPS

Lives == {"none", "fresh", "held", "gone"}
ObjType == [life : Lives, closed : BOOLEAN, ref : DbCos \cup {NoCo}, count : Nat,
            self : BOOLEAN, table : BOOLEAN]
BagOK(b) == b.co \in DbCos /\ b.on \in {Conn} \cup Stmts
CoType == [st : {"run", "wait", "gone"}, on : DbObjects]
EnvType == [keeps : BOOLEAN, half : BOOLEAN, strayed : BOOLEAN, crashed : BOOLEAN]

\* The coroutines that wait for o, collected ones included.
Waiters(K, o) == {c \in DbCos : K[c].st # "run" /\ K[c].on = o}

\* coref and its count stand for the n coroutines that wait.
Counted(x, n) == x.count = n /\ (x.ref = NoCo <=> n = 0)

\* An event finds its coroutine and its object.
Served(b, O, K) ==
  /\ K[b.co] = [st |-> "wait", on |-> b.on]
  /\ O[b.on].ref = b.co /\ O[b.on].life \in {"fresh", "held"}

Making(b) == b.op \in {"connect", "prepare"}

MTypeOK(O, B, K) ==
  /\ O \in [DbObjects -> ObjType] /\ (\A b \in B : BagOK(b)) /\ K \in [DbCos -> CoType]

Kept(O, B, K) ==
  /\ MTypeOK(O, B, K)
  /\ \A a, b \in B : a = b
  /\ \A b \in B : Served(b, O, K)
  /\ \A o \in DbObjects : O[o].life # "gone" =>
       /\ Counted(O[o], Cardinality(Waiters(K, o)))
       /\ O[o].self => O[Conn].closed \/ \E b \in B : b.on = o /\ Making(b)
  /\ ~O[Conn].closed => \A c \in DbCos : K[c].st # "run" => \E b \in B : b.co = c
  /\ O[Conn].life = "gone" => \A s \in Stmts : O[s].life \in {"none", "gone"}
  /\ O[Conn].life = "none" => ~O[Conn].closed

MInv ==
  /\ env \in EnvType
  /\ env.crashed => ~env.keeps \/ env.strayed
  /\ env.keeps /\ ~env.strayed => Kept(obj, bags, co)
-----------------------------------------------------------------------------
(* Waiting *)

\* The waiters of an object are finitely many.
LEMMA WaitersFinite ==
  ASSUME NEW K, NEW o
  PROVE  IsFiniteSet(Waiters(K, o)) /\ Cardinality(Waiters(K, o)) \in Nat
<1>1. Waiters(K, o) \subseteq DbCos /\ IsFiniteSet(DbCos)
  BY MariaAssumption DEF Waiters
<1>2. IsFiniteSet(Waiters(K, o))
  BY <1>1, FS_Subset
<1>3. QED
  BY <1>2, FS_CardinalityType

Yielded(K, c, o) == [K EXCEPT ![c] = [st |-> "wait", on |-> o]]
Resumed(K, c) == [K EXCEPT ![c].st = "run"]

\* A coroutine that yields is one more waiter of its object.
LEMMA WaitersAdd ==
  ASSUME NEW K \in [DbCos -> CoType], NEW c \in DbCos, K[c].st = "run",
         NEW o \in DbObjects, NEW L, L = Yielded(K, c, o)
  PROVE  /\ L \in [DbCos -> CoType]
         /\ Cardinality(Waiters(L, o)) = Cardinality(Waiters(K, o)) + 1
         /\ \A p \in DbObjects : p # o => Waiters(L, p) = Waiters(K, p)
<1>1. [st |-> "wait", on |-> o] \in CoType
  BY DEF CoType
<1>2. L \in [DbCos -> CoType]
  BY <1>1 DEF Yielded
<1>3. Waiters(L, o) = Waiters(K, o) \cup {c} /\ c \notin Waiters(K, o)
  BY <1>1 DEF Waiters, Yielded
<1>4. \A p \in DbObjects : p # o => Waiters(L, p) = Waiters(K, p)
  BY <1>1 DEF Waiters, Yielded
<1>5. Cardinality(Waiters(K, o) \cup {c}) = Cardinality(Waiters(K, o)) + 1
  BY <1>3, WaitersFinite, FS_AddElement
<1>6. QED
  BY <1>2, <1>3, <1>4, <1>5

\* A coroutine that is resumed is one less.
LEMMA WaitersRemove ==
  ASSUME NEW K \in [DbCos -> CoType], NEW c \in DbCos, NEW o \in DbObjects,
         K[c] = [st |-> "wait", on |-> o], NEW L, L = Resumed(K, c)
  PROVE  /\ L \in [DbCos -> CoType]
         /\ Cardinality(Waiters(K, o)) \in Nat \ {0}
         /\ Cardinality(Waiters(L, o)) = Cardinality(Waiters(K, o)) - 1
         /\ \A p \in DbObjects : p # o => Waiters(L, p) = Waiters(K, p)
<1>1. K[c].st = "wait" /\ K[c].on = o
  OBVIOUS
<1>2. L \in [DbCos -> CoType]
  BY DEF CoType, Resumed
<1>3. L[c].st = "run" /\ \A d \in DbCos \ {c} : L[d] = K[d]
  BY DEF CoType, Resumed
<1>4. Waiters(L, o) = Waiters(K, o) \ {c} /\ c \in Waiters(K, o)
  BY <1>1, <1>3 DEF Waiters
<1>5. \A p \in DbObjects : p # o => Waiters(L, p) = Waiters(K, p)
  BY <1>1, <1>3 DEF Waiters
<1>6. Cardinality(Waiters(K, o) \ {c}) = Cardinality(Waiters(K, o)) - 1
  BY <1>4, WaitersFinite, FS_RemoveElement
<1>7. Cardinality(Waiters(K, o)) # 0
  BY <1>4, WaitersFinite, FS_EmptySet
<1>8. QED
  BY <1>2, <1>4, <1>5, <1>6, <1>7, WaitersFinite

\* REF_CO counts the caller, and anchors it if nobody is.
LEMMA RefCo ==
  ASSUME NEW x \in ObjType, NEW c \in DbCos, NEW n \in Nat, Counted(x, n),
         NEW y, y = REF_CO(x, c)
  PROVE  /\ y \in ObjType /\ Counted(y, n + 1)
         /\ y.life = x.life /\ y.closed = x.closed /\ y.self = x.self
         /\ y.ref = IF n = 0 THEN c ELSE x.ref
<1>1. NoCo \notin DbCos
  BY MariaAssumption
<1>2. CASE x.ref = NoCo
  <2>1. y = [x EXCEPT !.ref = c, !.count = 1] /\ n = 0
    BY <1>2 DEF REF_CO, Counted
  <2>2. y \in ObjType
    <3>1. c \in DbCos \cup {NoCo} /\ 1 \in Nat
      OBVIOUS
    <3>2. QED
      BY <2>1, <3>1, Zenon DEF ObjType
  <2>3. y.ref = c /\ y.count = 1 /\ y.life = x.life /\ y.closed = x.closed /\ y.self = x.self
    BY <2>1 DEF ObjType
  <2>4. QED
    BY <1>1, <2>1, <2>2, <2>3 DEF Counted
<1>3. CASE x.ref # NoCo
  <2>1. PICK k \in Nat : k = x.count + 1
    BY DEF ObjType
  <2>2. y = [x EXCEPT !.count = k] /\ n # 0
    BY <1>3, <2>1 DEF REF_CO, Counted
  <2>3. QED
    BY <1>3, <2>1, <2>2 DEF ObjType, Counted
<1>4. QED
  BY <1>2, <1>3

\* UNREF_CO takes one away.
LEMMA UnrefCo ==
  ASSUME NEW x \in ObjType, NEW n \in Nat \ {0}, Counted(x, n),
         NEW y, y = UNREF_CO(x)
  PROVE  /\ y \in ObjType /\ Counted(y, n - 1)
         /\ y.life = x.life /\ y.closed = x.closed /\ y.self = x.self
<1>1. x.ref # NoCo /\ x.count = n
  BY DEF Counted
<1>2. PICK k \in Nat : k = x.count - 1
  BY <1>1
<1>3. PICK w \in DbCos \cup {NoCo} : w = IF x.count = 1 THEN NoCo ELSE x.ref
  BY DEF ObjType
<1>4. y = [x EXCEPT !.count = k, !.ref = w]
  BY <1>1, <1>2, <1>3 DEF UNREF_CO
<1>5. y \in ObjType
  BY <1>2, <1>3, <1>4, Zenon DEF ObjType
<1>6. y.count = k /\ y.ref = w /\ y.life = x.life /\ y.closed = x.closed /\ y.self = x.self
  BY <1>4, Zenon DEF ObjType
<1>7. QED
  BY <1>1, <1>2, <1>3, <1>5, <1>6 DEF Counted
-----------------------------------------------------------------------------
(* Steps of an operation *)

\* The parts of Kept, for the steps that change all three tables.
LEMMA KeptParts ==
  ASSUME NEW O, NEW B, NEW K, MTypeOK(O, B, K), \A a, b \in B : a = b,
         \A b \in B : Served(b, O, K),
         \A o \in DbObjects : O[o].life # "gone" =>
           /\ Counted(O[o], Cardinality(Waiters(K, o)))
           /\ O[o].self => O[Conn].closed \/ \E b \in B : b.on = o /\ Making(b),
         ~O[Conn].closed => \A c \in DbCos : K[c].st # "run" => \E b \in B : b.co = c,
         O[Conn].life = "gone" => \A s \in Stmts : O[s].life \in {"none", "gone"},
         O[Conn].life = "none" => ~O[Conn].closed
  PROVE  Kept(O, B, K)
  BY DEF Kept

\* On an open connection without an event nobody waits.
LEMMA NobodyWaits ==
  ASSUME NEW O, NEW K, Kept(O, {}, K), ~O[Conn].closed
  PROVE  /\ \A c \in DbCos : K[c].st = "run"
         /\ \A o \in DbObjects : Waiters(K, o) = {} /\ Cardinality(Waiters(K, o)) = 0
<1>1. \A c \in DbCos : K[c].st = "run"
  BY DEF Kept
<1>2. \A o \in DbObjects : Waiters(K, o) = {}
  BY <1>1 DEF Waiters
<1>3. QED
  BY <1>1, <1>2, FS_EmptySet

\* An operation starts and yields.
LEMMA StartKept ==
  ASSUME Kept(obj, bags, co), bags = {}, NEW c \in DbCos, co[c].st = "run",
         NEW o \in {Conn} \cup Stmts, NEW op, NEW x \in ObjType,
         obj[o].life # "gone", obj[Conn].life # "gone",
         x.ref = obj[o].ref, x.count = obj[o].count, x.life \in {"fresh", "held"},
         o = Conn => x.closed = obj[o].closed,
         x.self /\ ~obj[Conn].closed => Making(Bag(c, o, op)),
         obj' = [obj EXCEPT ![o] = REF_CO(x, c)],
         bags' = wait_for_status(obj[Conn], Bag(c, o, op)), Waits(c, o)
  PROVE  Kept(obj', bags', co')
<1>1. /\ obj \in [DbObjects -> ObjType] /\ co \in [DbCos -> CoType]
      /\ o \in DbObjects /\ Conn \in DbObjects /\ Stmts \subseteq DbObjects
  BY DEF Kept, MTypeOK, DbObjects
<1>2. PICK n \in Nat : n = Cardinality(Waiters(co, o))
  BY WaitersFinite
<1>3. Counted(x, n)
  BY <1>1, <1>2 DEF Kept, Counted
<1>4. PICK y : y = REF_CO(x, c)
  OBVIOUS
<1>5. /\ y \in ObjType /\ Counted(y, n + 1)
      /\ y.life = x.life /\ y.closed = x.closed /\ y.self = x.self
      /\ y.ref = IF n = 0 THEN c ELSE x.ref
  BY <1>3, <1>4, RefCo
<1>6. obj'[o] = y /\ (\A p \in DbObjects : p # o => obj'[p] = obj[p]) /\ obj' \in [DbObjects -> ObjType]
  BY <1>1, <1>4, <1>5
<1>7. co' = [co EXCEPT ![c] = [st |-> "wait", on |-> o]]
  BY DEF Waits
<1>8. /\ co' \in [DbCos -> CoType]
      /\ Cardinality(Waiters(co', o)) = n + 1
      /\ \A p \in DbObjects : p # o => Waiters(co', p) = Waiters(co, p)
  <2>1. PICK L : L = Yielded(co, c, o)
    OBVIOUS
  <2>2. /\ L \in [DbCos -> CoType]
        /\ Cardinality(Waiters(L, o)) = Cardinality(Waiters(co, o)) + 1
        /\ \A p \in DbObjects : p # o => Waiters(L, p) = Waiters(co, p)
    BY <1>1, <2>1, WaitersAdd
  <2>3. co' = L
    BY <1>7, <2>1 DEF Yielded
  <2>4. QED
    BY <1>2, <2>2, <2>3
<1>9. PICK b : b = Bag(c, o, op)
  OBVIOUS
<1>10. BagOK(b) /\ b.co = c /\ b.on = o /\ b.op = op
  BY <1>9 DEF Bag, BagOK
<1>11. bags' = IF obj[Conn].closed THEN {} ELSE {b}
  BY <1>9 DEF wait_for_status
<1>12. obj'[Conn].closed = obj[Conn].closed
  BY <1>1, <1>5, <1>6
<1>13. MTypeOK(obj', bags', co')
  BY <1>6, <1>8, <1>10, <1>11 DEF MTypeOK
<1>14. \A a, d \in bags' : a = d
  BY <1>11
<1>15. ~obj[Conn].closed => Served(b, obj', co')
  <2>1. SUFFICES ASSUME ~obj[Conn].closed PROVE Served(b, obj', co')
    OBVIOUS
  <2>2. n = 0
    BY <1>1, <1>2, <2>1, NobodyWaits
  <2>3. y.ref = c /\ y.life \in {"fresh", "held"}
    BY <1>5, <2>2
  <2>4. co'[c] = [st |-> "wait", on |-> o]
    BY <1>1, <1>7
  <2>5. QED
    BY <1>6, <1>10, <2>3, <2>4 DEF Served
<1>16. \A d \in bags' : Served(d, obj', co')
  BY <1>11, <1>15
<1>17. \A p \in DbObjects : obj'[p].life # "gone" =>
         /\ Counted(obj'[p], Cardinality(Waiters(co', p)))
         /\ obj'[p].self => obj'[Conn].closed \/ \E d \in bags' : d.on = p /\ Making(d)
  <2>1. SUFFICES ASSUME NEW p \in DbObjects, obj'[p].life # "gone"
                 PROVE  /\ Counted(obj'[p], Cardinality(Waiters(co', p)))
                        /\ obj'[p].self => obj'[Conn].closed \/ \E d \in bags' : d.on = p /\ Making(d)
    OBVIOUS
  <2>2. CASE p = o
    <3>1. Counted(obj'[p], Cardinality(Waiters(co', p)))
      BY <1>5, <1>6, <1>8, <2>2
    <3>2. ~obj[Conn].closed /\ x.self => b \in bags' /\ b.on = p /\ Making(b)
      BY <1>9, <1>10, <1>11, <2>2
    <3>3. QED
      BY <1>5, <1>6, <1>12, <2>2, <3>1, <3>2
  <2>3. CASE p # o
    <3>1. obj'[p] = obj[p] /\ Waiters(co', p) = Waiters(co, p)
      BY <1>6, <1>8, <2>3
    <3>2. QED
      BY <1>12, <2>1, <3>1 DEF Kept
  <2>4. QED
    BY <2>2, <2>3
<1>18. ~obj'[Conn].closed => \A d \in DbCos : co'[d].st # "run" => \E e \in bags' : e.co = d
  <2>1. SUFFICES ASSUME ~obj[Conn].closed, NEW d \in DbCos, co'[d].st # "run"
                 PROVE  \E e \in bags' : e.co = d
    BY <1>12
  <2>2. d = c
    BY <1>1, <1>7, <2>1, NobodyWaits
  <2>3. QED
    BY <1>10, <1>11, <2>1, <2>2
<1>19. obj'[Conn].life # "gone"
  BY <1>1, <1>5, <1>6
<1>20. obj'[Conn].life = "none" => ~obj'[Conn].closed
  BY <1>1, <1>5, <1>6, <1>12 DEF Kept
<1>21. QED
  BY <1>13, <1>14, <1>16, <1>17, <1>18, <1>19, <1>20, KeptParts

\* What an operation on o that was resumed may have made of the objects.
Made(M, o, op) ==
  /\ M \in [DbObjects -> ObjType]
  /\ \A p \in DbObjects :
       /\ M[p].ref = obj[p].ref /\ M[p].count = obj[p].count
       /\ M[p].life # "gone" => obj[p].life # "gone"
       /\ M[p].self => obj[p].self /\ ~(p = o /\ op \in {"connect", "prepare"})
  /\ M[Conn].closed = obj[Conn].closed /\ M[Conn].life # "gone" /\ M[o].life # "gone"
  /\ M[Conn].life = "none" => obj[Conn].life = "none"

\* Its event fires and the coroutine is resumed.
LEMMA ResumeKept ==
  ASSUME Kept(obj, bags, co), NEW c \in DbCos, NEW o \in {Conn} \cup Stmts, NEW op,
         Bag(c, o, op) \in bags, bags' = bags \ {Bag(c, o, op)},
         NEW M, Made(M, o, op),
         obj' = [M EXCEPT ![o] = UNREF_CO(@)], co' = [co EXCEPT ![c].st = "run"]
  PROVE  Kept(obj', bags', co')
<1>1. /\ co \in [DbCos -> CoType] /\ M \in [DbObjects -> ObjType]
      /\ o \in DbObjects /\ Conn \in DbObjects
  BY DEF Kept, MTypeOK, DbObjects, Made
<1>2. PICK b : b = Bag(c, o, op)
  OBVIOUS
<1>3. b.co = c /\ b.on = o /\ b.op = op /\ b \in bags
  BY <1>2 DEF Bag
<1>4. bags = {b} /\ bags' = {}
  BY <1>2, <1>3 DEF Kept
<1>5. co[c] = [st |-> "wait", on |-> o]
  BY <1>3 DEF Kept, Served
<1>6. PICK n \in Nat \ {0} : n = Cardinality(Waiters(co, o))
  BY <1>1, <1>5, WaitersRemove
<1>7. /\ co' \in [DbCos -> CoType]
      /\ Cardinality(Waiters(co', o)) = n - 1
      /\ \A p \in DbObjects : p # o => Waiters(co', p) = Waiters(co, p)
  <2>1. PICK L : L = Resumed(co, c)
    OBVIOUS
  <2>2. /\ L \in [DbCos -> CoType]
        /\ Cardinality(Waiters(L, o)) = Cardinality(Waiters(co, o)) - 1
        /\ \A p \in DbObjects : p # o => Waiters(L, p) = Waiters(co, p)
    BY <1>1, <1>5, <2>1, WaitersRemove
  <2>3. co' = L
    BY <2>1 DEF Resumed
  <2>4. QED
    BY <1>6, <2>2, <2>3
<1>8. M[o].life # "gone" /\ obj[o].life # "gone" /\ M[o].ref = obj[o].ref /\ M[o].count = obj[o].count
  BY <1>1 DEF Made
<1>9. Counted(M[o], n)
  BY <1>1, <1>6, <1>8 DEF Kept, Counted
<1>10. PICK y : y = UNREF_CO(M[o])
  OBVIOUS
<1>11. /\ y \in ObjType /\ Counted(y, n - 1)
       /\ y.life = M[o].life /\ y.closed = M[o].closed /\ y.self = M[o].self
  BY <1>1, <1>9, <1>10, UnrefCo
<1>12. obj'[o] = y /\ (\A p \in DbObjects : p # o => obj'[p] = M[p]) /\ obj' \in [DbObjects -> ObjType]
  BY <1>1, <1>10, <1>11
<1>13. obj'[Conn].closed = obj[Conn].closed /\ obj'[Conn].life = M[Conn].life
  BY <1>1, <1>11, <1>12 DEF Made
<1>14. MTypeOK(obj', bags', co')
  BY <1>4, <1>7, <1>12 DEF MTypeOK
<1>15. \A p \in DbObjects : obj'[p].life # "gone" =>
         /\ Counted(obj'[p], Cardinality(Waiters(co', p)))
         /\ obj'[p].self => obj'[Conn].closed \/ \E d \in bags' : d.on = p /\ Making(d)
  <2>1. SUFFICES ASSUME NEW p \in DbObjects, obj'[p].life # "gone"
                 PROVE  /\ Counted(obj'[p], Cardinality(Waiters(co', p)))
                        /\ obj'[p].self => obj[Conn].closed
    BY <1>13
  <2>2. /\ M[p].ref = obj[p].ref /\ M[p].count = obj[p].count
        /\ obj'[p].life = M[p].life /\ obj'[p].self = M[p].self /\ obj[p].life # "gone"
    BY <1>11, <1>12, <2>1 DEF Made
  <2>3. Counted(obj'[p], Cardinality(Waiters(co', p)))
    <3>1. CASE p = o
      BY <1>7, <1>11, <1>12, <3>1
    <3>2. CASE p # o
      BY <1>7, <1>12, <2>2, <3>2 DEF Kept, Counted
    <3>3. QED
      BY <3>1, <3>2
  <2>4. ASSUME obj'[p].self, ~obj[Conn].closed
        PROVE  FALSE
    <3>1. obj[p].self /\ ~(p = o /\ op \in {"connect", "prepare"})
      BY <2>2, <2>4 DEF Made
    <3>2. \E d \in bags : d.on = p /\ Making(d)
      BY <2>2, <2>4, <3>1 DEF Kept
    <3>3. QED
      BY <1>3, <1>4, <3>1, <3>2 DEF Making
  <2>5. QED
    BY <2>3, <2>4
<1>16. ~obj'[Conn].closed => \A d \in DbCos : co'[d].st # "run" => \E e \in bags' : e.co = d
  <2>1. SUFFICES ASSUME ~obj[Conn].closed, NEW d \in DbCos, co'[d].st # "run"
                 PROVE  FALSE
    BY <1>13
  <2>2. d # c /\ co[d].st # "run"
    BY <1>1, <1>5, <2>1 DEF CoType
  <2>3. QED
    BY <1>3, <1>4, <2>1, <2>2 DEF Kept
<1>17. obj'[Conn].life # "gone" /\ (obj'[Conn].life = "none" => ~obj'[Conn].closed)
  BY <1>13 DEF Made, Kept
<1>18. QED
  BY <1>4, <1>14, <1>15, <1>16, <1>17, KeptParts

\* Its event fires and a closed connection refuses another one.
LEMMA RefusedKept ==
  ASSUME Kept(obj, bags, co), obj[Conn].closed, NEW b, bags' = bags \ {b},
         obj' = obj, co' = co
  PROVE  Kept(obj', bags', co')
<1>1. MTypeOK(obj', bags', co')
  BY DEF Kept, MTypeOK
<1>2. QED
  BY <1>1 DEF Kept

\* A step that leaves events and coroutines alone.
LEMMA QuietKept ==
  ASSUME Kept(obj, bags, co), UNCHANGED <<bags, co>>, obj' \in [DbObjects -> ObjType],
         \A p \in DbObjects : obj'[p].life # "gone" =>
           /\ obj[p].life # "gone" /\ obj'[p].ref = obj[p].ref /\ obj'[p].count = obj[p].count
           /\ obj'[p].self => obj[p].self,
         \A b \in bags : obj'[b.on].life \in {"fresh", "held"},
         obj[Conn].closed => obj'[Conn].closed,
         obj'[Conn].life = "gone" => \A s \in Stmts : obj'[s].life \in {"none", "gone"},
         obj'[Conn].life = "none" => ~obj'[Conn].closed
  PROVE  Kept(obj', bags', co')
<1>1. MTypeOK(obj', bags', co')
  BY DEF Kept, MTypeOK
<1>2. \A b \in bags' : Served(b, obj', co')
  <2>1. SUFFICES ASSUME NEW b \in bags PROVE Served(b, obj', co)
    OBVIOUS
  <2>2. b.on \in DbObjects
    BY DEF Kept, MTypeOK, BagOK, DbObjects
  <2>3. QED
    BY <2>2 DEF Kept, Served
<1>3. \A p \in DbObjects : obj'[p].life # "gone" =>
         /\ Counted(obj'[p], Cardinality(Waiters(co', p)))
         /\ obj'[p].self => obj'[Conn].closed \/ \E d \in bags' : d.on = p /\ Making(d)
  BY DEF Kept, Counted
<1>4. ~obj'[Conn].closed => \A c \in DbCos : co'[c].st # "run" => \E b \in bags' : b.co = c
  BY DEF Kept
<1>5. \A a, b \in bags' : a = b
  BY DEF Kept
<1>6. QED
  BY <1>1, <1>2, <1>3, <1>4, <1>5, KeptParts
-----------------------------------------------------------------------------
(* The actions *)

\* The program keeps its connection, and no finaliser of a statement waited.
Careful == env.keeps /\ ~env.strayed

\* A step that uses no freed memory.
LEMMA SafeStep ==
  ASSUME MInv, ~env.crashed, env' = env, Careful => Kept(obj', bags', co')
  PROVE  MInv'
  BY DEF MInv, Careful

\* The same when mysql_close had to wait.
LEMMA HalfStep ==
  ASSUME MInv, ~env.crashed, env' = [env EXCEPT !.half = TRUE],
         Careful => Kept(obj', bags', co')
  PROVE  MInv'
<1>1. /\ env' \in EnvType /\ env'.crashed = env.crashed /\ env'.keeps = env.keeps
      /\ env'.strayed = env.strayed
  BY DEF MInv, EnvType
<1>2. QED
  BY <1>1 DEF MInv, Careful

\* Only a program that is not careful crashes.
LEMMA CrashStep ==
  ASSUME MInv, Crash, ~Careful
  PROVE  MInv'
<1>1. /\ env' \in EnvType /\ env'.keeps = env.keeps /\ env'.strayed = env.strayed
  BY DEF MInv, EnvType, Crash
<1>2. env.keeps \in BOOLEAN /\ env.strayed \in BOOLEAN
  BY DEF MInv, EnvType
<1>3. QED
  BY <1>1, <1>2 DEF MInv, Careful

\* An operation starts on a usable object, or connect makes its own.
LEMMA StartsInv ==
  ASSUME MInv, ~env.crashed, NEW c \in DbCos, co[c].st = "run",
         NEW o \in {Conn} \cup Stmts, NEW op, NEW x, Starts(c, o, op, x),
         Careful => /\ x \in ObjType /\ obj[o].life # "gone" /\ obj[Conn].life # "gone"
                    /\ x.ref = obj[o].ref /\ x.count = obj[o].count
                    /\ x.life \in {"fresh", "held"}
                    /\ o = Conn => x.closed = obj[o].closed
                    /\ x.self /\ ~obj[Conn].closed => Making(Bag(c, o, op))
  PROVE  MInv'
<1>1. CASE obj[Conn].life = "gone"
  BY <1>1, CrashStep DEF Starts
<1>2. CASE obj[Conn].life # "gone"
  <2>1. /\ obj' = [obj EXCEPT ![o] = REF_CO(x, c)]
        /\ bags = {} /\ bags' = wait_for_status(obj[Conn], Bag(c, o, op)) /\ Waits(c, o)
        /\ env' = env
    BY <1>2 DEF Starts
  <2>2. ASSUME Careful
        PROVE  Kept(obj', bags', co')
    <3>1. Kept(obj, bags, co)
      BY <2>2 DEF MInv, Careful
    <3>2. QED
      BY <2>1, <2>2, <3>1, StartKept
  <2>3. QED
    BY <2>1, <2>2, SafeStep
<1>3. QED
  BY <1>1, <1>2

\* A usable object is there, and so is its connection.
LEMMA UsableThere ==
  ASSUME MInv, Careful, NEW c \in DbCos, NEW o \in {Conn} \cup Stmts, Usable(c, o)
  PROVE  /\ Kept(obj, bags, co) /\ obj[o] \in ObjType /\ co[c].st = "run"
         /\ obj[o].life = "held" /\ obj[Conn].life = "held"
         /\ bags = {} /\ obj[o].self => obj[Conn].closed
<1>1. o \in DbObjects
  BY DEF DbObjects
<1>2. QED
  BY <1>1 DEF MInv, Careful, Kept, MTypeOK, Usable

\* An event fires.
LEMMA ContinuesInv ==
  ASSUME MInv, ~env.crashed, NEW c \in DbCos, NEW o \in {Conn} \cup Stmts,
         NEW op, NEW made, Continues(c, o, op, made),
         Careful /\ Kept(obj, bags, co) /\ obj[o].life \in {"fresh", "held"}
           /\ obj[Conn].life # "gone" => \A M \in made : Made(M, o, op)
  PROVE  MInv'
<1>1. PICK b : b = Bag(c, o, op)
  OBVIOUS
<1>2. b \in bags /\ b.on = o /\ bags' = bags \ {b}
  BY <1>1 DEF Bag, Continues
<1>3. ASSUME Careful
      PROVE  /\ Kept(obj, bags, co) /\ obj[o].life \in {"fresh", "held"}
             /\ obj[Conn].life # "gone"
  <2>1. Kept(obj, bags, co)
    BY <1>3 DEF MInv, Careful
  <2>2. obj[o].life \in {"fresh", "held"}
    BY <1>2, <2>1 DEF Kept, Served
  <2>3. obj[Conn].life # "gone"
    BY <2>1, <2>2 DEF Kept
  <2>4. QED
    BY <2>1, <2>2, <2>3
<1>4. CASE obj[o].life = "gone" \/ obj[Conn].life = "gone"
  <2>1. Crash /\ ~Careful
    BY <1>3, <1>4 DEF Continues
  <2>2. QED
    BY <2>1, CrashStep
<1>5. CASE ~(obj[o].life = "gone" \/ obj[Conn].life = "gone")
  <2>1. env' = env
    BY <1>5 DEF Continues
  <2>2. CASE obj[Conn].closed /\ UNCHANGED <<obj, co>>
    <3>1. ASSUME Careful PROVE Kept(obj', bags', co')
      BY <1>2, <1>3, <2>2, <3>1, RefusedKept
    <3>2. QED
      BY <2>1, <3>1, SafeStep
  <2>3. CASE /\ \E M \in made : obj' = [M EXCEPT ![o] = UNREF_CO(@)]
             /\ co' = [co EXCEPT ![c].st = "run"]
    <3>1. PICK M \in made : obj' = [M EXCEPT ![o] = UNREF_CO(@)]
      BY <2>3
    <3>2. ASSUME Careful PROVE Kept(obj', bags', co')
      <4>1. Kept(obj, bags, co) /\ Made(M, o, op)
        BY <1>3, <3>2
      <4>2. QED
        BY <1>1, <1>2, <2>3, <3>1, <4>1, ResumeKept
    <3>3. QED
      BY <2>1, <3>2, SafeStep
  <2>4. QED
    BY <1>5, <2>2, <2>3 DEF Continues
<1>6. QED
  BY <1>4, <1>5

\* ping, commit, rollback, autocommit, setcharset; and execute, store_result,
\* fetch and send_long_data of a statement.
LEMMA OperationInv ==
  ASSUME MInv, ~env.crashed, NEW c \in DbCos, NEW o \in {Conn} \cup Stmts,
         NEW op, Operation(c, o, op), op \notin {"connect", "prepare"}
  PROVE  MInv'
<1>1. CASE Usable(c, o) /\ Starts(c, o, op, obj[o])
  <2>1. bags = {} /\ co[c].st = "run"
    BY <1>1 DEF Starts, Usable
  <2>2. ASSUME Careful
        PROVE  /\ obj[o] \in ObjType /\ obj[o].life = "held" /\ obj[Conn].life = "held"
               /\ obj[o].self => obj[Conn].closed
    BY <1>1, <2>1, <2>2, UsableThere
  <2>3. QED
    BY <1>1, <2>1, <2>2, StartsInv
<1>2. CASE Continues(c, o, op, {obj})
  <2>1. Kept(obj, bags, co) /\ obj[o].life \in {"fresh", "held"} /\ obj[Conn].life # "gone"
          => Made(obj, o, op)
    BY DEF Kept, MTypeOK, Made
  <2>2. QED
    BY <1>2, <2>1, ContinuesInv
<1>3. QED
  BY <1>1, <1>2 DEF Operation

\* Cursors are made.
LEMMA CursorsMade ==
  ASSUME NEW M \in real_query_result, Kept(obj, bags, co)
  PROVE  /\ M \in [DbObjects -> ObjType]
         /\ \A p \in DbObjects : /\ M[p].ref = obj[p].ref /\ M[p].count = obj[p].count
                                 /\ M[p].self = obj[p].self /\ M[p].closed = obj[p].closed
                                 /\ M[p].life # "gone" => obj[p].life # "gone"
                                 /\ p \notin Curs => M[p] = obj[p]
<1>1. PICK made \in SUBSET {k \in Curs : obj[k].life = "none"} : M = create_cursor(made)
  BY DEF real_query_result
<1>2. M = [o \in DbObjects |-> IF o \in made THEN [obj[o] EXCEPT !.life = "held"] ELSE obj[o]]
  BY <1>1 DEF create_cursor
<1>3. ASSUME NEW p \in DbObjects
      PROVE  /\ M[p] \in ObjType
             /\ M[p].ref = obj[p].ref /\ M[p].count = obj[p].count
             /\ M[p].self = obj[p].self /\ M[p].closed = obj[p].closed
             /\ M[p].life # "gone" => obj[p].life # "gone"
             /\ p \notin Curs => M[p] = obj[p]
  <2>1. obj[p] \in ObjType
    BY DEF Kept, MTypeOK
  <2>2. CASE p \in made
    <3>1. M[p] = [obj[p] EXCEPT !.life = "held"] /\ obj[p].life = "none" /\ p \in Curs
      BY <1>2, <2>2
    <3>2. "held" \in Lives
      BY DEF Lives
    <3>3. QED
      BY <2>1, <3>1, <3>2 DEF ObjType
  <2>3. CASE p \notin made
    BY <1>2, <2>1, <2>3
  <2>4. QED
    BY <2>2, <2>3
<1>4. M \in [DbObjects -> ObjType]
  BY <1>2, <1>3
<1>5. QED
  BY <1>3, <1>4

\* A query makes its cursors, at once or when its event fires.
LEMMA QueryInv ==
  ASSUME MInv, ~env.crashed, NEW c \in DbCos, real_query(c)
  PROVE  MInv'
<1>1. Conn \in {Conn} \cup Stmts /\ Conn \in DbObjects /\ Conn \notin Curs /\ Stmts \cap Curs = {}
  BY MariaAssumption DEF DbObjects
<1>2. CASE Usable(c, Conn) /\ Starts(c, Conn, "execute", obj[Conn])
  <2>1. Operation(c, Conn, "execute")
    BY <1>2 DEF Operation
  <2>2. QED
    BY <1>1, <2>1, OperationInv
<1>3. CASE /\ Usable(c, Conn)
           /\ bags = {} /\ obj' \in real_query_result /\ UNCHANGED <<bags, co, env>>
  <2>1. ASSUME Careful
        PROVE  Kept(obj', bags', co')
    <3>1. Kept(obj, bags, co)
      BY <2>1 DEF MInv, Careful
    <3>2. /\ obj' \in [DbObjects -> ObjType]
          /\ \A p \in DbObjects : /\ obj'[p].ref = obj[p].ref /\ obj'[p].count = obj[p].count
                                  /\ obj'[p].self = obj[p].self /\ obj'[p].closed = obj[p].closed
                                  /\ obj'[p].life # "gone" => obj[p].life # "gone"
                                  /\ p \notin Curs => obj'[p] = obj[p]
      BY <1>3, <3>1, CursorsMade
    <3>3. \A s \in {Conn} \cup Stmts : obj'[s] = obj[s]
      BY <1>1, <3>2 DEF DbObjects
    <3>4. QED
      BY <1>1, <1>3, <3>1, <3>2, <3>3, QuietKept DEF Kept
  <2>2. QED
    BY <1>3, <2>1, SafeStep
<1>4. CASE Continues(c, Conn, "execute", real_query_result)
  <2>1. ASSUME Kept(obj, bags, co), obj[Conn].life # "gone", NEW M \in real_query_result
        PROVE  Made(M, Conn, "execute")
    <3>1. /\ M \in [DbObjects -> ObjType]
          /\ \A p \in DbObjects : /\ M[p].ref = obj[p].ref /\ M[p].count = obj[p].count
                                  /\ M[p].self = obj[p].self /\ M[p].closed = obj[p].closed
                                  /\ M[p].life # "gone" => obj[p].life # "gone"
                                  /\ p \notin Curs => M[p] = obj[p]
      BY <2>1, CursorsMade
    <3>2. QED
      BY <1>1, <2>1, <3>1 DEF Made
  <2>2. QED
    BY <1>1, <1>4, <2>1, ContinuesInv
<1>5. QED
  BY <1>2, <1>3, <1>4 DEF real_query

\* Objects change one at a time.
LEMMA OneKept ==
  ASSUME Kept(obj, bags, co), UNCHANGED <<bags, co>>, NEW o \in DbObjects, NEW x \in ObjType,
         obj' = [obj EXCEPT ![o] = x],
         x.life # "gone" => /\ obj[o].life # "gone" /\ x.ref = obj[o].ref /\ x.count = obj[o].count
                            /\ x.self => obj[o].self,
         (\E b \in bags : b.on = o) => x.life \in {"fresh", "held"},
         o = Conn /\ obj[o].closed => x.closed,
         o = Conn /\ x.life = "gone" => \A s \in Stmts : obj[s].life \in {"none", "gone"},
         o = Conn /\ x.life = "none" => ~x.closed,
         o \in Stmts /\ obj[Conn].life = "gone" => x.life \in {"none", "gone"}
  PROVE  Kept(obj', bags', co')
<1>1. /\ obj \in [DbObjects -> ObjType] /\ Conn \in DbObjects /\ Stmts \subseteq DbObjects
      /\ Conn \notin Stmts
  BY MariaAssumption DEF Kept, MTypeOK, DbObjects
<1>2. obj'[o] = x /\ (\A p \in DbObjects : p # o => obj'[p] = obj[p]) /\ obj' \in [DbObjects -> ObjType]
  BY <1>1
<1>3. \A p \in DbObjects : obj'[p].life # "gone" =>
        /\ obj[p].life # "gone" /\ obj'[p].ref = obj[p].ref /\ obj'[p].count = obj[p].count
        /\ obj'[p].self => obj[p].self
  BY <1>2
<1>4. \A b \in bags : obj'[b.on].life \in {"fresh", "held"}
  <2>1. SUFFICES ASSUME NEW b \in bags PROVE obj'[b.on].life \in {"fresh", "held"}
    OBVIOUS
  <2>2. b.on \in DbObjects
    BY DEF Kept, MTypeOK, BagOK, DbObjects
  <2>3. CASE b.on = o
    BY <1>2, <2>1, <2>3
  <2>4. CASE b.on # o
    <3>1. obj[b.on].life \in {"fresh", "held"}
      BY <2>1 DEF Kept, Served
    <3>2. QED
      BY <1>2, <2>2, <2>4, <3>1
  <2>5. QED
    BY <2>3, <2>4
<1>5. obj[Conn].closed => obj'[Conn].closed
  BY <1>1, <1>2
<1>6. obj'[Conn].life = "gone" => \A s \in Stmts : obj'[s].life \in {"none", "gone"}
  <2>1. CASE o = Conn
    BY <1>1, <1>2, <2>1
  <2>2. CASE o # Conn
    BY <1>1, <1>2, <2>2 DEF Kept
  <2>3. QED
    BY <2>1, <2>2
<1>7. obj'[Conn].life = "none" => ~obj'[Conn].closed
  BY <1>1, <1>2 DEF Kept
<1>8. QED
  BY <1>2, <1>3, <1>4, <1>5, <1>6, <1>7, QuietKept

\* Handing an object out.
LEMMA HandedMade ==
  ASSUME Kept(obj, bags, co), NEW o \in {Conn} \cup Stmts, NEW op \in {"connect", "prepare"},
         obj[o].life \in {"fresh", "held"}, obj[Conn].life # "gone", NEW M \in Handed(o)
  PROVE  Made(M, o, op)
<1>1. PICK life \in {"fresh", "held"} : M = [obj EXCEPT ![o].self = FALSE, ![o].life = life]
  BY DEF Handed
<1>2. o \in DbObjects /\ obj \in [DbObjects -> ObjType] /\ obj[o] \in ObjType
  BY DEF Kept, MTypeOK, DbObjects
<1>3. PICK x : x = [obj[o] EXCEPT !.self = FALSE, !.life = life]
  OBVIOUS
<1>4. x \in ObjType
  <2>1. life \in Lives /\ FALSE \in BOOLEAN
    BY DEF Lives
  <2>2. QED
    BY <1>2, <1>3, <2>1, Zenon DEF ObjType
<1>5. /\ x.ref = obj[o].ref /\ x.count = obj[o].count /\ x.closed = obj[o].closed
      /\ x.self = FALSE /\ x.life = life
  BY <1>2, <1>3, Zenon DEF ObjType
<1>6. M = [obj EXCEPT ![o] = x]
  BY <1>1, <1>2, <1>3
<1>7. M[o] = x /\ (\A p \in DbObjects : p # o => M[p] = obj[p]) /\ M \in [DbObjects -> ObjType]
  BY <1>2, <1>4, <1>6
<1>8. Conn \in DbObjects
  BY DEF DbObjects
<1>9. QED
  BY <1>2, <1>5, <1>7, <1>8 DEF Made

\* connect.
LEMMA ConnectInv ==
  ASSUME MInv, ~env.crashed, NEW c \in DbCos, real_connect(c)
  PROVE  MInv'
<1>1. /\ Conn \in {Conn} \cup Stmts /\ Conn \in DbObjects
      /\ Conn \notin Stmts
  BY MariaAssumption DEF DbObjects
<1>2. "fresh" \in Lives /\ "held" \in Lives /\ TRUE \in BOOLEAN
  BY DEF Lives
<1>3. ASSUME Careful
      PROVE  /\ Kept(obj, bags, co) /\ obj \in [DbObjects -> ObjType] /\ obj[Conn] \in ObjType
  BY <1>1, <1>3 DEF MInv, Careful, Kept, MTypeOK
<1>4. CASE /\ co[c].st = "run" /\ obj[Conn].life = "none"
           /\ Starts(c, Conn, "connect", [obj[Conn] EXCEPT !.life = "fresh", !.self = TRUE])
  <2>1. PICK x : x = [obj[Conn] EXCEPT !.life = "fresh", !.self = TRUE]
    OBVIOUS
  <2>2. ASSUME Careful
        PROVE  x \in ObjType /\ x.ref = obj[Conn].ref /\ x.count = obj[Conn].count
               /\ x.life = "fresh" /\ x.closed = obj[Conn].closed
    <3>1. x \in ObjType
      BY <1>2, <1>3, <2>1, <2>2, Zenon DEF ObjType
    <3>2. /\ x.ref = obj[Conn].ref /\ x.count = obj[Conn].count
          /\ x.life = "fresh" /\ x.closed = obj[Conn].closed
      BY <1>3, <2>1, <2>2, Zenon DEF ObjType
    <3>3. QED
      BY <3>1, <3>2
  <2>3. Making(Bag(c, Conn, "connect"))
    BY DEF Making, Bag
  <2>4. Starts(c, Conn, "connect", x)
    BY <1>4, <2>1
  <2>5. QED
    BY <1>1, <1>4, <2>2, <2>3, <2>4, StartsInv
<1>5. CASE /\ co[c].st = "run" /\ obj[Conn].life = "none"
           /\ \E life \in {"fresh", "held"} : obj' = [obj EXCEPT ![Conn].life = life]
           /\ UNCHANGED <<bags, co, env>>
  <2>1. PICK life \in {"fresh", "held"} : obj' = [obj EXCEPT ![Conn].life = life]
    BY <1>5
  <2>2. PICK x : x = [obj[Conn] EXCEPT !.life = life]
    OBVIOUS
  <2>3. ASSUME Careful
        PROVE  Kept(obj', bags', co')
    <3>1. x \in ObjType
      BY <1>2, <1>3, <2>2, <2>3, Zenon DEF ObjType
    <3>2. /\ x.ref = obj[Conn].ref /\ x.count = obj[Conn].count /\ x.self = obj[Conn].self
          /\ x.life = life /\ x.closed = obj[Conn].closed
      BY <1>3, <2>2, <2>3, Zenon DEF ObjType
    <3>3. obj' = [obj EXCEPT ![Conn] = x]
      BY <1>1, <1>3, <2>1, <2>2, <2>3
    <3>4. QED
      BY <1>1, <1>3, <1>5, <2>3, <3>1, <3>2, <3>3, OneKept
  <2>4. QED
    BY <1>5, <2>3, SafeStep
<1>6. CASE Continues(c, Conn, "connect", Handed(Conn))
  <2>1. Kept(obj, bags, co) /\ obj[Conn].life \in {"fresh", "held"} /\ obj[Conn].life # "gone"
          => \A M \in Handed(Conn) : Made(M, Conn, "connect")
    BY <1>1, HandedMade
  <2>2. QED
    BY <1>1, <1>6, <2>1, ContinuesInv
<1>7. QED
  BY <1>4, <1>5, <1>6 DEF real_connect

\* prepare.
LEMMA PrepareInv ==
  ASSUME MInv, ~env.crashed, NEW c \in DbCos, NEW s \in Stmts, stmt_prepare(c, s)
  PROVE  MInv'
<1>1. /\ Conn \in {Conn} \cup Stmts /\ s \in {Conn} \cup Stmts /\ s \in DbObjects
      /\ s # Conn
  BY MariaAssumption DEF DbObjects
<1>2. "fresh" \in Lives /\ "held" \in Lives /\ TRUE \in BOOLEAN
  BY DEF Lives
<1>3. ASSUME Careful
      PROVE  Kept(obj, bags, co) /\ obj \in [DbObjects -> ObjType] /\ obj[s] \in ObjType
  BY <1>1, <1>3 DEF MInv, Careful, Kept, MTypeOK
<1>4. CASE /\ Usable(c, Conn) /\ bags = {} /\ obj[s].life = "none"
           /\ Starts(c, s, "prepare", [[obj[s] EXCEPT !.life = "fresh", !.table = TRUE]
                                         EXCEPT !.self = TRUE])
  <2>1. PICK o : o = [obj[s] EXCEPT !.life = "fresh", !.table = TRUE]
    OBVIOUS
  <2>2. PICK x : x = [o EXCEPT !.self = TRUE]
    OBVIOUS
  <2>3. ASSUME Careful
        PROVE  /\ x \in ObjType /\ x.ref = obj[s].ref /\ x.count = obj[s].count
               /\ x.life = "fresh"
    <3>1. o \in ObjType
      BY <1>2, <1>3, <2>1, <2>3, Zenon DEF ObjType
    <3>2. o.ref = obj[s].ref /\ o.count = obj[s].count /\ o.life = "fresh"
      BY <1>3, <2>1, <2>3, Zenon DEF ObjType
    <3>3. x \in ObjType
      BY <1>2, <2>2, <3>1, Zenon DEF ObjType
    <3>4. x.ref = o.ref /\ x.count = o.count /\ x.life = o.life
      BY <2>2, <3>1, Zenon DEF ObjType
    <3>5. QED
      BY <3>2, <3>3, <3>4
  <2>4. Making(Bag(c, s, "prepare"))
    BY DEF Making, Bag
  <2>5. Starts(c, s, "prepare", x)
    BY <1>4, <2>1, <2>2
  <2>6. co[c].st = "run" /\ obj[Conn].life = "held"
    BY <1>4 DEF Usable
  <2>7. QED
    BY <1>1, <1>4, <2>3, <2>4, <2>5, <2>6, StartsInv
<1>5. CASE /\ Usable(c, Conn) /\ bags = {} /\ obj[s].life = "none"
           /\ \E life \in {"fresh", "held"} :
                obj' = [obj EXCEPT ![s] = [[obj[s] EXCEPT !.life = "fresh", !.table = TRUE]
                                             EXCEPT !.life = life]]
           /\ UNCHANGED <<bags, co, env>>
  <2>1. PICK life \in {"fresh", "held"} :
          obj' = [obj EXCEPT ![s] = [[obj[s] EXCEPT !.life = "fresh", !.table = TRUE]
                                       EXCEPT !.life = life]]
    BY <1>5
  <2>2. PICK o : o = [obj[s] EXCEPT !.life = "fresh", !.table = TRUE]
    OBVIOUS
  <2>3. PICK x : x = [o EXCEPT !.life = life]
    OBVIOUS
  <2>4. obj' = [obj EXCEPT ![s] = x]
    BY <2>1, <2>2, <2>3
  <2>5. ASSUME Careful
        PROVE  Kept(obj', bags', co')
    <3>1. o \in ObjType
      BY <1>2, <1>3, <2>2, <2>5, Zenon DEF ObjType
    <3>2. o.ref = obj[s].ref /\ o.count = obj[s].count /\ o.self = obj[s].self
      BY <1>3, <2>2, <2>5, Zenon DEF ObjType
    <3>3. life \in Lives
      BY <1>2
    <3>4. x \in ObjType
      BY <2>3, <3>1, <3>3, Zenon DEF ObjType
    <3>5. x.ref = o.ref /\ x.count = o.count /\ x.life = life /\ x.self = o.self
      BY <2>3, <3>1, Zenon DEF ObjType
    <3>6. obj[Conn].life = "held"
      BY <1>5 DEF Usable
    <3>7. QED
      BY <1>1, <1>3, <1>5, <2>4, <2>5, <3>2, <3>4, <3>5, <3>6, OneKept
  <2>6. QED
    BY <1>5, <2>5, SafeStep
<1>6. CASE Continues(c, s, "prepare", Handed(s))
  <2>1. Kept(obj, bags, co) /\ obj[s].life \in {"fresh", "held"} /\ obj[Conn].life # "gone"
          => \A M \in Handed(s) : Made(M, s, "prepare")
    BY <1>1, HandedMade
  <2>2. QED
    BY <1>1, <1>6, <2>1, ContinuesInv
<1>7. QED
  BY <1>4, <1>5, <1>6 DEF stmt_prepare

\* close of a connection, also while another coroutine waits for it.
LEMMA CloseInv ==
  ASSUME MInv, ~env.crashed, NEW c \in DbCos, conn_close(c)
  PROVE  MInv'
<1>1. Conn \in DbObjects /\ TRUE \in BOOLEAN /\ Conn \notin Stmts
  BY MariaAssumption DEF DbObjects
<1>2. co[c].st = "run" /\ obj[Conn].life = "held" /\ ~obj[Conn].closed
  BY DEF conn_close
<1>3. PICK x : x = [obj[Conn] EXCEPT !.closed = TRUE]
  OBVIOUS
<1>4. ASSUME Careful
      PROVE  /\ Kept(obj, bags, co) /\ obj \in [DbObjects -> ObjType] /\ co \in [DbCos -> CoType]
             /\ x \in ObjType /\ x.life = "held" /\ x.closed = TRUE
             /\ x.ref = obj[Conn].ref /\ x.count = obj[Conn].count /\ x.self = obj[Conn].self
  <2>1. /\ Kept(obj, bags, co) /\ obj \in [DbObjects -> ObjType] /\ co \in [DbCos -> CoType]
        /\ obj[Conn] \in ObjType
    BY <1>1, <1>4 DEF MInv, Careful, Kept, MTypeOK
  <2>2. x \in ObjType
    BY <1>1, <1>3, <2>1, Zenon DEF ObjType
  <2>3. /\ x.life = obj[Conn].life /\ x.closed = TRUE
        /\ x.ref = obj[Conn].ref /\ x.count = obj[Conn].count /\ x.self = obj[Conn].self
    BY <1>3, <2>1, Zenon DEF ObjType
  <2>4. QED
    BY <1>2, <2>1, <2>2, <2>3
<1>5. CASE obj' = [obj EXCEPT ![Conn] = x] /\ UNCHANGED <<bags, co, env>>
  <2>1. ASSUME Careful PROVE Kept(obj', bags', co')
    BY <1>1, <1>2, <1>4, <1>5, <2>1, OneKept
  <2>2. QED
    BY <1>5, <2>1, SafeStep
<1>6. CASE /\ obj' = [obj EXCEPT ![Conn] = REF_CO(x, c)]
           /\ bags' = wait_for_status(x, Bag(c, Conn, "close"))
           /\ Waits(c, Conn)
           /\ env' = [env EXCEPT !.half = TRUE]
  <2>1. ASSUME Careful PROVE Kept(obj', bags', co')
    <3>1. bags' = bags
      BY <1>4, <1>6, <2>1 DEF wait_for_status
    <3>2. PICK n \in Nat : n = Cardinality(Waiters(co, Conn))
      BY WaitersFinite
    <3>3. Counted(x, n)
      BY <1>1, <1>2, <1>4, <2>1, <3>2 DEF Kept, Counted
    <3>4. PICK y : y = REF_CO(x, c)
      OBVIOUS
    <3>5. /\ y \in ObjType /\ Counted(y, n + 1)
          /\ y.life = "held" /\ y.closed = TRUE
          /\ y.ref = IF n = 0 THEN c ELSE x.ref
      <4>1. x \in ObjType /\ x.life = "held" /\ x.closed = TRUE
        BY <1>4, <2>1
      <4>2. /\ y \in ObjType /\ Counted(y, n + 1)
            /\ y.life = x.life /\ y.closed = x.closed
            /\ y.ref = IF n = 0 THEN c ELSE x.ref
        BY <3>3, <3>4, <4>1, RefCo
      <4>3. QED
        BY <4>1, <4>2
    <3>6. /\ obj'[Conn] = y /\ \A p \in DbObjects : p # Conn => obj'[p] = obj[p]
          /\ obj' \in [DbObjects -> ObjType]
      BY <1>1, <1>4, <1>6, <2>1, <3>4, <3>5
    <3>7. PICK L : L = Yielded(co, c, Conn)
      OBVIOUS
    <3>8. /\ L \in [DbCos -> CoType]
          /\ Cardinality(Waiters(L, Conn)) = Cardinality(Waiters(co, Conn)) + 1
          /\ \A p \in DbObjects : p # Conn => Waiters(L, p) = Waiters(co, p)
      BY <1>1, <1>2, <1>4, <2>1, <3>7, WaitersAdd
    <3>9. co' = L /\ \A d \in DbCos : d # c => L[d] = co[d]
      BY <1>4, <1>6, <2>1, <3>7 DEF Waits, Yielded
    <3>10. MTypeOK(obj', bags', co')
      BY <1>4, <2>1, <3>1, <3>6, <3>8, <3>9 DEF MTypeOK, Kept
    <3>11. \A b \in bags' : Served(b, obj', co')
      <4>1. SUFFICES ASSUME NEW b \in bags PROVE Served(b, obj', co')
        BY <3>1
      <4>2. Served(b, obj, co) /\ b.co \in DbCos /\ b.on \in DbObjects
        BY <1>4, <2>1 DEF Kept, MTypeOK, BagOK, DbObjects
      <4>3. b.co # c
        BY <1>2, <4>2 DEF Served
      <4>4. co'[b.co] = co[b.co]
        BY <3>9, <4>2, <4>3
      <4>5. CASE b.on = Conn
        <5>1. x.ref = b.co /\ b.co # NoCo
          BY <1>4, <2>1, <4>2, <4>5, MariaAssumption DEF Served
        <5>2. y.ref = b.co
          BY <3>3, <3>5, <5>1 DEF Counted
        <5>3. QED
          BY <3>5, <3>6, <4>2, <4>4, <4>5, <5>2 DEF Served
      <4>6. CASE b.on # Conn
        BY <3>6, <4>2, <4>4, <4>6 DEF Served
      <4>7. QED
        BY <4>5, <4>6
    <3>12. \A p \in DbObjects : obj'[p].life # "gone" =>
             /\ Counted(obj'[p], Cardinality(Waiters(co', p)))
             /\ obj'[p].self => obj'[Conn].closed \/ \E d \in bags' : d.on = p /\ Making(d)
      <4>1. SUFFICES ASSUME NEW p \in DbObjects, obj'[p].life # "gone"
                     PROVE  Counted(obj'[p], Cardinality(Waiters(co', p)))
        BY <3>5, <3>6
      <4>2. CASE p = Conn
        BY <3>2, <3>5, <3>6, <3>8, <3>9, <4>2
      <4>3. CASE p # Conn
        BY <1>4, <2>1, <3>6, <3>8, <3>9, <4>1, <4>3 DEF Kept
      <4>4. QED
        BY <4>2, <4>3
    <3>13. \A a, b \in bags' : a = b
      BY <1>4, <2>1, <3>1 DEF Kept
    <3>14. QED
      BY <3>5, <3>6, <3>10, <3>11, <3>12, <3>13, KeptParts
  <2>2. QED
    BY <1>6, <2>1, HalfStep
<1>7. QED
  BY <1>3, <1>5, <1>6 DEF conn_close

\* close of a statement.
LEMMA StmtCloseInv ==
  ASSUME MInv, ~env.crashed, NEW c \in DbCos, NEW s \in Stmts, stmt_close(c, s)
  PROVE  MInv'
<1>1. s \in {Conn} \cup Stmts /\ s \in DbObjects /\ s # Conn /\ TRUE \in BOOLEAN /\ FALSE \in BOOLEAN
  BY MariaAssumption DEF DbObjects
<1>2. CASE Usable(c, s) /\ Starts(c, s, "stmt_close", [obj[s] EXCEPT !.closed = TRUE])
  <2>1. bags = {} /\ co[c].st = "run"
    BY <1>2 DEF Starts, Usable
  <2>2. PICK x : x = [obj[s] EXCEPT !.closed = TRUE]
    OBVIOUS
  <2>3. ASSUME Careful
        PROVE  /\ x \in ObjType /\ obj[s].life = "held" /\ obj[Conn].life = "held"
               /\ x.ref = obj[s].ref /\ x.count = obj[s].count /\ x.life = "held"
               /\ x.self => obj[Conn].closed
    <3>1. /\ obj[s] \in ObjType /\ obj[s].life = "held" /\ obj[Conn].life = "held"
          /\ obj[s].self => obj[Conn].closed
      BY <1>1, <1>2, <2>1, <2>3, UsableThere
    <3>2. x \in ObjType
      BY <1>1, <2>2, <3>1, Zenon DEF ObjType
    <3>3. /\ x.ref = obj[s].ref /\ x.count = obj[s].count /\ x.life = obj[s].life
          /\ x.self = obj[s].self
      BY <2>2, <3>1, Zenon DEF ObjType
    <3>4. QED
      BY <3>1, <3>2, <3>3
  <2>4. Starts(c, s, "stmt_close", x)
    BY <1>2, <2>2
  <2>5. QED
    BY <1>1, <2>1, <2>3, <2>4, StartsInv
<1>3. CASE /\ Usable(c, s) /\ bags = {}
           /\ \E table \in {FALSE, obj[s].table} :
                obj' = [obj EXCEPT ![s].closed = TRUE, ![s].table = table]
           /\ UNCHANGED <<bags, co, env>>
  <2>1. PICK table \in {FALSE, obj[s].table} :
          obj' = [obj EXCEPT ![s].closed = TRUE, ![s].table = table]
    BY <1>3
  <2>2. PICK x : x = [obj[s] EXCEPT !.closed = TRUE, !.table = table]
    OBVIOUS
  <2>3. ASSUME Careful PROVE Kept(obj', bags', co')
    <3>1. /\ Kept(obj, bags, co) /\ obj[s] \in ObjType /\ obj \in [DbObjects -> ObjType]
          /\ obj[s].life = "held" /\ obj[Conn].life = "held"
      BY <1>1, <1>3, <2>3, UsableThere DEF Kept, MTypeOK
    <3>2. table \in BOOLEAN
      BY <1>1, <3>1 DEF ObjType
    <3>3. x \in ObjType
      BY <1>1, <2>2, <3>1, <3>2, Zenon DEF ObjType
    <3>4. /\ x.ref = obj[s].ref /\ x.count = obj[s].count /\ x.life = obj[s].life
          /\ x.self = obj[s].self
      BY <2>2, <3>1, Zenon DEF ObjType
    <3>5. obj' = [obj EXCEPT ![s] = x]
      BY <1>1, <2>1, <2>2, <3>1
    <3>6. QED
      BY <1>1, <1>3, <3>1, <3>3, <3>4, <3>5, OneKept
  <2>4. QED
    BY <1>3, <2>3, SafeStep
<1>4. CASE Continues(c, s, "stmt_close", {[obj EXCEPT ![s].table = FALSE]})
  <2>1. PICK M : M = [obj EXCEPT ![s].table = FALSE]
    OBVIOUS
  <2>2. ASSUME Kept(obj, bags, co), obj[s].life \in {"fresh", "held"}, obj[Conn].life # "gone"
        PROVE  Made(M, s, "stmt_close")
    <3>1. obj \in [DbObjects -> ObjType] /\ obj[s] \in ObjType /\ Conn \in DbObjects
      BY <1>1, <2>2 DEF Kept, MTypeOK, DbObjects
    <3>2. PICK x : x = [obj[s] EXCEPT !.table = FALSE]
      OBVIOUS
    <3>3. x \in ObjType
      BY <1>1, <3>1, <3>2, Zenon DEF ObjType
    <3>4. /\ x.ref = obj[s].ref /\ x.count = obj[s].count /\ x.life = obj[s].life
          /\ x.self = obj[s].self
      BY <3>1, <3>2, Zenon DEF ObjType
    <3>5. M = [obj EXCEPT ![s] = x]
      BY <1>1, <2>1, <3>1, <3>2
    <3>6. M[s] = x /\ (\A p \in DbObjects : p # s => M[p] = obj[p]) /\ M \in [DbObjects -> ObjType]
      BY <1>1, <3>1, <3>3, <3>5
    <3>7. QED
      BY <1>1, <2>2, <3>1, <3>4, <3>6 DEF Made
  <2>3. Continues(c, s, "stmt_close", {M})
    BY <1>4, <2>1
  <2>4. QED
    BY <1>1, <2>2, <2>3, ContinuesInv
<1>5. QED
  BY <1>2, <1>3, <1>4 DEF stmt_close

\* FreeResult releases the tables of a cursor, and nothing else.
LEMMA FreedResult ==
  ASSUME NEW x \in ObjType, NEW y, y = FreeResult(x)
  PROVE  /\ y \in ObjType /\ y.ref = x.ref /\ y.count = x.count
         /\ y.life = x.life /\ y.self = x.self
<1>1. TRUE \in BOOLEAN /\ FALSE \in BOOLEAN
  OBVIOUS
<1>2. y \in ObjType
  BY <1>1, Zenon DEF ObjType, FreeResult
<1>3. y.ref = x.ref /\ y.count = x.count /\ y.life = x.life /\ y.self = x.self
  BY Zenon DEF ObjType, FreeResult
<1>4. QED
  BY <1>2, <1>3

\* No event is about a cursor.
LEMMA CursorApart ==
  ASSUME MInv, Careful, NEW k \in Curs
  PROVE  /\ Kept(obj, bags, co) /\ obj[k] \in ObjType
         /\ k \in DbObjects /\ k # Conn /\ k \notin Stmts /\ \A b \in bags : b.on # k
<1>1. k \in DbObjects /\ k # Conn /\ k \notin Stmts
  BY MariaAssumption DEF DbObjects
<1>2. Kept(obj, bags, co)
  BY DEF MInv, Careful
<1>3. obj[k] \in ObjType
  BY <1>1, <1>2 DEF Kept, MTypeOK
<1>4. \A b \in bags : b.on # k
  BY <1>1, <1>2 DEF Kept, MTypeOK, BagOK
<1>5. QED
  BY <1>1, <1>2, <1>3, <1>4

\* A cursor's row is fetched.
LEMMA FetchInv ==
  ASSUME MInv, ~env.crashed, NEW k \in Curs, fetch_row(k)
  PROVE  MInv'
<1>1. obj[k].life = "held" /\ UNCHANGED <<bags, co, env>>
  BY DEF fetch_row
<1>2. PICK x \in fetch_row_result(obj[k]) : obj' = [obj EXCEPT ![k] = x]
  BY DEF fetch_row
<1>3. ASSUME Careful PROVE Kept(obj', bags', co')
  <2>1. /\ Kept(obj, bags, co) /\ obj[k] \in ObjType
        /\ k \in DbObjects /\ k # Conn /\ k \notin Stmts /\ \A b \in bags : b.on # k
    BY <1>3, CursorApart
  <2>2. /\ x \in ObjType /\ x.ref = obj[k].ref /\ x.count = obj[k].count
        /\ x.life = obj[k].life /\ x.self = obj[k].self
    <3>1. CASE x = [obj[k] EXCEPT !.table = TRUE]
      <4>1. TRUE \in BOOLEAN
        OBVIOUS
      <4>2. x \in ObjType
        BY <2>1, <3>1, <4>1, Zenon DEF ObjType
      <4>3. x.ref = obj[k].ref /\ x.count = obj[k].count /\ x.life = obj[k].life
            /\ x.self = obj[k].self
        BY <2>1, <3>1, Zenon DEF ObjType
      <4>4. QED
        BY <4>2, <4>3
    <3>2. CASE x = FreeResult(obj[k])
      BY <2>1, <3>2, FreedResult
    <3>3. QED
      BY <3>1, <3>2 DEF fetch_row_result
  <2>3. QED
    BY <1>1, <1>2, <2>1, <2>2, OneKept
<1>4. QED
  BY <1>1, <1>3, SafeStep

\* A cursor is closed.
LEMMA CurCloseInv ==
  ASSUME MInv, ~env.crashed, NEW k \in Curs, cur_close(k)
  PROVE  MInv'
<1>1. obj[k].life = "held" /\ UNCHANGED <<bags, co, env>>
  BY DEF cur_close
<1>2. ASSUME Careful PROVE Kept(obj', bags', co')
  <2>1. /\ Kept(obj, bags, co) /\ obj[k] \in ObjType
        /\ k \in DbObjects /\ k # Conn /\ k \notin Stmts /\ \A b \in bags : b.on # k
    BY <1>2, CursorApart
  <2>2. PICK x : x = FreeResult(obj[k])
    OBVIOUS
  <2>3. /\ x \in ObjType /\ x.ref = obj[k].ref /\ x.count = obj[k].count
        /\ x.life = obj[k].life /\ x.self = obj[k].self
    BY <2>1, <2>2, FreedResult
  <2>4. obj' = [obj EXCEPT ![k] = x]
    BY <2>2 DEF cur_close
  <2>5. QED
    BY <1>1, <2>1, <2>3, <2>4, OneKept
<1>3. QED
  BY <1>1, <1>2, SafeStep

\* What is collected has no event.
LEMMA GarbageApart ==
  ASSUME Kept(obj, bags, co), NEW o \in DbObjects, Garbage(o)
  PROVE  \A b \in bags : b.on # o
<1>1. SUFFICES ASSUME NEW b \in bags, b.on = o PROVE FALSE
  OBVIOUS
<1>2. b.co \in DbCos /\ co[b.co] = [st |-> "wait", on |-> o]
  BY <1>1 DEF Kept, MTypeOK, BagOK, Served
<1>3. co[b.co].st = "wait" /\ co[b.co].on = o
  BY <1>2
<1>4. QED
  BY <1>2, <1>3 DEF Garbage

\* An object goes, whatever is left of its fields.
LEMMA GoneKept ==
  ASSUME Kept(obj, bags, co), UNCHANGED <<bags, co>>, NEW o \in DbObjects, Garbage(o),
         NEW x \in ObjType, Gone(o, x), o = Conn => x.closed,
         o = Conn => \A s \in Stmts : obj[s].life \in {"none", "gone"}
  PROVE  Kept(obj', bags', co')
<1>1. PICK y : y = [x EXCEPT !.life = "gone"]
  OBVIOUS
<1>2. "gone" \in Lives
  BY DEF Lives
<1>3. y \in ObjType
  BY <1>1, <1>2, Zenon DEF ObjType
<1>4. y.life = "gone" /\ y.closed = x.closed
  BY <1>1, Zenon DEF ObjType
<1>5. obj' = [obj EXCEPT ![o] = y]
  BY <1>1 DEF Gone
<1>6. \A b \in bags : b.on # o
  BY GarbageApart
<1>7. QED
  BY <1>3, <1>4, <1>5, <1>6, OneKept

\* A cursor is collected.
LEMMA CurGcInv ==
  ASSUME MInv, ~env.crashed, NEW k \in Curs, cur_gc(k)
  PROVE  MInv'
<1>1. Garbage(k) /\ Gone(k, FreeResult(obj[k])) /\ UNCHANGED <<bags, co, env>>
  BY DEF cur_gc
<1>2. ASSUME Careful PROVE Kept(obj', bags', co')
  <2>1. Kept(obj, bags, co) /\ obj[k] \in ObjType /\ k \in DbObjects /\ k # Conn
    BY <1>2, CursorApart
  <2>2. PICK x : x = FreeResult(obj[k])
    OBVIOUS
  <2>3. x \in ObjType
    BY <2>1, <2>2, FreedResult
  <2>4. QED
    BY <1>1, <2>1, <2>2, <2>3, GoneKept
<1>3. QED
  BY <1>1, <1>2, SafeStep

\* The connection is collected, only after its statements.
LEMMA ConnGcInv ==
  ASSUME MInv, ~env.crashed, NEW c \in DbCos, conn_gc(c)
  PROVE  MInv'
<1>1. Conn \in DbObjects /\ TRUE \in BOOLEAN
  BY DEF DbObjects
<1>2. /\ Garbage(Conn) /\ UNCHANGED <<bags, co>>
      /\ env.keeps => \A s \in Stmts : obj[s].life \in {"none", "gone"}
  BY DEF conn_gc
<1>3. PICK x : x = [obj[Conn] EXCEPT !.closed = TRUE]
  OBVIOUS
<1>4. ASSUME Careful
      PROVE  /\ Kept(obj, bags, co) /\ x \in ObjType /\ x.closed
             /\ \A s \in Stmts : obj[s].life \in {"none", "gone"}
             /\ Counted(x, Cardinality(Waiters(co, Conn)))
  <2>1. Kept(obj, bags, co) /\ obj[Conn] \in ObjType /\ obj[Conn].life # "gone"
    BY <1>1, <1>2, <1>4 DEF MInv, Careful, Kept, MTypeOK, Garbage
  <2>2. x \in ObjType
    BY <1>1, <1>3, <2>1, Zenon DEF ObjType
  <2>3. x.closed = TRUE /\ x.ref = obj[Conn].ref /\ x.count = obj[Conn].count
    BY <1>3, <2>1, Zenon DEF ObjType
  <2>4. Counted(x, Cardinality(Waiters(co, Conn)))
    BY <1>1, <2>1, <2>3 DEF Kept, Counted
  <2>5. QED
    BY <1>2, <1>4, <2>1, <2>2, <2>3, <2>4 DEF Careful
<1>5. CASE Gone(Conn, x) /\ UNCHANGED env
  <2>1. ASSUME Careful PROVE Kept(obj', bags', co')
    BY <1>1, <1>2, <1>4, <1>5, <2>1, GoneKept
  <2>2. QED
    BY <1>5, <2>1, SafeStep
<1>6. CASE Gone(Conn, REF_CO(x, c)) /\ env' = [env EXCEPT !.half = TRUE]
  <2>1. ASSUME Careful PROVE Kept(obj', bags', co')
    <3>1. PICK y : y = REF_CO(x, c)
      OBVIOUS
    <3>2. y \in ObjType /\ y.closed = x.closed
      BY <1>4, <2>1, <3>1, WaitersFinite, RefCo
    <3>3. QED
      BY <1>1, <1>2, <1>4, <1>6, <2>1, <3>1, <3>2, GoneKept
  <2>2. QED
    BY <1>6, <2>1, HalfStep
<1>7. QED
  BY <1>3, <1>5, <1>6 DEF conn_gc

\* A statement is collected.  With the connection there is nothing dangling;
\* if its finaliser has to wait, no more is claimed.
LEMMA StGcInv ==
  ASSUME MInv, ~env.crashed, NEW c \in DbCos, NEW s \in Stmts, st_gc(c, s)
  PROVE  MInv'
<1>1. s \in DbObjects /\ s # Conn /\ TRUE \in BOOLEAN /\ FALSE \in BOOLEAN
  BY MariaAssumption DEF DbObjects
<1>2. Garbage(s) /\ UNCHANGED co
  BY DEF st_gc
<1>3. PICK x : x = [obj[s] EXCEPT !.closed = TRUE]
  OBVIOUS
<1>4. ASSUME Careful
      PROVE  /\ Kept(obj, bags, co) /\ obj[s] \in ObjType /\ x \in ObjType
             /\ obj[Conn].life # "gone"
  <2>1. Kept(obj, bags, co) /\ obj[s] \in ObjType
    BY <1>1, <1>4 DEF MInv, Careful, Kept, MTypeOK
  <2>2. x \in ObjType
    BY <1>1, <1>3, <2>1, Zenon DEF ObjType
  <2>3. obj[Conn].life # "gone"
    BY <1>2, <2>1 DEF Kept, Garbage
  <2>4. QED
    BY <2>1, <2>2, <2>3
<1>5. CASE obj[s].closed /\ Gone(s, x) /\ UNCHANGED <<bags, env>>
  <2>1. ASSUME Careful PROVE Kept(obj', bags', co')
    BY <1>1, <1>2, <1>4, <1>5, <2>1, GoneKept
  <2>2. QED
    BY <1>5, <2>1, SafeStep
<1>6. CASE /\ \E table \in {FALSE, obj[s].table} : Gone(s, [x EXCEPT !.table = table])
           /\ env' = [env EXCEPT !.crashed = @ \/ (obj[Conn].life = "gone" /\ env.half)]
           /\ UNCHANGED bags
  <2>1. PICK table \in {FALSE, obj[s].table} : Gone(s, [x EXCEPT !.table = table])
    BY <1>6
  <2>2. PICK y : y = [x EXCEPT !.table = table]
    OBVIOUS
  <2>3. ASSUME Careful PROVE Kept(obj', bags', co')
    <3>1. table \in BOOLEAN
      BY <1>1, <1>4, <2>3 DEF ObjType
    <3>2. y \in ObjType
      BY <1>4, <2>2, <2>3, <3>1, Zenon DEF ObjType
    <3>3. QED
      BY <1>1, <1>2, <1>4, <1>6, <2>1, <2>2, <2>3, <3>2, GoneKept
  <2>4. PICK d \in BOOLEAN : d = (env.crashed \/ (obj[Conn].life = "gone" /\ env.half))
    OBVIOUS
  <2>5. env' = [env EXCEPT !.crashed = d]
    BY <1>6, <2>4, Zenon
  <2>6. /\ env' \in EnvType /\ env'.crashed = d /\ env'.keeps = env.keeps
        /\ env'.strayed = env.strayed
    BY <2>4, <2>5 DEF MInv, EnvType
  <2>7. Careful => ~d
    BY <1>4, <2>4
  <2>8. QED
    BY <2>3, <2>6, <2>7 DEF MInv, Careful
<1>7. CASE env' = [env EXCEPT !.strayed = TRUE]
  <2>1. /\ env' \in EnvType /\ env'.crashed = env.crashed /\ env'.strayed = TRUE
    BY <1>7 DEF MInv, EnvType
  <2>2. QED
    BY <2>1 DEF MInv
<1>8. QED
  BY <1>3, <1>5, <1>6, <1>7 DEF st_gc

\* A coroutine nobody refers to is collected; it stays counted.
LEMMA CoCollectedInv ==
  ASSUME MInv, ~env.crashed, NEW c \in DbCos, CoCollected(c)
  PROVE  MInv'
<1>1. /\ co[c].st = "wait" /\ \A o \in DbObjects : obj[o].ref # c
      /\ co' = [co EXCEPT ![c].st = "gone"] /\ UNCHANGED <<obj, bags, env>>
  BY DEF CoCollected
<1>2. ASSUME Careful PROVE Kept(obj', bags', co')
  <2>1. Kept(obj, bags, co) /\ co \in [DbCos -> CoType]
    BY <1>2 DEF MInv, Careful, Kept, MTypeOK
  <2>2. /\ co' \in [DbCos -> CoType]
        /\ \A d \in DbCos : d # c => co'[d] = co[d]
        /\ co'[c].st = "gone" /\ co'[c].on = co[c].on
    BY <1>1, <2>1 DEF CoType
  <2>3. \A p \in DbObjects : Waiters(co', p) = Waiters(co, p)
    BY <1>1, <2>2 DEF Waiters
  <2>4. \A b \in bags : Served(b, obj', co')
    <3>1. SUFFICES ASSUME NEW b \in bags PROVE Served(b, obj, co')
      BY <1>1
    <3>2. Served(b, obj, co) /\ b.co \in DbCos /\ b.on \in DbObjects
      BY <2>1 DEF Kept, MTypeOK, BagOK, DbObjects
    <3>3. b.co # c
      BY <1>1, <3>2 DEF Served
    <3>4. QED
      BY <2>2, <3>2, <3>3 DEF Served
  <2>5. MTypeOK(obj', bags', co')
    BY <1>1, <2>1, <2>2 DEF Kept, MTypeOK
  <2>6. \A d \in DbCos : co'[d].st # "run" => co[d].st # "run"
    BY <1>1, <2>2
  <2>7. QED
    BY <1>1, <2>1, <2>3, <2>4, <2>5, <2>6, KeptParts DEF Kept
<1>3. QED
  BY <1>1, <1>2, SafeStep
-----------------------------------------------------------------------------
(* The whole client *)

\* Nothing exists and nobody waits at the start.
LEMMA MariaInitInv == MariaInit => MInv
<1>1. SUFFICES ASSUME MariaInit PROVE MInv
  OBVIOUS
<1>2. env \in EnvType /\ env.crashed = FALSE
  BY <1>1 DEF MariaInit, EnvType
<1>3. PICK x : x = [life |-> "none", closed |-> FALSE, ref |-> NoCo, count |-> 0,
                    self |-> FALSE, table |-> FALSE]
  OBVIOUS
<1>4. obj = [o \in DbObjects |-> x] /\ bags = {}
  BY <1>1, <1>3 DEF MariaInit
<1>5. /\ x \in ObjType /\ x.life = "none" /\ x.closed = FALSE /\ x.self = FALSE
      /\ x.ref = NoCo /\ x.count = 0
  BY <1>3 DEF ObjType, Lives
<1>6. Conn \in DbObjects
  BY DEF DbObjects
<1>7. co \in [DbCos -> CoType] /\ \A c \in DbCos : co[c].st = "run"
  <2>1. [st |-> "run", on |-> Conn] \in CoType
    BY <1>6 DEF CoType
  <2>2. QED
    BY <1>1, <2>1 DEF MariaInit
<1>8. \A o \in DbObjects : Waiters(co, o) = {}
  BY <1>7 DEF Waiters
<1>9. \A o \in DbObjects : Cardinality(Waiters(co, o)) = 0
  BY <1>8, FS_EmptySet
<1>10. MTypeOK(obj, bags, co)
  BY <1>4, <1>5, <1>7 DEF MTypeOK
<1>11. Kept(obj, bags, co)
  BY <1>4, <1>5, <1>6, <1>7, <1>9, <1>10 DEF Kept, Counted
<1>12. QED
  BY <1>2, <1>11 DEF MInv

\* Every operation keeps the invariant.
LEMMA DbOperationInv ==
  ASSUME MInv, ~env.crashed, NEW c \in DbCos, DbOperation(c)
  PROVE  MInv'
<1>1. CASE real_connect(c)
  BY <1>1, ConnectInv
<1>2. CASE conn_ping(c) \/ conn_commit(c) \/ conn_rollback(c) \/ conn_autocommit(c)
           \/ set_character_set(c)
  <2>1. Conn \in {Conn} \cup Stmts
    OBVIOUS
  <2>2. \E op \in {"ping", "commit", "rollback", "autocommit", "setcharset"} :
           Operation(c, Conn, op)
    BY <1>2 DEF conn_ping, conn_commit, conn_rollback, conn_autocommit, set_character_set
  <2>3. QED
    BY <2>1, <2>2, OperationInv
<1>3. CASE real_query(c)
  BY <1>3, QueryInv
<1>4. CASE conn_close(c)
  BY <1>4, CloseInv
<1>5. ASSUME NEW s \in Stmts,
             stmt_execute(c, s) \/ stmt_store_result(c, s) \/ stmt_fetch(c, s)
               \/ stmt_send_long_data(c, s)
      PROVE  MInv'
  <2>1. s \in {Conn} \cup Stmts
    OBVIOUS
  <2>2. \E op \in {"execute", "store_result", "fetch", "send_long_data"} : Operation(c, s, op)
    BY <1>5 DEF stmt_execute, stmt_store_result, stmt_fetch, stmt_send_long_data
  <2>3. QED
    BY <2>1, <2>2, OperationInv
<1>6. ASSUME NEW s \in Stmts, stmt_prepare(c, s) PROVE MInv'
  BY <1>6, PrepareInv
<1>7. ASSUME NEW s \in Stmts, stmt_close(c, s) PROVE MInv'
  BY <1>7, StmtCloseInv
<1>8. QED
  BY <1>1, <1>2, <1>3, <1>4, <1>5, <1>6, <1>7 DEF DbOperation

\* Every step of the client and of the collector does.
LEMMA MariaNextInv == MInv /\ [MariaNext]_mariaVars => MInv'
<1>1. SUFFICES ASSUME MInv, [MariaNext]_mariaVars PROVE MInv'
  OBVIOUS
<1>2. CASE UNCHANGED mariaVars
  BY <1>1, <1>2 DEF mariaVars, MInv, Kept, MTypeOK, Served
<1>3. CASE MariaNext
  <2>1. ~env.crashed
    BY <1>3 DEF MariaNext
  <2>2. ASSUME NEW c \in DbCos, DbOperation(c) PROVE MInv'
    BY <1>1, <2>1, <2>2, DbOperationInv
  <2>3. ASSUME NEW c \in DbCos, conn_gc(c) PROVE MInv'
    BY <1>1, <2>1, <2>3, ConnGcInv
  <2>4. ASSUME NEW c \in DbCos, CoCollected(c) PROVE MInv'
    BY <1>1, <2>1, <2>4, CoCollectedInv
  <2>5. ASSUME NEW c \in DbCos, NEW s \in Stmts, st_gc(c, s) PROVE MInv'
    BY <1>1, <2>1, <2>5, StGcInv
  <2>6. ASSUME NEW k \in Curs, fetch_row(k) PROVE MInv'
    BY <1>1, <2>1, <2>6, FetchInv
  <2>7. ASSUME NEW k \in Curs, cur_close(k) PROVE MInv'
    BY <1>1, <2>1, <2>7, CurCloseInv
  <2>8. ASSUME NEW k \in Curs, cur_gc(k) PROVE MInv'
    BY <1>1, <2>1, <2>8, CurGcInv
  <2>9. QED
    BY <1>3, <2>2, <2>3, <2>4, <2>5, <2>6, <2>7, <2>8 DEF MariaNext
<1>4. QED
  BY <1>1, <1>2, <1>3

\* The invariant gives MariaRefs.
LEMMA MInvRefs == MInv => MariaRefs
<1>1. SUFFICES ASSUME MInv PROVE MariaRefs
  OBVIOUS
<1>2. ASSUME env.keeps, ~env.strayed
      PROVE  /\ \A b \in bags : /\ co[b.co] = [st |-> "wait", on |-> b.on]
                                /\ obj[b.on].ref = b.co /\ obj[b.on].life # "gone"
             /\ \A o \in DbObjects : obj[o].life # "gone" =>
                  /\ obj[o].count = Cardinality({c \in DbCos : co[c].st # "run" /\ co[c].on = o})
                  /\ obj[o].self => obj[Conn].closed \/ \E b \in bags : b.on = o
  <2>1. Kept(obj, bags, co)
    BY <1>1, <1>2 DEF MInv
  <2>2. \A b \in bags : /\ co[b.co] = [st |-> "wait", on |-> b.on]
                        /\ obj[b.on].ref = b.co /\ obj[b.on].life # "gone"
    BY <2>1 DEF Kept, Served
  <2>3. \A o \in DbObjects : obj[o].life # "gone" =>
          /\ obj[o].count = Cardinality({c \in DbCos : co[c].st # "run" /\ co[c].on = o})
          /\ obj[o].self => obj[Conn].closed \/ \E b \in bags : b.on = o
    BY <2>1 DEF Kept, Counted, Waiters
  <2>4. QED
    BY <2>2, <2>3
<1>3. QED
  BY <1>1, <1>2 DEF MInv, MariaRefs

\* What an event needs is there when it fires, coref_count is the number of
\* coroutines that wait, the registry keeps an object only while connect or
\* prepare wait, and freed memory is used only by a program that drops its
\* connection before its statements or whose statement's finaliser had to
\* wait: REF_CO, wait_for_status, the *_cont callbacks and the finalisers
\* keep this for any number of coroutines, statements and cursors.
THEOREM EventsFindTheirObjects == MariaInit /\ [][MariaNext]_mariaVars => []MariaRefs
<1>1. MariaInit => MInv
  BY MariaInitInv
<1>2. MInv /\ [MariaNext]_mariaVars => MInv'
  BY MariaNextInv
<1>3. MInv => MariaRefs
  BY MInvRefs
<1>4. QED
  BY <1>1, <1>2, <1>3, PTL
=============================================================================
