-------------------------- MODULE ByteArrayProofs --------------------------
(***************************************************************************)
(* Proofs about ByteArray, for every size of buffer, digit and word: the   *)
(* offsets stay inside the buffer whatever the order of calls, a caller    *)
(* that respects the modes reads only what was written and finds a queue   *)
(* of bytes, and a U30 number is read back as it was written.              *)
(***************************************************************************)
EXTENDS ByteArray, TLAPS, NaturalsInduction, WellFoundedInduction, SequenceTheorems

Cell == Byte \cup {Junk}

Buffers == UNION {[0..(n - 1) -> Cell] : n \in Nat}

Struct ==
  [buffer : Buffers, buflen : Nat, total : Nat, offset : Nat, mark : Nat,
   reading : BOOLEAN]

\* A struct that is well formed and within bounds.
Sound(b) ==
  /\ b \in Struct
  /\ b.buffer \in [0..(b.buflen - 1) -> Cell]
  /\ b.offset =< b.total /\ b.total =< b.buflen

\* Everything that counts as data has been written.
Limit(b) == IF b.reading THEN b.total ELSE b.offset
Filled(b) == \A i \in 0..(Limit(b) - 1) : b.buffer[i] # Junk

LEMMA IsBuffer ==
  ASSUME NEW n \in Nat, NEW f \in [0..(n - 1) -> Cell]
  PROVE  f \in Buffers
BY DEF Buffers

-----------------------------------------------------------------------------

\* next_power_of_2 returns at least what it is asked for.
LEMMA NextPowerIsEnough ==
  ASSUME NEW n \in Nat, n =< MaxPrealloc
  PROVE  NextPowerOf2(n) \in Nat /\ NextPowerOf2(n) >= n
<1>1. CASE n =< MinCapacity
  BY <1>1, ByteAssumption DEF NextPowerOf2
<1>2. CASE ~(n =< MinCapacity)
  <2> DEFINE T == {p \in Powers : p >= n}
  <2>0. Powers \subseteq Nat
    <3>1. \A i \in 1..MaxPrealloc : i \in Nat
      OBVIOUS
    <3> QED BY Zenon, <3>1 DEF Powers
  <2>1. T \subseteq Nat /\ MaxPrealloc \in T
    BY <2>0, ByteAssumption
  <2>2. PICK p \in T : \A q \in T : ~(<<q, p>> \in OpToRel(<, Nat))
    <3>1. IsWellFoundedOn(OpToRel(<, Nat), Nat)
      BY NatLessThanWellFounded
    <3>2. T # {}
      BY <2>1
    <3> HIDE DEF T
    <3> QED BY <2>1, <3>1, <3>2, WFMin
  <2>3. \A q \in Powers : q >= n => p =< q
    <3> SUFFICES ASSUME NEW q \in Powers, q >= n  PROVE p =< q
      OBVIOUS
    <3>1. q \in T /\ q \in Nat /\ p \in Nat
      BY <2>0
    <3>2. ~(<<q, p>> \in OpToRel(<, Nat))
      BY <2>2, <3>1
    <3>3. ~(q < p)
      BY <3>1, <3>2 DEF OpToRel
    <3> QED BY <3>1, <3>3
  <2>4. \E r \in Powers : r >= n /\ \A q \in Powers : q >= n => r =< q
    BY <2>3
  <2> QED BY <1>2, <2>0, <2>4 DEF NextPowerOf2
<1> QED BY <1>1, <1>2

\* The size ensure_capacity allocates is enough.
LEMMA NewSizeIsEnough ==
  ASSUME NEW n \in Nat
  PROVE  NewSize(n) \in Nat /\ NewSize(n) >= n
<1>1. CASE n =< MaxPrealloc
  BY <1>1, NextPowerIsEnough DEF NewSize
<1>2. CASE ~(n =< MaxPrealloc)
  <2> DEFINE m == n + n \div 4
             q == (m + CacheLine - 1) \div CacheLine
  <2>1. m \in Nat /\ m >= n
    OBVIOUS
  <2> HIDE DEF m
  <2>2. q \in Nat /\ q * CacheLine >= m
    BY <2>1, ByteAssumption
  <2>3. Align(m) = q * CacheLine
    BY DEF Align
  <2>4. q * CacheLine \in Nat
    BY <2>2, ByteAssumption
  <2> QED BY <1>2, <2>1, <2>2, <2>3, <2>4 DEF NewSize, m
<1> QED BY <1>1, <1>2

-----------------------------------------------------------------------------
(* The functions of bytearray.c keep a struct sound. *)

LEMMA SoundAlloc ==
  ASSUME NEW n \in Nat
  PROVE  Sound(Alloc(n)) /\ ~Alloc(n).reading /\ Filled(Alloc(n))
<1> DEFINE k == IF n = 0 THEN MinCapacity ELSE n
           f == [i \in 0..(k - 1) |-> Junk]
<1>1. k \in Nat
  BY ByteAssumption
<1> HIDE DEF k
<1>2. f \in [0..(k - 1) -> Cell]
  BY DEF Cell
<1> HIDE DEF f
<1>3. f \in Buffers
  BY <1>1, <1>2, IsBuffer
<1>4. Alloc(n) = [buffer |-> f, buflen |-> k, total |-> k, offset |-> 0,
                  mark |-> 0, reading |-> FALSE]
  BY DEF Alloc, f, k
<1> QED BY <1>1, <1>2, <1>3, <1>4 DEF Sound, Struct, Filled, Limit

LEMMA SoundGrown ==
  ASSUME NEW b, Sound(b), NEW size \in Nat
  PROVE  /\ Sound(Grown(b, size))
         /\ Grown(b, size).total - Grown(b, size).offset >= size
         /\ Grown(b, size).offset = b.offset /\ Grown(b, size).reading = b.reading
         /\ Filled(b) /\ ~b.reading => Filled(Grown(b, size))
<1> DEFINE n == NewSize(b.offset + size)
           f == [i \in 0..(n - 1) |-> IF i < b.buflen THEN b.buffer[i] ELSE Junk]
<1>1. b.offset \in Nat /\ b.buflen \in Nat /\ b \in Struct
  BY DEF Sound, Struct
<1>2. n \in Nat /\ n >= b.offset + size
  BY <1>1, NewSizeIsEnough
<1> HIDE DEF n
<1>3. f \in [0..(n - 1) -> Cell]
  BY <1>1, <1>2 DEF Sound, Cell
<1> HIDE DEF f
<1>5. f \in Buffers
  BY <1>2, <1>3, IsBuffer
<1>4. Grown(b, size) = [b EXCEPT !.buffer = f, !.buflen = n, !.total = n]
  BY DEF Grown, f, n
<1> DEFINE g == Grown(b, size)
<1>6. g.buffer = f /\ g.buflen = n /\ g.total = n /\ g.offset = b.offset
      /\ g.reading = b.reading
  BY <1>1, <1>4 DEF Struct
<1>7. g \in Struct
  BY <1>1, <1>2, <1>4, <1>5 DEF Struct
<1> HIDE DEF g
<1>8. Sound(g) /\ g.total - g.offset >= size
  BY <1>1, <1>2, <1>3, <1>6, <1>7 DEF Sound
<1>9. ASSUME Filled(b), ~b.reading
      PROVE  Filled(g)
  <2> SUFFICES ASSUME NEW i \in 0..(b.offset - 1)
               PROVE  g.buffer[i] # Junk
    BY <1>6, <1>9 DEF Filled, Limit
  <2>1. b.offset =< b.buflen
    BY DEF Sound, Struct
  <2>2. g.buffer[i] = b.buffer[i]
    BY <1>1, <1>2, <1>6, <2>1 DEF f
  <2> QED BY <1>9, <2>2 DEF Filled, Limit
<1> QED BY <1>6, <1>8, <1>9 DEF g

LEMMA SoundStored ==
  ASSUME NEW b, Sound(b), NEW s \in Seq(Byte), b.total - b.offset >= Len(s)
  PROVE  /\ Sound(Stored(b, s))
         /\ Stored(b, s).offset = b.offset + Len(s)
         /\ Stored(b, s).reading = b.reading
         /\ Filled(b) /\ ~b.reading => Filled(Stored(b, s))
<1> DEFINE f == [i \in DOMAIN b.buffer |->
                   IF i \in b.offset..(b.offset + Len(s) - 1)
                   THEN s[i - b.offset + 1] ELSE b.buffer[i]]
<1>1. b \in Struct /\ b.offset \in Nat /\ b.total \in Nat /\ b.buflen \in Nat
  BY DEF Sound, Struct
<1>2. Len(s) \in Nat
  OBVIOUS
<1>3. f \in [0..(b.buflen - 1) -> Cell]
  BY <1>1, <1>2 DEF Sound, Cell
<1> HIDE DEF f
<1>5. f \in Buffers
  BY <1>1, <1>3, IsBuffer
<1>4. Stored(b, s) = [b EXCEPT !.buffer = f, !.offset = b.offset + Len(s)]
  BY DEF Stored, f
<1> DEFINE g == Stored(b, s)
<1>6. g.buffer = f /\ g.buflen = b.buflen /\ g.total = b.total
      /\ g.offset = b.offset + Len(s) /\ g.reading = b.reading
  BY <1>1, <1>4 DEF Struct
<1>7. g \in Struct
  <2> DEFINE k == b.offset + Len(s)
  <2>1. k \in Nat
    BY <1>1, <1>2
  <2>2. g = [b EXCEPT !.buffer = f, !.offset = k]
    BY <1>4
  <2> HIDE DEF k, g
  <2> QED BY <1>1, <1>5, <2>1, <2>2 DEF Struct
<1> HIDE DEF g
<1>8. Sound(g)
  BY <1>1, <1>2, <1>3, <1>6, <1>7 DEF Sound
<1>9. ASSUME Filled(b), ~b.reading
      PROVE  Filled(g)
  <2> DEFINE m == b.offset + Len(s)
  <2>0. Limit(g) = m
    BY <1>6, <1>9 DEF Limit
  <2> HIDE DEF m
  <2>4. SUFFICES ASSUME NEW i \in 0..(m - 1)
                 PROVE  g.buffer[i] # Junk
    BY <2>0 DEF Filled
  <2>5. i \in 0..(b.offset + Len(s) - 1)
    BY <1>1, <1>2, <2>4 DEF m
  <2>1. i \in DOMAIN b.buffer
    BY <1>1, <1>2, <2>5 DEF Sound
  <2>2. CASE i \in b.offset..(b.offset + Len(s) - 1)
    <3>1. g.buffer[i] = s[i - b.offset + 1] /\ i - b.offset + 1 \in 1..Len(s)
      BY <1>1, <1>2, <1>6, <2>1, <2>2 DEF f
    <3> QED BY <3>1, ByteAssumption
  <2>3. CASE i \notin b.offset..(b.offset + Len(s) - 1)
    <3>1. g.buffer[i] = b.buffer[i] /\ i \in 0..(b.offset - 1)
      BY <1>1, <1>2, <1>6, <2>1, <2>3, <2>5 DEF f
    <3> QED BY <1>9, <3>1 DEF Filled, Limit
  <2> QED BY <2>2, <2>3
<1> QED BY <1>6, <1>8, <1>9 DEF g

\* write_value writes inside the buffer, grown if need be.
LEMMA SoundWrite ==
  ASSUME NEW b, Sound(b), NEW s \in Seq(Byte), NEW mem \in BOOLEAN
  PROVE  /\ Sound(Write(b, s, mem)) /\ Write(b, s, mem).reading = b.reading
         /\ Filled(b) /\ ~b.reading => Filled(Write(b, s, mem))
<1>0. Len(s) \in Nat
  OBVIOUS
<1>1. CASE b.total - b.offset >= Len(s)
  BY <1>1, SoundStored DEF Write
<1>2. CASE ~(b.total - b.offset >= Len(s)) /\ mem
  <2> DEFINE g == Grown(b, Len(s))
  <2>1. /\ Sound(g) /\ g.total - g.offset >= Len(s) /\ g.reading = b.reading
        /\ Filled(b) /\ ~b.reading => Filled(g)
    BY <1>0, SoundGrown
  <2>2. Write(b, s, mem) = Stored(g, s)
    BY <1>2 DEF Write
  <2> HIDE DEF g
  <2> QED BY <2>1, <2>2, SoundStored
<1>3. CASE ~(b.total - b.offset >= Len(s)) /\ ~mem
  BY <1>3 DEF Write
<1> QED BY <1>1, <1>2, <1>3

\* Moving the offset inside the data keeps a struct sound.
LEMMA SoundMove ==
  ASSUME NEW b, Sound(b), NEW k \in Nat, k =< b.total
  PROVE  /\ Sound([b EXCEPT !.offset = k])
         /\ [b EXCEPT !.offset = k].reading = b.reading
         /\ Filled(b) /\ b.reading => Filled([b EXCEPT !.offset = k])
<1> DEFINE g == [b EXCEPT !.offset = k]
<1>1. /\ g.buffer = b.buffer /\ g.buflen = b.buflen /\ g.total = b.total
      /\ g.offset = k /\ g.reading = b.reading /\ g \in Struct
  BY DEF Sound, Struct
<1> HIDE DEF g
<1>2. Sound(g)
  BY <1>1 DEF Sound
<1>3. Filled(b) /\ b.reading => Filled(g)
  BY <1>1 DEF Filled, Limit
<1> QED BY <1>1, <1>2, <1>3 DEF g

LEMMA SoundRead ==
  ASSUME NEW b, Sound(b), NEW n \in Nat
  PROVE  /\ Sound(Read(b, n)) /\ Read(b, n).reading = b.reading
         /\ Filled(b) /\ b.reading => Filled(Read(b, n))
<1> DEFINE k == b.offset + n
<1>1. b \in Struct /\ b.offset \in Nat /\ b.total \in Nat /\ k \in Nat
  BY DEF Sound, Struct
<1>2. CASE b.total - b.offset >= n
  <2>1. Read(b, n) = [b EXCEPT !.offset = k] /\ k =< b.total
    BY <1>1, <1>2 DEF Read
  <2> HIDE DEF k
  <2> QED BY <1>1, <2>1, SoundMove
<1>3. CASE ~(b.total - b.offset >= n)
  BY <1>3 DEF Read
<1> QED BY <1>2, <1>3

LEMMA SoundReady ==
  ASSUME NEW b, Sound(b)
  PROVE  /\ Sound(ReadReady(b)) /\ Sound(WriteReady(b))
         /\ Filled(b) => Filled(ReadReady(b)) /\ Filled(WriteReady(b))
<1>1. b \in Struct /\ b.offset \in Nat /\ b.total \in Nat /\ b.buflen \in Nat
  BY DEF Sound, Struct
<1>2. Sound(ReadReady(b)) /\ (Filled(b) => Filled(ReadReady(b)))
  <2> DEFINE g == ReadReady(b)
  <2>1. CASE b.reading
    BY <2>1 DEF ReadReady
  <2>2. CASE ~b.reading
    <3>1. g = [b EXCEPT !.total = b.offset, !.offset = 0, !.reading = TRUE]
      BY <2>2 DEF ReadReady
    <3> HIDE DEF g
    <3>2. /\ g.buffer = b.buffer /\ g.buflen = b.buflen /\ g.total = b.offset /\ g.offset = 0
          /\ g.reading = TRUE
      BY <1>1, <3>1 DEF Struct
    <3>3. g \in Struct
      BY <1>1, <3>1 DEF Struct
    <3>4. Sound(g)
      BY <1>1, <3>2, <3>3 DEF Sound
    <3>5. Filled(b) => Filled(g)
      BY <2>2, <3>2 DEF Filled, Limit
    <3> QED BY <3>4, <3>5 DEF g
  <2> QED BY <1>1, <2>1, <2>2 DEF Struct
<1>3. CASE ~b.reading
  BY <1>2, <1>3 DEF WriteReady
<1>4. CASE b.reading
  <2> DEFINE left == b.total - b.offset
             f == [i \in DOMAIN b.buffer |->
                     IF i < left THEN b.buffer[i + b.offset] ELSE b.buffer[i]]
  <2>1. left \in Nat /\ left + b.offset =< b.buflen
    BY <1>1 DEF Sound
  <2>2. f \in [0..(b.buflen - 1) -> Cell]
    <3>1. ASSUME NEW i \in 0..(b.buflen - 1), i < left
          PROVE  i + b.offset \in 0..(b.buflen - 1)
      BY <1>1, <2>1, <3>1
    <3> QED BY <1>1, <2>1, <3>1 DEF Sound
  <2> HIDE DEF f
  <2>5. f \in Buffers
    BY <1>1, <2>2, IsBuffer
  <2>3. WriteReady(b) = [buffer |-> f, buflen |-> b.buflen, total |-> b.buflen,
                         offset |-> left, mark |-> 0, reading |-> FALSE]
    BY <1>4 DEF WriteReady, f
  <2>4. Sound(WriteReady(b)) /\ (Filled(b) => Filled(WriteReady(b)))
    <3> DEFINE g == WriteReady(b)
    <3> HIDE DEF left
    <3>1. /\ g.buffer = f /\ g.buflen = b.buflen /\ g.total = b.buflen /\ g.offset = left
          /\ g.reading = FALSE
      BY <1>1, <2>3 DEF Struct
    <3>4. left \in Nat
      BY <2>1
    <3>2. g \in Struct
      BY <1>1, <2>3, <2>5, <3>4 DEF Struct
    <3> HIDE DEF g
    <3>3. Sound(g)
      BY <1>1, <2>1, <2>2, <3>1, <3>2 DEF Sound
    <3>5. ASSUME Filled(b)
          PROVE  Filled(g)
      <4> SUFFICES ASSUME NEW i \in 0..(left - 1)
                   PROVE  g.buffer[i] # Junk
        BY <3>1 DEF Filled, Limit
      <4>1. i \in DOMAIN b.buffer /\ i < left
        BY <1>1, <2>1 DEF Sound
      <4>2. g.buffer[i] = b.buffer[i + b.offset]
        BY <3>1, <4>1 DEF f
      <4>3. i + b.offset \in 0..(b.total - 1)
        BY <1>1, <2>1 DEF left
      <4> QED BY <1>4, <3>5, <4>2, <4>3 DEF Filled, Limit
    <3> QED BY <3>3, <3>5 DEF g
  <2> QED BY <1>2, <2>4
<1> QED BY <1>3, <1>4

-----------------------------------------------------------------------------
(* Variable-length integers are bytes. *)

LEMMA UnitsPositive ==
  /\ Units[1] \in Nat \ {0} /\ Units[2] \in Nat \ {0} /\ Units[3] \in Nat \ {0}
  /\ Units[4] \in Nat \ {0} /\ Units[5] \in Nat \ {0}
  /\ Units[1] = 1 /\ Units[2] = Units[1] * Base /\ Units[3] = Units[2] * Base
  /\ Units[4] = Units[3] * Base /\ Units[5] = Units[4] * Base
<1> DEFINE b2 == Base * Base
           b3 == b2 * Base
           b4 == b3 * Base
<1>1. Base \in Nat \ {0}
  BY ByteAssumption
<1>2. b2 \in Nat \ {0}
  BY <1>1
<1> HIDE DEF b2
<1>3. b3 \in Nat \ {0}
  BY <1>1, <1>2
<1> HIDE DEF b3
<1>4. b4 \in Nat \ {0}
  BY <1>1, <1>3
<1> HIDE DEF b4
<1>5. Units = <<1, Base, b2, b3, b4>>
  BY DEF Units, b2, b3, b4
<1>6. Base = 1 * Base
  BY <1>1
<1>7. b2 = Base * Base /\ b3 = b2 * Base /\ b4 = b3 * Base
  BY DEF b2, b3, b4
<1> QED BY <1>1, <1>2, <1>3, <1>4, <1>5, <1>6, <1>7

LEMMA WidthType ==
  ASSUME NEW u \in 0..(Word - 1)
  PROVE  Width(u) \in 1..5
<1>1. \E n \in 1..5 : u < Units[n] * Base /\ (n > 1 => u >= Units[n])
  <2>1. u \in Nat /\ u < Units[5] * Base
    <3> DEFINE m == Units[5] * Base
    <3>1. m \in Nat
      BY UnitsPositive, ByteAssumption
    <3>2. Word =< m
      BY WordAssumption
    <3> HIDE DEF m
    <3>3. u \in Nat /\ u < m
      BY <3>1, <3>2, ByteAssumption
    <3> QED BY <3>3 DEF m
  <2>2. CASE u < Units[2]
    BY <2>1, <2>2, UnitsPositive
  <2>3. CASE ~(u < Units[2]) /\ u < Units[3]
    BY <2>1, <2>3, UnitsPositive
  <2>4. CASE ~(u < Units[3]) /\ u < Units[4]
    BY <2>1, <2>4, UnitsPositive
  <2>5. CASE ~(u < Units[4]) /\ u < Units[5]
    BY <2>1, <2>5, UnitsPositive
  <2>6. CASE ~(u < Units[5])
    BY <2>1, <2>6, UnitsPositive
  <2> QED BY <2>2, <2>3, <2>4, <2>5, <2>6, UnitsPositive
<1> QED BY <1>1 DEF Width

LEMMA EncodeType ==
  ASSUME NEW u \in 0..(Word - 1)
  PROVE  EncodeU30(u) \in Seq(Byte)
<1>1. Width(u) \in 1..5
  BY WidthType
<1>2. ASSUME NEW k \in 1..5
      PROVE  Digit(u, k) \in 0..(Base - 1)
  <2>1. Units[k] \in Nat \ {0}
    BY UnitsPositive
  <2> DEFINE q == u \div Units[k]
  <2>2. q \in Int
    BY <2>1, ByteAssumption
  <2> HIDE DEF q
  <2>3. q % Base \in 0..(Base - 1)
    BY <2>2, ByteAssumption
  <2> QED BY <2>3 DEF Digit, q
<1>3. ASSUME NEW k \in 1..Width(u)
      PROVE  Digit(u, k) + (IF k < Width(u) THEN Base ELSE 0) \in Byte
  <2>1. Digit(u, k) \in 0..(Base - 1)
    BY <1>1, <1>2
  <2> QED BY <2>1, ByteAssumption DEF Byte
<1> QED BY <1>1, <1>3 DEF EncodeU30

LEMMA SoundAddU30 ==
  ASSUME NEW b, Sound(b), NEW u \in 0..(Word - 1), NEW mem \in [1..6 -> BOOLEAN]
  PROVE  /\ Sound(AddU30(b, u, mem)) /\ AddU30(b, u, mem).reading = b.reading
         /\ Filled(b) /\ ~b.reading => Filled(AddU30(b, u, mem))
<1> DEFINE e == EncodeU30(u)
           w(c, k) == IF k =< Len(e) THEN Write(c, <<e[k]>>, mem[k]) ELSE c
<1>1. e \in Seq(Byte)
  BY EncodeType
<1>2. AddU30(b, u, mem) = w(w(w(w(w(b, 1), 2), 3), 4), 5)
  BY DEF AddU30
<1> HIDE DEF e
<1> DEFINE P(c) == /\ Sound(c) /\ c.reading = b.reading
                   /\ Filled(b) /\ ~b.reading => Filled(c)
<1>3. ASSUME NEW c, P(c), NEW k \in 1..5
      PROVE  P(w(c, k))
  <2>1. CASE k =< Len(e)
    <3>1. e[k] \in Byte
      BY <1>1, <2>1
    <3>2. <<e[k]>> \in Seq(Byte)
      BY <3>1
    <3>3. mem[k] \in BOOLEAN
      OBVIOUS
    <3> QED BY <1>3, <2>1, <3>2, <3>3, SoundWrite
  <2> QED BY <1>3, <2>1
<1>0. P(b)
  OBVIOUS
<1> HIDE DEF w, P
<1>4. P(w(b, 1))
  BY <1>0, <1>3
<1>5. P(w(w(b, 1), 2))
  BY <1>3, <1>4
<1>6. P(w(w(w(b, 1), 2), 3))
  BY <1>3, <1>5
<1>7. P(w(w(w(w(b, 1), 2), 3), 4))
  BY <1>3, <1>6
<1>8. P(w(w(w(w(w(b, 1), 2), 3), 4), 5))
  BY <1>3, <1>7
<1> QED BY <1>2, <1>8 DEF P

LEMMA U30LengthType ==
  ASSUME NEW b, Sound(b)
  PROVE  U30Length(b) \in 0..5 /\ U30Length(b) =< b.total - b.offset
<1> DEFINE stops == {k \in 1..5 : /\ k =< b.total - b.offset
                                  /\ k = 5 \/ b.buffer[b.offset + k - 1] < Base}
<1>0. b.total - b.offset \in Nat
  BY DEF Sound, Struct
<1>1. CASE stops = {}
  BY <1>0, <1>1 DEF U30Length
<1>2. CASE stops # {}
  <2>1. \E k \in stops : \A j \in stops : k =< j
    <3> DEFINE in(k) == k \in stops
    <3>1. \A k \in stops : k \in 1..5
      OBVIOUS
    <3> HIDE DEF stops
    <3>2. CASE 1 \in stops
      BY <3>1, <3>2
    <3>3. CASE 1 \notin stops /\ 2 \in stops
      BY <3>1, <3>3
    <3>4. CASE 1 \notin stops /\ 2 \notin stops /\ 3 \in stops
      BY <3>1, <3>4
    <3>5. CASE 1 \notin stops /\ 2 \notin stops /\ 3 \notin stops /\ 4 \in stops
      BY <3>1, <3>5
    <3>6. CASE 1 \notin stops /\ 2 \notin stops /\ 3 \notin stops /\ 4 \notin stops
      BY <1>2, <3>1, <3>6
    <3> QED BY <3>2, <3>3, <3>4, <3>5, <3>6
  <2>2. U30Length(b) = CHOOSE k \in stops : \A j \in stops : k =< j
    BY <1>2 DEF U30Length
  <2>3. U30Length(b) \in stops
    <3> HIDE DEF stops
    <3> QED BY <2>1, <2>2
  <2> QED BY <2>3
<1> QED BY <1>1, <1>2

LEMMA SoundGetU30 ==
  ASSUME NEW b, Sound(b)
  PROVE  /\ Sound(GetU30(b)) /\ GetU30(b).reading = b.reading
         /\ Filled(b) /\ b.reading => Filled(GetU30(b))
<1> DEFINE k == IF U30Length(b) = 0 THEN b.total ELSE b.offset + U30Length(b)
<1>1. b.total \in Nat /\ b.offset \in Nat /\ b.offset =< b.total
  BY DEF Sound, Struct
<1>2. k \in Nat /\ k =< b.total
  BY <1>1, U30LengthType
<1>3. GetU30(b) = [b EXCEPT !.offset = k]
  BY DEF GetU30
<1> HIDE DEF k
<1> QED BY <1>2, <1>3, SoundMove

LEMMA U30ValueType ==
  ASSUME NEW b, Sound(b), Written(b)
  PROVE  U30Value(b) \in Nat
<1> DEFINE term(k) == IF k =< U30Length(b)
                      THEN (b.buffer[b.offset + k - 1] % Base) * Units[k] ELSE 0
<1>0. b.total \in Nat /\ b.offset \in Nat /\ b.buflen \in Nat /\ b.total =< b.buflen
  BY DEF Sound, Struct
<1>1. ASSUME NEW k \in 1..5
      PROVE  term(k) \in Nat
  <2>1. CASE k =< U30Length(b)
    <3> DEFINE i == b.offset + k - 1
               d == b.buffer[i] % Base
    <3>1. i \in b.offset..(b.offset + 4) /\ i < b.total /\ i \in 0..(b.buflen - 1)
      BY <1>0, <2>1, U30LengthType
    <3>2. b.buffer[i] \in Byte
      BY <3>1 DEF Written, Sound, Cell
    <3>3. d \in Nat
      BY <3>2, ByteAssumption DEF Byte
    <3>4. Units[k] \in Nat
      BY UnitsPositive
    <3> HIDE DEF d
    <3>5. d * Units[k] \in Nat
      BY <3>3, <3>4
    <3> QED BY <2>1, <3>5 DEF d
  <2> QED BY <2>1
<1>2. U30Value(b) = (term(1) + term(2) + term(3) + term(4) + term(5)) % Word
  BY DEF U30Value
<1> HIDE DEF term
<1>3. term(1) \in Nat /\ term(2) \in Nat /\ term(3) \in Nat /\ term(4) \in Nat /\ term(5) \in Nat
  BY <1>1
<1>4. PICK n \in Nat : n = term(1) + term(2) + term(3) + term(4) + term(5)
  BY <1>3
<1>5. n % Word \in Nat
  BY <1>4, ByteAssumption
<1> QED BY <1>2, <1>4, <1>5

LEMMA SoundGetString ==
  ASSUME NEW b, Sound(b), Written(b)
  PROVE  /\ Sound(GetString(b))
         /\ Filled(b) /\ b.reading => Filled(GetString(b))
<1>1. CASE StringFits(b)
  <2> DEFINE n == U30Value(b)
             g == GetU30(b)
  <2>1. /\ Sound(g) /\ g.reading = b.reading
        /\ Filled(b) /\ b.reading => Filled(g)
    BY SoundGetU30
  <2>2. GetString(b) = IF g.total - g.offset >= n THEN [g EXCEPT !.offset = g.offset + n] ELSE g
    BY <1>1 DEF GetString, Read
  <2>3. n \in Nat
    BY U30ValueType
  <2> HIDE DEF n, g
  <2>4. GetString(b) = Read(g, n)
    BY <2>2 DEF Read
  <2> QED BY <2>1, <2>3, <2>4, SoundRead
<1> QED BY <1>1 DEF GetString

LEMMA SoundNew ==
  ASSUME NEW s \in Seq(Byte)
  PROVE  Sound(New(s)) /\ Filled(New(s))
<1>1. CASE s = <<>>
  BY <1>1, SoundAlloc DEF New
<1>2. CASE s # <<>>
  <2> DEFINE a == Alloc(Len(s))
             w == Write(a, s, TRUE)
  <2>1. Sound(a) /\ ~a.reading /\ Filled(a)
    BY SoundAlloc
  <2> HIDE DEF a
  <2>2. Sound(w) /\ Filled(w)
    BY <2>1, SoundWrite
  <2>3. New(s) = ReadReady(w)
    BY <1>2 DEF New, a
  <2> HIDE DEF w
  <2> QED BY <2>2, <2>3, SoundReady
<1> QED BY <1>1, <1>2

-----------------------------------------------------------------------------
(* The invariant *)

Inv ==
  /\ Sound(ba) /\ use \in Uses /\ fed \in Nat
  /\ use # "any" => Filled(ba)

LEMMA InitInv == Init => Inv
<1> SUFFICES ASSUME Init PROVE Inv
  OBVIOUS
<1>1. Sound(New(<<>>)) /\ Filled(New(<<>>))
  <2>1. <<>> \in Seq(Byte)
    OBVIOUS
  <2> QED BY <2>1, SoundNew
<1>2. ASSUME NEW s \in Chunks
      PROVE  Sound(New(s)) /\ Filled(New(s))
  <2>1. s \in Seq(Byte)
    BY ByteAssumption
  <2> QED BY <2>1, SoundNew
<1> QED BY <1>1, <1>2 DEF Init, Inv

\* Every call keeps the offsets inside the buffer.
LEMMA NextInv ==
  ASSUME ~ResetAfterEmpty
  PROVE  Inv /\ [Next]_vars => Inv'
<1> SUFFICES ASSUME Inv, [Next]_vars PROVE Inv'
  OBVIOUS
<1> USE DEF Inv
<1>0. ASSUME NEW b, Sound(b), use # "any" => Filled(b), Step(b)
      PROVE  Inv'
  BY <1>0 DEF Step
<1>s. \A s \in Chunks : s \in Seq(Byte)
  BY ByteAssumption
<1>m. \A mem \in Memory : mem \in [1..6 -> BOOLEAN] /\ mem[1] \in BOOLEAN /\ mem[6] \in BOOLEAN
  BY ByteAssumption
<1>1. ASSUME NEW mem \in Memory, NEW s \in Chunks, CallAdd(s, mem)
      PROVE  Inv'
  <2>1. /\ Sound(Write(ba, s, mem[1]))
        /\ use # "any" => Filled(Write(ba, s, mem[1]))
    BY <1>s, <1>m, <1>1, SoundWrite DEF CallAdd, MayAdd
  <2> QED BY <1>0, <1>1, <2>1 DEF CallAdd
<1>2. ASSUME NEW mem \in Memory, NEW s \in Chunks, CallAddString(s, mem)
      PROVE  Inv'
  <2>1. Len(s) % Word \in 0..(Word - 1)
    <3>1. Len(s) \in Nat
      BY <1>s
    <3> QED BY <3>1, ByteAssumption
  <2> DEFINE a == AddU30(ba, Len(s) % Word, mem)
  <2>2. /\ Sound(a) /\ a.reading = ba.reading
        /\ use # "any" => Filled(a) /\ ~a.reading
    BY <1>m, <1>2, <2>1, SoundAddU30 DEF CallAddString, MayAdd
  <2>4. AddString(ba, s, mem) = Write(a, s, mem[6])
    BY DEF AddString
  <2> HIDE DEF a
  <2>3. /\ Sound(AddString(ba, s, mem))
        /\ use # "any" => Filled(AddString(ba, s, mem))
    BY <1>s, <1>m, <2>2, <2>4, SoundWrite
  <2> QED BY <1>0, <1>2, <2>3 DEF CallAddString
<1>3. ASSUME NEW mem \in Memory, NEW u \in Numbers, CallAddU30(u, mem)
      PROVE  Inv'
  <2>1. u \in 0..(Word - 1)
    BY ByteAssumption
  <2>2. /\ Sound(AddU30(ba, u, mem))
        /\ use # "any" => Filled(AddU30(ba, u, mem))
    BY <1>m, <1>3, <2>1, SoundAddU30 DEF CallAddU30, MayAdd
  <2> QED BY <1>0, <1>3, <2>2 DEF CallAddU30
<1>4. ASSUME NEW n \in {1, 2, 3, 4, 8}, CallGet(n)
      PROVE  Inv'
  <2>1. Sound(Read(ba, n)) /\ (use # "any" => Filled(Read(ba, n)))
    BY <1>4, SoundRead DEF CallGet, MayGet
  <2> QED BY <1>0, <1>4, <2>1 DEF CallGet
<1>5. ASSUME NEW n \in 1..3, CallGetBytes(n)
      PROVE  Inv'
  <2> DEFINE k == IF n > Available(ba) THEN Available(ba) ELSE n
  <2>1. Available(ba) \in Nat
    BY DEF Available, Sound, Struct
  <2>2. k \in Nat
    BY <2>1
  <2>3. Step(Read(ba, k)) /\ (use # "any" => ba.reading)
    BY <1>5 DEF CallGetBytes, MayGet
  <2> HIDE DEF k
  <2>4. Sound(Read(ba, k)) /\ (use # "any" => Filled(Read(ba, k)))
    BY <2>2, <2>3, SoundRead
  <2> QED BY <1>0, <2>3, <2>4
<1>6. ASSUME NEW n \in 1..3, CallFeed(n)
      PROVE  Inv'
  <2> DEFINE s == SubSeq(FeedBytes, fed + 1, fed + n)
  <2>1. fed + n \in Nat /\ fed + n =< Len(FeedBytes) /\ fed + 1 \in Nat
    BY <1>6 DEF CallFeed
  <2>2. s \in Seq(Byte)
    BY <2>1, FeedAssumption
  <2>3. ba' = Write(ba, s, TRUE) /\ fed' = fed + n /\ use' = use /\ ~ba.reading
    BY <1>6 DEF CallFeed
  <2> HIDE DEF s
  <2>4. Sound(Write(ba, s, TRUE)) /\ (use # "any" => Filled(Write(ba, s, TRUE)))
    BY <2>2, <2>3, SoundWrite
  <2> QED BY <2>1, <2>3, <2>4
<1>7. ASSUME CallGetU30
      PROVE  Inv'
  BY <1>0, <1>7, SoundGetU30 DEF CallGetU30, MayGet
<1>8. ASSUME CallGetString
      PROVE  Inv'
  <2>1. Sound(GetString(ba)) /\ (use # "any" => Filled(GetString(ba)))
    BY <1>8, SoundGetString DEF CallGetString, MayGet
  <2> QED BY <1>8, <2>1 DEF CallGetString
<1>9. ASSUME CallPrepareGet \/ CallPrepareAdd
      PROVE  Inv'
  BY <1>0, <1>9, SoundReady DEF CallPrepareGet, CallPrepareAdd
<1>10. ASSUME CallMark
       PROVE  Inv'
  <2> DEFINE g == [ba EXCEPT !.mark = ba.offset]
  <2>1. /\ g \in Struct /\ g.buffer = ba.buffer /\ g.buflen = ba.buflen
        /\ g.total = ba.total /\ g.offset = ba.offset /\ g.reading = ba.reading
    BY DEF Sound, Struct
  <2>2. Step(g)
    BY <1>10 DEF CallMark
  <2> HIDE DEF g
  <2>3. Sound(g) /\ (use # "any" => Filled(g))
    BY <2>1 DEF Sound, Filled, Limit
  <2> QED BY <1>0, <2>2, <2>3
<1>11. ASSUME CallReset
       PROVE  Inv'
  <2>1. ba.mark \in Nat /\ ba.mark =< ba.total
    BY <1>11 DEF CallReset, Sound, Struct
  <2>2. /\ Sound([ba EXCEPT !.offset = ba.mark])
        /\ use # "any" => Filled([ba EXCEPT !.offset = ba.mark])
    BY <1>11, <2>1, SoundMove DEF CallReset
  <2> QED BY <1>0, <1>11, <2>2 DEF CallReset
<1>12. ASSUME CallEmpty
       PROVE  Inv'
  <2> DEFINE g == [ba EXCEPT !.offset = 0, !.total = 0]
  <2>1. /\ g \in Struct /\ g.buffer = ba.buffer /\ g.buflen = ba.buflen
        /\ g.total = 0 /\ g.offset = 0
    BY DEF Sound, Struct
  <2>2. Step(g) /\ ba.buflen \in Nat
    BY <1>12 DEF CallEmpty, Sound, Struct
  <2> HIDE DEF g
  <2>3. Sound(g) /\ Filled(g)
    BY <2>1, <2>2 DEF Sound, Filled, Limit
  <2> QED BY <1>0, <2>2, <2>3
<1>13. CASE UNCHANGED vars
  BY <1>13 DEF vars
<1> QED
  BY <1>1, <1>2, <1>3, <1>4, <1>5, <1>6, <1>7, <1>8, <1>9, <1>10, <1>11, <1>12, <1>13 DEF Next

LEMMA Invariant ==
  ASSUME ~ResetAfterEmpty
  PROVE  Spec => []Inv
<1>1. Inv /\ [Next]_vars => Inv'
  BY NextInv
<1> QED BY <1>1, InitInv, PTL DEF Spec

\* Whatever the order of calls, and whether or not memory runs out, no read or
\* write of bytearray.c leaves the buffer, as long as nobody resets to a mark
\* set before empty.
THEOREM BoundsCorrect ==
  ASSUME ~ResetAfterEmpty
  PROVE  Spec => []Bounds
<1>1. Inv => Bounds
  BY DEF Inv, Sound, Bounds
<1> QED BY <1>1, Invariant, PTL

\* A caller that calls prepare_get before reading and prepare_add before
\* writing is never given bytes of the buffer nobody wrote.
THEOREM WrittenBeforeReadCorrect ==
  ASSUME ~ResetAfterEmpty
  PROVE  Spec => []WrittenBeforeRead
<1>1. Inv => WrittenBeforeRead
  BY DEF Inv, Filled, Limit, WrittenBeforeRead
<1> QED BY <1>1, Invariant, PTL

-----------------------------------------------------------------------------
(* The stream as a queue *)

\* The bytes a caller may read or has written.
Data(b) == [i \in 1..Limit(b) |-> b.buffer[i - 1]]

\* Data is a sequence of cells, as long as Limit.
LEMMA DataIs ==
  ASSUME NEW b, Sound(b)
  PROVE  /\ Limit(b) \in Nat /\ Limit(b) =< b.buflen
         /\ Data(b) \in Seq(Cell) /\ Len(Data(b)) = Limit(b)
         /\ \A i \in 1..Limit(b) : Data(b)[i] = b.buffer[i - 1]
<1>1. Limit(b) \in Nat /\ Limit(b) =< b.buflen /\ b.buflen \in Nat
  BY DEF Limit, Sound, Struct
<1>2. ASSUME NEW i \in 1..Limit(b)
      PROVE  b.buffer[i - 1] \in Cell
  <2>1. i - 1 \in 0..(b.buflen - 1)
    BY <1>1
  <2>2. QED
    BY <2>1 DEF Sound
<1>3. Data(b) \in Seq(Cell) /\ Len(Data(b)) = Limit(b)
  BY <1>1, <1>2 DEF Data
<1>4. \A i \in 1..Limit(b) : Data(b)[i] = b.buffer[i - 1]
  BY DEF Data
<1>5. QED
  BY <1>1, <1>3, <1>4

\* A sequence that another one starts with.
LEMMA PrefixIs ==
  ASSUME NEW s \in Seq(Cell), NEW t \in Seq(Cell), Len(s) =< Len(t),
         \A i \in 1..Len(s) : s[i] = t[i]
  PROVE  s = SubSeq(t, 1, Len(s))
<1>1. Len(s) \in Nat /\ Len(t) \in Nat
  OBVIOUS
<1>2. \A i \in 1..Len(s) : t[i] \in Cell
  BY <1>1
<1>3. /\ SubSeq(t, 1, Len(s)) \in Seq(Cell) /\ Len(SubSeq(t, 1, Len(s))) = Len(s)
      /\ \A i \in 1..Len(s) : SubSeq(t, 1, Len(s))[i] = t[i]
  BY <1>1, <1>2, SubSeqProperties
<1>4. QED
  BY <1>3, SeqEqual

\* The same for the end of a sequence.
LEMMA SuffixIs ==
  ASSUME NEW s \in Seq(Cell), NEW t \in Seq(Cell), NEW k \in Nat, k =< Len(t),
         Len(s) = Len(t) - k, \A i \in 1..Len(s) : s[i] = t[i + k]
  PROVE  s = SubSeq(t, k + 1, Len(t))
<1>1. Len(s) \in Nat /\ Len(t) \in Nat
  OBVIOUS
<1>2. \A i \in (k + 1)..Len(t) : t[i] \in Cell
  BY <1>1
<1> DEFINE r == SubSeq(t, k + 1, Len(t))
<1>3. /\ r \in Seq(Cell) /\ Len(r) = Len(s)
      /\ \A i \in 1..(Len(t) - (k + 1) + 1) : r[i] = t[(k + 1) + i - 1]
  BY <1>1, <1>2, SubSeqProperties
<1> HIDE DEF r
<1>5. ASSUME NEW i \in 1..Len(s)
      PROVE  s[i] = r[i]
  <2>1. i \in 1..(Len(t) - (k + 1) + 1) /\ (k + 1) + i - 1 = i + k
    BY <1>1
  <2>2. QED
    BY <1>3, <2>1
<1>6. s = r
  BY <1>3, <1>5, SeqEqual
<1>7. QED
  BY <1>6 DEF r

-----------------------------------------------------------------------------
(* Adding *)

\* c holds what b holds, and perhaps more behind it.
Behind(b, c) ==
  /\ b.offset =< c.offset /\ c.mark = b.mark /\ c.reading = b.reading
  /\ \A i \in 0..(b.offset - 1) : c.buffer[i] = b.buffer[i]

\* A larger buffer holds the bytes of the old one.
LEMMA GrownBehind ==
  ASSUME NEW b, Sound(b), NEW size \in Nat
  PROVE  Behind(b, Grown(b, size))
<1> DEFINE n == NewSize(b.offset + size)
           f == [i \in 0..(n - 1) |-> IF i < b.buflen THEN b.buffer[i] ELSE Junk]
<1>1. b.offset \in Nat /\ b.buflen \in Nat /\ b \in Struct /\ b.offset =< b.buflen
  BY DEF Sound, Struct
<1>2. n \in Nat /\ n >= b.offset + size
  BY <1>1, NewSizeIsEnough
<1> HIDE DEF n
<1>3. \A i \in 0..(b.offset - 1) : f[i] = b.buffer[i]
  BY <1>1, <1>2
<1> HIDE DEF f
<1>4. Grown(b, size) = [b EXCEPT !.buffer = f, !.buflen = n, !.total = n]
  BY DEF Grown, f, n
<1> DEFINE g == Grown(b, size)
<1>5. g.buffer = f /\ g.offset = b.offset /\ g.reading = b.reading /\ g.mark = b.mark
  BY <1>1, <1>4 DEF Struct
<1> HIDE DEF g
<1>6. Behind(b, g)
  BY <1>1, <1>3, <1>5 DEF Behind
<1>7. QED
  BY <1>6 DEF g

\* Bytes stored at the offset stand behind those before it.
LEMMA StoredBehind ==
  ASSUME NEW b, Sound(b), NEW s \in Seq(Byte), b.total - b.offset >= Len(s)
  PROVE  Behind(b, Stored(b, s))
<1> DEFINE f == [i \in DOMAIN b.buffer |->
                   IF i \in b.offset..(b.offset + Len(s) - 1)
                   THEN s[i - b.offset + 1] ELSE b.buffer[i]]
<1>1. /\ b \in Struct /\ b.offset \in Nat /\ b.buflen \in Nat /\ b.offset =< b.buflen
      /\ DOMAIN b.buffer = 0..(b.buflen - 1)
  BY DEF Sound, Struct
<1>2. Len(s) \in Nat
  OBVIOUS
<1>3. ASSUME NEW i \in 0..(b.offset - 1)
      PROVE  f[i] = b.buffer[i]
  <2>1. i \in DOMAIN b.buffer /\ i \notin b.offset..(b.offset + Len(s) - 1)
    BY <1>1, <1>2
  <2>2. QED
    BY <2>1
<1> HIDE DEF f
<1>4. Stored(b, s) = [b EXCEPT !.buffer = f, !.offset = b.offset + Len(s)]
  BY DEF Stored, f
<1> DEFINE g == Stored(b, s)
<1>5. /\ g.buffer = f /\ g.offset = b.offset + Len(s) /\ g.reading = b.reading
      /\ g.mark = b.mark
  BY <1>1, <1>4 DEF Struct
<1> HIDE DEF g
<1>6. Behind(b, g)
  BY <1>1, <1>2, <1>3, <1>5 DEF Behind
<1>7. QED
  BY <1>6 DEF g

\* Behind is transitive.
LEMMA BehindTwice ==
  ASSUME NEW a, NEW b, NEW c, Sound(a), Sound(b), Sound(c), Behind(a, b), Behind(b, c)
  PROVE  Behind(a, c)
<1>1. a.offset \in Nat /\ b.offset \in Nat /\ c.offset \in Nat
  BY DEF Sound, Struct
<1>2. ASSUME NEW i \in 0..(a.offset - 1)
      PROVE  c.buffer[i] = a.buffer[i]
  <2>1. i \in 0..(b.offset - 1)
    BY <1>1 DEF Behind
  <2>2. QED
    BY <2>1 DEF Behind
<1>3. QED
  BY <1>1, <1>2 DEF Behind

\* Behind is reflexive.
LEMMA BehindSame ==
  ASSUME NEW b, Sound(b) PROVE Behind(b, b)
BY DEF Behind, Sound, Struct

\* write_value adds behind what is there, also when the buffer grows.
LEMMA WriteBehind ==
  ASSUME NEW b, Sound(b), NEW s \in Seq(Byte), NEW mem \in BOOLEAN
  PROVE  Behind(b, Write(b, s, mem))
<1>0. Len(s) \in Nat
  OBVIOUS
<1>1. CASE b.total - b.offset >= Len(s)
  BY <1>1, StoredBehind DEF Write
<1>2. CASE ~(b.total - b.offset >= Len(s)) /\ mem
  <2> DEFINE g == Grown(b, Len(s))
  <2>1. Sound(g) /\ g.total - g.offset >= Len(s) /\ Behind(b, g)
    BY <1>0, SoundGrown, GrownBehind
  <2>2. Write(b, s, mem) = Stored(g, s)
    BY <1>2 DEF Write
  <2> HIDE DEF g
  <2>3. Sound(Stored(g, s)) /\ Behind(g, Stored(g, s))
    BY <2>1, SoundStored, StoredBehind
  <2>4. QED
    BY <2>1, <2>2, <2>3, BehindTwice
<1>3. CASE ~(b.total - b.offset >= Len(s)) /\ ~mem
  BY <1>3, BehindSame DEF Write
<1>4. QED
  BY <1>1, <1>2, <1>3

\* ffi_stream_add_u30 adds behind what is there, wherever memory runs out.
LEMMA AddU30Behind ==
  ASSUME NEW b, Sound(b), NEW u \in 0..(Word - 1), NEW mem \in [1..6 -> BOOLEAN]
  PROVE  Sound(AddU30(b, u, mem)) /\ Behind(b, AddU30(b, u, mem))
<1> DEFINE e == EncodeU30(u)
           w(c, k) == IF k =< Len(e) THEN Write(c, <<e[k]>>, mem[k]) ELSE c
<1>1. e \in Seq(Byte)
  BY EncodeType
<1>2. AddU30(b, u, mem) = w(w(w(w(w(b, 1), 2), 3), 4), 5)
  BY DEF AddU30
<1> HIDE DEF e
<1> DEFINE P(c) == Sound(c) /\ Behind(b, c)
<1>3. ASSUME NEW c, P(c), NEW k \in 1..5
      PROVE  P(w(c, k))
  <2>1. CASE k =< Len(e)
    <3>1. e[k] \in Byte
      BY <1>1, <2>1
    <3>2. <<e[k]>> \in Seq(Byte)
      BY <3>1
    <3>3. mem[k] \in BOOLEAN
      OBVIOUS
    <3>4. Sound(Write(c, <<e[k]>>, mem[k])) /\ Behind(c, Write(c, <<e[k]>>, mem[k]))
      BY <1>3, <3>2, <3>3, SoundWrite, WriteBehind
    <3>5. P(Write(c, <<e[k]>>, mem[k]))
      BY <1>3, <3>4, BehindTwice
    <3>6. QED
      BY <2>1, <3>5
  <2>2. QED
    BY <1>3, <2>1
<1>0. P(b)
  BY BehindSame
<1> HIDE DEF w, P
<1>4. P(w(b, 1))
  BY <1>0, <1>3
<1>5. P(w(w(b, 1), 2))
  BY <1>3, <1>4
<1>6. P(w(w(w(b, 1), 2), 3))
  BY <1>3, <1>5
<1>7. P(w(w(w(w(b, 1), 2), 3), 4))
  BY <1>3, <1>6
<1>8. P(w(w(w(w(w(b, 1), 2), 3), 4), 5))
  BY <1>3, <1>7
<1>9. QED
  BY <1>2, <1>8 DEF P

-----------------------------------------------------------------------------
(* The steps of the queue *)

\* A call that adds behind is an Add of the queue.
LEMMA QueueAdd ==
  ASSUME Sound(ba), Sound(ba'), ~ba.reading, Behind(ba, ba')
  PROVE  QueueOf!Add
<1>1. /\ Limit(ba) = ba.offset /\ Limit(ba') = ba'.offset /\ ~ba'.reading
      /\ ba'.mark = ba.mark /\ ba.offset =< ba'.offset /\ ba.offset \in Nat
      /\ ba'.offset \in Nat
  BY DEF Limit, Behind, Sound, Struct
<1>2. /\ Data(ba) \in Seq(Cell) /\ Len(Data(ba)) = ba.offset
      /\ Data(ba') \in Seq(Cell) /\ Len(Data(ba')) = ba'.offset
      /\ \A i \in 1..ba.offset : Data(ba)[i] = ba.buffer[i - 1]
      /\ \A i \in 1..ba'.offset : Data(ba')[i] = ba'.buffer[i - 1]
  BY <1>1, DataIs
<1>3. ASSUME NEW i \in 1..ba.offset
      PROVE  Data(ba)[i] = Data(ba')[i]
  <2>1. i \in 1..ba'.offset /\ i - 1 \in 0..(ba.offset - 1)
    BY <1>1
  <2>2. QED
    BY <1>2, <2>1 DEF Behind
<1>4. Data(ba) = SubSeq(Data(ba'), 1, Len(Data(ba)))
  BY <1>1, <1>2, <1>3, PrefixIs
<1>5. Len(Data(ba')) >= Len(Data(ba))
  BY <1>1, <1>2
<1>6. /\ (IF ba'.reading THEN ba'.offset ELSE 0) = (IF ba.reading THEN ba.offset ELSE 0)
      /\ ba'.reading = ba.reading
  BY <1>1 DEF Behind
<1>7. QED
  BY <1>1, <1>4, <1>5, <1>6, Zenon DEF QueueOf!Add, Data, Limit

\* Only the offset moves, in reading.
Moves(b, c) ==
  /\ b.reading /\ c.reading /\ c.buffer = b.buffer /\ c.total = b.total /\ c.mark = b.mark

\* Moving the offset changes no byte.
LEMMA MovesData ==
  ASSUME NEW b, NEW c, Moves(b, c) PROVE Data(c) = Data(b)
BY DEF Moves, Data, Limit

\* A call that moves the offset forward is a Take of the queue.
LEMMA QueueTake ==
  ASSUME Sound(ba), Sound(ba'), Moves(ba, ba'), ba.offset =< ba'.offset
  PROVE  QueueOf!Take
<1>1. Data(ba') = Data(ba) /\ Len(Data(ba)) = ba.total /\ ba.reading /\ ba'.reading
  BY MovesData, DataIs DEF Moves, Limit
<1>2. ba'.offset \in ba.offset..Len(Data(ba))
  BY <1>1 DEF Moves, Sound, Struct
<1>3. QED
  BY <1>1, <1>2, Zenon DEF QueueOf!Take, Data, Limit, Moves

\* What the calls that read do, for a caller that reads in reading.
LEMMA ReadMoves ==
  ASSUME NEW b, Sound(b), b.reading, NEW k \in Nat, b.offset =< k, k =< b.total
  PROVE  LET c == [b EXCEPT !.offset = k] IN
         Sound(c) /\ Moves(b, c) /\ b.offset =< c.offset /\ c.total = b.total /\ c.offset = k
<1> DEFINE c == [b EXCEPT !.offset = k]
<1>1. Sound(c) /\ c.reading = b.reading
  BY SoundMove
<1>2. c.buffer = b.buffer /\ c.total = b.total /\ c.mark = b.mark /\ c.offset = k
  BY DEF Sound, Struct
<1>3. QED
  BY <1>1, <1>2 DEF Moves

\* c is b after some of its bytes were taken.
Taken(b, c) == Sound(c) /\ Moves(b, c) /\ b.offset =< c.offset

\* bytearray_readbuffer takes bytes or nothing.
LEMMA ReadTakes ==
  ASSUME NEW b, Sound(b), b.reading, NEW n \in Nat
  PROVE  Taken(b, Read(b, n))
<1> DEFINE k == b.offset + n
<1>1. b.offset \in Nat /\ b.total \in Nat /\ k \in Nat /\ b.offset =< k
  BY DEF Sound, Struct
<1>2. CASE b.total - b.offset >= n
  <2>1. Read(b, n) = [b EXCEPT !.offset = k] /\ k =< b.total
    BY <1>1, <1>2 DEF Read
  <2> HIDE DEF k
  <2>2. QED
    BY <1>1, <2>1, ReadMoves DEF Taken
<1>3. CASE ~(b.total - b.offset >= n)
  <2>1. Read(b, n) = b
    BY <1>3 DEF Read
  <2>2. QED
    BY <1>1, <2>1 DEF Taken, Moves
<1>4. QED
  BY <1>2, <1>3

\* ffi_stream_get_u30 takes bytes or nothing.
LEMMA GetU30Takes ==
  ASSUME NEW b, Sound(b), b.reading
  PROVE  Taken(b, GetU30(b))
<1> DEFINE k == IF U30Length(b) = 0 THEN b.total ELSE b.offset + U30Length(b)
<1>1. b.total \in Nat /\ b.offset \in Nat /\ b.offset =< b.total
  BY DEF Sound, Struct
<1>2. k \in Nat /\ k =< b.total /\ b.offset =< k
  BY <1>1, U30LengthType
<1>3. GetU30(b) = [b EXCEPT !.offset = k]
  BY DEF GetU30
<1> HIDE DEF k
<1>4. QED
  BY <1>2, <1>3, ReadMoves DEF Taken

\* The string reader takes bytes or nothing.
LEMMA GetStringTakes ==
  ASSUME NEW b, Sound(b), b.reading, Written(b)
  PROVE  Taken(b, GetString(b))
<1>1. CASE StringFits(b)
  <2> DEFINE n == U30Value(b)
             g == GetU30(b)
  <2>1. Taken(b, g)
    BY GetU30Takes
  <2>2. GetString(b) = Read(g, n)
    BY <1>1 DEF GetString
  <2>3. n \in Nat
    BY U30ValueType
  <2> HIDE DEF n, g
  <2>4. Taken(g, Read(g, n))
    BY <2>1, <2>3, ReadTakes DEF Taken, Moves
  <2> DEFINE c == Read(g, n)
  <2>5. Sound(c) /\ Moves(g, c) /\ g.offset =< c.offset
    BY <2>4 DEF Taken
  <2> HIDE DEF c
  <2>6. b.offset \in Nat /\ g.offset \in Nat /\ c.offset \in Nat
    BY <2>1, <2>5 DEF Taken, Sound, Struct
  <2>7. Taken(b, c)
    BY <2>1, <2>5, <2>6 DEF Taken, Moves
  <2>8. QED
    BY <2>2, <2>7 DEF c
<1>2. CASE ~StringFits(b)
  <2>1. GetString(b) = b /\ b.offset \in Nat
    BY <1>2 DEF GetString, Sound, Struct
  <2>2. QED
    BY <2>1 DEF Taken, Moves
<1>3. QED
  BY <1>1, <1>2

\* bytearray_read_ready starts reading what was added.
LEMMA QueuePrepareGet ==
  ASSUME Sound(ba), ba' = ReadReady(ba)
  PROVE  QueueOf!Next \/ UNCHANGED QueueOf!vars
<1>1. CASE ba.reading
  <2>1. ba' = ba
    BY <1>1 DEF ReadReady
  <2>2. QED
    BY <2>1 DEF QueueOf!vars
<1>2. CASE ~ba.reading
  <2>1. ba' = [ba EXCEPT !.total = ba.offset, !.offset = 0, !.reading = TRUE]
    BY <1>2 DEF ReadReady
  <2>2. /\ ba'.buffer = ba.buffer /\ ba'.total = ba.offset /\ ba'.offset = 0
        /\ ba'.reading = TRUE /\ ba'.mark = ba.mark
    BY <2>1 DEF Sound, Struct
  <2>3. Data(ba') = Data(ba)
    BY <1>2, <2>2 DEF Data, Limit
  <2>4. (IF ba'.reading THEN ba'.offset ELSE 0) = (IF ba.reading THEN ba.offset ELSE 0)
    BY <1>2, <2>2
  <2>5. QueueOf!PrepareGet
    BY <1>2, <2>2, <2>3, <2>4, Zenon DEF QueueOf!PrepareGet, Data, Limit
  <2>6. QED
    BY <2>5 DEF QueueOf!Next
<1>3. QED
  BY <1>1, <1>2

\* bytearray_write_ready moves what was not read to the front.
LEMMA QueuePrepareAdd ==
  ASSUME Sound(ba), ba' = WriteReady(ba)
  PROVE  QueueOf!Next \/ UNCHANGED QueueOf!vars
<1>1. CASE ~ba.reading
  <2>1. ba' = ba
    BY <1>1 DEF WriteReady
  <2>2. QED
    BY <2>1 DEF QueueOf!vars
<1>2. CASE ba.reading
  <2>0. Sound(ba')
    BY SoundReady
  <2>1. PICK left, f :
          /\ left = ba.total - ba.offset
          /\ f = [i \in DOMAIN ba.buffer |->
                    IF i < left THEN ba.buffer[i + ba.offset] ELSE ba.buffer[i]]
    OBVIOUS
  <2>2. ba' = [buffer |-> f, buflen |-> ba.buflen, total |-> ba.buflen, offset |-> left,
               mark |-> 0, reading |-> FALSE]
    BY <1>2, <2>1 DEF WriteReady
  <2>3. ba'.buffer = f /\ ba'.offset = left /\ ba'.mark = 0 /\ ba'.reading = FALSE
    BY <2>2
  <2>4. /\ ba.total \in Nat /\ ba.offset \in Nat /\ ba.buflen \in Nat /\ left \in Nat
        /\ left + ba.offset = ba.total /\ ba.total =< ba.buflen
        /\ DOMAIN ba.buffer = 0..(ba.buflen - 1)
    BY <2>1 DEF Sound, Struct
  <2>5. Limit(ba) = ba.total /\ Limit(ba') = left
    BY <1>2, <2>3 DEF Limit
  <2>6. /\ Data(ba) \in Seq(Cell) /\ Len(Data(ba)) = ba.total
        /\ \A i \in 1..ba.total : Data(ba)[i] = ba.buffer[i - 1]
    BY <2>5, DataIs
  <2>7. /\ Data(ba') \in Seq(Cell) /\ Len(Data(ba')) = left
        /\ \A i \in 1..left : Data(ba')[i] = ba'.buffer[i - 1]
    BY <2>0, <2>5, DataIs
  <2>8. ASSUME NEW i \in 1..left
        PROVE  Data(ba')[i] = Data(ba)[i + ba.offset]
    <3>1. /\ i - 1 \in DOMAIN ba.buffer /\ i - 1 < left
          /\ (i - 1) + ba.offset = (i + ba.offset) - 1 /\ i + ba.offset \in 1..ba.total
      BY <2>4
    <3>2. Data(ba')[i] = ba.buffer[(i - 1) + ba.offset]
      BY <2>1, <2>3, <2>7, <3>1
    <3>3. Data(ba)[i + ba.offset] = ba.buffer[(i + ba.offset) - 1]
      BY <2>6, <3>1
    <3>4. QED
      BY <3>1, <3>2, <3>3
  <2>9. Data(ba') = SubSeq(Data(ba), ba.offset + 1, Len(Data(ba)))
    <3>1. ba.offset =< Len(Data(ba)) /\ Len(Data(ba')) = Len(Data(ba)) - ba.offset
      BY <2>4, <2>6, <2>7
    <3>2. \A i \in 1..Len(Data(ba')) : Data(ba')[i] = Data(ba)[i + ba.offset]
      BY <2>7, <2>8
    <3>3. QED
      BY <2>4, <2>6, <2>7, <3>1, <3>2, SuffixIs
  <2>10. /\ (IF ba'.reading THEN ba'.offset ELSE 0) = 0
         /\ (IF ba.reading THEN ba.offset ELSE 0) = ba.offset
    BY <1>2, <2>3
  <2>11. QueueOf!PrepareAdd
    BY <1>2, <2>3, <2>9, <2>10, Zenon DEF QueueOf!PrepareAdd, Data, Limit
  <2>12. QED
    BY <2>11 DEF QueueOf!Next
<1>3. QED
  BY <1>1, <1>2

\* mark leaves the bytes alone.
LEMMA QueueMark ==
  ASSUME Sound(ba), CallMark
  PROVE  QueueOf!Next
<1>1. ba' = [ba EXCEPT !.mark = ba.offset] /\ ba.reading
  BY DEF CallMark, Step
<1>2. /\ ba'.buffer = ba.buffer /\ ba'.total = ba.total /\ ba'.offset = ba.offset
      /\ ba'.reading = ba.reading /\ ba'.mark = ba.offset
  BY <1>1 DEF Sound, Struct
<1>3. Data(ba') = Data(ba) /\ (IF ba.reading THEN ba.offset ELSE 0) = ba.offset
  BY <1>1, <1>2 DEF Data, Limit
<1>4. QueueOf!Mark
  BY <1>1, <1>2, <1>3, Zenon DEF QueueOf!Mark, Data, Limit
<1>5. QED
  BY <1>4 DEF QueueOf!Next

\* reset goes back to the mark.
LEMMA QueueReset ==
  ASSUME ~ResetAfterEmpty, Sound(ba), CallReset
  PROVE  QueueOf!Next
<1>1. ba' = [ba EXCEPT !.offset = ba.mark] /\ ba.reading /\ ba.mark =< ba.total
  BY DEF CallReset, Step
<1>2. /\ ba'.buffer = ba.buffer /\ ba'.total = ba.total /\ ba'.offset = ba.mark
      /\ ba'.reading = ba.reading /\ ba'.mark = ba.mark
  BY <1>1 DEF Sound, Struct
<1>3. Data(ba') = Data(ba) /\ (IF ba'.reading THEN ba'.offset ELSE 0) = ba.mark
  BY <1>1, <1>2 DEF Data, Limit
<1>4. ba.mark =< Len(Data(ba))
  BY <1>1, DataIs DEF Limit
<1>5. QueueOf!Reset
  BY <1>1, <1>2, <1>3, <1>4, Zenon DEF QueueOf!Reset, Data, Limit
<1>6. QED
  BY <1>5 DEF QueueOf!Next

\* empty drops every byte.
LEMMA QueueEmpty ==
  ASSUME Sound(ba), CallEmpty
  PROVE  QueueOf!Next
<1>1. ba' = [ba EXCEPT !.offset = 0, !.total = 0]
  BY DEF CallEmpty, Step
<1>2. /\ ba'.total = 0 /\ ba'.offset = 0 /\ ba'.reading = ba.reading /\ ba'.mark = ba.mark
  BY <1>1 DEF Sound, Struct
<1>3. Limit(ba') = 0 /\ (IF ba'.reading THEN ba'.offset ELSE 0) = 0
  BY <1>2 DEF Limit
<1>4. Data(ba') = <<>>
  BY <1>3 DEF Data
<1>5. QueueOf!Empty
  BY <1>2, <1>3, <1>4, Zenon DEF QueueOf!Empty, Data, Limit
<1>6. QED
  BY <1>5 DEF QueueOf!Next

\* Every call of a caller that respects the modes is a step of the queue.
LEMMA NextQueue ==
  ASSUME ~ResetAfterEmpty, Inv, Inv', [Next]_vars, use # "any"
  PROVE  QueueOf!Next \/ UNCHANGED QueueOf!vars
<1>0. Sound(ba) /\ Sound(ba')
  BY DEF Inv
<1>a. ASSUME ~ba.reading, Behind(ba, ba')
      PROVE  QueueOf!Next
  BY <1>0, <1>a, QueueAdd DEF QueueOf!Next
<1>t. ASSUME Taken(ba, ba')
      PROVE  QueueOf!Next
  BY <1>0, <1>t, QueueTake DEF Taken, QueueOf!Next
<1>s. \A s \in Chunks : s \in Seq(Byte)
  BY ByteAssumption
<1>m. \A mem \in Memory : mem \in [1..6 -> BOOLEAN] /\ mem[1] \in BOOLEAN /\ mem[6] \in BOOLEAN
  BY ByteAssumption
<1>1. ASSUME NEW mem \in Memory, NEW s \in Chunks, CallAdd(s, mem)
      PROVE  QueueOf!Next
  <2>1. ~ba.reading /\ ba' = Write(ba, s, mem[1])
    BY <1>1 DEF CallAdd, MayAdd, Step
  <2>2. QED
    BY <1>0, <1>a, <1>s, <1>m, <2>1, WriteBehind
<1>2. ASSUME NEW mem \in Memory, NEW s \in Chunks, CallAddString(s, mem)
      PROVE  QueueOf!Next
  <2>1. Len(s) % Word \in 0..(Word - 1)
    <3>1. Len(s) \in Nat
      BY <1>s
    <3>2. QED
      BY <3>1, ByteAssumption
  <2> DEFINE a == AddU30(ba, Len(s) % Word, mem)
  <2>2. Sound(a) /\ Behind(ba, a)
    BY <1>0, <1>m, <2>1, AddU30Behind
  <2>3. ~ba.reading /\ ba' = Write(a, s, mem[6])
    BY <1>2 DEF CallAddString, MayAdd, Step, AddString
  <2> HIDE DEF a
  <2>4. Behind(a, ba')
    BY <1>s, <1>m, <2>2, <2>3, WriteBehind
  <2>5. Behind(ba, ba')
    BY <1>0, <2>2, <2>4, BehindTwice
  <2>6. QED
    BY <1>a, <2>3, <2>5
<1>3. ASSUME NEW mem \in Memory, NEW u \in Numbers, CallAddU30(u, mem)
      PROVE  QueueOf!Next
  <2>1. u \in 0..(Word - 1)
    BY ByteAssumption
  <2>2. ~ba.reading /\ ba' = AddU30(ba, u, mem)
    BY <1>3 DEF CallAddU30, MayAdd, Step
  <2>3. QED
    BY <1>0, <1>a, <1>m, <2>1, <2>2, AddU30Behind
<1>4. ASSUME NEW n \in {1, 2, 3, 4, 8}, CallGet(n)
      PROVE  QueueOf!Next
  <2>1. ba.reading /\ ba' = Read(ba, n) /\ n \in Nat
    BY <1>4 DEF CallGet, MayGet, Step
  <2>2. QED
    BY <1>0, <1>t, <2>1, ReadTakes
<1>5. ASSUME NEW n \in 1..3, CallGetBytes(n)
      PROVE  QueueOf!Next
  <2> DEFINE k == IF n > Available(ba) THEN Available(ba) ELSE n
  <2>1. Available(ba) \in Nat
    BY <1>0 DEF Available, Sound, Struct
  <2>2. k \in Nat
    BY <2>1
  <2>3. ba' = Read(ba, k) /\ ba.reading
    BY <1>5 DEF CallGetBytes, MayGet, Step
  <2> HIDE DEF k
  <2>4. QED
    BY <1>0, <1>t, <2>2, <2>3, ReadTakes
<1>6. ASSUME NEW n \in 1..3, CallFeed(n)
      PROVE  QueueOf!Next
  <2> DEFINE s == SubSeq(FeedBytes, fed + 1, fed + n)
  <2>1. fed \in Nat /\ fed + n \in Nat /\ fed + n =< Len(FeedBytes) /\ fed + 1 \in Nat
    BY <1>6 DEF CallFeed, Inv
  <2>2. s \in Seq(Byte)
    BY <2>1, FeedAssumption
  <2>3. ba' = Write(ba, s, TRUE) /\ ~ba.reading
    BY <1>6 DEF CallFeed
  <2> HIDE DEF s
  <2>4. QED
    BY <1>0, <1>a, <2>2, <2>3, WriteBehind
<1>7. ASSUME CallGetU30
      PROVE  QueueOf!Next
  <2>1. ba.reading /\ ba' = GetU30(ba)
    BY <1>7 DEF CallGetU30, MayGet, Step
  <2>2. QED
    BY <1>0, <1>t, <2>1, GetU30Takes
<1>8. ASSUME CallGetString
      PROVE  QueueOf!Next
  <2>1. ba.reading /\ Written(ba) /\ ba' = GetString(ba)
    BY <1>8 DEF CallGetString, MayGet
  <2>2. QED
    BY <1>0, <1>t, <2>1, GetStringTakes
<1>9. ASSUME CallPrepareGet
      PROVE  QueueOf!Next \/ UNCHANGED QueueOf!vars
  BY <1>0, <1>9, QueuePrepareGet DEF CallPrepareGet, Step
<1>10. ASSUME CallPrepareAdd
       PROVE  QueueOf!Next \/ UNCHANGED QueueOf!vars
  BY <1>0, <1>10, QueuePrepareAdd DEF CallPrepareAdd, Step
<1>11. ASSUME CallMark
       PROVE  QueueOf!Next
  BY <1>0, <1>11, QueueMark
<1>12. ASSUME CallReset
       PROVE  QueueOf!Next
  BY <1>0, <1>12, QueueReset
<1>13. ASSUME CallEmpty
       PROVE  QueueOf!Next
  BY <1>0, <1>13, QueueEmpty
<1>14. CASE UNCHANGED vars
  BY <1>14 DEF vars, QueueOf!vars
<1>15. QED
  BY <1>1, <1>2, <1>3, <1>4, <1>5, <1>6, <1>7, <1>8, <1>9, <1>10, <1>11, <1>12, <1>13, <1>14
  DEF Next

\* The stream is a queue of bytes to a caller that respects the modes: growth and
\* the move of the unread bytes in bytearray_write_ready lose, repeat and
\* reorder nothing, however large the buffers are and whenever realloc fails.
THEOREM StreamIsQueue ==
  ASSUME ~ResetAfterEmpty
  PROVE  Spec => ActsAsQueue
<1>1. Inv /\ Inv' /\ [Next]_vars
        => [use # "any" => QueueOf!Next \/ UNCHANGED QueueOf!vars]_vars
  BY NextQueue
<1>2. QED
  BY <1>1, Invariant, PTL DEF Spec, ActsAsQueue

-----------------------------------------------------------------------------
(* Digits *)

\* Quotient and remainder.
LEMMA DivMod ==
  ASSUME NEW n \in Nat, NEW m \in Nat \ {0}
  PROVE  /\ n \div m \in Nat /\ n % m \in 0..(m - 1)
         /\ n = m * (n \div m) + (n % m)
<1>1. n \div m \in Nat
  OBVIOUS
<1>2. n % m \in 0..(m - 1)
  OBVIOUS
<1>3. n = m * (n \div m) + (n % m)
  OBVIOUS
<1>4. QED
  BY <1>1, <1>2, <1>3

\* They are the only ones.
LEMMA DivModIs ==
  ASSUME NEW n \in Nat, NEW m \in Nat \ {0}, NEW q \in Nat, NEW r \in 0..(m - 1), n = m * q + r
  PROVE  n \div m = q /\ n % m = r
<1>1. PICK p \in Nat, s \in 0..(m - 1) : p = n \div m /\ s = n % m /\ n = m * p + s
  BY DivMod
<1>2. ASSUME NEW x \in Nat, NEW y \in Nat, NEW a \in 0..(m - 1), NEW b \in 0..(m - 1),
             m * x + a = m * y + b
      PROVE  ~(x < y)
  <2>1. SUFFICES ASSUME x < y PROVE FALSE
    OBVIOUS
  <2>2. PICK k \in Nat : y = x + 1 + k
    <3>1. y - (x + 1) \in Nat /\ y = x + 1 + (y - (x + 1))
      BY <2>1
    <3>2. QED
      BY <3>1
  <2>3. m * y = m * x + m + m * k /\ m * k \in Nat /\ m * x \in Nat
    BY <2>2
  <2>4. QED
    BY <1>2, <2>3
<1>3. ~(p < q) /\ ~(q < p)
  BY <1>1, <1>2
<1>4. p = q
  BY <1>3
<1>5. m * p = m * q /\ m * p \in Nat
  BY <1>4
<1>6. s = r
  BY <1>1, <1>5
<1>7. QED
  BY <1>1, <1>4, <1>6

\* Dividing by m and then by b is dividing by their product.
LEMMA DivTwice ==
  ASSUME NEW n \in Nat, NEW m \in Nat \ {0}, NEW b \in Nat \ {0}
  PROVE  n \div (m * b) = (n \div m) \div b
<1>1. PICK p \in Nat, r \in 0..(m - 1) : p = n \div m /\ n = m * p + r
  BY DivMod
<1>2. PICK q \in Nat, s \in 0..(b - 1) : q = p \div b /\ p = b * q + s
  BY DivMod
<1>3. PICK k \in Nat \ {0} : k = m * b
  <2>1. m * b \in Nat \ {0}
    OBVIOUS
  <2>2. QED
    BY <2>1
<1>4. PICK t \in Nat : t = m * s + r
  <2>1. m * s \in Nat
    OBVIOUS
  <2>2. QED
    BY <2>1
<1>5. n = k * q + t
  <2>1. m * (b * q + s) = (m * b) * q + m * s
    OBVIOUS
  <2>2. PICK x \in Nat, y \in Nat : x = (m * b) * q /\ y = m * s
    <3>1. (m * b) * q \in Nat /\ m * s \in Nat
      OBVIOUS
    <3>2. QED
      BY <3>1
  <2>3. n = (x + y) + r
    BY <1>1, <1>2, <2>1, <2>2, Zenon
  <2>4. k * q = x /\ t = y + r
    BY <1>3, <1>4, <2>2, Zenon
  <2>5. n = x + t
    BY <2>3, <2>4
  <2>6. QED
    BY <2>4, <2>5, Zenon
<1>6. t =< k - 1
  <2>1. m * s =< m * (b - 1)
    <3>1. PICK d \in Nat : b - 1 = s + d
      <4>1. (b - 1) - s \in Nat /\ b - 1 = s + ((b - 1) - s)
        OBVIOUS
      <4>2. QED
        BY <4>1
    <3>2. m * (s + d) = m * s + m * d /\ m * d \in Nat /\ m * s \in Nat
      OBVIOUS
    <3>3. QED
      BY <3>1, <3>2
  <2>2. m * (b - 1) = m * b - m
    OBVIOUS
  <2>3. m * b \in Nat /\ m * s \in Nat
    OBVIOUS
  <2>4. QED
    BY <1>3, <1>4, <2>1, <2>2, <2>3
<1>7. n \div k = q
  BY <1>5, <1>6, DivModIs
<1>8. QED
  BY <1>1, <1>2, <1>3, <1>7

\* A number below m * b has a quotient by m below b.
LEMMA DivBound ==
  ASSUME NEW n \in Nat, NEW m \in Nat \ {0}, NEW b \in Nat \ {0}, n < m * b
  PROVE  n \div m \in 0..(b - 1)
<1>1. PICK p \in Nat, r \in 0..(m - 1) : p = n \div m /\ n = m * p + r
  BY DivMod
<1>2. ASSUME p >= b PROVE FALSE
  <2>1. PICK d \in Nat : p = b + d
    <3>1. p - b \in Nat /\ p = b + (p - b)
      BY <1>2
    <3>2. QED
      BY <3>1
  <2>2. m * p = m * b + m * d /\ m * d \in Nat /\ m * b \in Nat
    BY <2>1
  <2>3. QED
    BY <1>1, <2>2
<1>3. QED
  BY <1>1, <1>2

\* One more digit of n, for a unit m.
LEMMA OneDigit ==
  ASSUME NEW n \in Nat, NEW m \in Nat \ {0}, NEW b \in Nat \ {0}
  PROVE  /\ (n \div m) % b \in 0..(b - 1)
         /\ m * (n \div m) = ((n \div m) % b) * m + (m * b) * (n \div (m * b))
<1>1. PICK p \in Nat : p = n \div m
  BY DivMod
<1>2. PICK q \in Nat, d \in 0..(b - 1) : q = p \div b /\ d = p % b /\ p = b * q + d
  BY DivMod
<1>3. n \div (m * b) = q
  BY <1>1, <1>2, DivTwice
<1>4. m * (b * q + d) = d * m + (m * b) * q
  OBVIOUS
<1>5. QED
  BY <1>1, <1>2, <1>3, <1>4

\* The number its digits up to Width(u) stand for.
Part(u, k) == IF k =< Width(u) THEN Digit(u, k) * Units[k] ELSE 0

\* A number of a word has at most five digits, and its width counts them.
LEMMA WidthIs ==
  ASSUME NEW u \in 0..(Word - 1)
  PROVE  Width(u) \in 1..5 /\ u < Units[Width(u)] * Base
<1>1. Width(u) \in 1..5 /\ u \in Nat /\ Base \in Nat \ {0}
  BY WidthType, ByteAssumption
<1>2. \E n \in 1..5 : u < Units[n] * Base /\ (n > 1 => u >= Units[n])
  <2>1. u < Units[5] * Base
    <3> DEFINE m == Units[5] * Base
    <3>1. m \in Nat
      BY <1>1, UnitsPositive
    <3>2. Word =< m
      BY WordAssumption
    <3> HIDE DEF m
    <3>3. u < m
      BY <3>1, <3>2, ByteAssumption
    <3>4. QED
      BY <3>3 DEF m
  <2>2. CASE u < Units[2]
    BY <1>1, <2>2, UnitsPositive
  <2>3. CASE ~(u < Units[2]) /\ u < Units[3]
    BY <1>1, <2>3, UnitsPositive
  <2>4. CASE ~(u < Units[3]) /\ u < Units[4]
    BY <1>1, <2>4, UnitsPositive
  <2>5. CASE ~(u < Units[4]) /\ u < Units[5]
    BY <1>1, <2>5, UnitsPositive
  <2>6. CASE ~(u < Units[5])
    BY <1>1, <2>1, <2>6, UnitsPositive
  <2>7. QED
    BY <1>1, <2>2, <2>3, <2>4, <2>5, <2>6, UnitsPositive
<1>3. QED
  BY <1>1, <1>2 DEF Width

\* The digits of a number add up to it.
LEMMA DigitsAddUp ==
  ASSUME NEW u \in 0..(Word - 1)
  PROVE  /\ \A k \in 1..5 : Digit(u, k) \in 0..(Base - 1) /\ Part(u, k) \in Nat
         /\ Part(u, 1) + Part(u, 2) + Part(u, 3) + Part(u, 4) + Part(u, 5) = u
<1>0. u \in Nat /\ Base \in Nat \ {0} /\ Width(u) \in 1..5 /\ \A k \in 1..5 : Units[k] \in Nat \ {0}
  BY ByteAssumption, WidthType, UnitsPositive
<1> DEFINE rest(k) == Units[k] * (u \div Units[k])
           t(k) == Digit(u, k) * Units[k]
<1>1. ASSUME NEW k \in 1..5
      PROVE  Digit(u, k) \in 0..(Base - 1) /\ t(k) \in Nat
  <2>1. Digit(u, k) \in 0..(Base - 1)
    BY <1>0, OneDigit DEF Digit
  <2>2. PICK d \in Nat, m \in Nat : d = Digit(u, k) /\ m = Units[k]
    BY <1>0, <2>1
  <2>3. d * m \in Nat
    OBVIOUS
  <2>4. QED
    BY <2>1, <2>2, <2>3
<1>2. ASSUME NEW k \in 1..4
      PROVE  rest(k) = t(k) + rest(k + 1)
  <2>1. Units[k + 1] = Units[k] * Base
    BY UnitsPositive
  <2>2. rest(k) = t(k) + (Units[k] * Base) * (u \div (Units[k] * Base))
    <3>1. Units[k] \in Nat \ {0}
      BY <1>0
    <3>2. QED
      BY <1>0, <3>1, OneDigit, Zenon DEF Digit
  <2>3. QED
    BY <2>1, <2>2, Zenon
<1>3. ASSUME NEW k \in 1..5, k = Width(u)
      PROVE  rest(k) = t(k)
  <2>1. PICK p \in 0..(Base - 1) : p = u \div Units[k]
    BY <1>0, <1>3, WidthIs, DivBound
  <2>2. p = Base * 0 + p /\ p \in Nat
    BY <1>0
  <2>3. p % Base = p
    BY <1>0, <2>2, DivModIs
  <2>4. Digit(u, k) = p
    BY <2>1, <2>3 DEF Digit
  <2>5. PICK m \in Nat : m = Units[k]
    BY <1>0
  <2>6. m * p = p * m
    BY <2>2
  <2>7. QED
    BY <2>1, <2>4, <2>5, <2>6, Zenon
<1>4. rest(1) = u
  <2>1. u = 1 * u + 0 /\ Units[1] = 1
    BY <1>0, UnitsPositive
  <2>2. u \div 1 = u
    BY <1>0, <2>1, DivModIs
  <2>3. QED
    BY <1>0, <2>1, <2>2
<1>5. ASSUME NEW k \in 1..5
      PROVE  rest(k) \in Nat
  <2>1. PICK m \in Nat \ {0}, p \in Nat : m = Units[k] /\ p = u \div Units[k]
    BY <1>0, DivMod
  <2>2. m * p \in Nat
    OBVIOUS
  <2>3. QED
    BY <2>1, <2>2
<1>6. ASSUME NEW k \in 1..5
      PROVE  Part(u, k) = IF k =< Width(u) THEN t(k) ELSE 0
  BY DEF Part
<1> HIDE DEF rest, t
<1>7. \A k \in 1..5 : Part(u, k) \in Nat
  BY <1>0, <1>1, <1>6
<1>8. /\ rest(1) = t(1) + rest(2) /\ rest(2) = t(2) + rest(3)
      /\ rest(3) = t(3) + rest(4) /\ rest(4) = t(4) + rest(5)
  BY <1>2
<1>9. Part(u, 1) + Part(u, 2) + Part(u, 3) + Part(u, 4) + Part(u, 5) = u
  <2>0. /\ rest(1) \in Nat /\ rest(2) \in Nat /\ rest(3) \in Nat /\ rest(4) \in Nat
        /\ rest(5) \in Nat /\ t(1) \in Nat /\ t(2) \in Nat /\ t(3) \in Nat /\ t(4) \in Nat
        /\ t(5) \in Nat
    BY <1>1, <1>5
  <2>1. CASE Width(u) = 1
    BY <1>3, <1>4, <1>6, <2>0, <2>1
  <2>2. CASE Width(u) = 2
    BY <1>3, <1>4, <1>6, <1>8, <2>0, <2>2
  <2>3. CASE Width(u) = 3
    BY <1>3, <1>4, <1>6, <1>8, <2>0, <2>3
  <2>4. CASE Width(u) = 4
    BY <1>3, <1>4, <1>6, <1>8, <2>0, <2>4
  <2>5. CASE Width(u) = 5
    BY <1>3, <1>4, <1>6, <1>8, <2>0, <2>5
  <2>6. QED
    BY <1>0, <2>1, <2>2, <2>3, <2>4, <2>5
<1>10. QED
  BY <1>1, <1>7, <1>9

\* What a byte of an encoded number holds: its digit, and whether one follows.
LEMMA EncodedByte ==
  ASSUME NEW u \in 0..(Word - 1), NEW k \in 1..Width(u)
  PROVE  /\ EncodeU30(u)[k] \in Nat /\ EncodeU30(u)[k] % Base = Digit(u, k)
         /\ EncodeU30(u)[k] < Base <=> k = Width(u)
<1>0. Width(u) \in 1..5 /\ Base \in Nat \ {0}
  BY WidthType, ByteAssumption
<1>1. PICK d \in 0..(Base - 1) : d = Digit(u, k)
  BY <1>0, DigitsAddUp
<1>2. EncodeU30(u)[k] = d + (IF k < Width(u) THEN Base ELSE 0)
  BY <1>1 DEF EncodeU30
<1>3. d = Base * 0 + d /\ d + Base = Base * 1 + d /\ d \in Nat /\ d + Base \in Nat
  BY <1>0
<1>4. d % Base = d /\ (d + Base) % Base = d
  BY <1>0, <1>3, DivModIs
<1>5. CASE k < Width(u)
  BY <1>0, <1>1, <1>2, <1>3, <1>4, <1>5
<1>6. CASE ~(k < Width(u))
  <2>1. EncodeU30(u)[k] = d /\ k = Width(u)
    BY <1>0, <1>2, <1>3, <1>6
  <2>2. QED
    BY <1>0, <1>1, <1>3, <1>4, <2>1
<1>7. QED
  BY <1>5, <1>6

-----------------------------------------------------------------------------

\* A byte is written behind what is there.
LEMMA WriteByte ==
  ASSUME NEW b, Sound(b), NEW x \in Byte
  PROVE  LET c == Write(b, <<x>>, TRUE) IN
         Sound(c) /\ Behind(b, c) /\ c.offset = b.offset + 1 /\ c.buffer[b.offset] = x
<1>0. <<x>> \in Seq(Byte) /\ Len(<<x>>) = 1 /\ <<x>>[1] = x
  OBVIOUS
<1> DEFINE c == Write(b, <<x>>, TRUE)
<1>1. Sound(c) /\ Behind(b, c)
  BY <1>0, SoundWrite, WriteBehind
<1>2. PICK g : /\ Sound(g) /\ g.total - g.offset >= 1 /\ g.offset = b.offset
               /\ c = Stored(g, <<x>>)
  <2>1. CASE b.total - b.offset >= 1
    BY <1>0, <2>1 DEF Write
  <2>2. CASE ~(b.total - b.offset >= 1)
    BY <1>0, <2>2, SoundGrown DEF Write
  <2>3. QED
    BY <2>1, <2>2
<1>3. c.offset = b.offset + 1
  BY <1>0, <1>2, SoundStored
<1> DEFINE f == [i \in DOMAIN g.buffer |->
                   IF i \in g.offset..(g.offset + Len(<<x>>) - 1)
                   THEN <<x>>[i - g.offset + 1] ELSE g.buffer[i]]
<1>4. /\ g \in Struct /\ g.offset \in Nat /\ g.buflen \in Nat /\ g.offset < g.buflen
      /\ DOMAIN g.buffer = 0..(g.buflen - 1)
  BY <1>2 DEF Sound, Struct
<1>5. f[g.offset] = x
  <2>1. /\ g.offset \in DOMAIN g.buffer /\ g.offset \in g.offset..(g.offset + Len(<<x>>) - 1)
        /\ g.offset - g.offset + 1 = 1
    BY <1>0, <1>4
  <2>2. f[g.offset] = <<x>>[g.offset - g.offset + 1]
    BY <2>1
  <2>3. QED
    BY <1>0, <2>1, <2>2
<1> HIDE DEF f
<1>6. c = [g EXCEPT !.buffer = f, !.offset = g.offset + Len(<<x>>)]
  BY <1>2 DEF Stored, f
<1>7. c.buffer = f
  BY <1>4, <1>6 DEF Struct
<1>8. QED
  BY <1>1, <1>2, <1>3, <1>5, <1>7

\* Where the bytes of a number are after ffi_stream_add_u30.
LEMMA AddU30Bytes ==
  ASSUME NEW b, Sound(b), NEW u \in 0..(Word - 1), NEW mem, mem = [k \in 1..6 |-> TRUE]
  PROVE  LET a == AddU30(b, u, mem) IN
         /\ Sound(a) /\ Behind(b, a) /\ a.offset = b.offset + Width(u)
         /\ \A j \in 1..Width(u) : a.buffer[b.offset + j - 1] = EncodeU30(u)[j]
<1> DEFINE e == EncodeU30(u)
           n == Width(u)
           w(c, k) == IF k =< Len(e) THEN Write(c, <<e[k]>>, mem[k]) ELSE c
<1>1. n \in 1..5 /\ b.offset \in Nat
  BY WidthType DEF Sound, Struct
<1>2. e \in Seq(Byte) /\ Len(e) = n
  <2>1. e \in Seq(Byte)
    BY EncodeType
  <2>2. DOMAIN e = 1..n
    BY DEF EncodeU30
  <2> HIDE DEF e, n
  <2>3. DOMAIN e = 1..Len(e) /\ Len(e) \in Nat
    BY <2>1
  <2>4. QED
    BY <1>1, <2>1, <2>2, <2>3
<1>3. AddU30(b, u, mem) = w(w(w(w(w(b, 1), 2), 3), 4), 5)
  BY DEF AddU30
<1> HIDE DEF e, n
<1> DEFINE P(c, k) ==
      /\ Sound(c) /\ Behind(b, c) /\ c.offset = b.offset + (IF k =< n THEN k ELSE n)
      /\ \A j \in 1..n : j =< k => c.buffer[b.offset + j - 1] = e[j]
<1>4. ASSUME NEW c, NEW k \in 1..5, P(c, k - 1)
      PROVE  P(w(c, k), k)
  <2>1. CASE k =< n
    <3>1. e[k] \in Byte /\ c.offset = b.offset + k - 1
      BY <1>1, <1>2, <1>4, <2>1
    <3> DEFINE d == Write(c, <<e[k]>>, TRUE)
    <3>2. /\ Sound(d) /\ Behind(c, d) /\ d.offset = c.offset + 1
          /\ d.buffer[c.offset] = e[k]
      BY <1>4, <3>1, WriteByte
    <3>3. w(c, k) = d
      <4>1. mem[k] = TRUE /\ k =< Len(e)
        BY <1>2, <2>1
      <4>2. QED
        BY <4>1, Zenon
    <3> HIDE DEF d
    <3>4. Behind(b, d) /\ d.offset = b.offset + k
      BY <1>1, <1>4, <3>1, <3>2, BehindTwice
    <3>5. ASSUME NEW j \in 1..n, j =< k
          PROVE  d.buffer[b.offset + j - 1] = e[j]
      <4>1. CASE j = k
        BY <3>1, <3>2, <4>1
      <4>2. CASE j # k
        <5>1. j =< k - 1 /\ b.offset + j - 1 \in 0..(c.offset - 1)
          BY <1>1, <3>1, <3>5, <4>2
        <5>2. d.buffer[b.offset + j - 1] = c.buffer[b.offset + j - 1]
          BY <3>2, <5>1 DEF Behind
        <5>3. QED
          BY <1>4, <5>1, <5>2
      <4>3. QED
        BY <4>1, <4>2
    <3>6. P(d, k)
      BY <2>1, <3>2, <3>4, <3>5
    <3>7. QED
      BY <3>3, <3>6
  <2>2. CASE ~(k =< n)
    <3>1. w(c, k) = c
      BY <1>2, <2>2
    <3>2. (IF k - 1 =< n THEN k - 1 ELSE n) = n
      BY <1>1, <2>2
    <3>3. \A j \in 1..n : j =< k - 1
      BY <1>1, <2>2
    <3>4. P(c, k)
      BY <1>1, <1>4, <2>2, <3>2, <3>3
    <3>5. QED
      BY <3>1, <3>4
  <2>3. QED
    BY <2>1, <2>2
<1>5. P(b, 0)
  BY <1>1, BehindSame
<1>6. 1 - 1 = 0 /\ 2 - 1 = 1 /\ 3 - 1 = 2 /\ 4 - 1 = 3 /\ 5 - 1 = 4
  OBVIOUS
<1>p. \A c : P(c, 5) => /\ Sound(c) /\ Behind(b, c) /\ c.offset = b.offset + n
                        /\ \A j \in 1..n : c.buffer[b.offset + j - 1] = e[j]
  BY <1>1
<1> HIDE DEF w, P
<1>7. P(w(b, 1), 1)
  BY <1>4, <1>5, <1>6
<1>8. P(w(w(b, 1), 2), 2)
  BY <1>4, <1>6, <1>7
<1>9. P(w(w(w(b, 1), 2), 3), 3)
  BY <1>4, <1>6, <1>8
<1>10. P(w(w(w(w(b, 1), 2), 3), 4), 4)
  BY <1>4, <1>6, <1>9
<1>11. P(w(w(w(w(w(b, 1), 2), 3), 4), 5), 5)
  BY <1>4, <1>6, <1>10
<1>12. QED
  BY <1>3, <1>11, <1>p DEF e, n

\* ffi_stream_get_u30 reads the number whose bytes are all there is.
LEMMA GetU30Reads ==
  ASSUME NEW c, Sound(c), NEW u \in 0..(Word - 1), c.total = c.offset + Width(u),
         \A j \in 1..Width(u) : c.buffer[c.offset + j - 1] = EncodeU30(u)[j]
  PROVE  U30Length(c) = Width(u) /\ U30Value(c) = u /\ GetU30(c).offset = c.total
<1>0. /\ Width(u) \in 1..5 /\ c.offset \in Nat /\ c.total \in Nat /\ c \in Struct
      /\ Base \in Nat \ {0} /\ Word \in Nat \ {0} /\ u \in Nat
  BY WidthType, ByteAssumption DEF Sound, Struct
<1> DEFINE n == Width(u)
           stops == {k \in 1..5 : /\ k =< c.total - c.offset
                                  /\ k = 5 \/ c.buffer[c.offset + k - 1] < Base}
<1>1. \A k \in 1..5 : k =< c.total - c.offset <=> k =< n
  BY <1>0
<1>2. \A k \in 1..n : c.buffer[c.offset + k - 1] < Base <=> k = n
  BY EncodedByte
<1>3. stops = {n}
  <2>1. ASSUME NEW k \in 1..5
        PROVE  k \in stops <=> k = n
    <3>1. CASE k =< n
      <4>1. k \in 1..n /\ (k = 5 => k = n)
        BY <1>0, <3>1
      <4>2. QED
        BY <1>1, <1>2, <3>1, <4>1
    <3>2. CASE ~(k =< n)
      BY <1>0, <1>1, <3>2
    <3>3. QED
      BY <3>1, <3>2
  <2>2. stops \subseteq 1..5 /\ n \in 1..5
    BY <1>0
  <2> HIDE DEF stops, n
  <2>3. QED
    BY <2>1, <2>2
<1>4. U30Length(c) = n
  <2>1. U30Length(c) = CHOOSE k \in stops : \A j \in stops : k =< j
    BY <1>3 DEF U30Length
  <2> HIDE DEF stops
  <2>2. n \in Nat
    BY <1>0
  <2> HIDE DEF n
  <2>3. QED
    BY <1>3, <2>1, <2>2
<1>5. GetU30(c).offset = c.total
  <2>1. GetU30(c) = [c EXCEPT !.offset = c.offset + n] /\ n # 0
    BY <1>0, <1>4 DEF GetU30
  <2>2. GetU30(c).offset = c.offset + n
    BY <1>0, <2>1 DEF Struct
  <2>3. QED
    BY <2>2
<1> DEFINE term(k) == IF k =< U30Length(c)
                      THEN (c.buffer[c.offset + k - 1] % Base) * Units[k] ELSE 0
<1>6. ASSUME NEW k \in 1..5
      PROVE  term(k) = Part(u, k)
  <2>1. CASE k =< n
    <3>1. k \in 1..n
      BY <1>0, <2>1
    <3>2. c.buffer[c.offset + k - 1] % Base = Digit(u, k)
      BY <3>1, EncodedByte
    <3>3. QED
      BY <1>4, <2>1, <3>2, Zenon DEF Part
  <2>2. CASE ~(k =< n)
    BY <1>4, <2>2, Zenon DEF Part
  <2>3. QED
    BY <2>1, <2>2
<1>7. U30Value(c) = (term(1) + term(2) + term(3) + term(4) + term(5)) % Word
  BY DEF U30Value
<1> HIDE DEF term
<1>8. /\ term(1) = Part(u, 1) /\ term(2) = Part(u, 2) /\ term(3) = Part(u, 3)
      /\ term(4) = Part(u, 4) /\ term(5) = Part(u, 5)
  BY <1>6
<1>9. U30Value(c) = u % Word
  BY <1>7, <1>8, DigitsAddUp, Zenon
<1>10. u % Word = u
  <2>1. u = Word * 0 + u /\ u \in 0..(Word - 1)
    BY <1>0
  <2>2. QED
    BY <1>0, <2>1, DivModIs
<1>11. QED
  BY <1>4, <1>5, <1>9, <1>10

\* A number appended to the stream is what the next read returns.
LEMMA RoundTrip ==
  ASSUME NEW b, Sound(b), ~b.reading, NEW u \in 0..(Word - 1), NEW mem,
         mem = [k \in 1..6 |-> TRUE]
  PROVE  LET r == ReadReady(AddU30(b, u, mem))
             c == [r EXCEPT !.offset = b.offset]
         IN U30Value(c) = u /\ GetU30(c).offset = c.total
<1> DEFINE a == AddU30(b, u, mem)
           r == ReadReady(a)
           c == [r EXCEPT !.offset = b.offset]
<1>1. /\ Sound(a) /\ Behind(b, a) /\ a.offset = b.offset + Width(u)
      /\ \A j \in 1..Width(u) : a.buffer[b.offset + j - 1] = EncodeU30(u)[j]
  BY AddU30Bytes
<1> HIDE DEF a
<1>2. Sound(r) /\ ~a.reading /\ a \in Struct
  BY <1>1, SoundReady DEF Behind, Sound
<1>3. r = [a EXCEPT !.total = a.offset, !.offset = 0, !.reading = TRUE]
  BY <1>2 DEF ReadReady
<1> HIDE DEF r
<1>4. r.total = a.offset /\ r.buffer = a.buffer /\ r \in Struct
  BY <1>2, <1>3 DEF Struct, Sound
<1>5. b.offset \in Nat /\ b.offset =< r.total
  <2>1. b.offset \in Nat /\ Width(u) \in 1..5
    BY WidthType DEF Sound, Struct
  <2>2. QED
    BY <1>1, <1>4, <2>1
<1>6. Sound(c) /\ c.offset = b.offset /\ c.total = a.offset /\ c.buffer = a.buffer
  BY <1>2, <1>4, <1>5, SoundMove DEF Struct
<1> HIDE DEF c
<1>7. U30Value(c) = u /\ GetU30(c).offset = c.total
  BY <1>1, <1>6, GetU30Reads
<1>8. QED
  BY <1>7 DEF a, r, c

\* What ffi_stream_add_u30 appends ffi_stream_get_u30 reads back, to its last
\* byte: for every number of a word, digits of any size, and wherever the buffer
\* grows between two bytes.
THEOREM U30RoundTripCorrect ==
  ASSUME ~ResetAfterEmpty
  PROVE  Spec => []U30RoundTrip
<1>1. ASSUME Inv PROVE U30RoundTrip
  <2>1. Sound(ba)
    BY <1>1 DEF Inv
  <2>2. SUFFICES ASSUME ~ba.reading,
                        NEW u \in IF ba = New(<<>>) THEN 0..(Word - 1) ELSE Numbers
                 PROVE  LET b == ReadReady(AddU30(ba, u, [k \in 1..6 |-> TRUE]))
                            c == [b EXCEPT !.offset = ba.offset]
                        IN U30Value(c) = u /\ GetU30(c).offset = c.total
    BY Zenon DEF U30RoundTrip
  <2>3. u \in 0..(Word - 1)
    BY ByteAssumption
  <2>4. QED
    BY <2>1, <2>2, <2>3, RoundTrip, Zenon
<1>2. QED
  BY <1>1, Invariant, PTL
=============================================================================
