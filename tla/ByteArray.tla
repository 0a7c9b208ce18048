----------------------------- MODULE ByteArray -----------------------------
(***************************************************************************)
(* The growing byte buffer (bytearray.c) and the stream on top of it       *)
(* (stream_ffi.c, stream.c).  ba is the C struct; each C function is an    *)
(* operator from a struct to a struct, each call from Lua an action.       *)
(*                                                                         *)
(* A byte holds a digit below Base and, for the variable-length integers   *)
(* of GetU30 and AddU30, Base more if another byte follows.                *)
(***************************************************************************)
EXTENDS Integers, Sequences

CONSTANTS
  Base,            \* 128
  Word,            \* 2^32
  MinCapacity,     \* MIN_CAPACITY
  MaxPrealloc,     \* MAX_PREALLOC
  CacheLine,       \* CACHE_LINE_SIZE
  Junk,            \* what memory holds before it is written
  Uses,            \* what callers do: "any" order of calls, "modes" (reads
                   \* after prepare_get, writes after prepare_add), or "feed"
  Chunks,          \* byte strings that are added
  Numbers,         \* integers that are added
  Feed,            \* the strings a peer sends, for the use "feed"
  Memory,          \* outcomes of realloc in one call: in its k-th write, and
                   \* at 6 in the write of a string's bytes
  ResetAfterEmpty, \* whether callers reset to a mark that empty left behind
  MaxLength        \* bound on offset

Byte == 0..(2 * Base - 1)

Powers == {p \in 1..MaxPrealloc : \E k \in 0..MaxPrealloc : p = 2^k}

ASSUME ByteAssumption ==
  /\ Base \in Nat \ {0} /\ Word \in Nat \ {0} /\ Junk \notin Byte
  /\ MinCapacity \in Nat \ {0} /\ CacheLine \in Nat \ {0}
  /\ MaxPrealloc \in Nat \ {0} /\ MaxPrealloc \in Powers
  /\ Chunks \subseteq Seq(Byte) /\ Numbers \subseteq 0..(Word - 1)
  /\ Memory \subseteq [1..6 -> BOOLEAN] /\ ResetAfterEmpty \in BOOLEAN
  /\ MaxLength \in Nat

\* The powers of Base; five digits hold a word.
Units == <<1, Base, Base * Base, Base * Base * Base, Base * Base * Base * Base>>

ASSUME WordAssumption == Word =< Units[5] * Base

VARIABLES
  ba,      \* the struct
  use,     \* what the caller does
  fed,     \* bytes of the feed that have been added
  got      \* ghost: the strings GetString has returned

vars == <<ba, use, fed, got>>

-----------------------------------------------------------------------------
(* bytearray.c *)

NextPowerOf2(n) ==
  IF n =< MinCapacity THEN MinCapacity
  ELSE CHOOSE p \in Powers : p >= n /\ \A q \in Powers : q >= n => p =< q

Align(n) == ((n + CacheLine - 1) \div CacheLine) * CacheLine

NewSize(needed) ==
  IF needed =< MaxPrealloc THEN NextPowerOf2(needed) ELSE Align(needed + needed \div 4)

Alloc(length) ==
  LET n == IF length = 0 THEN MinCapacity ELSE length
  IN [buffer |-> [i \in 0..(n - 1) |-> Junk], buflen |-> n, total |-> n,
      offset |-> 0, mark |-> 0, reading |-> FALSE]

Grown(b, size) ==
  LET n == NewSize(b.offset + size)
  IN [b EXCEPT !.buffer = [i \in 0..(n - 1) |-> IF i < b.buflen THEN b.buffer[i] ELSE Junk],
               !.buflen = n, !.total = n]

Stored(b, s) ==
  [b EXCEPT !.buffer = [i \in DOMAIN b.buffer |->
                          IF i \in b.offset..(b.offset + Len(s) - 1)
                          THEN s[i - b.offset + 1] ELSE b.buffer[i]],
            !.offset = b.offset + Len(s)]

WriteOneOver(b, s, mem) ==
  IF b.total - b.offset + 1 >= Len(s) THEN Stored(b, s)
  ELSE IF mem THEN Stored(Grown(b, Len(s)), s) ELSE b

\* write_value, with ensure_capacity; mem is whether realloc succeeds.
Write(b, s, mem) ==
  IF b.total - b.offset >= Len(s) THEN Stored(b, s)
  ELSE IF mem THEN Stored(Grown(b, Len(s)), s) ELSE b

\* read_value and bytearray_readbuffer.
Read(b, n) ==
  IF b.total - b.offset >= n THEN [b EXCEPT !.offset = b.offset + n] ELSE b

ReadReadyKeepsTotal(b) ==
  IF b.reading THEN b ELSE [b EXCEPT !.offset = 0, !.reading = TRUE]

ReadReady(b) ==
  IF b.reading THEN b
  ELSE [b EXCEPT !.total = b.offset, !.offset = 0, !.reading = TRUE]

WriteReadyUnmoved(b) ==
  IF ~b.reading THEN b
  ELSE [b EXCEPT !.offset = b.total - b.offset, !.mark = 0, !.total = b.buflen,
                 !.reading = FALSE]

\* ready for appending behind what is unread
WriteReady(b) ==
  IF ~b.reading THEN b
  ELSE LET left == b.total - b.offset
       IN [buffer |-> [i \in DOMAIN b.buffer |->
                         IF i < left THEN b.buffer[i + b.offset] ELSE b.buffer[i]],
           buflen |-> b.buflen, total |-> b.buflen, offset |-> left, mark |-> 0,
           reading |-> FALSE]

\* total - offset is a size_t: a negative value here stands for one near 2^64,
\* which only a reset after empty reaches; what calls do from there is left out.
Available(b) == IF b.reading THEN b.total - b.offset ELSE 0

-----------------------------------------------------------------------------
(* Variable-length integers: one to five bytes *)

Width(u) == CHOOSE n \in 1..5 : u < Units[n] * Base /\ (n > 1 => u >= Units[n])

Digit(u, k) == (u \div Units[k]) % Base

EncodeU30(u) == [k \in 1..Width(u) |-> Digit(u, k) + (IF k < Width(u) THEN Base ELSE 0)]

U30LengthFour(b) ==
  LET stops == {k \in 1..4 : /\ k =< b.total - b.offset
                             /\ k = 4 \/ b.buffer[b.offset + k - 1] < Base}
  IN IF stops = {} THEN 0 ELSE CHOOSE k \in stops : \A j \in stops : k =< j

\* After how many bytes ffi_stream_get_u30 stops; 0 if it runs out of bytes.
U30Length(b) ==
  LET stops == {k \in 1..5 : /\ k =< b.total - b.offset
                             /\ k = 5 \/ b.buffer[b.offset + k - 1] < Base}
  IN IF stops = {} THEN 0 ELSE CHOOSE k \in stops : \A j \in stops : k =< j

U30Value(b) ==
  LET term(k) == IF k =< U30Length(b)
                 THEN (b.buffer[b.offset + k - 1] % Base) * Units[k] ELSE 0
  IN (term(1) + term(2) + term(3) + term(4) + term(5)) % Word

\* Running out of bytes leaves none.
GetU30(b) == [b EXCEPT !.offset = IF U30Length(b) = 0 THEN b.total ELSE b.offset + U30Length(b)]

\* ffi_stream_add_u30 writes byte by byte.
AddU30(b, u, mem) ==
  LET e == EncodeU30(u)
      w(c, k) == IF k =< Len(e) THEN Write(c, <<e[k]>>, mem[k]) ELSE c
  IN w(w(w(w(w(b, 1), 2), 3), 4), 5)

\* All of a string, or none of it.
StringFits(b) ==
  /\ U30Length(b) > 0
  /\ U30Value(b) =< Available(GetU30(b))

GetStringConsumes(b) == IF StringFits(b) THEN Read(GetU30(b), U30Value(b)) ELSE GetU30(b)

GetString(b) == IF StringFits(b) THEN Read(GetU30(b), U30Value(b)) ELSE b

StringValue(b) ==
  [i \in 1..U30Value(b) |-> b.buffer[b.offset + U30Length(b) + i - 1]]

\* The length becomes a uint32_t.
AddString(b, s, mem) == Write(AddU30(b, Len(s) % Word, mem), s, mem[6])

EncodeString(s) == EncodeU30(Len(s) % Word) \o s

-----------------------------------------------------------------------------
(* Calls *)

\* ffi_stream_new
New(data) ==
  IF data = <<>> THEN Alloc(0) ELSE ReadReady(Write(Alloc(Len(data)), data, TRUE))

Init ==
  /\ use \in Uses
  /\ ba = New(<<>>) \/ (use # "feed" /\ \E s \in Chunks : ba = New(s))
  /\ fed = 0 /\ got = <<>>

MayAdd(n) ==
  /\ use = "any" \/ (use = "modes" /\ ~ba.reading)
  /\ ba.offset + n =< MaxLength

MayGet == use = "any" \/ ba.reading

Step(b) == ba' = b /\ UNCHANGED <<use, fed, got>>

\* AddU8, AddU16, AddU24, AddD64 and AddBytes.
CallAdd(s, mem) == MayAdd(Len(s)) /\ Step(Write(ba, s, mem[1]))

CallAddU30(u, mem) == MayAdd(Width(u)) /\ Step(AddU30(ba, u, mem))

CallAddString(s, mem) == MayAdd(Len(EncodeString(s))) /\ Step(AddString(ba, s, mem))

\* GetU8, GetU16, GetS24, GetU24, GetU32 and GetD64.  Where GetU30 and
\* GetString find memory never written they may take any number of the bytes
\* left; for the offset that is a number of these calls.
CallGet(n) == use # "feed" /\ MayGet /\ Step(Read(ba, n))

\* GetBytes takes what there is.
CallGetBytes(n) ==
  /\ use # "feed" /\ MayGet
  /\ Step(Read(ba, IF n > Available(ba) THEN Available(ba) ELSE n))

\* The bytes GetU30 may look at have been written.
Written(b) == \A i \in b.offset..(b.offset + 4) : i < b.total => b.buffer[i] # Junk

CallGetU30 == use # "feed" /\ MayGet /\ Written(ba) /\ Step(GetU30(ba))

CallGetString ==
  /\ MayGet /\ Written(ba)
  /\ ba' = GetString(ba)
  /\ got' = IF use = "feed" /\ StringFits(ba) THEN Append(got, StringValue(ba)) ELSE got
  /\ UNCHANGED <<use, fed>>

\* prepare_get and package.
CallPrepareGet == Step(ReadReady(ba))

CallPrepareAdd == Step(WriteReady(ba))

CallMark == use # "feed" /\ ba.reading /\ Step([ba EXCEPT !.mark = ba.offset])

CallReset ==
  /\ ba.reading
  /\ use # "feed"
  /\ ba.mark =< ba.total \/ ResetAfterEmpty
  /\ Step([ba EXCEPT !.offset = ba.mark])

CallEmpty == use # "feed" /\ Step([ba EXCEPT !.offset = 0, !.total = 0])

\* All the bytes of the feed, and the arrival of the next n.
FeedBytes ==
  LET F[k \in 0..Len(Feed)] ==
        IF k = 0 THEN <<>> ELSE F[k - 1] \o EncodeString(Feed[k])
  IN F[Len(Feed)]

ASSUME FeedAssumption == FeedBytes \in Seq(Byte)

CallFeed(n) ==
  /\ use = "feed" /\ ~ba.reading
  /\ fed + n =< Len(FeedBytes)
  /\ ba' = Write(ba, SubSeq(FeedBytes, fed + 1, fed + n), TRUE)
  /\ fed' = fed + n
  /\ UNCHANGED <<use, got>>

Next ==
  \/ \E mem \in Memory :
       \/ \E s \in Chunks : CallAdd(s, mem) \/ CallAddString(s, mem)
       \/ \E u \in Numbers : CallAddU30(u, mem)
  \/ \E n \in {1, 2, 3, 4, 8} : CallGet(n)
  \/ \E n \in 1..3 : CallGetBytes(n) \/ CallFeed(n)
  \/ CallGetU30 \/ CallGetString \/ CallPrepareGet \/ CallPrepareAdd
  \/ CallMark \/ CallReset \/ CallEmpty

Spec == Init /\ [][Next]_vars

-----------------------------------------------------------------------------
(* Properties *)

\* Type invariant; the buffer has the length buflen says.
TypeOK ==
  /\ ba.offset \in Nat /\ ba.total \in Nat /\ ba.mark \in Nat /\ ba.buflen \in Nat
  /\ ba.buffer \in [0..(ba.buflen - 1) -> Byte \cup {Junk}]
  /\ ba.reading \in BOOLEAN
  /\ use \in Uses /\ fed \in Nat

\* Whatever the order of calls, no read or write leaves the buffer.
Bounds == ba.offset =< ba.total /\ ba.total =< ba.buflen

\* A caller that respects the modes never reads memory that was not written:
\* what growth adds and what empty leaves is never taken for data.
WrittenBeforeRead ==
  use # "any" =>
    \A i \in 0..((IF ba.reading THEN ba.total ELSE ba.offset) - 1) :
      ba.buffer[i] # Junk

\* Such a caller sees a queue of bytes: growth and the move of the unread
\* bytes in prepare_add lose, repeat and reorder nothing.
QueueOf == INSTANCE ByteQueue WITH
  data    <- [i \in 1..(IF ba.reading THEN ba.total ELSE ba.offset) |-> ba.buffer[i - 1]],
  taken   <- IF ba.reading THEN ba.offset ELSE 0,
  mark    <- ba.mark,
  reading <- ba.reading

ActsAsQueue ==
  [][use # "any" => QueueOf!Next \/ UNCHANGED QueueOf!vars]_vars

\* Strings whose bytes arrive in arbitrary pieces come out of GetString
\* whole and in order, and all of them once all bytes are there.
StringsWhole ==
  use = "feed" =>
    /\ Len(got) =< Len(Feed) /\ got = SubSeq(Feed, 1, Len(got))
    /\ fed = Len(FeedBytes) /\ ba.reading /\ ~StringFits(ba) => got = Feed

\* A number AddU30 appends to whatever the stream holds is what GetU30 reads
\* there, to its last byte, also when the buffer grows between two bytes of
\* it: every 32-bit number in a new stream, and Numbers anywhere.
U30RoundTrip ==
  ~ba.reading =>
    \A u \in IF ba = New(<<>>) THEN 0..(Word - 1) ELSE Numbers :
      LET b == ReadReady(AddU30(ba, u, [k \in 1..6 |-> TRUE]))
          c == [b EXCEPT !.offset = ba.offset]
      IN U30Value(c) = u /\ GetU30(c).offset = c.total

\* "available():uinteger get the available data length to read": never more
\* than the buffer holds.
AvailableIsReal == Available(ba) \in 0..ba.buflen
=============================================================================
