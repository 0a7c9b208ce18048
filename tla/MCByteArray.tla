---------------------------- MODULE MCByteArray ----------------------------
(* Small sizes for ByteArray: buffers of 2 bytes that double up to 4 and    *)
(* then grow by a quarter, digits of two bits, words of nine.               *)
EXTENDS ByteArray

MCChunks == {<<1>>, <<6, 7>>}
MCNumbers == {1, 300}
\* realloc works, fails, recovers after a failure, or fails for the bytes of a
\* string after its length is written.
MCMemory ==
  {[k \in 1..6 |-> TRUE], [k \in 1..6 |-> FALSE], [k \in 1..6 |-> k > 1],
   [k \in 1..6 |-> k < 6]}

MCFeed == <<<<6>>, <<>>, <<1, 2, 3, 4, 5>>>>
=============================================================================
