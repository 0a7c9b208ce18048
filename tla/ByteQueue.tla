----------------------------- MODULE ByteQueue -----------------------------
(***************************************************************************)
(* What a stream promises a caller that calls prepare_get before it reads  *)
(* and prepare_add before it writes: bytes are added at the end, taken     *)
(* from the front, and may be taken again from the mark until the next     *)
(* prepare_add.                                                            *)
(***************************************************************************)
EXTENDS Integers, Sequences

VARIABLES data, taken, mark, reading

vars == <<data, taken, mark, reading>>

Init == data = <<>> /\ taken = 0 /\ mark = 0 /\ reading = FALSE

Add ==
  /\ ~reading
  /\ Len(data') >= Len(data)
  /\ data = SubSeq(data', 1, Len(data))
  /\ UNCHANGED <<taken, mark, reading>>

Take ==
  /\ reading
  /\ taken' \in taken..Len(data)
  /\ UNCHANGED <<data, mark, reading>>

PrepareGet ==
  /\ ~reading /\ reading' = TRUE
  /\ UNCHANGED <<data, taken, mark>>

PrepareAdd ==
  /\ reading /\ reading' = FALSE
  /\ data' = SubSeq(data, taken + 1, Len(data))
  /\ taken' = 0 /\ mark' = 0

Mark == reading /\ mark' = taken /\ UNCHANGED <<data, taken, reading>>

Reset ==
  /\ reading /\ mark =< Len(data)
  /\ taken' = mark
  /\ UNCHANGED <<data, mark, reading>>

Empty ==
  /\ data' = <<>> /\ taken' = 0
  /\ UNCHANGED <<mark, reading>>

Next == Add \/ Take \/ PrepareGet \/ PrepareAdd \/ Mark \/ Reset \/ Empty

Spec == Init /\ [][Next]_vars
=============================================================================
