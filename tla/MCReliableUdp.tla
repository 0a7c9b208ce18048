--------------------------- MODULE MCReliableUdp ---------------------------
(* Sessions of ReliableUdp to look at. *)
EXTENDS ReliableUdp

FromClient(parts) == [n \in Node |-> IF n = "cli" THEN parts ELSE <<>>]

Starts(c, s) == [cli |-> c, srv |-> s]

\* Two messages, with a window of one, that may both be on their way.
Plain ==
  [parts |-> FromClient(<<1, 1>>), window |-> [n \in Node |-> 1],
   waiting |-> 2, nonePaired |-> 1, first |-> {Starts(6, 6), Starts(7, 6)}, maxNet |-> 2,
   mayCancel |-> FALSE, sendMayFail |-> FALSE, mayDuplicate |-> TRUE, byName |-> FALSE]

\* The server's window is smaller than the client's.
Uneven == [Plain EXCEPT !.window = [cli |-> 1, srv |-> 0], !.first = {Starts(6, 6)},
                        !.mayDuplicate = FALSE]
\* Both ends send.
BothWays ==
  [Plain EXCEPT !.parts = [n \in Node |-> <<1>>], !.maxNet = 1, !.sendMayFail = TRUE,
                !.first = {Starts(6, 6), Starts(6, 7), Starts(7, 7)}]
\* Two parts, each of which may be given up.
Split ==
  [Plain EXCEPT !.parts = FromClient(<<2>>), !.first = {Starts(7, 7)}, !.maxNet = 1,
                !.mayCancel = TRUE, !.sendMayFail = TRUE]
\* The client hears nothing of what the server answers.
Unheard ==
  [Plain EXCEPT !.parts = FromClient(<<1>>), !.first = {Starts(6, 6), Starts(8, 6)},
                !.maxNet = 1,
                !.mayCancel = TRUE, !.mayDuplicate = FALSE, !.byName = TRUE]
\* One package may be on the wire at a time.
Throttled ==
  [Plain EXCEPT !.waiting = 1, !.first = {Starts(6, 6)}, !.maxNet = 1,
                !.sendMayFail = TRUE, !.mayDuplicate = FALSE]
\* The second index lies behind the wrap, outside the window of the first.
Wrapping == [Plain EXCEPT !.first = {Starts(7, 7)}, !.mayDuplicate = FALSE]

SafetySetups == {Plain, Uneven, Split, BothWays, Unheard, Throttled}
LiveSetups == {Wrapping}
DuplicateSetups == {Plain}
=============================================================================
