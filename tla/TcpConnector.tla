---------------------------- MODULE TcpConnector ----------------------------
(***************************************************************************)
(* The TCP connector, modules/fan/connector/tcp.lua: blocking send and     *)
(* receive for coroutines on top of the callbacks of one tcpd connection.  *)
(*                                                                         *)
(*   tc    the connector object: send_running and _sender_queue, receiving *)
(*         and receiving_expect, the bytes in _readstream, disconnected,   *)
(*         whether conn is still set, and whether the program has it yet   *)
(*   tnet  the connection below: its state, whether output is waiting to   *)
(*         be flushed, and how many bytes the peer still has to send       *)
(*   tco   the coroutines: what each of them is doing                      *)
(*   tlog  the order of the calls of send, the order the buffers were      *)
(*         given to tcpd, how many of them were flushed, and the receivers *)
(*         another receiver replaced                                       *)
(*                                                                         *)
(* A callback runs to its end, with the coroutines it resumes, before any  *)
(* other step: the connector is used from one thread.  Reading is paused   *)
(* and resumed inside one callback, which no other step can see.           *)
(***************************************************************************)
EXTENDS Integers, Sequences, FiniteSets

CONSTANTS TcpSenders,  \* coroutines that call send once
          TcpReaders,  \* coroutines that call receive and take the bytes
          TcpExpects,  \* the values of receive's argument
          TcpBytes     \* how many bytes the peer sends

ASSUME TcpAssumption ==
    /\ TcpSenders \cap TcpReaders = {}
    /\ TcpExpects \subseteq Nat \ {0}
    /\ TcpBytes \in Nat

VARIABLES tc, tnet, tco, tlog

tcpVars == <<tc, tnet, tco, tlog>>

TcpCallers == TcpSenders \cup TcpReaders \cup {"opener"}

(* No coroutine: a nil field. *)
NoCo == "none"

TcpInit ==
    /\ \E role \in {"client", "server"}, block \in BOOLEAN :
         tc = [role |-> role, simulate_send_block |-> block, given |-> FALSE,
               conn |-> FALSE, disconnected |-> FALSE,
               send_running |-> NoCo, queue |-> <<>>,
               receiving |-> NoCo, expect |-> 0, available |-> 0]
    /\ tnet = [state |-> "none", out |-> FALSE, left |-> TcpBytes]
    /\ tco = [c \in TcpCallers |-> [st |-> "idle", want |-> 0]]
    /\ tlog = [called |-> <<>>, written |-> <<>>, flushed |-> 0, lost |-> {}]

Doing(c, st) == [tco EXCEPT ![c].st = st]

-----------------------------------------------------------------------------
(* Opening: connect yields until a callback resumes it; bind's onaccept     *)
(* hands the program a connection that is up.                               *)

(* tcpd.connect may give a connection without a bufferevent, for which no  *)
(* callback ever comes.                                                    *)
tcp_connect(state, presend) ==
    /\ tc.role = "client" /\ tco["opener"].st = "idle"
    /\ tc' = [tc EXCEPT !.conn = TRUE]
    /\ tnet' = [tnet EXCEPT !.state = state, !.out = presend /\ state # "dead"]
    /\ tco' = Doing("opener", "connecting")
    /\ UNCHANGED tlog

tcp_onconnected ==
    /\ tnet.state = "connecting"
    /\ tnet' = [tnet EXCEPT !.state = "up"]
    /\ tc' = [tc EXCEPT !.given = TRUE]
    /\ tco' = Doing("opener", "connected")
    /\ UNCHANGED tlog

tcp_onaccept ==
    /\ tc.role = "server" /\ tnet.state = "none"
    /\ tnet' = [tnet EXCEPT !.state = "up"]
    /\ tc' = [tc EXCEPT !.conn = TRUE, !.given = TRUE]
    /\ UNCHANGED <<tco, tlog>>

-----------------------------------------------------------------------------
(* Sending. *)

tcp_send(c) ==
    /\ tc.given /\ tco[c].st = "idle"
    /\ \/ /\ tc.disconnected \/ ~tc.conn
          /\ tco' = Doing(c, "nil")
          /\ UNCHANGED <<tc, tnet, tlog>>
       \/ /\ ~tc.disconnected /\ tc.conn /\ tc.send_running # NoCo
          /\ tc' = [tc EXCEPT !.queue = Append(@, c)]
          /\ tco' = Doing(c, "queued")
          /\ tlog' = [tlog EXCEPT !.called = Append(@, c)]
          /\ UNCHANGED tnet
       \/ /\ ~tc.disconnected /\ tc.conn /\ tc.send_running = NoCo
          /\ tc' = IF tc.simulate_send_block THEN [tc EXCEPT !.send_running = c] ELSE tc
          /\ tnet' = [tnet EXCEPT !.out = TRUE]
          /\ tco' = Doing(c, IF tc.simulate_send_block THEN "sending" ELSE "sent")
          /\ tlog' = [tlog EXCEPT !.called = Append(@, c), !.written = Append(@, c)]

(* tcpd has flushed its output.  The first queued sender is resumed, and   *)
(* hands over its own buffer, before the sender whose buffer was flushed.  *)
tcp_onsendready ==
    /\ tnet.state = "up" /\ tnet.out
    /\ LET done == {tc.send_running} \ {NoCo}
           next == IF done # {} /\ tc.queue # <<>> THEN {Head(tc.queue)} ELSE {}
       IN /\ tc' = IF done = {} THEN tc
                   ELSE [tc EXCEPT !.send_running = IF next = {} THEN NoCo ELSE Head(tc.queue),
                                   !.queue = IF next = {} THEN @ ELSE Tail(@)]
          /\ tnet' = [tnet EXCEPT !.out = next # {}]
          /\ tco' = [c \in TcpCallers |-> IF c \in next THEN [tco[c] EXCEPT !.st = "sending"]
                                          ELSE IF c \in done THEN [tco[c] EXCEPT !.st = "sent"]
                                          ELSE tco[c]]
          /\ tlog' = [tlog EXCEPT !.flushed = Len(tlog.written),
                                  !.written = IF next = {} THEN @ ELSE Append(@, Head(tc.queue))]

-----------------------------------------------------------------------------
(* Receiving. *)

tcp_receive(c, n) ==
    /\ tc.given /\ tco[c].st = "idle"
    /\ \/ /\ tc.disconnected
          /\ tco' = Doing(c, "nil")
          /\ UNCHANGED <<tc, tlog>>
       \/ /\ ~tc.disconnected /\ tc.available >= n
          /\ tco' = [tco EXCEPT ![c] = [st |-> "got", want |-> n]]
          /\ UNCHANGED <<tc, tlog>>
       \/ /\ ~tc.disconnected /\ tc.available < n
          /\ tc' = [tc EXCEPT !.receiving = c, !.expect = n]
          /\ tco' = [tco EXCEPT ![c] = [st |-> "waiting", want |-> n]]
          /\ tlog' = [tlog EXCEPT !.lost = @ \cup ({tc.receiving} \ {NoCo})]
    /\ UNCHANGED tnet

(* The program reads what it waited for from the stream it was given. *)
TcpTake(c) ==
    /\ tco[c].st = "got"
    /\ tc' = [tc EXCEPT !.available = @ - (IF @ < tco[c].want THEN @ ELSE tco[c].want)]
    /\ tco' = [tco EXCEPT ![c] = [st |-> "idle", want |-> 0]]
    /\ UNCHANGED <<tnet, tlog>>

(* _onread(input): the receiver is resumed, with the stream or with nil,   *)
(* and clears its own registration.                                        *)
Wakes(k, input) == k.receiving # NoCo /\ (~input \/ k.available >= k.expect)

Unregistered(k, input) ==
    IF Wakes(k, input) THEN [k EXCEPT !.receiving = NoCo, !.expect = 0] ELSE k

Resumed(k, input) ==
    IF Wakes(k, input)
    THEN Doing(k.receiving, IF input THEN "got" ELSE "nil")
    ELSE tco

tcp_onread(n) ==
    /\ tnet.state = "up" /\ n \in 1..tnet.left
    /\ tnet' = [tnet EXCEPT !.left = @ - n]
    /\ LET k == [tc EXCEPT !.available = @ + n] IN
       /\ tc' = Unregistered(k, TRUE)
       /\ tco' = Resumed(k, TRUE)
    /\ UNCHANGED tlog

-----------------------------------------------------------------------------
(* The end. *)

(* Mutant: close tells nobody. *)
ClosedQuietly(k) == [k EXCEPT !.disconnected = TRUE, !.conn = FALSE]

(* close: the receiver gets nil and the connection is closed.  The senders *)
(* that wait, send_running and the queue, are not told.                    *)
tcp_Closed(k) ==
    [Unregistered(k, FALSE) EXCEPT !.disconnected = TRUE, !.conn = FALSE]

tcp_close ==
    /\ tc.given /\ tc.conn
    /\ tc' = tcp_Closed(tc)
    /\ tco' = Resumed(tc, FALSE)
    /\ tnet' = [tnet EXCEPT !.state = "closed", !.out = FALSE]
    /\ UNCHANGED tlog

(* The connection ended or could not be made.  A connect that still waits  *)
(* returns the disconnected connector.                                     *)
tcp_ondisconnected ==
    /\ tnet.state \in {"connecting", "up"}
    /\ tc' = [tcp_Closed(tc) EXCEPT !.given = TRUE]
    /\ tco' = IF tnet.state = "connecting" THEN Doing("opener", "connected")
              ELSE Resumed(tc, FALSE)
    /\ tnet' = [tnet EXCEPT !.state = "closed", !.out = FALSE]
    /\ UNCHANGED tlog

TcpNext ==
    \/ \E state \in {"connecting", "dead"}, presend \in BOOLEAN : tcp_connect(state, presend)
    \/ tcp_onconnected
    \/ tcp_onaccept
    \/ \E c \in TcpSenders : tcp_send(c)
    \/ tcp_onsendready
    \/ \E c \in TcpReaders, n \in TcpExpects : tcp_receive(c, n)
    \/ \E c \in TcpReaders : TcpTake(c)
    \/ \E n \in 1..TcpBytes : tcp_onread(n)
    \/ tcp_close
    \/ tcp_ondisconnected

(* The loop keeps running and a live peer keeps taking the output. *)
TcpFairness ==
    /\ WF_tcpVars(tcp_onsendready)
    /\ WF_tcpVars(tcp_onconnected \/ tcp_ondisconnected)

-----------------------------------------------------------------------------
(* Buffers reach tcpd in the order send was called, one at a time, and a   *)
(* blocking send returns only when its buffer has left tcpd's output.      *)
TcpInOrder ==
    /\ Len(tlog.written) <= Len(tlog.called)
    /\ tlog.written = SubSeq(tlog.called, 1, Len(tlog.written))
    /\ tc.simulate_send_block =>
         /\ Len(tlog.written) - tlog.flushed \in {0, 1}
         /\ \A i \in tlog.flushed + 1 .. Len(tlog.written) :
              tco[tlog.written[i]].st = "sending"

(* A coroutine that waits in receive is the registered one, or was          *)
(* replaced by a later receiver; the registered one really has to wait.     *)
TcpReceiverRegistered ==
    /\ {c \in TcpReaders : tco[c].st = "waiting"} = ({tc.receiving} \ {NoCo}) \cup tlog.lost
    /\ tc.receiving # NoCo =>
         tc.conn /\ ~tc.disconnected /\ tc.available < tc.expect

(* A sender that waits, in the queue or for the flush, returns from send,  *)
(* unless the connection ends: close and ondisconnected resume no sender.  *)
TcpSendReturns ==
    \A c \in TcpSenders :
        tco[c].st \in {"queued", "sending"} ~> tco[c].st = "sent" \/ ~tc.conn
=============================================================================
