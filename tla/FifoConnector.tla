--------------------------- MODULE FifoConnector ----------------------------
(***************************************************************************)
(* One end of a FIFO connection: modules/fan/connector/fifo.lua over the   *)
(* non-blocking pipes of src/fifo.c.  Each end writes to one named pipe    *)
(* and reads from another; the ends tell each other the names first.       *)
(*                                                                         *)
(*   fc    the connector: whether _fifo_write and _fifo_read are set, the  *)
(*         one-shot write event, send_running and the two queues (the      *)
(*         output queue holds the pieces still to be written, each with    *)
(*         the coroutine it came from), receiving, _readstream             *)
(*   peer  the other end: whether it still holds its ends, the bytes in    *)
(*         the pipe it reads, the bytes it has yet to send                 *)
(*   fco   the coroutines: what each is doing and with how many bytes      *)
(*   flog  the calls of send in order, the owner of every byte written,    *)
(*         and the receivers another receiver replaced                     *)
(*                                                                         *)
(* Sizes are counted in units; MAX_LINE_SIZE is 8192 bytes in the code.    *)
(***************************************************************************)
EXTENDS Integers, Sequences, FiniteSets, SequencesExt

CONSTANTS FifoSenders,    \* coroutines that call send once
          FifoReaders,    \* coroutines that call receive
          FifoSizes,      \* the sizes of the buffers sent
          FifoExpects,    \* the values of receive's argument
          MAX_LINE_SIZE,  \* the size of a piece
          PipeSize,       \* how much the pipe holds
          FifoBytes       \* how many bytes the peer sends

ASSUME FifoAssumption ==
    /\ FifoSenders \cap FifoReaders = {}
    /\ FifoSizes \subseteq Nat /\ FifoExpects \subseteq Nat \ {0}
    /\ MAX_LINE_SIZE \in Nat \ {0} /\ PipeSize \in Nat \ {0} /\ FifoBytes \in Nat

VARIABLES fc, peer, fco, flog

fifoVars == <<fc, peer, fco, flog>>

FifoCallers == FifoSenders \cup FifoReaders \cup {"opener"}

Nobody == "none"

FifoInit ==
    /\ \E role \in {"client", "server"}, block \in BOOLEAN :
         fc = [role |-> role, simulate_send_block |-> block, given |-> FALSE,
               disconnected |-> FALSE, write |-> FALSE, read |-> FALSE, write_ev |-> FALSE,
               send_running |-> Nobody, queue |-> <<>>, output |-> <<>>,
               receiving |-> Nobody, expect |-> 0, available |-> 0]
    /\ peer = [there |-> TRUE, pipe |-> 0, left |-> FifoBytes]
    /\ fco = [c \in FifoCallers |-> [st |-> "idle", n |-> 0]]
    /\ flog = [called |-> <<>>, wrote |-> <<>>, lost |-> {}]

Now(c, st) == [fco EXCEPT ![c].st = st]

-----------------------------------------------------------------------------
(* The output queue. *)

(* for i = 0, floor(n / MAX): the piece after a whole number of them is "". *)
Pieces(n) ==
    IF n > MAX_LINE_SIZE
    THEN [i \in 1..(n \div MAX_LINE_SIZE) + 1 |->
             IF i * MAX_LINE_SIZE <= n THEN MAX_LINE_SIZE
             ELSE n - (i - 1) * MAX_LINE_SIZE]
    ELSE <<n>>

(* luafan_fifo_connect: an end opened for reading gets a read event; one   *)
(* opened for writing needs a reader at the other end, and gets a one-shot *)
(* write event that is added at once.                                      *)
luafan_fifo_connect(k, rwmode) ==
    IF rwmode = "r" THEN [k EXCEPT !.read = TRUE]
    ELSE IF peer.there THEN [k EXCEPT !.write = TRUE, !.write_ev = TRUE]
    ELSE k

luafan_fifo_send_request(k) == [k EXCEPT !.write_ev = k.write]

(* send, once c need not wait for another sender: its pieces are queued,   *)
(* the write event is added and, when sends block, c is send_running.      *)
Enqueued(k, c, n) ==
    [luafan_fifo_send_request(k) EXCEPT
        !.output = @ \o [i \in DOMAIN Pieces(n) |-> [who |-> c, n |-> Pieces(n)[i]]],
        !.send_running = IF k.simulate_send_block THEN c ELSE @]

fifo_send(c, n) ==
    /\ fc.given /\ fco[c].st = "idle"
    /\ LET doing(st) == [fco EXCEPT ![c] = [st |-> st, n |-> n]]
           called == [flog EXCEPT !.called = Append(@, c)]
       IN \/ /\ fc.disconnected \/ ~fc.write
             /\ fco' = doing("nil")
             /\ UNCHANGED <<fc, flog>>
          \/ /\ ~fc.disconnected /\ fc.write /\ fc.send_running # Nobody
             /\ fc' = [fc EXCEPT !.queue = Append(@, c)]
             /\ fco' = doing("queued")
             /\ flog' = called
          \/ /\ ~fc.disconnected /\ fc.write /\ fc.send_running = Nobody
             /\ fc' = Enqueued(fc, c, n)
             /\ fco' = doing(IF fc.simulate_send_block THEN "sending" ELSE "left")
             /\ flog' = called
    /\ UNCHANGED peer

-----------------------------------------------------------------------------
(* _onread(input): the registered receiver is taken off and resumed.       *)
FifoWakes(k, input) == k.receiving # Nobody /\ (~input \/ k.available >= k.expect)

FifoUnregistered(k, input) ==
    IF FifoWakes(k, input) THEN [k EXCEPT !.receiving = Nobody, !.expect = 0] ELSE k

(* close: the receiver gets nil, both pipes are closed (luafan_fifo_close  *)
(* frees their events), send_running gets nil; queued senders are not told. *)
fifo_Closed(k) ==
    [FifoUnregistered(k, FALSE) EXCEPT
        !.disconnected = TRUE, !.write = FALSE, !.read = FALSE, !.write_ev = FALSE,
        !.send_running = Nobody]

Told(k) ==
    [c \in FifoCallers |-> IF c \in {k.receiving, k.send_running}
                           THEN [fco[c] EXCEPT !.st = "nil"] ELSE fco[c]]

fifo_close ==
    /\ fc.given /\ (fc.write \/ fc.read)
    /\ fc' = fifo_Closed(fc)
    /\ fco' = Told(fc)
    /\ UNCHANGED <<peer, flog>>

-----------------------------------------------------------------------------
(* luafan_fifo_send keeps write's result in a size_t, here of 8 bits.      *)
SizeT(r) == r % 256

WriteFailed(r) == SizeT(r) <= 0

(* What write(2) returns for n bytes: -1 when nobody reads the pipe or it  *)
(* has too little room, the part that fits, or everything.                 *)
WriteResults(n) ==
    LET room == PipeSize - peer.pipe IN
    IF ~peer.there THEN {-1}
    ELSE IF room >= n THEN {n}
    ELSE {-1} \cup (IF room > 0 THEN {room} ELSE {})

(* Mutant: what a partial write left over is sent again from its start. *)
WrittenWhole(q, sent) == IF sent < Head(q).n THEN q ELSE Tail(q)

(* The output queue after `sent' bytes of its head were written. *)
Written(q, sent) ==
    IF sent < Head(q).n THEN <<[Head(q) EXCEPT !.n = @ - sent]>> \o Tail(q)
    ELSE Tail(q)

(* The write event fires when the pipe has room or its reader is gone.     *)
Writable ==
    fc.write /\ fc.write_ev /\ (peer.pipe < PipeSize \/ ~peer.there)

(* _onsendready with something to write.  A write counted as failed that   *)
(* is not "try again" calls ondisconnected, that is close.  An empty piece *)
(* is not written and stays where it is.                                   *)
WritePiece(r) ==
    LET piece == Head(fc.output)
        ended == piece.n > 0 /\ WriteFailed(r) /\ ~peer.there
        sent  == IF piece.n = 0 \/ r < 0 THEN 0 ELSE r
    IN /\ fc' = IF ended THEN fifo_Closed(fc)
                ELSE IF sent > 0 THEN [fc EXCEPT !.output = Written(@, sent)] ELSE fc
       /\ fco' = IF ended THEN Told(fc) ELSE fco
       /\ peer' = [peer EXCEPT !.pipe = @ + sent]
       /\ flog' = [flog EXCEPT !.wrote = @ \o [j \in 1..sent |-> piece.who]]

(* Mutant: the queue is left alone. *)
FinishSendAlone ==
    /\ fc' = [fc EXCEPT !.send_running = Nobody, !.given = @ \/ fc.send_running = "opener"]
    /\ fco' = Now(fc.send_running, "sent")
    /\ UNCHANGED <<peer, flog>>

(* _onsendready with everything written: the first queued sender, then the *)
(* one that waited.  The acceptor's handshake is sent this way, and        *)
(* onaccept follows it.                                                    *)
FinishSend ==
    LET done  == fc.send_running
        freed == [fc EXCEPT !.send_running = Nobody,
                            !.given = @ \/ done = "opener",
                            !.queue = IF @ = <<>> THEN @ ELSE Tail(@)]
    IN /\ IF fc.queue = <<>>
          THEN /\ fc' = freed
               /\ fco' = Now(done, "sent")
          ELSE /\ fc' = Enqueued(freed, Head(fc.queue), fco[Head(fc.queue)].n)
               /\ fco' = [fco EXCEPT ![done].st = "sent", ![Head(fc.queue)].st = "sending"]
       /\ UNCHANGED <<peer, flog>>

fifo_onsendready ==
    /\ Writable
    /\ \/ /\ fc.output # <<>>
          /\ \E r \in WriteResults(Head(fc.output).n) : WritePiece(r)
       \/ /\ fc.output = <<>> /\ fc.send_running # Nobody
          /\ FinishSend
       \/ /\ fc.output = <<>> /\ fc.send_running = Nobody
          /\ fc' = [fc EXCEPT !.write_ev = FALSE]
          /\ UNCHANGED <<peer, fco, flog>>

-----------------------------------------------------------------------------
(* Opening.  A client opens the server's pipe, which fails when nobody     *)
(* reads it, sends the name of the pipe it will read, and waits.           *)
fifo_connect(ok) ==
    /\ fc.role = "client" /\ fco["opener"].st = "idle"
    /\ fco' = Now("opener", IF ok THEN "connecting" ELSE "nil")
    /\ fc' = IF ok THEN luafan_fifo_connect(fc, "r") ELSE fc
    /\ UNCHANGED <<peer, flog>>

(* The first thing read is the name of the pipe to write to, with n bytes  *)
(* of data behind it; connect returns whether or not the pipe opens.       *)
fifo_onread_name(n) ==
    /\ fc.role = "client" /\ fco["opener"].st = "connecting"
    /\ n \in 0..peer.left /\ (~peer.there => n = peer.left)
    /\ fc' = [luafan_fifo_connect(fc, "w") EXCEPT !.given = TRUE, !.available = n]
    /\ fco' = Now("opener", "sent")
    /\ peer' = [peer EXCEPT !.left = @ - n]
    /\ UNCHANGED flog

(* bind's onread: the pipe named by the client is opened, and answered     *)
(* with the name of the pipe to read, of the smallest size.                *)
fifo_bind_onread ==
    /\ fc.role = "server" /\ fco["opener"].st = "idle"
    /\ LET k == luafan_fifo_connect(luafan_fifo_connect(fc, "w"), "r") IN
       IF k.write
       THEN /\ fc' = [Enqueued(k, "opener", 1) EXCEPT !.given = ~fc.simulate_send_block]
            /\ fco' = [fco EXCEPT !["opener"] =
                         [st |-> IF fc.simulate_send_block THEN "sending" ELSE "left", n |-> 1]]
            /\ flog' = [flog EXCEPT !.called = Append(@, "opener")]
       ELSE /\ fc' = [k EXCEPT !.given = TRUE]
            /\ fco' = Now("opener", "nil")
            /\ UNCHANGED flog
    /\ UNCHANGED peer

-----------------------------------------------------------------------------
(* Receiving.  At the end of the peer's data the persistent read event     *)
(* keeps firing, and nothing changes: luafan_fifo_connect drops the        *)
(* ondisconnected of a pipe opened for reading.                            *)
fifo_onread(n) ==
    /\ fc.read /\ (fc.role = "client" => fc.write)
    /\ n \in 1..peer.left
    /\ peer' = [peer EXCEPT !.left = @ - n]
    /\ LET k == [fc EXCEPT !.available = @ + n] IN
       /\ fc' = FifoUnregistered(k, TRUE)
       /\ fco' = IF FifoWakes(k, TRUE) THEN Now(k.receiving, "got") ELSE fco
    /\ UNCHANGED flog

fifo_receive(c, n) ==
    /\ fc.given /\ fco[c].st = "idle"
    /\ \/ /\ fc.disconnected
          /\ fco' = Now(c, "nil")
          /\ UNCHANGED <<fc, flog>>
       \/ /\ ~fc.disconnected /\ fc.available >= n
          /\ fco' = [fco EXCEPT ![c] = [st |-> "got", n |-> n]]
          /\ UNCHANGED <<fc, flog>>
       \/ /\ ~fc.disconnected /\ fc.available < n
          /\ fc' = [fc EXCEPT !.receiving = c, !.expect = n]
          /\ fco' = [fco EXCEPT ![c] = [st |-> "waiting", n |-> n]]
          /\ flog' = [flog EXCEPT !.lost = @ \cup ({fc.receiving} \ {Nobody})]
    /\ UNCHANGED peer

FifoTake(c) ==
    /\ fco[c].st = "got"
    /\ fc' = [fc EXCEPT !.available = @ - (IF @ < fco[c].n THEN @ ELSE fco[c].n)]
    /\ fco' = [fco EXCEPT ![c] = [st |-> "idle", n |-> 0]]
    /\ UNCHANGED <<peer, flog>>

(* The other end. *)
PeerReads ==
    /\ peer.there /\ peer.pipe > 0
    /\ peer' = [peer EXCEPT !.pipe = @ - 1]
    /\ UNCHANGED <<fc, fco, flog>>

PeerLeaves ==
    /\ peer.there
    /\ peer' = [peer EXCEPT !.there = FALSE]
    /\ UNCHANGED <<fc, fco, flog>>

FifoNext ==
    \/ \E ok \in BOOLEAN : fifo_connect(ok)
    \/ \E n \in 0..FifoBytes : fifo_onread_name(n)
    \/ fifo_bind_onread
    \/ \E c \in FifoSenders, n \in FifoSizes : fifo_send(c, n)
    \/ fifo_onsendready
    \/ \E n \in 1..FifoBytes : fifo_onread(n)
    \/ \E c \in FifoReaders, n \in FifoExpects : fifo_receive(c, n)
    \/ \E c \in FifoReaders : FifoTake(c)
    \/ fifo_close
    \/ PeerReads
    \/ PeerLeaves

(* The loop dispatches the write event while it fires, and a peer that is  *)
(* there reads.                                                            *)
FifoFairness ==
    /\ WF_fifoVars(fifo_onsendready)
    /\ WF_fifoVars(PeerReads)

-----------------------------------------------------------------------------
(* Every byte written belongs to the sends in the order they were called,  *)
(* none missing, none twice, and a send that returned has written all.     *)
BytesOf(calls) == FlattenSeq([i \in DOMAIN calls |-> [j \in 1..fco[calls[i]].n |-> calls[i]]])

FifoInOrder ==
    /\ IsPrefix(flog.wrote, BytesOf(flog.called))
    /\ \A c \in FifoCallers : fco[c].st = "sent" /\ c \in Range(flog.called) =>
         Len(SelectSeq(flog.wrote, LAMBDA d : d = c)) = fco[c].n

(* A coroutine that waits in receive is the registered one or was replaced *)
(* by a later receiver; the registered one has really something to wait    *)
(* for.                                                                    *)
FifoReceiverRegistered ==
    /\ {c \in FifoReaders : fco[c].st = "waiting"} = ({fc.receiving} \ {Nobody}) \cup flog.lost
    /\ fc.receiving # Nobody => ~fc.disconnected /\ fc.available < fc.expect

(* The end is such that a sender cannot be served any more: the connector  *)
(* was closed, nobody reads the pipe, or an empty piece blocks the queue.  *)
Unwritable ==
    ~fc.write \/ ~peer.there \/ \E i \in DOMAIN fc.output : fc.output[i].n = 0

(* A sender that waits returns from send, unless the end is Unwritable. *)
FifoSendReturns ==
    \A c \in FifoSenders :
        fco[c].st \in {"queued", "sending"} ~> fco[c].st = "sent" \/ Unwritable
=============================================================================
