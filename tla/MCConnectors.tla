---------------------------- MODULE MCConnectors ----------------------------
(***************************************************************************)
(* The three connectors that block a coroutine, each explored by itself:   *)
(* `which' says the one a behaviour is about.                              *)
(***************************************************************************)
EXTENDS TcpConnector, FifoConnector, Popen

CONSTANTS s1, s2, r1, r2

MCSenders == {s1, s2}
MCReaders == {r1, r2}
MCReader == {r1}
MCExpects == {1, 2}
MCSizes == {1, 2, 3, 4}

(* With the connector, with and without onstderr; without it, with every    *)
(* callback, and with ondisconnected alone.                                 *)
MCSettings ==
    LET use(c, r, e) == [used |-> c, onread |-> r, onstderr |-> e,
                         ondisconnected |-> TRUE, capture_stderr |-> TRUE]
    IN {use(TRUE, TRUE, TRUE), use(TRUE, TRUE, FALSE),
        use(FALSE, TRUE, TRUE), use(FALSE, FALSE, FALSE)}

VARIABLE which

Init ==
    /\ which \in {"tcp", "fifo", "popen"} /\ TcpInit /\ FifoInit /\ PopenInit
    /\ which # "tcp" => tc.role = "client" /\ tc.simulate_send_block
    /\ which # "fifo" => fc.role = "client" /\ fc.simulate_send_block
    /\ which # "popen" => pp.set.used /\ pp.set.onstderr

Next ==
    \/ which = "tcp" /\ TcpNext /\ UNCHANGED <<which, fifoVars, popenVars>>
    \/ which = "fifo" /\ FifoNext /\ UNCHANGED <<which, tcpVars, popenVars>>
    \/ which = "popen" /\ PopenNext /\ UNCHANGED <<which, tcpVars, fifoVars>>

vars == <<which, tcpVars, fifoVars, popenVars>>

Spec == Init /\ [][Next]_vars

FairSpec == Spec /\ TcpFairness /\ FifoFairness /\ PopenFairness

-----------------------------------------------------------------------------
(* Buffers are written in the order of the calls, whole and once, and send  *)
(* returns after its last byte (send and _onsendready of tcp.lua, fifo.lua).*)
SendsInOrder == TcpInOrder /\ FifoInOrder

(* A receiver waits only while it is the one onread would resume and there  *)
(* is not enough for it (receive, _onread and close of the connectors).     *)
ReceiversRegistered ==
    TcpReceiverRegistered /\ FifoReceiverRegistered /\ PopenReceiverRegistered

(* A coroutine inside send comes back, except in the cases the connectors   *)
(* leave it there for good (each of the three properties names them).       *)
SendsReturn == TcpSendReturns /\ FifoSendReturns /\ PopenSendReturns
=============================================================================
