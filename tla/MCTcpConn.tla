----------------------------- MODULE MCTcpConn -----------------------------
(* A connection, and beside it the SSL contexts that connections share.     *)
EXTENDS TcpConn, SslContext

VARIABLE which    \* the part a behaviour is about; the other stays as it began

allVars == <<vars, sslVars, which>>

MCInit ==
  /\ which \in {"connection", "contexts"}
  /\ Init
  /\ SslInit
  /\ which = "connection" => ~workers
  /\ which = "contexts" => cfg = [kind |-> "client", worker |-> FALSE, tls |-> TRUE]

ConnectionStep == which = "connection" /\ Next /\ UNCHANGED <<sslVars, which>>
ContextStep == which = "contexts" /\ SslNext /\ UNCHANGED <<vars, which>>

MCSpec ==
  /\ MCInit /\ [][ConnectionStep \/ ContextStep]_allVars
  /\ WF_vars(~log.crashed /\ Dispatch)
  /\ \A t \in Threads : SF_vars(~log.crashed /\ Steps(t))

\* The contexts alone.
SslOnly == MCInit /\ [][ContextStep]_allVars
=============================================================================
