------------------------------- MODULE MCHttp -------------------------------
(* The two sides of HTTP: a request of the server, and beside it requests   *)
(* of the client in programs that each pair the features that can disturb   *)
(* one another.                                                             *)
EXTENDS HttpRequest, HttpClient

CONSTANTS r1, r2

MCReqs == {r1, r2}

Simple == [uses |-> {}, reqs |-> {r1, r2}, dnsOk |-> TRUE]

MCPrograms ==
  { Simple,
    [uses |-> {"startup", "sleep"}, reqs |-> {r1}, dnsOk |-> TRUE],
    [uses |-> {"evdns"}, reqs |-> {r1}, dnsOk |-> TRUE],
    [uses |-> {"workers"}, reqs |-> {r1}, dnsOk |-> TRUE],
    [uses |-> {"cleanup"}, reqs |-> {r1}, dnsOk |-> FALSE],
    [uses |-> Features, reqs |-> {}, dnsOk |-> TRUE] }

VARIABLE which    \* the side a behaviour is about; the other stays as it began

allVars == <<vars, hvars, which>>

MCInit ==
  /\ which \in {"server", "client"}
  /\ Init /\ ClientInit
  /\ which = "server" => prog = Simple

ServerStep == which = "server" /\ Next /\ UNCHANGED <<hvars, which>>
ClientStep == which = "client" /\ ClientNext /\ UNCHANGED <<vars, which>>

\* The fairness of both sides; nothing the client's names is enabled while the
\* server is looked at.
MCSpec ==
  /\ MCInit /\ [][ServerStep \/ ClientStep]_allVars
  /\ WF_vars(which = "server" /\ \E c \in Coroutines : Stop(c))
  /\ SF_vars(Read) /\ SF_vars(EventCb) /\ SF_vars(DeferredFree)
  /\ ClientFairness
=============================================================================
