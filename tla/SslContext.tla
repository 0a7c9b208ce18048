---------------------------- MODULE SslContext -----------------------------
(***************************************************************************)
(* The SSL contexts of fan.tcpd (tcpd_ssl.c) and the servers that own one  *)
(* (tcpd_server.c).  A context is a Lua userdata.  Clients share one per   *)
(* cache key: the registry keeps it alive, a count says how many use it,   *)
(* and the last release takes it out of the registry.  A server makes one  *)
(* of its own.  Clients are made on thread "main" and end there or, with a *)
(* worker, on thread "io"; get_or_create and release read and change the   *)
(* registry and the count in two steps, which the two threads interleave.  *)
(***************************************************************************)
EXTENDS Naturals, FiniteSets

CONSTANTS
  SslClients, SslServers, CacheKeys,
  MaxContexts,    \* bound on the contexts ever made
  SslWorkers      \* whether clients may belong to a worker: a set of BOOLEAN

VARIABLES
  sctx,      \* tcpd_ssl_context_t
  registry,  \* the registry's entry for a cache key, 0 for none
  client,    \* the clients' share
  server,    \* tcpd_server_t and what the program got for it
  op,        \* each thread: the get_or_create or release under way
  workers    \* clients may end on thread "io"

sslVars == <<sctx, registry, client, server, op, workers>>

\* A cache key is not one of the words for "no operation" and "clearing".
ASSUME SslAssumption ==
  /\ MaxContexts \in Nat \ {0} /\ SslWorkers \in SUBSET BOOLEAN
  /\ IsFiniteSet(SslClients) /\ IsFiniteSet(SslServers)
  /\ CacheKeys \cap {"none", "clear"} = {}

Contexts == 1..MaxContexts
SslThreads == {"main", "io"}
NoOp == [kind |-> "none", client |-> "none", ctx |-> 0]

SslInit ==
  /\ sctx = [x \in Contexts |-> [made |-> FALSE, freed |-> FALSE, count |-> 0,
                                 key |-> "none", configured |-> FALSE]]
  /\ registry = [k \in CacheKeys |-> 0]
  /\ client = [c \in SslClients |-> [st |-> "new", ctx |-> 0]]
  /\ server = [s \in SslServers |-> [st |-> "new", ctx |-> 0, listening |-> FALSE,
                                     held |-> "nothing"]]
  /\ op = [t \in SslThreads |-> NoOp]
  /\ workers \in SslWorkers

Unmade == {x \in Contexts : ~sctx[x].made}

\* tcpd_ssl_context_create, then configure: made once, with a count of 1.
Created(key, configured) ==
  [made |-> TRUE, freed |-> FALSE, count |-> 1, key |-> key, configured |-> configured]

-----------------------------------------------------------------------------
(* Clients *)

\* The look-up of get_or_create: what it finds is on the Lua stack.
GetLooksUp(c, k) ==
  /\ op["main"] = NoOp
  /\ client[c].st = "new"
  /\ op' = [op EXCEPT !["main"] = [kind |-> k, client |-> c, ctx |-> registry[k]]]
  /\ UNCHANGED <<sctx, registry, client, server, workers>>

\* The context found is retained; otherwise one is made and registered.  A
\* context that could not be configured stays registered, its client has no
\* bufferevent, and the next client tries again.
RetainSkipped(x, ok) == [sctx EXCEPT ![x].configured = @ \/ ok]

Retained(x, ok) ==
  [sctx EXCEPT ![x] = [sctx[x] EXCEPT !.count = @ + 1, !.configured = @ \/ ok]]

tcpd_ssl_context_get_or_create(ok) ==
  LET o == op["main"] IN
  /\ o.kind \in CacheKeys
  /\ \/ /\ o.ctx # 0
        /\ sctx' = Retained(o.ctx, ok)
        /\ client' = [client EXCEPT ![o.client] = [st |-> "up", ctx |-> o.ctx]]
        /\ registry' = registry
     \/ /\ o.ctx = 0
        /\ \E x \in Unmade :
             /\ \A y \in Unmade : x <= y
             /\ sctx' = [sctx EXCEPT ![x] = Created(o.kind, ok)]
             /\ client' = [client EXCEPT ![o.client] = [st |-> "up", ctx |-> x]]
             /\ registry' = [registry EXCEPT ![o.kind] = x]
  /\ op' = [op EXCEPT !["main"] = NoOp]
  /\ UNCHANGED <<server, workers>>

\* The cleanup of a client releases its share: the count first, then, by the
\* thread that saw it reach 0, the registry entry.
Last(n) == n <= 1

ReleaseCounts(t, c) ==
  LET x == client[c].ctx IN
  /\ op[t] = NoOp
  /\ t = "main" \/ workers
  /\ client[c].st = "up"
  /\ client' = [client EXCEPT ![c] = [st |-> "ended", ctx |-> 0]]
  /\ sctx' = [sctx EXCEPT ![x].count = @ - 1]
  /\ op' = [op EXCEPT ![t] = IF Last(sctx[x].count)
                             THEN [kind |-> "clear", client |-> c, ctx |-> x] ELSE NoOp]
  /\ UNCHANGED <<registry, server, workers>>

ReleaseClears(t) ==
  /\ op[t].kind = "clear"
  /\ registry' = [registry EXCEPT ![sctx[op[t].ctx].key] = 0]
  /\ op' = [op EXCEPT ![t] = NoOp]
  /\ UNCHANGED <<sctx, client, server, workers>>

-----------------------------------------------------------------------------
(* Servers *)

\* tcpd_bind leaves the new context on the stack above the server, and returns
\* the top two values: the context and the port.  Nothing is returned when the
\* listener could not be made.
BoundObject(ssl) == IF ssl THEN "context" ELSE "server"

tcpd_bind(s, ssl, listening) ==
  /\ op["main"] = NoOp
  /\ server[s].st = "new"
  /\ \E x \in IF ssl THEN Unmade ELSE {0} :
       /\ \A y \in Unmade : x <= y
       /\ server' = [server EXCEPT ![s] =
                       [st |-> "up", ctx |-> x, listening |-> listening,
                        held |-> IF listening THEN BoundObject(ssl) ELSE "nothing"]]
       /\ sctx' = IF ssl THEN [sctx EXCEPT ![x] = Created("none", TRUE)] ELSE sctx
  /\ UNCHANGED <<registry, client, op, workers>>

\* The listener is freed and made again, or not.
tcpd_server_rebind(s, listening) ==
  /\ op["main"] = NoOp
  /\ server[s].held = "server"
  /\ server' = [server EXCEPT ![s].listening = listening]
  /\ UNCHANGED <<sctx, registry, client, op, workers>>

\* close and the finalizer; the count of a context without a key only goes down.
tcpd_server_gc(s, by) ==
  [server[s] EXCEPT !.st = by, !.listening = FALSE, !.ctx = 0]

\* Only a server without SSL is in the program's hands.
tcpd_server_close(s) ==
  /\ op["main"] = NoOp
  /\ server[s].held = "server" /\ server[s].st = "up"
  /\ server' = [server EXCEPT ![s] = tcpd_server_gc(s, "closed")]
  /\ UNCHANGED <<sctx, registry, client, op, workers>>

Forget(s) ==
  /\ server[s].held # "nothing"
  /\ server' = [server EXCEPT ![s].held = "nothing"]
  /\ UNCHANGED <<sctx, registry, client, op, workers>>

-----------------------------------------------------------------------------
(* The collector *)

\* What Lua can still reach: contexts in the registry, on the stack of a
\* get_or_create, or held by the program in the place of their server.
Reachable(x) ==
  \/ \E k \in CacheKeys : registry[k] = x
  \/ op["main"].kind \in CacheKeys /\ op["main"].ctx = x
  \/ \E s \in SslServers : server[s].ctx = x /\ server[s].held = "context"

\* One cycle finalizes every server and every context that is out of reach.
collectgarbage ==
  LET lost == {s \in SslServers : server[s].st = "up" /\ server[s].held # "server"}
      dead == {x \in Contexts : sctx[x].made /\ ~sctx[x].freed /\ ~Reachable(x)}
  IN  /\ lost # {} \/ dead # {}
      /\ server' = [s \in SslServers |-> IF s \in lost
                                   THEN tcpd_server_gc(s, "collected") ELSE server[s]]
      /\ sctx' = [x \in Contexts |->
                    [sctx[x] EXCEPT
                       !.freed = @ \/ x \in dead,
                       !.count = @ - Cardinality({s \in lost : server[s].ctx = x})]]
      /\ UNCHANGED <<registry, client, op, workers>>

-----------------------------------------------------------------------------
SslNext ==
  \/ \E c \in SslClients, k \in CacheKeys : GetLooksUp(c, k)
  \/ \E ok \in BOOLEAN : tcpd_ssl_context_get_or_create(ok)
  \/ \E t \in SslThreads : ReleaseClears(t) \/ \E c \in SslClients : ReleaseCounts(t, c)
  \/ \E s \in SslServers :
       \/ \E ssl, listening \in BOOLEAN : tcpd_bind(s, ssl, listening)
       \/ \E listening \in BOOLEAN : tcpd_server_rebind(s, listening)
       \/ tcpd_server_close(s)
       \/ Forget(s)
  \/ collectgarbage

SslSpec == SslInit /\ [][SslNext]_sslVars

-----------------------------------------------------------------------------
(* Properties *)

Users(x) == {c \in SslClients : client[c].ctx = x}

\* retain_count is exact: it is the number of connections that use the context,
\* whatever the threads interleave, and without workers every context in use is
\* the registered one for its key, so that it cannot be collected
\* (tcpd_ssl.c get_or_create and release).
SslShared ==
  \A x \in Contexts :
    /\ sctx[x].key # "none" => sctx[x].count = Cardinality(Users(x))
    /\ ~workers /\ Users(x) # {} => ~sctx[x].freed /\ registry[sctx[x].key] = x

\* serv = tcpd.bind(...) listens: the collector does not stop a server while the
\* program keeps what bind returned for it (tcpd_server.c tcpd_bind).
ListensWhileHeld ==
  \A s \in SslServers : server[s].held # "nothing" => server[s].st # "collected"
=============================================================================
