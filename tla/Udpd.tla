------------------------------- MODULE Udpd --------------------------------
(* fan.udpd: the life of UDP connections (udpd.c, udpd_event.c) and of the  *)
(* name look-ups that udpd.new, make_dest and make_dests wait for           *)
(* (udpd_dns.c).  Everything runs on the loop's thread.  A DNS callback     *)
(* resumes the waiting coroutine and goes on working on the connection or   *)
(* the request when that coroutine yields again: "frame" names the callback *)
(* under the Lua code that runs.  Descriptors are numbered as the kernel    *)
(* does, the lowest free one first, so that a forgotten event would watch   *)
(* another connection's socket.                                             *)
EXTENDS Naturals, FiniteSets, FiniteSetsExt

CONSTANTS
  Conns,        \* connection objects
  Asks,         \* calls of make_dest and make_dests
  Tables,       \* the argument tables of udpd.new
  MaxFds,       \* descriptors
  MaxData,      \* datagrams waiting at one socket
  MaxCalls      \* calls of the program on its connections

VARIABLES
  conn,         \* udpd_base_conn_t, and what the program holds of it
  ask,          \* udpd_dns_request_t of a destination, and its caller
  dns,          \* the look-ups evdns has accepted and not answered
  socks,        \* open descriptors
  queue,        \* datagrams waiting at a descriptor
  frame,        \* the DNS callback whose resumed coroutine is running
  calls

vars == <<conn, ask, dns, socks, queue, frame, calls>>

NoFrame == "loop"

\* A table gives each option or does not; its target is a name, an address, none
\* at all, or it is spoilt by a port out of range.
ASSUME UdpdAssumption ==
  /\ Conns \cap Asks = {} /\ NoFrame \notin Conns \cup Asks
  /\ MaxFds \in Nat \ {0}
  /\ IsFiniteSet(Conns) /\ Cardinality(Conns) =< MaxFds
  /\ Tables \subseteq [target : {"name", "address", "none", "bad_port"}, onread : BOOLEAN,
                       onsend : BOOLEAN, bindHost : BOOLEAN, selfFirst : BOOLEAN]

Fds == 1..MaxFds

\* udpd_base_conn_init: no socket (0 here), no events, no references.
Blank == [state |-> "unborn", fd |-> 0, rev |-> 0, radd |-> FALSE, wev |-> 0,
          wadd |-> FALSE, onread |-> FALSE, onsend |-> FALSE, ref |-> FALSE,
          req |-> "none", addr |-> FALSE, bindHost |-> FALSE, weak |-> FALSE,
          selfFirst |-> FALSE, held |-> FALSE, co |-> "running", self |-> "-"]

Unasked == [co |-> "running", ref |-> FALSE, req |-> "none", got |-> "-"]

Init ==
  /\ conn = [c \in Conns |-> Blank]
  /\ ask = [a \in Asks |-> Unasked]
  /\ dns = {}
  /\ socks = {}
  /\ queue = [f \in Fds |-> 0]
  /\ frame = NoFrame
  /\ calls = 0

Free == Min(Fds \ socks)

\* The socket c.fd is closed, what waited there is gone.
Closing(c) ==
  /\ socks' = socks \ {c.fd}
  /\ queue' = [f \in Fds |-> IF f = c.fd THEN 0 ELSE queue[f]]

-----------------------------------------------------------------------------
(* Setting a connection up.  "out" says which step the system refuses.     *)

udpd_base_conn_create_socket(c, fd, out) ==
  CASE out = "socket" -> c
    [] out = "option" -> [c EXCEPT !.state = "ERROR"]
    [] OTHER -> [c EXCEPT !.fd = fd, !.state = "BINDING"]

udpd_base_conn_bind(c, out) ==
  IF out = "bind" THEN c ELSE [c EXCEPT !.state = "BOUND"]

\* The read event is added at once, the write event when send_req asks.
EventsUnadded(c, out) ==
  IF out = "events" THEN [c EXCEPT !.state = "ERROR"]
  ELSE [c EXCEPT !.state = "READY",
                 !.rev = IF c.onread THEN c.fd ELSE 0,
                 !.wev = IF c.onsend THEN c.fd ELSE 0, !.wadd = FALSE]

udpd_base_conn_setup_events(c, out) ==
  IF out = "events" THEN [c EXCEPT !.state = "ERROR"]
  ELSE [c EXCEPT !.state = "READY",
                 !.rev = IF c.onread THEN c.fd ELSE 0, !.radd = c.onread,
                 !.wev = IF c.onsend THEN c.fd ELSE 0, !.wadd = FALSE]

Refusals(binds, c) ==
  {"socket", "option"} \cup (IF binds THEN {"bind"} ELSE {})
                       \cup (IF c.onread \/ c.onsend THEN {"events"} ELSE {})

\* Socket, bind and events in turn, stopping at the refused step.
SetUp(c, fd, binds, out) ==
  LET s == udpd_base_conn_create_socket(c, fd, out)
      b == IF binds THEN udpd_base_conn_bind(s, out) ELSE s
  IN  CASE out \in {"socket", "option"} -> s
        [] out = "bind" -> b
        [] OTHER -> udpd_base_conn_setup_events(b, out)

\* close and the finalizer free everything the object owns.
udpd_base_conn_cleanup(c) ==
  [c EXCEPT !.onread = FALSE, !.onsend = FALSE, !.ref = FALSE, !.rev = 0,
            !.radd = FALSE, !.wev = 0, !.wadd = FALSE, !.fd = 0, !.req = "none",
            !.bindHost = FALSE, !.state = "DISCONNECTED"]

-----------------------------------------------------------------------------
(* udpd.new                                                                 *)

\* The fields read from the table; the running coroutine is anchored.
Described(t) ==
  [Blank EXCEPT !.state = "DISCONNECTED", !.onread = t.onread,
                !.onsend = t.onsend, !.bindHost = t.bindHost,
                !.selfFirst = t.selfFirst, !.ref = TRUE]

\* luaL_error for a bind_port out of range, before the coroutine is anchored.
BadBindPort(c, t) ==
  /\ conn' = [conn EXCEPT ![c] = [Described(t) EXCEPT !.ref = FALSE]]
  /\ UNCHANGED <<dns, socks, queue>>

\* With an address, or with none to talk to, the socket is made at once.  Only
\* the second form records the object for callback_self_first.
NewAtOnce(c, t, named) ==
  LET d == [Described(t) EXCEPT !.addr = named]
      binds == ~named \/ t.bindHost
  IN  \/ /\ conn' = [conn EXCEPT ![c] =
                       [SetUp(d, Free, binds, "ok") EXCEPT
                          !.held = TRUE, !.weak = ~named /\ t.selfFirst]]
         /\ socks' = socks \cup {Free}
         /\ UNCHANGED <<dns, queue>>
      \/ \E out \in Refusals(binds, d) :
           /\ conn' = [conn EXCEPT ![c] =
                         udpd_base_conn_cleanup(SetUp(d, Free, binds, out))]
           /\ UNCHANGED <<dns, socks, queue>>

\* A look-up that cannot start, or that evdns answers while the state is not
\* yet RESOLVING and the callback ignores, makes udpd.new fail.
udpd_dns_resolve_for_connection(c, t) ==
  /\ \/ /\ conn' = [conn EXCEPT ![c] =
                      [Described(t) EXCEPT !.state = "RESOLVING", !.req = "live",
                                           !.weak = t.selfFirst, !.co = "yielded"]]
        /\ dns' = dns \cup {c}
     \/ /\ conn' = [conn EXCEPT ![c] = udpd_base_conn_cleanup(Described(t))]
        /\ dns' = dns
  /\ UNCHANGED <<socks, queue>>

udpd_new(c) ==
  /\ conn[c].state = "unborn"
  /\ \E t \in Tables :
       CASE t.target = "name" -> udpd_dns_resolve_for_connection(c, t)
         [] t.target = "bad_port" -> BadBindPort(c, t)
         [] OTHER -> NewAtOnce(c, t, t.target = "address")
  /\ UNCHANGED <<ask, frame, calls>>

\* The look-up of udpd.new ends: the waiting coroutine gets the object out of
\* the weak table, or nil and a message.
UnresolvedUntold(d) == [d EXCEPT !.state = "ERROR"]

Unresolved(d) == [d EXCEPT !.co = "resumed", !.state = "ERROR"]

Resolved(d, out) ==
  LET s == SetUp(d, Free, d.bindHost, out)
  IN  IF out = "ok" THEN [s EXCEPT !.co = "resumed", !.held = s.weak]
                    ELSE [s EXCEPT !.co = "resumed", !.state = "ERROR"]

udpd_conn_dns_callback(c) ==
  /\ frame = NoFrame /\ c \in dns /\ dns' = dns \ {c}
  /\ \E out \in {"fail", "ok"} \cup Refusals(conn[c].bindHost, conn[c]) :
       LET d == [conn[c] EXCEPT !.addr = out # "fail"]
           r == IF out = "fail" THEN Unresolved(d) ELSE Resolved(d, out)
       IN  /\ conn' = [conn EXCEPT ![c] = r]
           /\ socks' = socks \cup ({r.fd} \ {0})
  /\ frame' = c
  /\ UNCHANGED <<ask, queue, calls>>

\* The resumed coroutine has yielded or ended: the rest of the callback.  What
\* it touches is the connection, which may have been closed, rebound or
\* collected meanwhile.
ConnDnsReturns(c) ==
  /\ frame = c /\ frame' = NoFrame
  /\ conn' = [conn EXCEPT ![c].ref = FALSE, ![c].req = "none"]
  /\ UNCHANGED <<ask, dns, socks, queue, calls>>

-----------------------------------------------------------------------------
(* make_dest and make_dests                                                 *)

\* A host name outside a coroutine raises an error, and a port out of range
\* gets no look-up: the function returns -1 as its number of results.  When
\* evdns answers before it returns, the callback resumes the coroutine that is
\* calling: Lua refuses and puts its message in the place of the results.  Lua
\* 5.4 leaves the number of results to pop unset: the stack may look empty, and
\* the request, already freed, is freed again.
udpd_dns_resolve_for_destination(a) ==
  \/ /\ \E got \in {"raised", "no_port"} : ask' = [ask EXCEPT ![a].got = got]
     /\ dns' = dns
  \/ /\ \/ ask' = [ask EXCEPT ![a].got = "message", ![a].req = "freed"]
        \/ ask' = [ask EXCEPT ![a].got = "junk", ![a].req = "freed_twice"]
     /\ dns' = dns
  \/ /\ ask' = [ask EXCEPT ![a] = [co |-> "yielded", ref |-> TRUE,
                                   req |-> "live", got |-> "-"]]
     /\ dns' = dns \cup {a}

\* udpd_conn_make_dest and udpd_conn_make_dests: an address needs no look-up.
make_dest(a) ==
  /\ ask[a] = Unasked
  /\ \/ /\ \E got \in {"dest", "nil"} : ask' = [ask EXCEPT ![a].got = got]
        /\ dns' = dns
     \/ udpd_dns_resolve_for_destination(a)
  /\ UNCHANGED <<conn, socks, queue, frame, calls>>

udpd_dest_dns_callback(a) ==
  /\ frame = NoFrame /\ a \in dns /\ dns' = dns \ {a}
  /\ \E got \in {"dest", "nil"} :
       ask' = [ask EXCEPT ![a].co = "resumed", ![a].got = got]
  /\ frame' = a
  /\ UNCHANGED <<conn, socks, queue, calls>>

DestDnsReturns(a) ==
  /\ frame = a /\ frame' = NoFrame
  /\ ask' = [ask EXCEPT ![a].ref = FALSE, ![a].req = "freed"]
  /\ UNCHANGED <<conn, dns, socks, queue, calls>>

-----------------------------------------------------------------------------
(* The program's calls, at the top of the loop or inside a DNS callback     *)

Call(c) ==
  /\ conn[c].held
  /\ calls < MaxCalls /\ calls' = calls + 1
  /\ UNCHANGED <<ask, dns, frame>>

udpd_conn_close(c) ==
  /\ Call(c)
  /\ conn' = [conn EXCEPT ![c] = udpd_base_conn_cleanup(@)]
  /\ Closing(conn[c])

\* Events and socket go, a look-up in flight too; then a new socket is bound
\* where the old one was.  A closed connection gets a socket without events.
UnboundKeepsWrite(c) ==
  [c EXCEPT !.rev = 0, !.radd = FALSE, !.fd = 0, !.req = "none",
            !.state = "DISCONNECTED"]

Unbound(c) ==
  [c EXCEPT !.rev = 0, !.radd = FALSE, !.wev = 0, !.wadd = FALSE, !.fd = 0,
            !.req = "none", !.state = "DISCONNECTED"]

lua_udpd_conn_rebind(c) ==
  /\ Call(c)
  /\ \E out \in {"ok"} \cup Refusals(TRUE, conn[c]) :
       LET fd == Min(Fds \ (socks \ {conn[c].fd}))
           s  == SetUp(Unbound(conn[c]), fd, TRUE, out)
       IN  /\ conn' = [conn EXCEPT ![c] =
                         IF out = "ok" THEN s
                         ELSE [s EXCEPT !.fd = 0,
                                        !.state = IF out = "socket" THEN @ ELSE "ERROR"]]
           /\ socks' = (socks \ {conn[c].fd}) \cup (IF out = "ok" THEN {fd} ELSE {})
  /\ queue' = [f \in Fds |-> IF f = conn[c].fd THEN 0 ELSE queue[f]]

\* A datagram leaves through an open socket when a destination is known, and
\* the network loses it or puts it in the queue of some socket.
udpd_conn_send(c, given) ==
  /\ Call(c)
  /\ conn[c].fd # 0
  /\ given \/ conn[c].addr
  /\ \E f \in socks :
       /\ queue[f] < MaxData
       /\ queue' = [queue EXCEPT ![f] = @ + 1]
  /\ UNCHANGED <<conn, socks>>

\* send_req raises an error when there is no callback or no event.
udpd_conn_send_request(c) ==
  /\ Call(c)
  /\ conn[c].onsend /\ conn[c].wev # 0
  /\ conn' = [conn EXCEPT ![c].wadd = TRUE]
  /\ UNCHANGED <<socks, queue>>

\* The program lets go of the object; the collector finds it when no waiting
\* coroutine has it on its stack.
Drop(c) ==
  /\ conn[c].held
  /\ conn' = [conn EXCEPT ![c].held = FALSE]
  /\ UNCHANGED <<ask, dns, socks, queue, frame, calls>>

lua_udpd_conn_gc(c) ==
  /\ conn[c].state \notin {"unborn", "gone"}
  /\ ~conn[c].held /\ conn[c].co # "yielded"
  /\ conn' = [conn EXCEPT ![c] = [udpd_base_conn_cleanup(@) EXCEPT
                                    !.state = "gone", !.weak = FALSE]]
  /\ Closing(conn[c])
  /\ UNCHANGED <<ask, dns, frame, calls>>

-----------------------------------------------------------------------------
(* Events                                                                   *)

\* The callback gets the datagram, and for callback_self_first what the weak
\* table holds; a read error switches the read event off.  An empty datagram
\* is taken and not reported.
udpd_common_readcb(c) ==
  /\ frame = NoFrame
  /\ conn[c].rev # 0 /\ conn[c].radd
  /\ queue[conn[c].rev] > 0
  /\ \/ /\ queue' = [queue EXCEPT ![conn[c].rev] = @ - 1]
        /\ \/ conn' = conn
           \/ /\ conn[c].onread
              /\ conn' = [conn EXCEPT ![c].self =
                            CASE ~conn[c].selfFirst -> "-"
                              [] conn[c].weak -> "object"
                              [] OTHER -> "nil"]
     \/ /\ conn' = [conn EXCEPT ![c].state = "ERROR", ![c].radd = FALSE]
        /\ queue' = queue
  /\ UNCHANGED <<ask, dns, socks, frame, calls>>

\* onsendready; the event is not persistent.
udpd_common_writecb(c) ==
  /\ frame = NoFrame
  /\ conn[c].wev # 0 /\ conn[c].wadd
  /\ conn' = [conn EXCEPT ![c].wadd = FALSE]
  /\ UNCHANGED <<ask, dns, socks, queue, frame, calls>>

-----------------------------------------------------------------------------
ConnStep(c) ==
  \/ udpd_new(c) \/ udpd_conn_dns_callback(c) \/ ConnDnsReturns(c)
  \/ udpd_conn_close(c) \/ lua_udpd_conn_rebind(c)
  \/ \E given \in BOOLEAN : udpd_conn_send(c, given)
  \/ udpd_conn_send_request(c) \/ Drop(c) \/ lua_udpd_conn_gc(c)
  \/ udpd_common_readcb(c) \/ udpd_common_writecb(c)

AskStep(a) == make_dest(a) \/ udpd_dest_dns_callback(a) \/ DestDnsReturns(a)

Next == (\E c \in Conns : ConnStep(c)) \/ (\E a \in Asks : AskStep(a))

Spec == Init /\ [][Next]_vars

\* evdns answers every look-up, if only that it timed out; the loop calls what
\* is ready; a coroutine that runs yields or ends.
FairSpec ==
  /\ Spec
  /\ \A c \in Conns : /\ WF_vars(udpd_conn_dns_callback(c)) /\ WF_vars(ConnDnsReturns(c))
                      /\ WF_vars(udpd_common_readcb(c)) /\ WF_vars(udpd_common_writecb(c))
  /\ \A a \in Asks : WF_vars(udpd_dest_dns_callback(a)) /\ WF_vars(DestDnsReturns(a))

-----------------------------------------------------------------------------
(* Properties                                                               *)

\* A connection's events watch the connection's own open socket, no two
\* connections share one, every open descriptor belongs to a connection that
\* can still close it, and a collected object has left nothing behind: through
\* every refused step of set-up and rebind (udpd_event.c, udpd.c).
UdpdHandles ==
  /\ \A c \in Conns :
       /\ conn[c].rev \in {0, conn[c].fd} /\ conn[c].wev \in {0, conn[c].fd}
       /\ conn[c].fd # 0 => conn[c].fd \in socks
       /\ conn[c].state = "gone" =>
            /\ ~conn[c].onread /\ ~conn[c].onsend /\ ~conn[c].ref
            /\ conn[c].fd = 0 /\ conn[c].req = "none"
  /\ \A f \in socks : Cardinality({c \in Conns : conn[c].fd = f}) = 1

\* A coroutine waits in udpd.new, make_dest or make_dests exactly while evdns
\* has its look-up, its reference and its request live as long as it waits, and
\* no request outlives the callback (udpd_dns.c).
UdpdAnswered ==
  /\ \A c \in Conns :
       /\ conn[c].co = "yielded" <=> c \in dns
       /\ c \in dns => conn[c].ref /\ conn[c].req = "live"
       /\ conn[c].req = "live" => c \in dns \/ frame = c
  /\ \A a \in Asks :
       /\ ask[a].co = "yielded" <=> a \in dns
       /\ a \in dns => ask[a].ref /\ ask[a].req = "live"
       /\ ask[a].req = "live" => a \in dns \/ frame = a

\* A waiting coroutine is resumed; a datagram at a connection that listens is
\* taken, unless a read error or close came first; a send_req is followed by
\* onsendready, close or rebind.
UdpdServed ==
  /\ \A c \in Conns :
       /\ conn[c].co = "yielded" ~> conn[c].co = "resumed"
       /\ (conn[c].onread /\ conn[c].fd # 0 /\ queue[conn[c].fd] > 0)
            ~> (conn[c].fd = 0 \/ queue[conn[c].fd] = 0 \/ conn[c].state = "ERROR")
       /\ conn[c].wadd ~> ~conn[c].wadd
  /\ \A a \in Asks : ask[a].co = "yielded" ~> ask[a].co = "resumed"
=============================================================================
