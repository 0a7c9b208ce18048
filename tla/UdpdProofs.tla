----------------------------- MODULE UdpdProofs -----------------------------
(***************************************************************************)
(* Proofs about the UDP connections of fan.udpd, for any number of         *)
(* connections, look-ups and descriptors: events watch the connection's    *)
(* own socket, sockets have one owner each, and a coroutine waits exactly  *)
(* while evdns has its look-up.                                            *)
(***************************************************************************)
EXTENDS Udpd, FiniteSetTheorems, WellFoundedInduction, TLAPS

-----------------------------------------------------------------------------
(* The inductive invariant *)

States == {"unborn", "DISCONNECTED", "RESOLVING", "BINDING", "BOUND", "READY", "ERROR", "gone"}
Outcomes == {"ok", "socket", "option", "bind", "events"}

ConnType ==
  [state : States, fd : Fds \cup {0}, rev : Fds \cup {0}, radd : BOOLEAN, wev : Fds \cup {0},
   wadd : BOOLEAN, onread : BOOLEAN, onsend : BOOLEAN, ref : BOOLEAN, req : {"none", "live"},
   addr : BOOLEAN, bindHost : BOOLEAN, weak : BOOLEAN, selfFirst : BOOLEAN, held : BOOLEAN,
   co : {"running", "yielded", "resumed"}, self : {"-", "object", "nil"}]
AskType ==
  [co : {"running", "yielded", "resumed"}, ref : BOOLEAN,
   req : {"none", "live", "freed", "freed_twice"},
   got : {"-", "raised", "no_port", "message", "junk", "dest", "nil"}]

TypeOK ==
  /\ conn \in [Conns -> ConnType]
  /\ ask \in [Asks -> AskType]
  /\ dns \subseteq Conns \cup Asks
  /\ socks \subseteq Fds
  /\ frame \in Conns \cup Asks \cup {NoFrame}

\* Every open descriptor is some connection's, and no two share one.
Owning ==
  /\ \A c \in Conns : conn[c].fd # 0 => conn[c].fd \in socks
  /\ \A f \in socks : \E c \in Conns : conn[c].fd = f
  /\ \A c, d \in Conns : conn[c].fd = conn[d].fd /\ conn[c].fd # 0 => c = d

\* Where a connection x is in its life: what it has before udpd.new, while its
\* look-up is under way and after the finalizer.
Living(x) ==
  /\ x.rev \in {0, x.fd} /\ x.wev \in {0, x.fd}
  /\ x.state = "unborn" => x = Blank
  /\ x.co = "yielded" => x.fd = 0 /\ ~x.held /\ x.state # "gone"
  /\ x.state = "gone" =>
       ~x.onread /\ ~x.onsend /\ ~x.ref /\ ~x.held /\ x.fd = 0 /\ x.req = "none"

\* A connection or a question x named i: evdns has its look-up when i is in D, and
\* the callback that answered it is on the stack when that is f.
Looking(x, i, D, f) ==
  /\ x.co = "yielded" <=> i \in D
  /\ i \in D => x.ref /\ x.req = "live"
  /\ x.req = "live" => i \in D \/ f = i
  /\ f = i => x.co = "resumed"

IInv ==
  /\ TypeOK /\ Owning
  /\ \A c \in Conns : Living(conn[c]) /\ Looking(conn[c], c, dns, frame)
  /\ \A a \in Asks : Looking(ask[a], a, dns, frame)

-----------------------------------------------------------------------------
(* Descriptors *)

\* A set of numbers that is not empty has a least one.
LEMMA MinIn ==
  ASSUME NEW S \in SUBSET Nat, S # {}
  PROVE  Min(S) \in S
<1> DEFINE R == {ss \in Nat \X Nat : ss[1] < ss[2]}
<1>0. IsWellFoundedOn(R, Nat)
  BY NatLessThanWellFounded DEF OpToRel
<1> HIDE DEF R
<1>1. PICK x \in S : \A y \in S : ~(<<y, x>> \in R)
  BY <1>0, WFMin
<1>2. ASSUME NEW y \in S PROVE x =< y
  <2>1. x \in Nat /\ y \in Nat /\ <<y, x>> \in Nat \X Nat /\ <<y, x>>[1] = y /\ <<y, x>>[2] = x
    OBVIOUS
  <2>2. ~(y < x)
    BY <1>1, <2>1 DEF R
  <2>3. QED
    BY <2>1, <2>2
<1>3. QED
  BY <1>2 DEF Min

\* As long as a connection has no other socket than the one it is about to
\* close, there is a free descriptor for it: the others hold one each at most.
LEMMA FreeFd ==
  ASSUME TypeOK, Owning, NEW c \in Conns
  PROVE  Min(Fds \ (socks \ {conn[c].fd})) \in Fds \ (socks \ {conn[c].fd})
<1> DEFINE S == socks \ {conn[c].fd}
           D == Conns \ {c}
           g == [f \in S |-> CHOOSE d \in Conns : conn[d].fd = f]
<1>1. ASSUME NEW f \in S PROVE g[f] \in D /\ conn[g[f]].fd = f
  <2>1. \E d \in Conns : conn[d].fd = f
    BY DEF Owning
  <2>2. QED
    BY <2>1
<1>2. g \in Injection(S, D)
  <2>1. g \in [S -> D]
    BY <1>1
  <2>2. \A a, b \in S : g[a] = g[b] => a = b
    BY <1>1
  <2>3. QED
    BY <2>1, <2>2 DEF Injection, IsInjective
<1>3. IsFiniteSet(D) /\ Cardinality(D) = Cardinality(Conns) - 1 /\ Cardinality(Conns) \in Nat
  BY UdpdAssumption, FS_RemoveElement, FS_CardinalityType
<1>4. IsFiniteSet(S) /\ Cardinality(S) <= Cardinality(D)
  BY <1>2, <1>3, FS_Injection
<1>5. Cardinality(Fds) = MaxFds
  BY UdpdAssumption, FS_Interval DEF Fds
<1>6. Fds \ S # {}
  <2>1. SUFFICES ASSUME Fds \subseteq S PROVE FALSE
    OBVIOUS
  <2>2. S = Fds
    BY <2>1 DEF TypeOK
  <2>3. MaxFds <= Cardinality(Conns) - 1
    BY <1>3, <1>4, <1>5, <2>2
  <2>4. QED
    BY <1>3, <2>3, UdpdAssumption
<1>7. Fds \ S \in SUBSET Nat
  BY UdpdAssumption DEF Fds
<1>8. QED
  BY <1>6, <1>7, MinIn

\* The socket of one connection is closed, another may be opened for it.
LEMMA Moves ==
  ASSUME TypeOK, Owning, NEW c \in Conns, NEW g,
         g = 0 \/ g \in Fds \ (socks \ {conn[c].fd}),
         socks' = (socks \ {conn[c].fd}) \cup ({g} \ {0}),
         conn'[c].fd = g,
         \A d \in Conns \ {c} : conn'[d].fd = conn[d].fd
  PROVE  Owning'
<1>1. 0 \notin Fds
  BY UdpdAssumption DEF Fds
<1>2. ASSUME NEW d \in Conns, conn'[d].fd # 0 PROVE conn'[d].fd \in socks'
  BY <1>2 DEF Owning
<1>3. ASSUME NEW f \in socks' PROVE \E d \in Conns : conn'[d].fd = f
  BY <1>3 DEF Owning
<1>4. ASSUME NEW d \in Conns, NEW e \in Conns, conn'[d].fd = conn'[e].fd, conn'[d].fd # 0
      PROVE  d = e
  BY <1>4 DEF Owning
<1>5. QED
  BY <1>2, <1>3, <1>4 DEF Owning

\* The descriptors stay as they are.
LEMMA Stays ==
  ASSUME Owning, socks' = socks, \A d \in Conns : conn'[d].fd = conn[d].fd
  PROVE  Owning'
BY DEF Owning

-----------------------------------------------------------------------------
(* Setting up, cleaning up *)

\* What cleanup leaves of a connection.
LEMMA CleanupResult ==
  ASSUME NEW c \in ConnType, NEW d, d = udpd_base_conn_cleanup(c)
  PROVE  /\ d \in ConnType /\ d.fd = 0 /\ d.rev = 0 /\ d.wev = 0 /\ d.req = "none"
         /\ ~d.onread /\ ~d.onsend /\ ~d.ref /\ d.state = "DISCONNECTED"
         /\ d.held = c.held /\ d.co = c.co
<1>1. 0 \in Fds \cup {0} /\ "DISCONNECTED" \in States
  BY DEF States
<1>2. d \in ConnType
  BY <1>1, ZenonT(60) DEF udpd_base_conn_cleanup, ConnType
<1>3. /\ d.fd = 0 /\ d.rev = 0 /\ d.wev = 0 /\ d.req = "none" /\ d.state = "DISCONNECTED"
      /\ ~d.onread /\ ~d.onsend /\ ~d.ref /\ d.held = c.held /\ d.co = c.co
  BY Zenon DEF udpd_base_conn_cleanup, ConnType
<1>4. QED
  BY <1>2, <1>3

\* What set-up makes of a connection: a refused socket or option leaves it as it
\* was, otherwise it has the new socket, and its events watch that or nothing.
LEMMA SetUpResult ==
  ASSUME NEW c \in ConnType, NEW fd \in Fds, NEW binds \in BOOLEAN, NEW out \in Outcomes,
         out = "bind" => binds, NEW s, s = SetUp(c, fd, binds, out)
  PROVE  /\ s \in ConnType
         /\ s.onread = c.onread /\ s.onsend = c.onsend /\ s.ref = c.ref /\ s.req = c.req
         /\ s.held = c.held /\ s.weak = c.weak /\ s.co = c.co
         /\ s.state \in {c.state, "ERROR", "BINDING", "READY"}
         /\ IF out \in {"socket", "option"}
            THEN s.fd = c.fd /\ s.rev = c.rev /\ s.wev = c.wev
            ELSE s.fd = fd /\ s.rev \in {c.rev, 0, fd} /\ s.wev \in {c.wev, 0, fd}
         /\ out = "ok" => s.rev \in {0, fd} /\ s.wev \in {0, fd} /\ s.state = "READY"
<1>0. /\ fd \in Fds \cup {0} /\ 0 \in Fds \cup {0} /\ c.onread \in BOOLEAN
      /\ "ERROR" \in States /\ "BINDING" \in States /\ "BOUND" \in States /\ "READY" \in States
  BY Zenon DEF ConnType, States
<1>1. CASE out = "socket"
  BY <1>1 DEF SetUp, udpd_base_conn_create_socket
<1>2. CASE out = "option"
  <2>1. s = [c EXCEPT !.state = "ERROR"]
    BY <1>2 DEF SetUp, udpd_base_conn_create_socket
  <2>2. s \in ConnType
    BY <1>0, <2>1, Zenon DEF ConnType
  <2>3. /\ s.onread = c.onread /\ s.onsend = c.onsend /\ s.ref = c.ref /\ s.req = c.req
        /\ s.held = c.held /\ s.weak = c.weak /\ s.co = c.co /\ s.state = "ERROR"
        /\ s.fd = c.fd /\ s.rev = c.rev /\ s.wev = c.wev
    BY <2>1, Zenon DEF ConnType
  <2>4. QED
    BY <1>2, <2>2, <2>3
<1>3. CASE out \in {"ok", "bind", "events"}
  <2> DEFINE a == [c EXCEPT !.fd = fd, !.state = "BINDING"]
             b == IF binds /\ out # "bind" THEN [a EXCEPT !.state = "BOUND"] ELSE a
  <2>1. udpd_base_conn_create_socket(c, fd, out) = a
    BY <1>3 DEF udpd_base_conn_create_socket
  <2>2. s = IF out = "bind" THEN b ELSE udpd_base_conn_setup_events(b, out)
    BY <1>3, <2>1 DEF SetUp, udpd_base_conn_bind
  <2>3. /\ a \in ConnType
        /\ a.onread = c.onread /\ a.onsend = c.onsend /\ a.ref = c.ref /\ a.req = c.req
        /\ a.held = c.held /\ a.weak = c.weak /\ a.co = c.co /\ a.state = "BINDING"
        /\ a.fd = fd /\ a.rev = c.rev /\ a.wev = c.wev
    BY <1>0, Zenon DEF ConnType
  <2> HIDE DEF a
  <2>4. [a EXCEPT !.state = "BOUND"] \in ConnType
    BY <1>0, <2>3, Zenon DEF ConnType
  <2>5. /\ b \in ConnType
        /\ b.onread = c.onread /\ b.onsend = c.onsend /\ b.ref = c.ref /\ b.req = c.req
        /\ b.held = c.held /\ b.weak = c.weak /\ b.co = c.co
        /\ b.state \in {"BINDING", "BOUND"} /\ (out = "bind" => b.state = "BINDING")
        /\ b.fd = fd /\ b.rev = c.rev /\ b.wev = c.wev
    <3>1. CASE binds /\ out # "bind"
      <4>1. b = [a EXCEPT !.state = "BOUND"]
        BY <3>1
      <4>2. /\ b.onread = a.onread /\ b.onsend = a.onsend /\ b.ref = a.ref /\ b.req = a.req
            /\ b.held = a.held /\ b.weak = a.weak /\ b.co = a.co /\ b.state = "BOUND"
            /\ b.fd = a.fd /\ b.rev = a.rev /\ b.wev = a.wev
        BY <2>3, <4>1, Zenon DEF ConnType
      <4>3. QED
        BY <2>3, <2>4, <3>1, <4>1, <4>2
    <3>2. CASE ~(binds /\ out # "bind")
      BY <2>3, <3>2
    <3>3. QED
      BY <3>1, <3>2
  <2> HIDE DEF b
  <2>6. CASE out = "bind"
    BY <1>3, <2>2, <2>5, <2>6
  <2>7. CASE out = "events"
    <3>1. s = [b EXCEPT !.state = "ERROR"]
      BY <2>2, <2>7 DEF udpd_base_conn_setup_events
    <3>2. s \in ConnType
      BY <1>0, <2>5, <3>1, Zenon DEF ConnType
    <3>3. /\ s.onread = b.onread /\ s.onsend = b.onsend /\ s.ref = b.ref /\ s.req = b.req
          /\ s.held = b.held /\ s.weak = b.weak /\ s.co = b.co /\ s.state = "ERROR"
          /\ s.fd = b.fd /\ s.rev = b.rev /\ s.wev = b.wev
      BY <2>5, <3>1, Zenon DEF ConnType
    <3>4. QED
      BY <2>5, <2>7, <3>2, <3>3
  <2>8. CASE out = "ok"
    <3>1. PICK r \in {0, fd}, w \in {0, fd} :
            r = (IF b.onread THEN b.fd ELSE 0) /\ w = (IF b.onsend THEN b.fd ELSE 0)
      BY <2>5
    <3>2. s = [b EXCEPT !.state = "READY", !.rev = r, !.radd = b.onread, !.wev = w, !.wadd = FALSE]
      BY <2>2, <2>8, <3>1 DEF udpd_base_conn_setup_events
    <3>3. r \in Fds \cup {0} /\ w \in Fds \cup {0} /\ b.onread \in BOOLEAN
      BY <1>0, <2>5
    <3>4. s \in ConnType
      BY <1>0, <2>5, <3>2, <3>3, ZenonT(60) DEF ConnType
    <3>5. /\ s.onread = b.onread /\ s.onsend = b.onsend /\ s.ref = b.ref /\ s.req = b.req
          /\ s.held = b.held /\ s.weak = b.weak /\ s.co = b.co /\ s.state = "READY"
          /\ s.fd = b.fd /\ s.rev = r /\ s.wev = w
      BY <2>5, <3>2, Zenon DEF ConnType
    <3>6. QED
      BY <2>5, <2>8, <3>1, <3>4, <3>5
  <2>9. QED
    BY <1>3, <2>6, <2>7, <2>8
<1>4. QED
  BY <1>1, <1>2, <1>3 DEF Outcomes

\* What udpd.new reads from its table.
LEMMA DescribedResult ==
  ASSUME NEW t \in Tables, NEW d, d = Described(t)
  PROVE  /\ d \in ConnType /\ d.fd = 0 /\ d.rev = 0 /\ d.wev = 0 /\ d.req = "none"
         /\ d.state = "DISCONNECTED" /\ d.co = "running" /\ ~d.held /\ d.ref
<1>1. /\ "unborn" \in States /\ "DISCONNECTED" \in States /\ 0 \in Fds \cup {0}
      /\ t.onread \in BOOLEAN /\ t.onsend \in BOOLEAN /\ t.bindHost \in BOOLEAN
      /\ t.selfFirst \in BOOLEAN
  BY UdpdAssumption DEF States
<1>2. Blank \in ConnType
  BY <1>1, Zenon DEF Blank, ConnType
<1>3. d \in ConnType
  BY <1>1, <1>2, Zenon DEF Described, ConnType
<1>4. /\ d.fd = Blank.fd /\ d.rev = Blank.rev /\ d.wev = Blank.wev /\ d.req = Blank.req
      /\ d.co = Blank.co /\ d.held = Blank.held /\ d.state = "DISCONNECTED" /\ d.ref = TRUE
  BY <1>2, Zenon DEF Described, ConnType
<1>5. QED
  BY <1>3, <1>4 DEF Blank

-----------------------------------------------------------------------------
(* Steps *)

\* A step that changes one connection, and at most its own look-up and callback.
LEMMA OneConn ==
  ASSUME IInv, NEW c \in Conns, NEW r \in ConnType, conn' = [conn EXCEPT ![c] = r], ask' = ask,
         Living(r), Looking(r, c, dns', frame'),
         dns' \in {dns, dns \cup {c}, dns \ {c}},
         frame' = frame \/ (frame = NoFrame /\ frame' = c) \/ (frame = c /\ frame' = NoFrame),
         socks' \subseteq Fds, Owning'
  PROVE  IInv'
<1> USE DEF IInv
<1>1. \A i \in (Conns \cup Asks) \ {c} : (i \in dns' <=> i \in dns) /\ (frame' = i <=> frame = i)
  BY UdpdAssumption
<1>2. TypeOK'
  BY DEF TypeOK
<1>3. ASSUME NEW d \in Conns
      PROVE  Living(conn'[d]) /\ Looking(conn'[d], d, dns', frame')
  <2>1. CASE d = c
    <3>1. conn'[d] = r
      BY <2>1 DEF TypeOK
    <3>2. QED
      BY <2>1, <3>1
  <2>2. CASE d # c
    <3>1. conn'[d] = conn[d] /\ (d \in dns' <=> d \in dns) /\ (frame' = d <=> frame = d)
      BY <1>1, <2>2 DEF TypeOK
    <3>2. QED
      BY <3>1 DEF Looking
  <2>3. QED
    BY <2>1, <2>2
<1>4. ASSUME NEW a \in Asks PROVE Looking(ask'[a], a, dns', frame')
  <2>1. (a \in dns' <=> a \in dns) /\ (frame' = a <=> frame = a)
    BY <1>1, UdpdAssumption
  <2>2. QED
    BY <2>1 DEF Looking
<1>5. QED
  BY <1>2, <1>3, <1>4

\* A step that changes one question, and its own look-up and callback.
LEMMA OneAsk ==
  ASSUME IInv, NEW a \in Asks, NEW r \in AskType, ask' = [ask EXCEPT ![a] = r], conn' = conn,
         Looking(r, a, dns', frame'), socks' = socks,
         dns' \in {dns, dns \cup {a}, dns \ {a}},
         frame' = frame \/ (frame = NoFrame /\ frame' = a) \/ (frame = a /\ frame' = NoFrame)
  PROVE  IInv'
<1> USE DEF IInv
<1>1. \A i \in (Conns \cup Asks) \ {a} : (i \in dns' <=> i \in dns) /\ (frame' = i <=> frame = i)
  BY UdpdAssumption
<1>2. TypeOK' /\ Owning'
  BY DEF TypeOK, Owning
<1>3. ASSUME NEW d \in Conns
      PROVE  Living(conn'[d]) /\ Looking(conn'[d], d, dns', frame')
  <2>1. (d \in dns' <=> d \in dns) /\ (frame' = d <=> frame = d)
    BY <1>1, UdpdAssumption
  <2>2. QED
    BY <2>1 DEF Looking
<1>4. ASSUME NEW b \in Asks PROVE Looking(ask'[b], b, dns', frame')
  <2>1. CASE b = a
    <3>1. ask'[b] = r
      BY <2>1 DEF TypeOK
    <3>2. QED
      BY <2>1, <3>1
  <2>2. CASE b # a
    <3>1. ask'[b] = ask[b] /\ (b \in dns' <=> b \in dns) /\ (frame' = b <=> frame = b)
      BY <1>1, <2>2 DEF TypeOK
    <3>2. QED
      BY <3>1 DEF Looking
  <2>3. QED
    BY <2>1, <2>2
<1>5. QED
  BY <1>2, <1>3, <1>4

\* udpd.new: whatever is refused, the connection owns nothing that is not its own.
LEMMA NewInv ==
  ASSUME IInv, NEW c \in Conns, udpd_new(c)
  PROVE  IInv'
<1>0. /\ TypeOK /\ Owning /\ conn[c] = Blank /\ conn[c].fd = 0 /\ c \notin dns /\ frame # c
  <2>1. conn[c] = Blank
    BY DEF udpd_new, IInv, Living
  <2>2. conn[c].fd = 0 /\ conn[c].co = "running"
    BY <2>1 DEF Blank
  <2>3. QED
    BY <2>1, <2>2 DEF IInv, Looking
<1>1. ask' = ask /\ frame' = frame
  BY DEF udpd_new
<1>2. PICK t \in Tables :
        CASE t.target = "name" -> udpd_dns_resolve_for_connection(c, t)
          [] t.target = "bad_port" -> BadBindPort(c, t)
          [] OTHER -> NewAtOnce(c, t, t.target = "address")
  BY DEF udpd_new
<1> PICK d : d = Described(t)
  OBVIOUS
<1>3. /\ d \in ConnType /\ d.fd = 0 /\ d.rev = 0 /\ d.wev = 0 /\ d.req = "none"
      /\ d.state = "DISCONNECTED" /\ d.co = "running" /\ ~d.held /\ d.ref
  BY DescribedResult
<1>4. ASSUME NEW r \in ConnType, conn' = [conn EXCEPT ![c] = r], socks' = socks, dns' = dns,
             r.fd = 0, r.rev = 0, r.wev = 0, r.req = "none", r.state = "DISCONNECTED",
             r.co = "running"
      PROVE  IInv'
  <2>1. Living(r) /\ Looking(r, c, dns', frame')
    BY <1>0, <1>1, <1>4 DEF Living, Looking
  <2>2. Owning'
    BY <1>0, <1>4, Stays DEF TypeOK
  <2>3. socks' \subseteq Fds
    BY <1>0, <1>4 DEF TypeOK
  <2>4. QED
    BY <1>1, <1>4, <2>1, <2>2, <2>3, OneConn
<1>5. ASSUME NEW e \in ConnType, e.co = "running",
             conn' = [conn EXCEPT ![c] = udpd_base_conn_cleanup(e)], socks' = socks, dns' = dns
      PROVE  IInv'
  <2>1. PICK r : r = udpd_base_conn_cleanup(e)
    OBVIOUS
  <2>2. /\ r \in ConnType /\ r.fd = 0 /\ r.rev = 0 /\ r.wev = 0 /\ r.req = "none"
        /\ r.state = "DISCONNECTED" /\ r.co = "running"
    BY <1>5, <2>1, CleanupResult
  <2>3. QED
    BY <1>4, <1>5, <2>1, <2>2
<1>6. CASE udpd_dns_resolve_for_connection(c, t)
  <2>1. CASE /\ conn' = [conn EXCEPT ![c] = udpd_base_conn_cleanup(Described(t))]
             /\ dns' = dns /\ UNCHANGED <<socks, queue>>
    BY <1>3, <1>5, <2>1
  <2>2. CASE /\ conn' = [conn EXCEPT ![c] =
                   [Described(t) EXCEPT !.state = "RESOLVING", !.req = "live",
                                        !.weak = t.selfFirst, !.co = "yielded"]]
             /\ dns' = dns \cup {c} /\ UNCHANGED <<socks, queue>>
    <3>1. PICK r : r = [d EXCEPT !.state = "RESOLVING", !.req = "live",
                                 !.weak = t.selfFirst, !.co = "yielded"]
      OBVIOUS
    <3>2. t.selfFirst \in BOOLEAN /\ "RESOLVING" \in States
      BY UdpdAssumption DEF States
    <3>3. r \in ConnType
      BY <1>3, <3>1, <3>2, Zenon DEF ConnType
    <3>4. /\ r.fd = d.fd /\ r.rev = d.rev /\ r.wev = d.wev /\ r.held = d.held /\ r.ref = d.ref
          /\ r.state = "RESOLVING" /\ r.req = "live" /\ r.co = "yielded"
      BY <1>3, <3>1, Zenon DEF ConnType
    <3>5. conn' = [conn EXCEPT ![c] = r]
      BY <2>2, <3>1
    <3>6. Living(r) /\ Looking(r, c, dns', frame')
      BY <1>0, <1>1, <1>3, <2>2, <3>4 DEF Living, Looking
    <3>7. Owning' /\ socks' \subseteq Fds
      BY <1>0, <1>3, <2>2, <3>4, <3>5, Stays DEF TypeOK
    <3>8. QED
      BY <1>1, <2>2, <3>3, <3>5, <3>6, <3>7, OneConn
  <2>3. QED
    BY <1>6, <2>1, <2>2 DEF udpd_dns_resolve_for_connection
<1>7. CASE BadBindPort(c, t)
  <2>1. PICK r : r = [d EXCEPT !.ref = FALSE]
    OBVIOUS
  <2>2. r \in ConnType
    BY <1>3, <2>1, Zenon DEF ConnType
  <2>3. /\ r.fd = d.fd /\ r.rev = d.rev /\ r.wev = d.wev /\ r.req = d.req
        /\ r.state = d.state /\ r.co = d.co
    BY <1>3, <2>1, Zenon DEF ConnType
  <2>4. QED
    BY <1>3, <1>4, <1>7, <2>1, <2>2, <2>3 DEF BadBindPort
<1>8. ASSUME NEW named \in BOOLEAN, NewAtOnce(c, t, named) PROVE IInv'
  <2>1. PICK e : e = [d EXCEPT !.addr = named]
    OBVIOUS
  <2>2. /\ e \in ConnType /\ e.fd = d.fd /\ e.rev = d.rev /\ e.wev = d.wev /\ e.req = d.req
        /\ e.state = d.state /\ e.co = d.co /\ e.held = d.held
    BY <1>3, <2>1, ZenonT(60) DEF ConnType
  <2>3. PICK binds \in BOOLEAN : binds = (~named \/ t.bindHost)
    OBVIOUS
  <2>4. PICK g \in Fds \ socks : g = Free
    <3>1. socks \ {conn[c].fd} = socks
      BY <1>0, UdpdAssumption DEF TypeOK, Fds
    <3>2. QED
      BY <1>0, <3>1, FreeFd DEF Free
  <2>5. \/ /\ conn' = [conn EXCEPT ![c] = [SetUp(e, g, binds, "ok") EXCEPT
                                            !.held = TRUE, !.weak = ~named /\ t.selfFirst]]
           /\ socks' = socks \cup {g}
           /\ UNCHANGED <<dns, queue>>
        \/ \E out \in Refusals(binds, e) :
             /\ conn' = [conn EXCEPT ![c] = udpd_base_conn_cleanup(SetUp(e, g, binds, out))]
             /\ UNCHANGED <<dns, socks, queue>>
    BY <1>8, <2>1, <2>3, <2>4, Zenon DEF NewAtOnce
  <2>6. CASE \E out \in Refusals(binds, e) :
               /\ conn' = [conn EXCEPT ![c] = udpd_base_conn_cleanup(SetUp(e, g, binds, out))]
               /\ UNCHANGED <<dns, socks, queue>>
    <3>1. PICK out \in Refusals(binds, e) :
               /\ conn' = [conn EXCEPT ![c] = udpd_base_conn_cleanup(SetUp(e, g, binds, out))]
               /\ UNCHANGED <<dns, socks, queue>>
      BY <2>6
    <3>2. out \in Outcomes /\ (out = "bind" => binds)
      BY DEF Refusals, Outcomes
    <3>3. SetUp(e, g, binds, out) \in ConnType /\ SetUp(e, g, binds, out).co = e.co
      BY <2>2, <2>4, <3>2, SetUpResult
    <3>4. QED
      BY <1>3, <1>5, <2>2, <3>1, <3>3
  <2>7. CASE /\ conn' = [conn EXCEPT ![c] = [SetUp(e, g, binds, "ok") EXCEPT
                                              !.held = TRUE, !.weak = ~named /\ t.selfFirst]]
             /\ socks' = socks \cup {g}
             /\ UNCHANGED <<dns, queue>>
    <3>1. PICK u : u = SetUp(e, g, binds, "ok")
      OBVIOUS
    <3>2. /\ u \in ConnType /\ u.fd = g /\ u.rev \in {0, g} /\ u.wev \in {0, g}
          /\ u.state = "READY" /\ u.req = e.req /\ u.co = e.co
      <4>1. PICK out \in Outcomes : out = "ok"
        BY DEF Outcomes
      <4>2. out # "bind" /\ out \notin {"socket", "option"}
        BY <4>1
      <4>3. QED
        BY <2>2, <3>1, <4>1, <4>2, SetUpResult
    <3>3. PICK w \in BOOLEAN : w = (~named /\ t.selfFirst)
      OBVIOUS
    <3>4. PICK r : r = [u EXCEPT !.held = TRUE, !.weak = w]
      OBVIOUS
    <3>5. r \in ConnType
      BY <3>2, <3>3, <3>4, ZenonT(60) DEF ConnType
    <3>6. /\ r.fd = u.fd /\ r.rev = u.rev /\ r.wev = u.wev /\ r.state = u.state
          /\ r.req = u.req /\ r.co = u.co
      BY <3>2, <3>4, Zenon DEF ConnType
    <3>7. conn' = [conn EXCEPT ![c] = r]
      BY <2>7, <3>1, <3>3, <3>4, Zenon
    <3>8. Living(r) /\ Looking(r, c, dns', frame')
      BY <1>0, <1>1, <1>3, <2>2, <2>7, <3>2, <3>6 DEF Living, Looking
    <3>9. socks' \subseteq Fds
      BY <1>0, <2>4, <2>7 DEF TypeOK
    <3>10. Owning'
      <4>1. conn'[c].fd = g /\ \A x \in Conns \ {c} : conn'[x].fd = conn[x].fd
        BY <1>0, <3>2, <3>6, <3>7 DEF TypeOK
      <4>2. socks' = (socks \ {conn[c].fd}) \cup ({g} \ {0}) /\ g \in Fds \ (socks \ {conn[c].fd})
        BY <1>0, <2>4, <2>7, UdpdAssumption DEF TypeOK, Fds
      <4>3. QED
        BY <1>0, <4>1, <4>2, Moves
    <3>11. QED
      BY <1>1, <2>7, <3>5, <3>7, <3>8, <3>9, <3>10, OneConn
  <2>8. QED
    BY <2>5, <2>6, <2>7
<1>9. QED
  <2>1. (t.target = "address") \in BOOLEAN
    OBVIOUS
  <2>2. QED
    BY <1>2, <1>6, <1>7, <1>8, <2>1

\* The answer to the look-up of udpd.new.
LEMMA ConnDnsInv ==
  ASSUME IInv, NEW c \in Conns, udpd_conn_dns_callback(c)
  PROVE  IInv'
<1>0. /\ TypeOK /\ Owning /\ conn[c] \in ConnType /\ conn[c].fd = 0 /\ conn[c].rev = 0
      /\ conn[c].wev = 0 /\ conn[c].state # "unborn" /\ conn[c].state # "gone"
      /\ frame = NoFrame /\ c \in dns
  <2>1. conn[c].co = "yielded"
    BY DEF udpd_conn_dns_callback, IInv, Looking
  <2>2. conn[c].state # "unborn"
    BY <2>1 DEF IInv, Living, Blank
  <2>3. QED
    BY <2>1, <2>2 DEF udpd_conn_dns_callback, IInv, TypeOK, Living
<1>1. ask' = ask /\ frame' = c /\ dns' = dns \ {c}
  BY DEF udpd_conn_dns_callback
<1>2. PICK g \in Fds \ socks : g = Free
  <2>1. socks \ {conn[c].fd} = socks
    BY <1>0, UdpdAssumption DEF TypeOK, Fds
  <2>2. QED
    BY <1>0, <2>1, FreeFd DEF Free
<1>3. PICK out \in {"fail", "ok"} \cup Refusals(conn[c].bindHost, conn[c]) :
        LET d == [conn[c] EXCEPT !.addr = out # "fail"]
            r == IF out = "fail" THEN Unresolved(d) ELSE Resolved(d, out)
        IN  conn' = [conn EXCEPT ![c] = r] /\ socks' = socks \cup ({r.fd} \ {0})
  BY DEF udpd_conn_dns_callback
<1>4. PICK a \in BOOLEAN : a = (out # "fail")
  OBVIOUS
<1>5. PICK d : d = [conn[c] EXCEPT !.addr = a]
  OBVIOUS
<1>6. /\ d \in ConnType /\ d.fd = 0 /\ d.rev = 0 /\ d.wev = 0
      /\ d.state = conn[c].state /\ d.bindHost = conn[c].bindHost
  <2>1. d \in ConnType
    BY <1>0, <1>5, Zenon DEF ConnType
  <2>2. /\ d.fd = conn[c].fd /\ d.rev = conn[c].rev /\ d.wev = conn[c].wev
        /\ d.state = conn[c].state /\ d.bindHost = conn[c].bindHost
    BY <1>0, <1>5, Zenon DEF ConnType
  <2>3. QED
    BY <1>0, <2>1, <2>2
<1>7. PICK r : r = IF out = "fail" THEN Unresolved(d) ELSE Resolved(d, out)
  OBVIOUS
<1>8. conn' = [conn EXCEPT ![c] = r] /\ socks' = socks \cup ({r.fd} \ {0})
  <2>1. d = [conn[c] EXCEPT !.addr = out # "fail"]
    BY <1>4, <1>5, Zenon
  <2>2. QED
    BY <1>3, <1>7, <2>1, Zenon
<1>9. /\ r \in ConnType /\ r.co = "resumed" /\ r.fd \in {0, g}
      /\ r.rev \in {0, r.fd} /\ r.wev \in {0, r.fd} /\ r.state \notin {"unborn", "gone"}
  <2>1. CASE out = "fail"
    <3>1. r = [d EXCEPT !.co = "resumed", !.state = "ERROR"]
      BY <1>7, <2>1 DEF Unresolved
    <3>2. "ERROR" \in States
      BY DEF States
    <3>3. r \in ConnType
      BY <1>6, <3>1, <3>2, Zenon DEF ConnType
    <3>4. /\ r.co = "resumed" /\ r.state = "ERROR" /\ r.fd = d.fd /\ r.rev = d.rev /\ r.wev = d.wev
      BY <1>6, <3>1, Zenon DEF ConnType
    <3>5. QED
      BY <1>6, <3>3, <3>4
  <2>2. CASE out # "fail"
    <3>1. PICK s : s = SetUp(d, g, d.bindHost, out)
      OBVIOUS
    <3>2. d.bindHost \in BOOLEAN
      BY <1>6, Zenon DEF ConnType
    <3>3. out \in Outcomes /\ (out = "bind" => d.bindHost)
      BY <1>6, <2>2 DEF Refusals, Outcomes
    <3>4. /\ s \in ConnType /\ s.fd \in {0, g} /\ s.rev \in {0, s.fd} /\ s.wev \in {0, s.fd}
          /\ (out = "ok" => s.state = "READY")
      BY <1>6, <3>1, <3>2, <3>3, SetUpResult
    <3>5. r = IF out = "ok" THEN [s EXCEPT !.co = "resumed", !.held = s.weak]
                            ELSE [s EXCEPT !.co = "resumed", !.state = "ERROR"]
      BY <1>2, <1>7, <2>2, <3>1, Zenon DEF Resolved
    <3>6. s.weak \in BOOLEAN /\ "ERROR" \in States
      BY <3>4, Zenon DEF ConnType, States
    <3>7. CASE out = "ok"
      <4>1. r = [s EXCEPT !.co = "resumed", !.held = s.weak]
        BY <3>5, <3>7
      <4>2. r \in ConnType
        BY <3>4, <3>6, <4>1, Zenon DEF ConnType
      <4>3. /\ r.co = "resumed" /\ r.state = s.state /\ r.fd = s.fd /\ r.rev = s.rev
            /\ r.wev = s.wev
        BY <3>4, <4>1, Zenon DEF ConnType
      <4>4. QED
        BY <3>4, <3>7, <4>2, <4>3
    <3>8. CASE out # "ok"
      <4>1. r = [s EXCEPT !.co = "resumed", !.state = "ERROR"]
        BY <3>5, <3>8
      <4>2. r \in ConnType
        BY <3>4, <3>6, <4>1, Zenon DEF ConnType
      <4>3. /\ r.co = "resumed" /\ r.state = "ERROR" /\ r.fd = s.fd /\ r.rev = s.rev
            /\ r.wev = s.wev
        BY <3>4, <4>1, Zenon DEF ConnType
      <4>4. QED
        BY <3>4, <3>8, <4>2, <4>3
    <3>9. QED
      BY <3>7, <3>8
  <2>3. QED
    BY <2>1, <2>2
<1>10. Living(r) /\ Looking(r, c, dns', frame')
  BY <1>1, <1>9 DEF Living, Looking
<1>11. Owning' /\ socks' \subseteq Fds
  <2>1. conn'[c].fd = r.fd /\ \A x \in Conns \ {c} : conn'[x].fd = conn[x].fd
    BY <1>0, <1>8 DEF TypeOK
  <2>2. socks' = (socks \ {conn[c].fd}) \cup ({r.fd} \ {0})
    BY <1>0, <1>8, UdpdAssumption DEF TypeOK, Fds
  <2>3. r.fd = 0 \/ r.fd \in Fds \ (socks \ {conn[c].fd})
    BY <1>2, <1>9
  <2>4. socks' \subseteq Fds
    BY <1>0, <1>2, <1>8, <1>9 DEF TypeOK
  <2>5. QED
    BY <1>0, <2>1, <2>2, <2>3, <2>4, Moves
<1>12. QED
  BY <1>0, <1>1, <1>8, <1>9, <1>10, <1>11, OneConn

\* A change of a connection that concerns neither its socket, its look-up nor
\* its place in life.
LEMMA SmallChange ==
  ASSUME IInv, NEW c \in Conns, NEW r \in ConnType, conn' = [conn EXCEPT ![c] = r],
         UNCHANGED <<ask, dns, socks, frame>>,
         r.fd = conn[c].fd, r.rev = conn[c].rev, r.wev = conn[c].wev, r.co = conn[c].co,
         r.ref = conn[c].ref, r.req = conn[c].req, conn[c].state \notin {"unborn", "gone"},
         r.state \notin {"unborn", "gone"}, r.held => conn[c].held
  PROVE  IInv'
<1>1. Living(conn[c]) /\ Looking(conn[c], c, dns, frame) /\ TypeOK /\ Owning
  BY DEF IInv
<1>2. Living(r) /\ Looking(r, c, dns', frame')
  BY <1>1 DEF Living, Looking
<1>3. Owning' /\ socks' \subseteq Fds
  BY <1>1, Stays DEF TypeOK
<1>4. QED
  BY <1>2, <1>3, OneConn

\* The rest of the DNS callback, whatever became of the connection.
LEMMA ConnReturnsInv ==
  ASSUME IInv, NEW c \in Conns, ConnDnsReturns(c)
  PROVE  IInv'
<1>1. /\ Living(conn[c]) /\ Looking(conn[c], c, dns, frame) /\ TypeOK /\ Owning
      /\ conn[c] \in ConnType /\ frame = c /\ frame' = NoFrame
      /\ UNCHANGED <<ask, dns, socks>>
  BY DEF IInv, TypeOK, ConnDnsReturns
<1>2. PICK r : r = [conn[c] EXCEPT !.ref = FALSE, !.req = "none"]
  OBVIOUS
<1>3. r \in ConnType
  BY <1>1, <1>2, Zenon DEF ConnType
<1>4. /\ r.fd = conn[c].fd /\ r.rev = conn[c].rev /\ r.wev = conn[c].wev /\ r.co = conn[c].co
      /\ r.state = conn[c].state /\ r.held = conn[c].held /\ r.onread = conn[c].onread
      /\ r.onsend = conn[c].onsend /\ ~r.ref /\ r.req = "none"
  BY <1>1, <1>2, Zenon DEF ConnType
<1>5. conn' = [conn EXCEPT ![c] = r]
  BY <1>1, <1>2 DEF ConnDnsReturns, TypeOK
<1>6. conn[c].state # "unborn" /\ conn[c].co = "resumed" /\ frame' # c
  BY <1>1, UdpdAssumption DEF Living, Looking, Blank
<1>7. Living(r) /\ Looking(r, c, dns', frame')
  BY <1>1, <1>4, <1>6 DEF Living, Looking
<1>8. Owning' /\ socks' \subseteq Fds
  BY <1>1, <1>4, <1>5, Stays DEF TypeOK
<1>9. QED
  BY <1>1, <1>3, <1>5, <1>7, <1>8, OneConn

\* The socket is closed with the connection.
LEMMA CleanedInv ==
  ASSUME IInv, NEW c \in Conns, NEW r \in ConnType, conn' = [conn EXCEPT ![c] = r],
         UNCHANGED <<ask, dns, frame>>, Closing(conn[c]),
         r.fd = 0, r.rev = 0, r.wev = 0, r.req = "none", ~r.onread, ~r.onsend, ~r.ref,
         r.held = conn[c].held, r.co = conn[c].co, conn[c].co # "yielded",
         r.state = "DISCONNECTED" \/ (r.state = "gone" /\ ~r.held)
  PROVE  IInv'
<1>1. Living(conn[c]) /\ Looking(conn[c], c, dns, frame) /\ TypeOK /\ Owning
  BY DEF IInv
<1>2. Living(r) /\ Looking(r, c, dns', frame')
  BY <1>1 DEF Living, Looking
<1>3. socks' = (socks \ {conn[c].fd}) \cup ({0} \ {0}) /\ socks' \subseteq Fds
  BY <1>1 DEF Closing, TypeOK
<1>4. conn'[c].fd = 0 /\ \A x \in Conns \ {c} : conn'[x].fd = conn[x].fd
  BY <1>1 DEF TypeOK
<1>5. Owning'
  BY <1>1, <1>3, <1>4, Moves
<1>6. QED
  BY <1>2, <1>3, <1>5, OneConn

\* close keeps the invariant.
LEMMA CloseInv ==
  ASSUME IInv, NEW c \in Conns, udpd_conn_close(c)
  PROVE  IInv'
<1>1. /\ conn[c] \in ConnType /\ conn[c].held /\ conn[c].co # "yielded"
      /\ UNCHANGED <<ask, dns, frame>> /\ Closing(conn[c])
  BY DEF IInv, TypeOK, Living, udpd_conn_close, Call
<1>2. PICK r : r = udpd_base_conn_cleanup(conn[c])
  OBVIOUS
<1>3. conn' = [conn EXCEPT ![c] = r]
  BY <1>2 DEF udpd_conn_close
<1>4. QED
  BY <1>1, <1>2, <1>3, CleanupResult, CleanedInv

\* So does the finalizer.
LEMMA GcInv ==
  ASSUME IInv, NEW c \in Conns, lua_udpd_conn_gc(c)
  PROVE  IInv'
<1>1. /\ conn[c] \in ConnType /\ ~conn[c].held /\ conn[c].co # "yielded"
      /\ UNCHANGED <<ask, dns, frame>> /\ Closing(conn[c])
  BY DEF IInv, TypeOK, Living, lua_udpd_conn_gc
<1>2. PICK d : d = udpd_base_conn_cleanup(conn[c])
  OBVIOUS
<1>3. /\ d \in ConnType /\ d.fd = 0 /\ d.rev = 0 /\ d.wev = 0 /\ d.req = "none"
      /\ ~d.onread /\ ~d.onsend /\ ~d.ref /\ d.held = conn[c].held /\ d.co = conn[c].co
  BY <1>1, <1>2, CleanupResult
<1>4. PICK r : r = [d EXCEPT !.state = "gone", !.weak = FALSE]
  OBVIOUS
<1>5. "gone" \in States
  BY DEF States
<1>6. r \in ConnType
  BY <1>3, <1>4, <1>5, Zenon DEF ConnType
<1>7. /\ r.fd = d.fd /\ r.rev = d.rev /\ r.wev = d.wev /\ r.req = d.req
      /\ r.onread = d.onread /\ r.onsend = d.onsend /\ r.ref = d.ref /\ r.held = d.held
      /\ r.co = d.co /\ r.state = "gone"
  BY <1>3, <1>4, Zenon DEF ConnType
<1>8. conn' = [conn EXCEPT ![c] = r]
  BY <1>2, <1>4 DEF lua_udpd_conn_gc
<1>9. QED
  BY <1>1, <1>3, <1>6, <1>7, <1>8, CleanedInv

\* A connection that the program holds, or that has an event, is in mid-life.
LEMMA MidLife ==
  ASSUME IInv, NEW c \in Conns, conn[c].held \/ conn[c].rev # 0 \/ conn[c].wev # 0
  PROVE  /\ conn[c].state \notin {"unborn", "gone"} /\ conn[c].co # "yielded"
         /\ conn[c] \in ConnType
<1>1. conn[c].state # "unborn"
  BY DEF IInv, Living, Blank
<1>2. QED
  BY <1>1 DEF IInv, Living, TypeOK

\* rebind: the old socket goes, and a new one comes or not.
LEMMA RebindInv ==
  ASSUME IInv, NEW c \in Conns, lua_udpd_conn_rebind(c)
  PROVE  IInv'
<1>0. /\ TypeOK /\ Owning /\ Living(conn[c]) /\ Looking(conn[c], c, dns, frame)
      /\ conn[c] \in ConnType /\ conn[c].co # "yielded" /\ UNCHANGED <<ask, dns, frame>>
  BY MidLife DEF lua_udpd_conn_rebind, Call, IInv
<1>1. PICK g \in Fds \ (socks \ {conn[c].fd}) : g = Min(Fds \ (socks \ {conn[c].fd}))
  BY <1>0, FreeFd
<1>2. PICK out \in {"ok"} \cup Refusals(TRUE, conn[c]) :
        /\ conn' = [conn EXCEPT ![c] =
                      IF out = "ok" THEN SetUp(Unbound(conn[c]), g, TRUE, out)
                      ELSE [SetUp(Unbound(conn[c]), g, TRUE, out) EXCEPT !.fd = 0,
                              !.state = IF out = "socket" THEN @ ELSE "ERROR"]]
        /\ socks' = (socks \ {conn[c].fd}) \cup (IF out = "ok" THEN {g} ELSE {})
  BY <1>1 DEF lua_udpd_conn_rebind
<1>3. PICK u : u = Unbound(conn[c])
  OBVIOUS
<1>4. /\ u \in ConnType /\ u.fd = 0 /\ u.rev = 0 /\ u.wev = 0 /\ u.req = "none"
      /\ u.state = "DISCONNECTED" /\ u.co = conn[c].co
  <2>1. "DISCONNECTED" \in States /\ 0 \in Fds \cup {0}
    BY DEF States
  <2>2. u \in ConnType
    BY <1>0, <1>3, <2>1, Zenon DEF Unbound, ConnType
  <2>3. /\ u.fd = 0 /\ u.rev = 0 /\ u.wev = 0 /\ u.req = "none"
        /\ u.state = "DISCONNECTED" /\ u.co = conn[c].co
    BY <1>0, <1>3, Zenon DEF Unbound, ConnType
  <2>4. QED
    BY <2>2, <2>3
<1>5. PICK s : s = SetUp(u, g, TRUE, out)
  OBVIOUS
<1>6. PICK binds \in BOOLEAN :
         s = SetUp(u, g, binds, out) /\ out \in Outcomes /\ (out = "bind" => binds)
  <2>1. out \in Outcomes
    BY DEF Refusals, Outcomes
  <2>2. QED
    BY <1>5, <2>1, Zenon
<1>7. /\ s \in ConnType /\ s.req = "none" /\ s.co = conn[c].co
      /\ s.state \in {"DISCONNECTED", "ERROR", "BINDING", "READY"}
      /\ (out = "ok" => s.fd = g /\ s.rev \in {0, g} /\ s.wev \in {0, g})
  BY <1>4, <1>6, SetUpResult
<1>8. out # "ok" => s.rev = 0 /\ s.wev = 0
  <2>1. CASE out \in {"socket", "option"}
    BY <1>4, <1>6, <2>1, SetUpResult
  <2>2. CASE out = "bind"
    <3>1. s = [u EXCEPT !.fd = g, !.state = "BINDING"]
      BY <1>5, <2>2
      DEF SetUp, udpd_base_conn_bind, udpd_base_conn_create_socket
    <3>2. s.rev = u.rev /\ s.wev = u.wev
      BY <1>4, <3>1, Zenon DEF ConnType
    <3>3. QED
      BY <1>4, <3>2
  <2>3. CASE out = "events"
    <3>1. PICK a : a = [u EXCEPT !.fd = g, !.state = "BINDING"]
      OBVIOUS
    <3>2. g \in Fds \cup {0} /\ "BINDING" \in States /\ "BOUND" \in States
      BY DEF States
    <3>3. a \in ConnType /\ a.rev = u.rev /\ a.wev = u.wev
      BY <1>4, <3>1, <3>2, Zenon DEF ConnType
    <3>4. PICK b : b = [a EXCEPT !.state = "BOUND"]
      OBVIOUS
    <3>5. b \in ConnType /\ b.rev = a.rev /\ b.wev = a.wev
      BY <3>2, <3>3, <3>4, Zenon DEF ConnType
    <3>6. s = [b EXCEPT !.state = "ERROR"]
      <4>1. udpd_base_conn_create_socket(u, g, out) = a
        BY <2>3, <3>1 DEF udpd_base_conn_create_socket
      <4>2. udpd_base_conn_bind(a, out) = b
        BY <2>3, <3>4 DEF udpd_base_conn_bind
      <4>3. QED
        BY <1>5, <2>3, <4>1, <4>2 DEF SetUp, udpd_base_conn_setup_events
    <3>7. s.rev = b.rev /\ s.wev = b.wev
      BY <3>5, <3>6, Zenon DEF ConnType
    <3>8. QED
      BY <1>4, <3>3, <3>5, <3>7
  <2>4. QED
    BY <2>1, <2>2, <2>3 DEF Refusals
<1>9. ASSUME NEW r \in ConnType, NEW h, conn' = [conn EXCEPT ![c] = r],
             socks' = (socks \ {conn[c].fd}) \cup ({h} \ {0}), h \in {0, g},
             r.fd = h, r.rev \in {0, h}, r.wev \in {0, h}, r.req = "none", r.co = conn[c].co,
             r.state \notin {"unborn", "gone"}
      PROVE  IInv'
  <2>1. Living(r) /\ Looking(r, c, dns', frame')
    BY <1>0, <1>9 DEF Living, Looking
  <2>2. conn'[c].fd = h /\ \A x \in Conns \ {c} : conn'[x].fd = conn[x].fd
    BY <1>0, <1>9 DEF TypeOK
  <2>3. Owning' /\ socks' \subseteq Fds
    BY <1>0, <1>9, <2>2, Moves DEF TypeOK
  <2>4. QED
    BY <1>0, <1>9, <2>1, <2>3, OneConn
<1>10. CASE out = "ok"
  <2>1. g # 0
    BY UdpdAssumption DEF Fds
  <2>2. conn' = [conn EXCEPT ![c] = s] /\ socks' = (socks \ {conn[c].fd}) \cup ({g} \ {0})
    BY <1>2, <1>3, <1>5, <1>10, <2>1
  <2>3. QED
    BY <1>7, <1>9, <1>10, <2>2
<1>11. CASE out # "ok"
  <2>1. PICK e \in {s.state, "ERROR"} : e = IF out = "socket" THEN s.state ELSE "ERROR"
    OBVIOUS
  <2>2. PICK r : r = [s EXCEPT !.fd = 0, !.state = e]
    OBVIOUS
  <2>3. conn' = [conn EXCEPT ![c] = r] /\ socks' = (socks \ {conn[c].fd}) \cup ({0} \ {0})
    BY <1>2, <1>3, <1>5, <1>11, <2>1, <2>2
  <2>4. e \in States /\ 0 \in Fds \cup {0} /\ e \notin {"unborn", "gone"}
    BY <1>7 DEF States
  <2>5. r \in ConnType
    BY <1>7, <2>2, <2>4, Zenon DEF ConnType
  <2>6. /\ r.fd = 0 /\ r.state = e /\ r.rev = s.rev /\ r.wev = s.wev /\ r.req = s.req
        /\ r.co = s.co
    BY <1>7, <2>2, Zenon DEF ConnType
  <2>7. QED
    BY <1>7, <1>8, <1>9, <1>11, <2>3, <2>4, <2>5, <2>6
<1>12. QED
  BY <1>10, <1>11

\* send_req, dropping the object, and what the read and write events do.
LEMMA SmallInv ==
  ASSUME IInv, NEW c \in Conns,
         \/ udpd_conn_send_request(c) \/ Drop(c)
         \/ udpd_common_readcb(c) \/ udpd_common_writecb(c)
  PROVE  IInv'
<1>1. UNCHANGED <<ask, dns, socks, frame>>
  BY DEF udpd_conn_send_request, Drop, udpd_common_readcb, udpd_common_writecb, Call
<1>2. /\ conn[c].state \notin {"unborn", "gone"} /\ conn[c] \in ConnType /\ TypeOK
  BY MidLife DEF udpd_conn_send_request, Drop, udpd_common_readcb, udpd_common_writecb, IInv
<1>3. PICK x : x = conn[c]
  OBVIOUS
<1>4. ASSUME NEW r \in ConnType, conn' = [conn EXCEPT ![c] = r],
             r.fd = x.fd, r.rev = x.rev, r.wev = x.wev, r.co = x.co, r.ref = x.ref,
             r.req = x.req, r.state \in {x.state, "ERROR"}, r.held => x.held
      PROVE  IInv'
  BY <1>1, <1>2, <1>3, <1>4, SmallChange
<1>5. ASSUME NEW w \in BOOLEAN, conn' = [conn EXCEPT ![c].wadd = w] PROVE IInv'
  <2>1. PICK r : r = [x EXCEPT !.wadd = w]
    OBVIOUS
  <2>2. r \in ConnType
    BY <1>2, <1>3, <2>1, Zenon DEF ConnType
  <2>3. /\ r.fd = x.fd /\ r.rev = x.rev /\ r.wev = x.wev /\ r.co = x.co /\ r.ref = x.ref
        /\ r.req = x.req /\ r.state = x.state /\ r.held = x.held
    BY <1>2, <1>3, <2>1, Zenon DEF ConnType
  <2>4. conn' = [conn EXCEPT ![c] = r]
    BY <1>3, <1>5, <2>1
  <2>5. QED
    BY <1>4, <2>2, <2>3, <2>4
<1>6. CASE udpd_conn_send_request(c) \/ udpd_common_writecb(c)
  BY <1>5, <1>6 DEF udpd_conn_send_request, udpd_common_writecb
<1>7. CASE Drop(c)
  <2>1. PICK r : r = [x EXCEPT !.held = FALSE]
    OBVIOUS
  <2>2. r \in ConnType
    BY <1>2, <1>3, <2>1, Zenon DEF ConnType
  <2>3. /\ r.fd = x.fd /\ r.rev = x.rev /\ r.wev = x.wev /\ r.co = x.co /\ r.ref = x.ref
        /\ r.req = x.req /\ r.state = x.state /\ ~r.held
    BY <1>2, <1>3, <2>1, Zenon DEF ConnType
  <2>4. conn' = [conn EXCEPT ![c] = r]
    BY <1>3, <1>7, <2>1 DEF Drop
  <2>5. QED
    BY <1>4, <2>2, <2>3, <2>4
<1>8. CASE udpd_common_readcb(c)
  <2>1. CASE conn' = conn
    BY <1>1, <2>1 DEF IInv, TypeOK, Owning, Living, Looking
  <2>2. ASSUME NEW v \in {"-", "object", "nil"}, conn' = [conn EXCEPT ![c].self = v] PROVE IInv'
    <3>1. PICK r : r = [x EXCEPT !.self = v]
      OBVIOUS
    <3>2. r \in ConnType
      BY <1>2, <1>3, <3>1, Zenon DEF ConnType
    <3>3. /\ r.fd = x.fd /\ r.rev = x.rev /\ r.wev = x.wev /\ r.co = x.co /\ r.ref = x.ref
          /\ r.req = x.req /\ r.state = x.state /\ r.held = x.held
      BY <1>2, <1>3, <3>1, Zenon DEF ConnType
    <3>4. conn' = [conn EXCEPT ![c] = r]
      BY <1>3, <2>2, <3>1
    <3>5. QED
      BY <1>4, <3>2, <3>3, <3>4
  <2>3. CASE conn' = [conn EXCEPT ![c].state = "ERROR", ![c].radd = FALSE]
    <3>1. PICK r : r = [x EXCEPT !.state = "ERROR", !.radd = FALSE]
      OBVIOUS
    <3>2. "ERROR" \in States
      BY DEF States
    <3>3. r \in ConnType
      BY <1>2, <1>3, <3>1, <3>2, Zenon DEF ConnType
    <3>4. /\ r.fd = x.fd /\ r.rev = x.rev /\ r.wev = x.wev /\ r.co = x.co /\ r.ref = x.ref
          /\ r.req = x.req /\ r.state = "ERROR" /\ r.held = x.held
      BY <1>2, <1>3, <3>1, Zenon DEF ConnType
    <3>5. conn' = [conn EXCEPT ![c] = r]
      BY <1>2, <1>3, <2>3, <3>1 DEF TypeOK
    <3>6. QED
      BY <1>4, <3>3, <3>4, <3>5
  <2>4. QED
    BY <1>8, <2>1, <2>2, <2>3 DEF udpd_common_readcb
<1>9. QED
  BY <1>6, <1>7, <1>8

\* make_dest and make_dests, and the answers to their look-ups.
LEMMA AskInv ==
  ASSUME IInv, NEW a \in Asks, AskStep(a)
  PROVE  IInv'
<1>1. UNCHANGED <<conn, socks>>
  BY DEF AskStep, make_dest, udpd_dest_dns_callback, DestDnsReturns
<1>2. ask[a] \in AskType /\ Looking(ask[a], a, dns, frame) /\ ask \in [Asks -> AskType]
  BY DEF IInv, TypeOK
<1>3. CASE make_dest(a)
  <2>0. ask[a] = Unasked /\ frame' = frame
    BY <1>3 DEF make_dest
  <2>1. ask[a].co = "running" /\ a \notin dns /\ frame # a
    BY <1>2, <2>0 DEF Unasked, Looking
  <2>2. ASSUME NEW r \in AskType, ask' = [ask EXCEPT ![a] = r], dns' = dns,
               r.co = "running", r.req # "live"
        PROVE  IInv'
    <3>1. Looking(r, a, dns', frame')
      BY <2>0, <2>1, <2>2 DEF Looking
    <3>2. QED
      BY <1>1, <2>0, <2>2, <3>1, OneAsk
  <2>3. ASSUME NEW got \in {"raised", "no_port", "dest", "nil"},
               ask' = [ask EXCEPT ![a].got = got], dns' = dns
        PROVE  IInv'
    <3>1. PICK r : r = [Unasked EXCEPT !.got = got]
      OBVIOUS
    <3>2. r \in AskType /\ r.co = "running" /\ r.req = "none"
      BY <3>1 DEF Unasked, AskType
    <3>3. ask' = [ask EXCEPT ![a] = r]
      BY <2>0, <2>3, <3>1
    <3>4. QED
      BY <2>2, <2>3, <3>2, <3>3
  <2>4. ASSUME NEW got \in {"message", "junk"}, NEW req \in {"freed", "freed_twice"},
               ask' = [ask EXCEPT ![a].got = got, ![a].req = req], dns' = dns
        PROVE  IInv'
    <3>1. PICK r : r = [Unasked EXCEPT !.got = got, !.req = req]
      OBVIOUS
    <3>2. r \in AskType /\ r.co = "running" /\ r.req = req
      BY <3>1 DEF Unasked, AskType
    <3>3. ask' = [ask EXCEPT ![a] = r]
      BY <1>2, <2>0, <2>4, <3>1
    <3>4. QED
      BY <2>2, <2>4, <3>2, <3>3
  <2>5. CASE /\ ask' = [ask EXCEPT ![a] = [co |-> "yielded", ref |-> TRUE,
                                            req |-> "live", got |-> "-"]]
             /\ dns' = dns \cup {a}
    <3>1. PICK r : r = [co |-> "yielded", ref |-> TRUE, req |-> "live", got |-> "-"]
      OBVIOUS
    <3>2. r \in AskType /\ r.co = "yielded" /\ r.ref /\ r.req = "live"
      BY <3>1 DEF AskType
    <3>3. Looking(r, a, dns', frame')
      BY <2>0, <2>1, <2>5, <3>2 DEF Looking
    <3>4. QED
      BY <1>1, <2>0, <2>5, <3>1, <3>2, <3>3, OneAsk
  <2>6. QED
    BY <1>3, <2>3, <2>4, <2>5 DEF make_dest, udpd_dns_resolve_for_destination
<1>4. CASE udpd_dest_dns_callback(a)
  <2>1. PICK got \in {"dest", "nil"} : ask' = [ask EXCEPT ![a].co = "resumed", ![a].got = got]
    BY <1>4 DEF udpd_dest_dns_callback
  <2>2. frame = NoFrame /\ frame' = a /\ dns' = dns \ {a}
    BY <1>4 DEF udpd_dest_dns_callback
  <2>3. PICK r : r = [ask[a] EXCEPT !.co = "resumed", !.got = got]
    OBVIOUS
  <2>4. r \in AskType /\ r.co = "resumed"
    BY <1>2, <2>3 DEF AskType
  <2>5. ask' = [ask EXCEPT ![a] = r]
    BY <1>2, <2>1, <2>3
  <2>6. Looking(r, a, dns', frame')
    BY <2>2, <2>4 DEF Looking
  <2>7. QED
    BY <1>1, <2>2, <2>4, <2>5, <2>6, OneAsk
<1>5. CASE DestDnsReturns(a)
  <2>1. frame = a /\ frame' = NoFrame /\ dns' = dns /\ frame' # a
    BY <1>5, UdpdAssumption DEF DestDnsReturns
  <2>2. PICK r : r = [ask[a] EXCEPT !.ref = FALSE, !.req = "freed"]
    OBVIOUS
  <2>3. r \in AskType
    BY <1>2, <2>2, Zenon DEF AskType
  <2>4. r.co = ask[a].co /\ r.req = "freed"
    BY <1>2, <2>2, Zenon DEF AskType
  <2>5. ask' = [ask EXCEPT ![a] = r]
    BY <1>2, <1>5, <2>2 DEF DestDnsReturns
  <2>6. Looking(r, a, dns', frame')
    BY <1>2, <2>1, <2>4 DEF Looking
  <2>7. QED
    BY <1>1, <2>1, <2>3, <2>5, <2>6, OneAsk
<1>6. QED
  BY <1>3, <1>4, <1>5 DEF AskStep

-----------------------------------------------------------------------------
(* Theorems *)

\* Initially no connection is made and nothing is asked.
LEMMA InitInv == Init => IInv
<1> SUFFICES ASSUME Init PROVE IInv
  OBVIOUS
<1>1. Blank \in ConnType
  <2>1. "unborn" \in States /\ 0 \in Fds \cup {0}
    BY DEF States
  <2>2. QED
    BY <2>1, Zenon DEF Blank, ConnType
<1>2. Unasked \in AskType
  BY DEF Unasked, AskType
<1>3. TypeOK
  BY <1>1, <1>2 DEF Init, TypeOK
<1>4. Owning
  BY DEF Init, Owning, Blank
<1>5. \A c \in Conns : Living(conn[c]) /\ Looking(conn[c], c, dns, frame)
  BY UdpdAssumption DEF Init, Living, Looking, Blank
<1>6. \A a \in Asks : Looking(ask[a], a, dns, frame)
  BY UdpdAssumption DEF Init, Looking, Unasked
<1>7. QED
  BY <1>3, <1>4, <1>5, <1>6 DEF IInv

\* The invariant holds of every reachable state.
LEMMA Invariant == Spec => []IInv
<1>1. ASSUME IInv, [Next]_vars PROVE IInv'
  <2>1. ASSUME NEW c \in Conns, ConnStep(c) PROVE IInv'
    <3>1. CASE udpd_new(c)
      BY <1>1, <3>1, NewInv
    <3>2. CASE udpd_conn_dns_callback(c)
      BY <1>1, <3>2, ConnDnsInv
    <3>3. CASE ConnDnsReturns(c)
      BY <1>1, <3>3, ConnReturnsInv
    <3>4. CASE udpd_conn_close(c)
      BY <1>1, <3>4, CloseInv
    <3>5. CASE lua_udpd_conn_rebind(c)
      BY <1>1, <3>5, RebindInv
    <3>6. ASSUME NEW given \in BOOLEAN, udpd_conn_send(c, given) PROVE IInv'
      BY <1>1, <3>6 DEF udpd_conn_send, Call, IInv, TypeOK, Owning, Living, Looking
    <3>7. CASE \/ udpd_conn_send_request(c) \/ Drop(c)
               \/ udpd_common_readcb(c) \/ udpd_common_writecb(c)
      BY <1>1, <3>7, SmallInv
    <3>8. CASE lua_udpd_conn_gc(c)
      BY <1>1, <3>8, GcInv
    <3>9. QED
      BY <2>1, <3>1, <3>2, <3>3, <3>4, <3>5, <3>6, <3>7, <3>8 DEF ConnStep
  <2>2. ASSUME NEW a \in Asks, AskStep(a) PROVE IInv'
    BY <1>1, <2>2, AskInv
  <2>3. CASE UNCHANGED vars
    BY <1>1, <2>3 DEF vars, IInv, TypeOK, Owning, Living, Looking
  <2>4. QED
    BY <1>1, <2>1, <2>2, <2>3 DEF Next
<1>2. QED
  BY <1>1, InitInv, PTL DEF Spec

\* A connection's events watch its own open socket, sockets have one owner each,
\* and a collected object left nothing behind, through every refused step of
\* set-up and rebind (udpd_event.c, udpd.c).
THEOREM UdpdHandlesOwned == Spec => []UdpdHandles
<1>1. IInv => UdpdHandles
  <2> SUFFICES ASSUME IInv PROVE UdpdHandles
    OBVIOUS
  <2>1. ASSUME NEW f \in socks PROVE Cardinality({c \in Conns : conn[c].fd = f}) = 1
    <3>1. f # 0
      BY UdpdAssumption DEF IInv, TypeOK, Fds
    <3>2. PICK c \in Conns : conn[c].fd = f
      BY DEF IInv, Owning
    <3>3. {d \in Conns : conn[d].fd = f} = {c}
      BY <3>1, <3>2 DEF IInv, Owning
    <3>4. QED
      BY <3>3, FS_Singleton
  <2>2. QED
    BY <2>1 DEF IInv, Owning, Living, UdpdHandles
<1>2. QED
  BY <1>1, Invariant, PTL

\* A coroutine waits in udpd.new, make_dest or make_dests exactly while evdns has
\* its look-up, and its reference and request live as long (udpd_dns.c).
THEOREM UdpdLookupsAnswered == Spec => []UdpdAnswered
<1>1. IInv => UdpdAnswered
  BY DEF IInv, Looking, UdpdAnswered
<1>2. QED
  BY <1>1, Invariant, PTL

=============================================================================
