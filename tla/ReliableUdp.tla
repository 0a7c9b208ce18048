---------------------------- MODULE ReliableUdp ----------------------------
(***************************************************************************)
(* The message protocol of modules/fan/reliable_udp.lua as the two ends of *)
(* modules/fan/connector/udp.lua drive it: "cli" is the object made by     *)
(* connect, "srv" the per-client object made by bind's getapt.  Each end   *)
(* is a single-threaded event loop, so a callback is one action.           *)
(*                                                                         *)
(* A head is <<output_index, count, package_index>>; a message with k > 1  *)
(* parts has heads <<i,k,1>> .. <<i,k,k>>, a cancel package has <<i,0,0>>. *)
(* The body of a part is represented by the number of the message it comes *)
(* from.  The network may lose, duplicate and reorder packets.             *)
(***************************************************************************)
EXTENDS Integers, Sequences, FiniteSets, SequencesExt

CONSTANTS
  MaxIndex,   \* MAX_OUTPUT_INDEX
  Setups,     \* the sessions to look at, see SetupType
  MaxChain    \* bound on the packages queued at one end

Node == {"cli", "srv"}
Peer(n) == IF n = "cli" THEN "srv" ELSE "cli"

SetupType ==
  [parts        : [Node -> Seq(Nat)],  \* parts[n][k]: parts of n's k-th message
   window       : [Node -> Nat],       \* UDP_WINDOW_SIZE of each end
   waiting      : Nat \ {0},           \* WAITING_COUNT
   nonePaired   : Nat \ {0},           \* NONE_PAIRED_WAITING_COUNT
   first        : SUBSET [Node -> 1..MaxIndex],\* what math.random(MAX_OUTPUT_INDEX) returns
   maxNet       : Nat,                 \* bound on the packets in flight to one end
   mayCancel    : BOOLEAN,             \* ontimeout may return false
   sendMayFail  : BOOLEAN,             \* conn:send may fail
   mayDuplicate : BOOLEAN,             \* the network duplicates packets
   byName       : BOOLEAN]             \* connect was given a host name to resolve

ASSUME UdpAssumption ==
  /\ MaxIndex \in Nat /\ MaxIndex % 2 = 0
  /\ MaxChain \in Nat
  /\ \A s \in Setups :
       /\ s \in SetupType
       /\ \A n \in Node : 2 * (s.window[n] + 1) < MaxIndex
       /\ s.nonePaired =< s.waiting

Unset == 0

VARIABLES
  setup,         \* the session, fixed from the start
  outputIndex,   \* _output_index
  sendWindow,    \* _send_window
  sendHoles,     \* _send_window_holes
  chain,         \* _output_chain
  outstanding,   \* keys of _output_package_parts_map
  remaining,     \* heads still in the parts map of their message
  completed,     \* heads of packages marked completed
  waitAck,       \* keys of _output_wait_ack
  waitCount,     \* _output_wait_count
  paired,        \* whether _WAITING_COUNT has been raised
  windowSent,    \* _window_sent
  pending,       \* _pending_for_send, a write event is registered
  recvWindow,    \* _recv_window
  recvHoles,     \* _recv_window_holes
  incoming,      \* parts in _incoming_map: <<head, message>>
  net,           \* packets in flight
  used,          \* ghost: the index of each message an end has sent
  onsent,        \* ghost: messages reported by onsent
  delivered,     \* ghost: what onread was called with
  redelivered    \* ghost: messages passed to onread again

sender   == <<outputIndex, sendWindow, sendHoles, outstanding, remaining,
              completed, waitAck, waitCount, used, onsent>>
receiver == <<recvWindow, recvHoles, incoming, delivered, redelivered>>
link     == <<chain, paired, windowSent, pending, net>>
vars     == <<setup, sender, receiver, link>>

Parts == setup.parts
Msgs(n) == 1..Len(Parts[n])

\* An empty buffer still makes one package.
Packages(parts) == IF parts > 1 THEN parts ELSE 1
PartCount(n, k) == Packages(Parts[n][k])

IsCancel(h) == h[2] = 0
CancelHead(h) == <<h[1], 0, 0>>
\* The packages that share one parts map.
SameMap(h, g) == h[1] = g[1] /\ IsCancel(h) = IsCancel(g)

\* The message a head of n belongs to, 0 for a cancel package.
MessageOf(n, h) ==
  IF IsCancel(h) THEN 0
  ELSE CHOOSE k \in 1..Len(used[n]) :
         /\ used[n][k] = h[1]
         /\ \A j \in (k + 1)..Len(used[n]) : used[n][j] # h[1]

DataPackage(h, k) == [ack |-> FALSE, head |-> h, body |-> k]
AckPackage(h) == [ack |-> TRUE, head |-> h, body |-> 0]

Init ==
  /\ setup \in Setups
  /\ outputIndex \in setup.first
  /\ sendWindow = outputIndex
  /\ sendHoles = [n \in Node |-> {}]
  /\ chain = [n \in Node |-> <<>>]
  /\ outstanding = [n \in Node |-> {}]
  /\ remaining = [n \in Node |-> {}]
  /\ completed = [n \in Node |-> {}]
  /\ waitAck = [n \in Node |-> {}]
  /\ waitCount = [n \in Node |-> 0]
  /\ paired = [n \in Node |-> FALSE]
  /\ windowSent = [n \in Node |-> FALSE]
  /\ pending = [n \in Node |-> FALSE]
  /\ recvWindow = [n \in Node |-> Unset]
  /\ recvHoles = [n \in Node |-> {}]
  /\ incoming = [n \in Node |-> {}]
  /\ net = {}
  /\ used = [n \in Node |-> <<>>]
  /\ onsent = [n \in Node |-> {}]
  /\ delivered = [n \in Node |-> {}]
  /\ redelivered = [n \in Node |-> {}]

-----------------------------------------------------------------------------
(* Windows and indices *)

NextIndex(i) == IF i + 1 >= MaxIndex THEN 1 ELSE i + 1

\* The k-th value a window takes from w; only an exact MaxIndex wraps.
Successor(w, k) ==
  IF w >= MaxIndex THEN w + k ELSE ((w - 1 + k) % (MaxIndex - 1)) + 1

\* How far the loops of _apply_send_window and _apply_recv_window go.
Filled(w, holes) ==
  CHOOSE k \in 0..Cardinality(holes) :
    /\ Successor(w, k) \notin holes
    /\ \A j \in 0..(k - 1) : Successor(w, j) \in holes

AdvanceBy(w, holes, k) ==
  [window |-> Successor(w, k),
   holes  |-> holes \ {Successor(w, j) : j \in 0..(k - 1)}]

Apply(w, holes, i) ==
  LET h == holes \cup {i} IN AdvanceBy(w, h, Filled(w, h))

Ahead(w, i) == IF i >= w THEN i - w ELSE i + MaxIndex - w
Outside(n, w, i) == Ahead(w, i) > setup.window[n]
Future(w, i) == 2 * Ahead(w, i) < MaxIndex
Old(w, i) ==
  2 * (IF i >= w THEN w + MaxIndex - i ELSE w - i) < MaxIndex

-----------------------------------------------------------------------------
(* Sending *)

\* send: allocate an index, queue every part, ask for a write event.
Send(n) ==
  LET k == Len(used[n]) + 1
      i == outputIndex[n]
      c == PartCount(n, k)
      hs == {<<i, c, j>> : j \in 1..c}
  IN  /\ k \in Msgs(n)
      /\ Len(chain[n]) + c =< MaxChain
      /\ used' = [used EXCEPT ![n] = Append(@, i)]
      /\ outputIndex' = [outputIndex EXCEPT ![n] = NextIndex(i)]
      /\ chain' = [chain EXCEPT ![n] =
                     @ \o [j \in 1..c |-> DataPackage(<<i, c, j>>, k)]]
      /\ outstanding' = [outstanding EXCEPT ![n] = @ \cup hs]
      /\ remaining' = [remaining EXCEPT ![n] =
                         {g \in @ : g[1] # i \/ IsCancel(g)} \cup hs]
      /\ completed' = [completed EXCEPT ![n] =
                         {g \in @ : g[1] # i \/ IsCancel(g)}]
      /\ pending' = [pending EXCEPT ![n] = TRUE]
      /\ UNCHANGED <<setup, sendWindow, sendHoles, waitAck, waitCount, onsent,
                     receiver, paired, windowSent, net>>

\* chain_mt:pop takes the first package that may go out now.
MayPop(n, p) ==
  \/ p.ack
  \/ Old(sendWindow[n], p.head[1])
  \/ /\ ~Outside(n, sendWindow[n], p.head[1])
     /\ waitCount[n] < (IF paired[n] THEN setup.waiting ELSE setup.nonePaired)

Poppable(n) == {k \in 1..Len(chain[n]) : MayPop(n, chain[n][k])}
PopAt(n) == CHOOSE k \in Poppable(n) : \A j \in Poppable(n) : k =< j

\* _send: a failed conn:send returns nil, so that the comparison after it
\* raises and the closing send_req is not reached.
Transmit(n, p, rest, unsent) ==
  \/ /\ net' = rest \cup {[dst |-> Peer(n), pkt |-> p]}
     /\ Cardinality({q \in net' : q.dst = Peer(n)}) =< setup.maxNet
     /\ pending' = [pending EXCEPT ![n] = TRUE]
  \/ /\ setup.sendMayFail
     /\ net' = rest
     /\ pending' = [pending EXCEPT ![n] = unsent]

WindowSet(n) == [type |-> "set", window |-> sendWindow[n]]

\* An acknowledgement is a bare head, and so is a part with an empty body.
Wire(n, p) ==
  IF p.body \in Msgs(n) /\ Parts[n][p.body] = 0
  THEN [type |-> "ack", head |-> p.head]
  ELSE [type |-> "data", head |-> p.head, body |-> p.body]

\* onsendready, the window first.  connect marks it sent before sending,
\* bind after, which only a failing send can tell apart.
SendReadyWindow(n) ==
  /\ pending[n]
  /\ ~windowSent[n]
  /\ Transmit(n, WindowSet(n), net, FALSE)
  /\ windowSent' = [windowSent EXCEPT ![n] = n = "cli" \/ pending'[n]]
  /\ UNCHANGED <<sender, receiver, chain, paired>>

SendReadyIdle(n) ==
  /\ pending[n] /\ windowSent[n]
  /\ Poppable(n) = {}
  /\ pending' = [pending EXCEPT ![n] = FALSE]
  /\ UNCHANGED <<sender, receiver, chain, paired, windowSent, net>>

SendReadyAck(n) ==
  /\ pending[n] /\ windowSent[n]
  /\ Poppable(n) # {}
  /\ LET p == chain[n][PopAt(n)]
     IN  /\ p.ack
         /\ Transmit(n, [type |-> "ack", head |-> p.head], net, FALSE)
  /\ chain' = [chain EXCEPT ![n] = RemoveAt(@, PopAt(n))]
  /\ UNCHANGED <<sender, receiver, paired, windowSent>>

\* A package acknowledged while it was queued is popped and nothing is sent:
\* no write event is requested either.
SendReadyStale(n) ==
  /\ pending[n] /\ windowSent[n]
  /\ Poppable(n) # {}
  /\ LET p == chain[n][PopAt(n)] IN ~p.ack /\ p.head \notin outstanding[n]
  /\ chain' = [chain EXCEPT ![n] = RemoveAt(@, PopAt(n))]
  /\ pending' = [pending EXCEPT ![n] = FALSE]
  /\ UNCHANGED <<sender, receiver, paired, windowSent, net>>

SendReadyDataUntimed(n) ==
  /\ pending[n] /\ windowSent[n]
  /\ Poppable(n) # {}
  /\ LET p == chain[n][PopAt(n)]
     IN  ~p.ack /\ p.head \in outstanding[n] /\ Transmit(n, Wire(n, p), net, FALSE)
  /\ chain' = [chain EXCEPT ![n] = RemoveAt(@, PopAt(n))]
  /\ UNCHANGED <<sender, receiver, paired, windowSent>>

SendReadyData(n) ==
  /\ pending[n] /\ windowSent[n]
  /\ Poppable(n) # {}
  /\ LET p == chain[n][PopAt(n)]
     IN  /\ ~p.ack /\ p.head \in outstanding[n]
         /\ waitCount' = [waitCount EXCEPT ![n] =
                            IF p.head \in waitAck[n] THEN @ ELSE @ + 1]
         /\ waitAck' = [waitAck EXCEPT ![n] = @ \cup {p.head}]
         /\ Transmit(n, Wire(n, p), net, FALSE)
  /\ chain' = [chain EXCEPT ![n] = RemoveAt(@, PopAt(n))]
  /\ UNCHANGED <<outputIndex, sendWindow, sendHoles, outstanding, remaining,
                 completed, used, onsent, receiver, paired, windowSent>>

-----------------------------------------------------------------------------
(* Timeouts *)

(* _check_timeout visits the packages waiting for an ack in the order of   *)
(* pairs(); each is resent, dropped, or found not to have expired.         *)

Verdict == {"wait", "resend"} \cup (IF setup.mayCancel THEN {"drop"} ELSE {})

Visited(n) == [chain |-> chain[n], outstanding |-> outstanding[n],
               completed |-> completed[n], waitAck |-> waitAck[n],
               waitCount |-> waitCount[n], cancels |-> <<>>]

MarkSendCompletedUncounted(v, h) ==
  [v EXCEPT !.outstanding = @ \ {h}, !.waitAck = @ \ {h}]

MarkSendCompleted(v, h) ==
  [v EXCEPT !.outstanding = @ \ {h}, !.waitAck = @ \ {h}, !.waitCount = @ - 1]

Visit(n, v, h, verdict) ==
  IF h \in v.completed THEN MarkSendCompleted(v, h)
  ELSE CASE verdict = "wait" -> v
         [] verdict = "resend" \/ IsCancel(h) ->
              [v EXCEPT !.chain = Append(@, DataPackage(h, MessageOf(n, h))),
                        !.waitAck = @ \ {h}, !.waitCount = @ - 1]
         [] OTHER ->
              [MarkSendCompleted(v, h) EXCEPT
                 !.completed = @ \cup {g \in remaining[n] : SameMap(g, h)},
                 !.cancels = Append(@, DataPackage(CancelHead(h), 0))]

\* The cancel packages are queued, each with a parts map of its own.
CheckTimeout(n) ==
  \E order \in SetToSeqs(waitAck[n]), verdict \in [waitAck[n] -> Verdict] :
    LET v == FoldLeft(LAMBDA u, h : Visit(n, u, h, verdict[h]), Visited(n), order)
        cancelled == {v.cancels[j].head : j \in 1..Len(v.cancels)}
        timeout == \E h \in waitAck[n] : h \notin completed[n] /\ verdict[h] # "wait"
        queue == v.chain \o v.cancels
    IN  /\ Len(queue) =< MaxChain
        /\ chain' = [chain EXCEPT ![n] = queue]
        /\ outstanding' = [outstanding EXCEPT ![n] = v.outstanding \cup cancelled]
        /\ remaining' = [remaining EXCEPT ![n] = @ \cup cancelled]
        /\ completed' = [completed EXCEPT ![n] = v.completed]
        /\ waitAck' = [waitAck EXCEPT ![n] = v.waitAck]
        /\ waitCount' = [waitCount EXCEPT ![n] = v.waitCount]
        /\ pending' = [pending EXCEPT ![n] = @ \/ timeout \/ queue # <<>>]
        /\ UNCHANGED <<setup, outputIndex, sendWindow, sendHoles, used, onsent,
                       receiver, paired, windowSent, net>>

-----------------------------------------------------------------------------
(* Receiving: _onread *)

\* The packet taken off the network; a duplicate of it may stay.
Taken(p) == {net \ {p}} \cup (IF setup.mayDuplicate THEN {net} ELSE {})

\* Both onread callbacks raise _WAITING_COUNT whatever the packet is.
Reads(n, p) ==
  /\ p.dst = n
  /\ paired' = [paired EXCEPT ![n] = TRUE]

\* connect compares the printed address of the sender with the host it was
\* given; a host name never equals an address, and the packet is dropped.
Accepts(n) == n = "srv" \/ ~setup.byName

RecvForeign(n, p) ==
  /\ Reads(n, p)
  /\ ~Accepts(n)
  /\ net' \in Taken(p)
  /\ UNCHANGED <<sender, receiver, chain, windowSent, pending>>

\* The parts of the same message that are still to be acknowledged.
Left(n, h) == {g \in remaining[n] \ {h} : SameMap(g, h)}

RecvAck(n, p) ==
  /\ Reads(n, p) /\ Accepts(n)
  /\ p.pkt.type = "ack"
  /\ LET h == p.pkt.head
         known == h \in outstanding[n]
         sent == known /\ Left(n, h) = {}
         w == Apply(sendWindow[n], sendHoles[n], h[1])
     IN  /\ outstanding' = [outstanding EXCEPT ![n] = @ \ {h}]
         /\ waitAck' = [waitAck EXCEPT ![n] = IF known THEN @ \ {h} ELSE @]
         /\ waitCount' = [waitCount EXCEPT ![n] =
                            IF known /\ h \in waitAck[n] THEN @ - 1 ELSE @]
         /\ remaining' = [remaining EXCEPT ![n] = IF known THEN @ \ {h} ELSE @]
         /\ sendWindow' = [sendWindow EXCEPT ![n] = IF sent THEN w.window ELSE @]
         /\ sendHoles' = [sendHoles EXCEPT ![n] = IF sent THEN w.holes ELSE @]
         /\ onsent' = [onsent EXCEPT ![n] =
                         IF sent THEN @ \cup {MessageOf(n, h)} ELSE @]
  /\ pending' = [pending EXCEPT ![n] = TRUE]
  /\ net' \in Taken(p)
  /\ UNCHANGED <<outputIndex, completed, used, receiver, chain, windowSent>>

RecvWindowSet(n, p) ==
  /\ Reads(n, p) /\ Accepts(n)
  /\ p.pkt.type = "set"
  /\ recvWindow' = [recvWindow EXCEPT ![n] =
                      IF @ = Unset /\ p.pkt.window < MaxIndex
                      THEN p.pkt.window ELSE @]
  /\ net' \in Taken(p)
  /\ UNCHANGED <<sender, recvHoles, incoming, delivered, redelivered,
                 chain, windowSent, pending>>

RecvWindowReqIgnored(n, p) ==
  /\ Reads(n, p) /\ Accepts(n)
  /\ p.pkt.type = "req"
  /\ net' \in Taken(p)
  /\ UNCHANGED <<sender, receiver, chain, windowSent, pending>>

RecvWindowReq(n, p) ==
  /\ Reads(n, p) /\ Accepts(n)
  /\ p.pkt.type = "req"
  /\ windowSent' = [windowSent EXCEPT ![n] = FALSE]
  /\ net' \in Taken(p)
  /\ UNCHANGED <<sender, receiver, chain, pending>>

\* Index MAX_OUTPUT_INDEX itself is not below the limit: it is ignored.
RecvIgnored(n, p) ==
  /\ Reads(n, p) /\ Accepts(n)
  /\ p.pkt.type = "data" /\ p.pkt.head[1] >= MaxIndex
  /\ net' \in Taken(p)
  /\ UNCHANGED <<sender, receiver, chain, windowSent, pending>>

\* Data before the window is known: ask for the window, do not acknowledge.
RecvUnpaired(n, p) ==
  /\ Reads(n, p) /\ Accepts(n)
  /\ p.pkt.type = "data" /\ p.pkt.head[1] < MaxIndex
  /\ recvWindow[n] = Unset
  /\ \E rest \in Taken(p) : Transmit(n, [type |-> "req"], rest, pending[n])
  /\ UNCHANGED <<sender, receiver, chain, windowSent>>

\* The part of _onread common to the data packets of a known window.
Data(n, p) ==
  /\ Reads(n, p) /\ Accepts(n)
  /\ p.pkt.type = "data" /\ p.pkt.head[1] < MaxIndex
  /\ recvWindow[n] # Unset
  /\ net' \in Taken(p)
  /\ UNCHANGED <<sender, windowSent>>

QueueAck(n, p) ==
  /\ Len(chain[n]) < MaxChain
  /\ chain' = [chain EXCEPT ![n] = Append(@, AckPackage(p.pkt.head))]
  /\ pending' = [pending EXCEPT ![n] = TRUE]

InWindowOrBehind(n, p) ==
  ~Outside(n, recvWindow[n], p.pkt.head[1]) \/ ~Future(recvWindow[n], p.pkt.head[1])

InWindow(n, p) == ~Outside(n, recvWindow[n], p.pkt.head[1])

RecvAheadAcked(n, p) ==
  /\ Data(n, p)
  /\ ~InWindow(n, p) /\ Future(recvWindow[n], p.pkt.head[1])
  /\ QueueAck(n, p)
  /\ UNCHANGED receiver

\* Too far ahead: neither acknowledged nor kept.
RecvAhead(n, p) ==
  /\ Data(n, p)
  /\ ~InWindow(n, p) /\ Future(recvWindow[n], p.pkt.head[1])
  /\ UNCHANGED <<receiver, chain, pending>>

\* Behind the window: acknowledged again, and dropped.
RecvBehind(n, p) ==
  /\ Data(n, p)
  /\ ~InWindow(n, p) /\ ~Future(recvWindow[n], p.pkt.head[1])
  /\ QueueAck(n, p)
  /\ UNCHANGED receiver

ApplyRecvWindowUndrained(n, i) ==
  /\ recvWindow' = [recvWindow EXCEPT ![n] = IF i = @ THEN Successor(@, 1) ELSE @]
  /\ recvHoles' = [recvHoles EXCEPT ![n] = IF i = recvWindow[n] THEN @ ELSE @ \cup {i}]

ApplyRecvWindow(n, i) ==
  LET w == Apply(recvWindow[n], recvHoles[n], i)
  IN  /\ recvWindow' = [recvWindow EXCEPT ![n] = w.window]
      /\ recvHoles' = [recvHoles EXCEPT ![n] = w.holes]

RecvCancel(n, p) ==
  /\ Data(n, p) /\ InWindow(n, p)
  /\ IsCancel(p.pkt.head)
  /\ QueueAck(n, p)
  /\ incoming' = [incoming EXCEPT ![n] = {x \in @ : x.head[1] # p.pkt.head[1]}]
  /\ ApplyRecvWindow(n, p.pkt.head[1])
  /\ UNCHANGED <<delivered, redelivered>>

\* The items of the incoming object once the part of p is stored.
Items(n, p) ==
  LET h == p.pkt.head
  IN  {x \in incoming[n] : x.head[1] = h[1] /\ x.head[3] # h[3]}
        \cup {[head |-> h, body |-> p.pkt.body]}

CompleteButLast(n, p) ==
  \A j \in 1..(p.pkt.head[2] - 1) : \E x \in Items(n, p) : x.head[3] = j

Complete(n, p) ==
  \A j \in 1..p.pkt.head[2] : \E x \in Items(n, p) : x.head[3] = j

RecvPart(n, p) ==
  /\ Data(n, p) /\ InWindow(n, p)
  /\ ~IsCancel(p.pkt.head) /\ ~Complete(n, p)
  /\ QueueAck(n, p)
  /\ incoming' = [incoming EXCEPT ![n] =
                    {x \in @ : x.head[1] # p.pkt.head[1]} \cup Items(n, p)]
  /\ UNCHANGED <<recvWindow, recvHoles, delivered, redelivered>>

\* The last part: the window moves and onread gets the parts put together.
\* An index that is already a hole is noticed but not refused.
RecvComplete(n, p) ==
  /\ Data(n, p) /\ InWindow(n, p)
  /\ ~IsCancel(p.pkt.head) /\ Complete(n, p)
  /\ QueueAck(n, p)
  /\ incoming' = [incoming EXCEPT ![n] = {x \in @ : x.head[1] # p.pkt.head[1]}]
  /\ ApplyRecvWindow(n, p.pkt.head[1])
  /\ LET what == {<<x.head[3], x.body>> : x \in Items(n, p)}
     IN  /\ delivered' = [delivered EXCEPT ![n] = @ \cup {what}]
         /\ redelivered' = [redelivered EXCEPT ![n] =
              IF what \in delivered[n]
              THEN @ \cup {<<what, p.pkt.head[1] \in recvHoles[n]>>} ELSE @]

Lose(p) ==
  /\ net' = net \ {p}
  /\ UNCHANGED <<setup, sender, receiver, chain, paired, windowSent, pending>>

-----------------------------------------------------------------------------

SendReady(n) ==
  /\ \/ SendReadyWindow(n) \/ SendReadyIdle(n) \/ SendReadyAck(n)
     \/ SendReadyStale(n) \/ SendReadyData(n)
  /\ UNCHANGED setup

OnRead(n, p) ==
  /\ \/ RecvForeign(n, p) \/ RecvAck(n, p) \/ RecvWindowSet(n, p)
     \/ RecvWindowReq(n, p) \/ RecvIgnored(n, p) \/ RecvUnpaired(n, p)
     \/ RecvAhead(n, p) \/ RecvBehind(n, p) \/ RecvCancel(n, p)
     \/ RecvPart(n, p) \/ RecvComplete(n, p)
  /\ UNCHANGED setup

Next ==
  \/ \E n \in Node : Send(n) \/ SendReady(n) \/ CheckTimeout(n)
  \/ \E p \in net : Lose(p) \/ \E n \in Node : OnRead(n, p)

Spec == Init /\ [][Next]_vars

\* Write events and timers fire, and an unanswered package expires.
Expire(n) == CheckTimeout(n) /\ pending'[n] /\ waitAck'[n] = {}

\* A packet about part j of message k, or about the window.
Concerns(p, t, k, j) ==
  /\ p.pkt.type = t
  /\ t = "data" => p.pkt.body = k /\ p.pkt.head[3] = j
  /\ t = "ack" => /\ k \in 1..Len(used[p.dst])
                  /\ p.pkt.head[1] = used[p.dst][k] /\ p.pkt.head[3] = j

\* The messages and their parts in any of the sessions.
AllMsgs(n) == UNION {1..Len(s.parts[n]) : s \in Setups}
AllParts(n) ==
  UNION {UNION {{<<k, j>> : j \in 1..Packages(s.parts[n][k])}
                  : k \in 1..Len(s.parts[n])} : s \in Setups}

Topics(n) ==
  {<<"data", x[1], x[2]>> : x \in AllParts(Peer(n))} \cup
  {<<"ack", x[1], x[2]>> : x \in AllParts(n)} \cup
  (IF AllMsgs(Peer(n)) # {} THEN {<<"set", 0, 0>>} ELSE {}) \cup
  (IF AllMsgs(n) # {} THEN {<<"req", 0, 0>>} ELSE {})

\* The network is fair: what is sent over and over arrives.
Fairness ==
  \A n \in Node :
    /\ WF_vars(SendReady(n))
    /\ WF_vars(Expire(n))
    /\ \A x \in Topics(n) :
         SF_vars(\E p \in net : Concerns(p, x[1], x[2], x[3]) /\ OnRead(n, p))

FairSpec == Spec /\ Fairness

-----------------------------------------------------------------------------
(* Properties *)

\* The counter that throttles pop is the number of packages on the wire, and
\* each of them still has its parts map: _send_package, _onack and
\* _check_timeout update three tables and a counter by hand.  "if full, all
\* new packet will keep waiting until pool size is not full".  No package is
\* lost between the tables: one that is not yet acknowledged is queued or on
\* the wire with a running timeout, never neither or both.
NothingForgotten ==
  \A n \in Node :
    /\ waitAck[n] \subseteq outstanding[n]
    /\ waitCount[n] = Cardinality(waitAck[n])
    /\ waitCount[n] =< setup.waiting
    /\ \A h \in outstanding[n] :
         (h \in waitAck[n]) # (\E k \in 1..Len(chain[n]) :
                                 ~chain[n][k].ack /\ chain[n][k].head = h)

\* onsent tells the truth: the peer's onread has had the whole message.
SentMeansDelivered ==
  \A n \in Node : \A k \in onsent[n] \ {0} :
    {<<j, k>> : j \in 1..PartCount(n, k)} \in delivered[Peer(n)]

\* onread gets whole messages that were sent, all parts of the same one,
\* also when indices wrap around.
DeliveredIntact ==
  \A n \in Node : \A what \in delivered[n] :
    \E k \in 1..Len(used[Peer(n)]) :
      what = {<<j, k>> : j \in 1..PartCount(Peer(n), k)}

\* The windows move together: the receiver is never behind what the sender
\* has finished with, and never beyond what it may have sent.
WindowsAgree ==
  \A n \in Node :
    recvWindow[Peer(n)] # Unset =>
      \E k \in 0..(setup.window[n] + 1) :
        recvWindow[Peer(n)] = Successor(sendWindow[n], k)

\* Exactly-once, as far as the code provides it: a message comes to onread a
\* second time only while its index is a hole of the receive window.
RepeatsOnlyInHoles ==
  \A n \in Node : \A x \in redelivered[n] : x[2]

\* "drop dup package.": a package whose message was already received whole
\* is dropped, so no message is passed to onread twice.
DeliveredOnce == \A n \in Node : redelivered[n] = {}

\* Every message is eventually read by the peer and reported as sent.
EventuallyDelivered ==
  \A n \in Node : \A k \in AllMsgs(n) : (Len(used[n]) >= k) ~> (k \in onsent[n])
=============================================================================
