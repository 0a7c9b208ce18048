--------------------------- MODULE TcpConnProofs ---------------------------
(***************************************************************************)
(* Proofs about a connection of fan.tcpd, for any number of chunks, Lua    *)
(* turns and calls, with or without a worker thread, however its two       *)
(* threads interleave: what it owns is released once, data is not lost     *)
(* before its end is reported, and callbacks end with close.               *)
(***************************************************************************)
EXTENDS TcpConn, TLAPS

-----------------------------------------------------------------------------
(* The inductive invariant *)

Cleaning == {"ssl", "take", "free", "refs"}
Holding  == {"free", "detach_free"}
Calling  == {"mainthread", "lock", "resume"}
Ending   == {"end", "eof_input", "detach", "detach_free", "report", "cleanup"}
Callback == {"read", "drain", "write", "connected", "mainthread", "lock"} \cup Ending
Entry    == {"read", "drain", "write", "connected", "end", "eof_input"}
PC       == {"idle", "lua", "resume"} \cup Cleaning \cup Callback

ConnType ==
  [made : BOOLEAN, buf : BOOLEAN, cleaned : BOOLEAN, mt : BOOLEAN, refs : SUBSET Refs,
   ssl : BOOLEAN, mutex : BOOLEAN]
BevType ==
  [exists : BOOLEAN, freed : BOOLEAN, cbs : BOOLEAN, reading : BOOLEAN, input : Nat,
   output : BOOLEAN, shut : BOOLEAN, due : SUBSET Events, ran : Nat]
PeerType == [sent : Nat, up : BOOLEAN, ended : BOOLEAN]
ThreadType ==
  [pc : PC, ref : Refs \cup {"none", "accept"}, ev : Events \cup {"none"}, data : Nat,
   calls : Nat, back : {"idle", "detach", "cleanup"}]
LogType ==
  [turns : Nat, frees : Nat, releases : Nat, delivered : Nat, dropped : Nat, ended : Nat,
   closed : BOOLEAN, late : BOOLEAN, oom : BOOLEAN, lateBind : BOOLEAN, early : BOOLEAN,
   crashed : BOOLEAN]

TypeOK ==
  /\ cfg \in [kind : {"client", "accept"}, worker : BOOLEAN, tls : BOOLEAN]
  /\ conn \in ConnType /\ bev \in BevType /\ peer \in PeerType
  /\ th \in [Threads -> ThreadType] /\ lua \in Threads \cup {"free"} /\ log \in LogType

\* Where each thread may stand: Lua runs on the thread that holds lua_lock, and
\* only the thread of the callbacks is ever inside one.
Placed(t) ==
  /\ th[t].pc = "idle" => th[t] = Idle
  /\ th[t].pc = "lua" => lua = t
  /\ lua = t => th[t].pc \in {"lua"} \cup Cleaning
  /\ th[t].pc \in Callback => th[t].ev # "none"
  /\ th[t].ev # "none" => t = CbThread /\ conn.made
  /\ th[t].pc = "resume" => th[t].ev # "none" \/ th[t].ref = "accept"
  /\ th[t].pc \in Cleaning /\ lua # t => th[t].ev # "none"
  /\ th[t].pc \in Ending \/ th[t].back # "idle" => th[t].ev \in Ends
  /\ th[t].pc = "eof_input" => th[t].ev = "eof"
  /\ th[t].pc \in Entry => th[t].back = "idle"
  /\ th[t].pc \in {"detach", "detach_free", "report"} => th[t].back # "cleanup"
  /\ t # "main" /\ ~cfg.worker => th[t].pc = "idle"

Placing == \A t \in Threads : Placed(t)

\* Before the connection is made there is nothing.
Unmade ==
  ~conn.made => conn = Blank /\ ~bev.exists /\ ~bev.freed /\ ~bev.cbs /\ bev.due = {}

\* The bufferevent has one owner until it is freed: conn->buf, or the thread
\* that took the pointer and frees it next.
Owned ==
  /\ conn.buf => bev.exists /\ ~bev.freed
  /\ \A t \in Threads : th[t].pc \in Holding => bev.exists /\ ~bev.freed /\ ~conn.buf
  /\ th["main"].pc \in Holding => th["io"].pc \notin Holding
  /\ bev.exists /\ ~bev.freed => conn.buf \/ \E t \in Threads : th[t].pc \in Holding
  /\ log.frees = IF bev.freed THEN 1 ELSE 0

\* One thread cleans up, and when it has finished nothing is left.
CleanedOnce ==
  /\ \A t \in Threads :
       /\ th[t].pc \in Cleaning => conn.cleaned /\ conn.mutex
       /\ th[t].pc = "ssl" => log.releases = 0
       /\ th[t].pc \in {"free", "refs"} => ~conn.buf /\ ~conn.ssl
  /\ th["main"].pc \in Cleaning => th["io"].pc \notin Cleaning
  /\ conn.cleaned /\ conn.mutex => \E t \in Threads : th[t].pc \in Cleaning
  /\ log.releases <= 1
  /\ log.releases > 0 => conn.cleaned
  /\ ~conn.mutex => /\ conn.cleaned /\ ~conn.buf /\ ~conn.ssl
                    /\ conn.refs = {} \/ log.lateBind
  /\ ~conn.mt => conn.cleaned
  /\ log.closed => ~conn.mutex

\* The references: onread is there from connect or bind to the cleanup, and an
\* accepted connection of a worker does not read before bind unless Lua told it
\* to.
Referenced ==
  /\ ~conn.cleaned => conn.refs = {} \/ "read" \in conn.refs
  /\ cfg.kind = "client" /\ conn.made /\ ~conn.cleaned => "read" \in conn.refs
  /\ cfg.worker /\ conn.refs = {} /\ ~conn.cleaned /\ ~log.early =>
       ~bev.reading /\ bev.input = 0

\* What arrived is somewhere, and is dropped only for a reason.
Counted ==
  /\ peer.sent = bev.input + th["main"].data + th["io"].data + log.delivered + log.dropped
  /\ \A t \in Threads : th[t].data > 0 =>
       th[t].pc \in Calling /\ th[t].ref = "read" /\ ("read" \in conn.refs \/ conn.cleaned)
  /\ \A t \in Threads : th[t].pc = "eof_input" => "read" \in conn.refs \/ conn.cleaned
  /\ log.dropped > 0 => conn.cleaned \/ log.oom

\* The end of the connection comes once: it is due, then with one thread, then
\* past.  EndAhead: ondisconnected has not run yet.
EndAhead(t) == th[t].ev \in Ends /\ (th[t].back # "cleanup" \/ th[t].pc \in Calling)

EndsOnce ==
  /\ bev.due \cap Ends # {} => peer.ended
  /\ ~("eof" \in bev.due /\ "error" \in bev.due)
  /\ \A t \in Threads :
       /\ th[t].ev \in Ends => peer.ended /\ bev.due \cap Ends = {}
       /\ th[t].pc \in Calling /\ th[t].ref = "disconnected" =>
            th[t].ev \in Ends /\ th[t].back = "cleanup"
  /\ log.ended <= 1
  /\ log.ended > 0 => /\ peer.ended /\ bev.due \cap Ends = {}
                      /\ \A t \in Threads : ~EndAhead(t)

\* At the end of the stream the input is read before anything is freed.
Drained == bev.input = 0 \/ log.early \/ log.lateBind

InputFirst ==
  /\ bev.cbs /\ ~conn.buf => conn.cleaned \/ th[CbThread].pc = "detach_free"
  /\ \A t \in Threads :
       /\ th[t].pc \in {"end", "eof_input"} => conn.buf \/ conn.cleaned
       /\ th[t].pc = "eof_input" /\ ~cfg.worker => conn.buf
       /\ th[t].ev = "eof" /\ th[t].back = "detach" => bev.input = 0
       /\ th[t].ev = "eof" /\ th[t].pc \in {"detach", "detach_free", "report"} =>
            Drained \/ conn.cleaned \/ (~cfg.worker /\ conn.refs = {})
       /\ th[t].ev = "eof" /\ th[t].pc \in Calling /\ th[t].ref = "disconnected" =>
            Drained \/ (conn.cleaned /\ th[t].pc # "resume")

Noticed ==
  /\ log.late => log.lateBind
  /\ log.crashed => cfg.worker

IInv ==
  /\ TypeOK
  /\ Placing
  /\ Unmade /\ Owned /\ CleanedOnce /\ Referenced /\ Counted /\ EndsOnce /\ InputFirst
  /\ Noticed

-----------------------------------------------------------------------------
(* Types *)

\* The type invariant holds initially.
LEMMA InitTypeOK == Init => TypeOK
BY DEF Init, TypeOK, Blank, Idle, Threads, Refs, PC, Events, Ends, ConnType, BevType, PeerType,
       ThreadType, LogType

\* The ways a thread moves: to a place, out of a callback, ...
LEMMA GoTypeOK ==
  ASSUME th \in [Threads -> ThreadType], NEW t \in Threads, NEW pc \in PC, Go(t, pc)
  PROVE  th' \in [Threads -> ThreadType]
BY DEF Go, ThreadType

LEMMA DoneTypeOK ==
  ASSUME th \in [Threads -> ThreadType], NEW t \in Threads, Done(t)
  PROVE  th' \in [Threads -> ThreadType]
<1>1. Idle \in ThreadType
  BY DEF ThreadType, Idle, PC
<1>2. QED
  BY <1>1 DEF Done

\* ... into a call of a reference, ...
LEMMA CallTypeOK ==
  ASSUME th \in [Threads -> ThreadType], NEW t \in Threads, NEW ref \in Refs,
         NEW pc \in {"idle", "detach", "cleanup"}, NEW n \in Nat, Call(t, ref, pc, n)
  PROVE  th' \in [Threads -> ThreadType]
<1>1. "mainthread" \in PC
  BY DEF PC, Callback
<1>2. [th[t] EXCEPT !.pc = "mainthread", !.ref = ref, !.back = pc, !.data = n] \in ThreadType
  BY <1>1, Zenon DEF ThreadType
<1>3. QED
  BY <1>2 DEF Call

\* ... and back from one that cannot be made.
LEMMA AbandonTypeOK ==
  ASSUME TypeOK, NEW t \in Threads, NEW why, Abandon(t, why)
  PROVE  th' \in [Threads -> ThreadType] /\ log' \in LogType
<1>1. log' \in LogType
  <2>1. log.dropped + th[t].data \in Nat
    BY DEF TypeOK, LogType, ThreadType
  <2>2. (log.oom \/ why = "oom") \in BOOLEAN
    BY DEF TypeOK, LogType
  <2>3. QED
    BY <2>1, <2>2, Zenon DEF Abandon, TypeOK, LogType
<1>2. CASE th[t].back = "idle"
  <2>1. Done(t)
    BY <1>2 DEF Abandon, Done
  <2>2. QED
    BY <1>1, <2>1, DoneTypeOK DEF TypeOK
<1>3. CASE th[t].back # "idle"
  <2>1. th[t] \in ThreadType /\ th[t].back \in {"detach", "cleanup"}
    BY <1>3 DEF TypeOK, ThreadType
  <2>2. [th[t] EXCEPT !.pc = th[t].back, !.data = 0] \in ThreadType
    BY <2>1 DEF ThreadType, PC, Callback, Ending
  <2>3. th' = [th EXCEPT ![t] = [th[t] EXCEPT !.pc = th[t].back, !.data = 0]]
    BY <1>3 DEF Abandon
  <2>4. QED
    BY <1>1, <2>2, <2>3 DEF TypeOK
<1>4. QED
  BY <1>2, <1>3

LEMMA StartTypeOK ==
  ASSUME NEW e \in Events, NEW p \in PC
  PROVE  [Idle EXCEPT !.ev = e, !.pc = p] \in ThreadType
<1>1. Idle \in ThreadType
  BY DEF Idle, ThreadType, PC
<1>2. QED
  BY <1>1, Zenon DEF ThreadType

LEMMA CleanupTypeOK ==
  ASSUME TypeOK, NEW t \in Threads, Cleanup(t)
  PROVE  conn' \in ConnType /\ th' \in [Threads -> ThreadType]
<1>1. conn' \in ConnType
  BY DEF Cleanup, ConnType, TypeOK
<1>2. th[t].calls + 1 \in Nat
  BY DEF TypeOK, ThreadType
<1>3. th' \in [Threads -> ThreadType]
  BY <1>2, DoneTypeOK DEF Cleanup, ThreadType, TypeOK, PC, Cleaning
<1>4. QED
  BY <1>1, <1>3

\* Every call Lua makes preserves it.
LEMMA CallsTypeOK ==
  ASSUME TypeOK, NEW t \in Threads, Calls(t)
  PROVE  TypeOK'
<1> USE DEF TypeOK
<1>1. ASSUME NEW o \in Outcomes, tcpd_connect(o) PROVE TypeOK'
  <2>1. conn' \in ConnType
    <3>1. PICK refs \in {Refs, {"read"}} :
            conn' = [conn EXCEPT !.made = TRUE, !.refs = refs, !.ssl = cfg.tls,
                                 !.buf = (o = "connecting")]
      BY <1>1 DEF tcpd_connect
    <3>2. refs \in SUBSET Refs /\ cfg.tls \in BOOLEAN /\ (o = "connecting") \in BOOLEAN
      BY DEF Refs
    <3>3. QED
      BY <3>1, <3>2, Zenon DEF ConnType
  <2>2. bev' \in BevType
    <3>1. /\ (o \in {"refused", "connecting"}) \in BOOLEAN /\ (o = "refused") \in BOOLEAN
          /\ (o = "connecting") \in BOOLEAN
      OBVIOUS
    <3>2. QED
      BY <1>1, <3>1, ZenonT(60) DEF tcpd_connect, BevType
  <2>3. log' \in LogType
    BY <1>1 DEF tcpd_connect, LogType
  <2>4. QED
    BY <1>1, <2>1, <2>2, <2>3 DEF tcpd_connect
<1>2. CASE tcpd_accept_bind(t)
  <2>1. conn' \in ConnType
    BY <1>2 DEF tcpd_accept_bind, ConnType
  <2>2. bev' \in BevType
    BY <1>2 DEF tcpd_accept_bind, BevType
  <2>3. th' \in [Threads -> ThreadType]
    BY <1>2 DEF tcpd_accept_bind, ThreadType
  <2>4. log' \in LogType
    BY <1>2 DEF tcpd_accept_bind, LogType, ConnType
  <2>5. QED
    BY <1>2, <2>1, <2>2, <2>3, <2>4 DEF tcpd_accept_bind
<1>3. CASE Send(t) \/ tcpd_conn_shutdown(t)
  <2>1. bev' \in BevType
    BY <1>3 DEF Send, tcpd_conn_shutdown, BevType
  <2>2. th' \in [Threads -> ThreadType]
    BY <1>3 DEF Send, tcpd_conn_shutdown, ThreadType
  <2>3. QED
    BY <1>3, <2>1, <2>2 DEF Send, tcpd_conn_shutdown
<1>4. ASSUME NEW on \in BOOLEAN, Reading(t, on) PROVE TypeOK'
  <2>1. bev' \in BevType
    BY <1>4 DEF Reading, BevType
  <2>2. th' \in [Threads -> ThreadType]
    BY <1>4 DEF Reading, ThreadType
  <2>3. log' \in LogType
    <3>1. (log.early \/ (on /\ conn.refs = {})) \in BOOLEAN
      BY DEF LogType
    <3>2. QED
      BY <1>4, <3>1, Zenon DEF Reading, LogType
  <2>4. QED
    BY <1>4, <2>1, <2>2, <2>3 DEF Reading
<1>5. CASE Close(t)
  BY <1>5, CleanupTypeOK DEF Close
<1>6. QED
  BY <1>1, <1>2, <1>3, <1>4, <1>5
  DEF Calls, tcpd_conn_send, tcpd_accept_send, tcpd_conn_close, tcpd_accept_close,
      tcpd_conn_read_pause, tcpd_conn_read_resume, tcpd_accept_read_pause,
      tcpd_accept_read_resume

\* Every step of a thread preserves it.
LEMMA StepsTypeOK ==
  ASSUME TypeOK, NEW t \in Threads, Steps(t)
  PROVE  TypeOK'
<1> USE DEF TypeOK
<1>1. CASE ReleaseSsl(t)
  <2>1. log' \in LogType
    BY <1>1 DEF ReleaseSsl, LogType
  <2>2. QED
    BY <1>1, <2>1, GoTypeOK DEF ReleaseSsl, PC, Cleaning
<1>2. CASE TakeBuf(t)
  <2>1. conn' \in ConnType
    BY <1>2 DEF TakeBuf, ConnType
  <2>2. QED
    BY <1>2, <2>1, GoTypeOK DEF TakeBuf, PC, Cleaning
<1>3. CASE FreeBuf(t) \/ DetachFree(t)
  <2>1. log' \in LogType
    <3>1. log' = [log EXCEPT !.frees = @ + 1]
      BY <1>3 DEF FreeBuf, DetachFree
    <3>2. QED
      BY <3>1 DEF LogType
  <2>2. bev' \in BevType
    BY <1>3, 0 \in Nat, Zenon DEF FreeBuf, DetachFree, Shut, BevType
  <2>3. QED
    BY <1>3, <2>1, <2>2, GoTypeOK DEF FreeBuf, DetachFree, PC, Cleaning, Callback, Ending
<1>4. CASE ClearRef(t)
  BY <1>4 DEF ClearRef, ConnType
<1>5. CASE Cleaned(t)
  <2>1. conn' \in ConnType
    BY <1>5 DEF Cleaned, ConnType
  <2>2. log' \in LogType
    <3>1. (log.closed \/ lua = t) \in BOOLEAN
      BY DEF LogType
    <3>2. QED
      BY <1>5, <3>1, Zenon DEF Cleaned, LogType
  <2>3. QED
    BY <1>5, <2>1, <2>2, GoTypeOK, DoneTypeOK DEF Cleaned, PC
<1>6. CASE ReadCb(t) \/ WriteCb(t) \/ ConnectedCb(t)
  BY <1>6, GoTypeOK, DoneTypeOK, CallTypeOK
  DEF ReadCb, WriteCb, ConnectedCb, Refs, PC, Callback
<1>7. CASE Drain(t)
  <2>1. bev' \in BevType
    BY <1>7 DEF Drain, BevType
  <2>2. bev.input \in Nat
    BY DEF BevType
  <2>3. QED
    BY <1>7, <2>1, <2>2, DoneTypeOK, CallTypeOK DEF Drain, Refs
<1>8. CASE EventCb(t) \/ Report(t)
  BY <1>8, GoTypeOK, CallTypeOK DEF EventCb, Report, Refs, PC, Callback, Ending
<1>9. CASE EofInput(t)
  <2>1. bev' \in BevType
    <3>1. bev' = [bev EXCEPT !.input = 0] \/ bev' = bev
      BY <1>9 DEF EofInput
    <3>2. QED
      BY <3>1 DEF BevType
  <2>2. bev.input \in Nat
    BY DEF BevType
  <2>3. log' \in LogType
    BY <1>9 DEF EofInput, LogType
  <2>4. QED
    BY <1>9, <2>1, <2>2, <2>3, GoTypeOK, CallTypeOK DEF EofInput, Refs, PC, Callback, Ending
<1>10. CASE Detach(t)
  <2>1. conn' \in ConnType
    BY <1>10 DEF Detach, ConnType
  <2>2. QED
    BY <1>10, <2>1, GoTypeOK DEF Detach, PC, Callback, Ending
<1>11. CASE EndCleanup(t)
  BY <1>11, CleanupTypeOK DEF EndCleanup
<1>12. CASE Mainthread(t)
  BY <1>12, GoTypeOK, AbandonTypeOK DEF Mainthread, PC, Callback
<1>13. CASE Recheck(t)
  <2>1. CASE \E why \in {"closed", "oom"} : Abandon(t, why) /\ UNCHANGED conn
    BY <1>13, <2>1, AbandonTypeOK DEF Recheck
  <2>2. CASE /\ Go(t, "resume") /\ log' = [log EXCEPT !.late = @ \/ log.closed]
             /\ conn' = IF th[t].ref = "disconnected"
                        THEN [conn EXCEPT !.refs = @ \ {"disconnected"}] ELSE conn
    <3>1. conn' \in ConnType
      BY <2>2 DEF ConnType
    <3>2. log' \in LogType
      <4>1. (log.late \/ log.closed) \in BOOLEAN
        BY DEF LogType
      <4>2. QED
        BY <2>2, <4>1, Zenon DEF LogType
    <3>3. QED
      BY <1>13, <2>2, <3>1, <3>2, GoTypeOK DEF Recheck, PC
  <2>3. QED
    BY <1>13, <2>1, <2>2, Zenon DEF Recheck
<1>14. CASE Resume(t)
  <2>1. log' \in LogType
    <3>1. /\ log.delivered + th[t].data \in Nat
          /\ (IF th[t].ref = "disconnected" THEN log.ended + 1 ELSE log.ended) \in Nat
      BY DEF LogType, ThreadType
    <3>2. QED
      BY <1>14, <3>1, Zenon DEF Resume, LogType
  <2>2. th' \in [Threads -> ThreadType]
    <3>1. [th[t] EXCEPT !.pc = "lua", !.data = 0] \in ThreadType
      BY ZenonT(60) DEF ThreadType, PC
    <3>2. QED
      BY <1>14, <3>1 DEF Resume
  <2>3. QED
    BY <1>14, <2>1, <2>2 DEF Resume
<1>15. CASE TurnEnds(t)
  <2>1. CASE th[t].back = "idle"
    BY <1>15, <2>1, DoneTypeOK DEF TurnEnds, Done
  <2>2. CASE th[t].back # "idle"
    <3>1. th[t] \in ThreadType /\ th[t].back \in {"detach", "cleanup"}
      BY <2>2 DEF ThreadType
    <3>2. [th[t] EXCEPT !.pc = th[t].back, !.calls = 0] \in ThreadType
      BY <3>1 DEF ThreadType, PC, Callback, Ending
    <3>3. th' = [th EXCEPT ![t] = [th[t] EXCEPT !.pc = th[t].back, !.calls = 0]]
      BY <1>15, <2>2 DEF TurnEnds
    <3>4. QED
      BY <1>15, <3>2, <3>3 DEF TurnEnds
  <2>3. QED
    BY <2>1, <2>2
<1>16. QED
  BY <1>1, <1>2, <1>3, <1>4, <1>5, <1>6, <1>7, <1>8, <1>9, <1>10, <1>11, <1>12, <1>13,
     <1>14, <1>15 DEF Steps

\* Every step of the program preserves it.
LEMMA NextTypeOK == TypeOK /\ [Next]_vars => TypeOK'
<1> SUFFICES ASSUME TypeOK, [Next]_vars PROVE TypeOK'
  OBVIOUS
<1> USE DEF TypeOK
<1>1. CASE UNCHANGED vars
  BY <1>1 DEF vars
<1>2. CASE Turn
  <2>1. log' \in LogType
    BY <1>2 DEF Turn, LogType
  <2>2. th' \in [Threads -> ThreadType]
    BY <1>2, ZenonT(60) DEF Turn, ThreadType, PC, Threads
  <2>3. QED
    BY <1>2, <2>1, <2>2 DEF Turn, Threads
<1>3. CASE tcpd_server_listener_cb
  <2>1. conn' \in ConnType
    BY <1>3 DEF tcpd_server_listener_cb, ConnType
  <2>2. bev' \in BevType
    BY <1>3 DEF tcpd_server_listener_cb, BevType
  <2>3. peer' \in PeerType
    BY <1>3 DEF tcpd_server_listener_cb, PeerType
  <2>4. th' \in [Threads -> ThreadType]
    BY <1>3, ZenonT(60) DEF tcpd_server_listener_cb, ThreadType, PC, Threads
  <2>5. QED
    BY <1>3, <2>1, <2>2, <2>3, <2>4 DEF tcpd_server_listener_cb
<1>4. CASE Dispatch
  <2>1. CbThread \in Threads
    BY DEF CbThread, Threads
  <2>2. bev' \in BevType
    <3>1. PICK e \in bev.due : bev' = [bev EXCEPT !.due = @ \ {e}, !.ran = Rank(e)]
      BY <1>4 DEF Dispatch
    <3>2. bev.due \ {e} \in SUBSET Events /\ Rank(e) \in Nat
      BY DEF BevType, Rank
    <3>3. QED
      BY <3>1, <3>2, Zenon DEF BevType
  <2>3. th' \in [Threads -> ThreadType]
    <3> DEFINE Start(e) == CASE e = "read" -> "read" [] e = "write" -> "write"
                             [] e = "connected" -> "connected" [] OTHER -> "end"
    <3>1. PICK e \in bev.due : th' = [th EXCEPT ![CbThread] = [Idle EXCEPT !.ev = e, !.pc = Start(e)]]
      BY <1>4 DEF Dispatch
    <3>2. e \in Events /\ Start(e) \in PC
      BY DEF BevType, PC, Callback, Ending
    <3> HIDE DEF Start
    <3>3. QED
      BY <2>1, <3>1, <3>2, StartTypeOK
  <2>4. QED
    BY <1>4, <2>2, <2>3 DEF Dispatch
<1>5. CASE Reached \/ Flushed \/ \E e \in Ends : Ended(e)
  <2>1. bev' \in BevType
    <3>1. \A e \in Events : bev.due \cup {e} \in SUBSET Events
      BY DEF BevType
    <3>2. CASE Reached
      BY <3>1, <3>2, Zenon DEF Reached, BevType, Events
    <3>3. CASE Flushed
      BY <3>1, <3>3, Zenon DEF Flushed, BevType, Events
    <3>4. ASSUME NEW e \in Ends, Ended(e) PROVE bev' \in BevType
      BY <3>1, <3>4, Zenon DEF Ended, BevType, Events
    <3>5. QED
      BY <1>5, <3>2, <3>3, <3>4
  <2>2. peer' \in PeerType
    BY <1>5 DEF Reached, Flushed, Ended, PeerType
  <2>3. QED
    BY <1>5, <2>1, <2>2 DEF Reached, Flushed, Ended
<1>6. CASE Arrive
  <2>1. bev' \in BevType
    <3>1. bev.due \cup {"read"} \in SUBSET Events /\ bev.input + 1 \in Nat
      BY DEF BevType, Events
    <3>2. QED
      BY <1>6, <3>1, Zenon DEF Arrive, BevType
  <2>2. peer' \in PeerType
    BY <1>6 DEF Arrive, PeerType
  <2>3. QED
    BY <1>6, <2>1, <2>2 DEF Arrive
<1>7. QED
  BY <1>1, <1>2, <1>3, <1>4, <1>5, <1>6, CallsTypeOK, StepsTypeOK DEF Next, Network

-----------------------------------------------------------------------------
(* What the steps do to the state *)

\* A thread that calls a reference, ...
LEMMA CallMoves ==
  ASSUME TypeOK, NEW t \in Threads, NEW ref, NEW pc, NEW n, Call(t, ref, pc, n)
  PROVE  /\ th'[t].pc = "mainthread" /\ th'[t].ref = ref /\ th'[t].back = pc
         /\ th'[t].data = n /\ th'[t].ev = th[t].ev
         /\ \A u \in Threads \ {t} : th'[u] = th[u]
BY DEF TypeOK, ThreadType, Call

\* ... one that gives the call up, ...
LEMMA AbandonMoves ==
  ASSUME TypeOK, NEW t \in Threads, NEW why, Abandon(t, why)
  PROVE  /\ th[t].back = "idle" => th'[t] = Idle
         /\ th[t].back # "idle" =>
              /\ th'[t].pc = th[t].back /\ th'[t].ref = th[t].ref /\ th'[t].back = th[t].back
              /\ th'[t].data = 0 /\ th'[t].ev = th[t].ev
         /\ \A u \in Threads \ {t} : th'[u] = th[u]
         /\ log'.dropped = log.dropped + th[t].data
         /\ log'.oom = (log.oom \/ why = "oom")
         /\ log'.frees = log.frees /\ log'.releases = log.releases
         /\ log'.delivered = log.delivered /\ log'.ended = log.ended
         /\ log'.closed = log.closed /\ log'.late = log.late /\ log'.crashed = log.crashed
         /\ log'.lateBind = log.lateBind /\ log'.early = log.early
<1>1. /\ th[t].back = "idle" => th'[t] = Idle
      /\ th[t].back # "idle" =>
           /\ th'[t].pc = th[t].back /\ th'[t].ref = th[t].ref /\ th'[t].back = th[t].back
           /\ th'[t].data = 0 /\ th'[t].ev = th[t].ev
      /\ \A u \in Threads \ {t} : th'[u] = th[u]
  BY DEF TypeOK, ThreadType, Abandon
<1>2. /\ log'.dropped = log.dropped + th[t].data
      /\ log'.oom = (log.oom \/ why = "oom")
      /\ log'.frees = log.frees /\ log'.releases = log.releases
      /\ log'.delivered = log.delivered /\ log'.ended = log.ended
      /\ log'.closed = log.closed /\ log'.late = log.late /\ log'.crashed = log.crashed
      /\ log'.lateBind = log.lateBind /\ log'.early = log.early
  BY DEF TypeOK, LogType, Abandon
<1>3. QED
  BY <1>1, <1>2

\* ... and one that starts a callback.
LEMMA DispatchMoves ==
  ASSUME TypeOK, Dispatch
  PROVE  /\ th[CbThread].pc = "idle" /\ bev.cbs /\ UNCHANGED <<cfg, conn, peer, lua, log>>
         /\ CbThread \in Threads
         /\ \E e \in bev.due :
           /\ th'[CbThread].pc = (CASE e = "read" -> "read" [] e = "write" -> "write"
                                    [] e = "connected" -> "connected" [] OTHER -> "end")
           /\ th'[CbThread].ev = e /\ th'[CbThread].ref = "none"
           /\ th'[CbThread].back = "idle" /\ th'[CbThread].data = 0
           /\ bev'.due = bev.due \ {e} /\ bev'.cbs = bev.cbs /\ bev'.reading = bev.reading
           /\ bev'.exists = bev.exists /\ bev'.freed = bev.freed /\ bev'.input = bev.input
           /\ \A u \in Threads \ {CbThread} : th'[u] = th[u]
<1> DEFINE Start(e) == CASE e = "read" -> "read" [] e = "write" -> "write"
                         [] e = "connected" -> "connected" [] OTHER -> "end"
<1>1. PICK e \in bev.due :
        /\ bev' = [bev EXCEPT !.due = @ \ {e}, !.ran = Rank(e)]
        /\ th' = [th EXCEPT ![CbThread] = [Idle EXCEPT !.ev = e, !.pc = Start(e)]]
  BY DEF Dispatch
<1>2. CbThread \in Threads
  BY DEF CbThread, Threads
<1> HIDE DEF Start
<1>3. /\ th'[CbThread].pc = Start(e) /\ th'[CbThread].ev = e /\ th'[CbThread].ref = "none"
      /\ th'[CbThread].back = "idle" /\ th'[CbThread].data = 0
      /\ \A u \in Threads \ {CbThread} : th'[u] = th[u]
  BY <1>1, <1>2 DEF TypeOK, Idle
<1>4. /\ bev'.due = bev.due \ {e} /\ bev'.cbs = bev.cbs /\ bev'.reading = bev.reading
      /\ bev'.exists = bev.exists /\ bev'.freed = bev.freed /\ bev'.input = bev.input
  BY <1>1 DEF TypeOK, BevType
<1>5. QED
  BY <1>2, <1>3, <1>4, Zenon DEF Start, Dispatch

\* The steps of the program, one by one.
Acts(t) ==
  \/ tcpd_accept_bind(t)
  \/ Send(t) \/ tcpd_conn_shutdown(t)
  \/ \E on \in BOOLEAN : Reading(t, on)
  \/ Close(t) \/ EndCleanup(t)
  \/ ReleaseSsl(t) \/ TakeBuf(t) \/ FreeBuf(t) \/ DetachFree(t) \/ ClearRef(t) \/ Cleaned(t)
  \/ ReadCb(t) \/ WriteCb(t) \/ ConnectedCb(t) \/ Drain(t)
  \/ EventCb(t) \/ EofInput(t) \/ Detach(t) \/ Report(t)
  \/ Mainthread(t) \/ Recheck(t) \/ Resume(t) \/ TurnEnds(t)

LEMMA NextActs ==
  ASSUME [Next]_vars
  PROVE  \/ UNCHANGED vars \/ Turn \/ tcpd_server_listener_cb \/ Dispatch
         \/ Reached \/ Arrive \/ Flushed \/ (\E e \in Ends : Ended(e))
         \/ (\E o \in Outcomes : tcpd_connect(o))
         \/ \E t \in Threads : Acts(t)
<1>1. ASSUME NEW t \in Threads, Calls(t)
      PROVE  (\E o \in Outcomes : tcpd_connect(o)) \/ Acts(t)
  BY <1>1 DEF Calls, Acts, tcpd_conn_send, tcpd_accept_send, tcpd_conn_close, tcpd_accept_close,
              tcpd_conn_read_pause, tcpd_conn_read_resume, tcpd_accept_read_pause,
              tcpd_accept_read_resume
<1>2. ASSUME NEW t \in Threads, Steps(t) PROVE Acts(t)
  BY <1>2 DEF Steps, Acts
<1>3. QED
  BY <1>1, <1>2 DEF Next, Network

-----------------------------------------------------------------------------
(* Where the threads stand *)

\* A step of one thread leaves the others where they may stand.
LEMMA OthersPlaced ==
  ASSUME Placing, NEW t \in Threads, Placed(t)',
         \A u \in Threads \ {t} : th'[u] = th[u] /\ (lua' = u <=> lua = u),
         cfg' = cfg, conn.made => conn'.made
  PROVE  Placing'
<1>1. ASSUME NEW u \in Threads \ {t} PROVE Placed(u)'
  BY DEF Placing, Placed, CbThread
<1>2. QED
  BY <1>1 DEF Placing

\* A thread that moves on within a cleanup or a callback.
LEMMA GoPlaced ==
  ASSUME IInv, NEW t \in Threads, NEW pc, Go(t, pc), cfg' = cfg, lua' = lua,
         conn.made => conn'.made,
         \/ th[t].pc \in Cleaning /\ pc \in Cleaning
         \/ th[t].pc \in Entry /\ pc = "drain"
         \/ th[t].pc = "end" /\ th[t].ev = "eof" /\ pc = "eof_input"
         \/ th[t].pc \in {"end", "eof_input", "detach"} /\ pc = "detach"
         \/ th[t].pc \in {"detach", "detach_free"} /\ pc \in {"detach_free", "report"}
         \/ th[t].pc = "report" /\ pc = "cleanup"
         \/ th[t].pc = "mainthread" /\ pc = "lock"
         \/ th[t].pc = "lock" /\ pc = "resume"
         \/ th[t].pc \in Cleaning /\ pc = "lua" /\ lua = t
  PROVE  Placing'
<1>1. /\ th'[t].pc = pc /\ th'[t].ref = th[t].ref /\ th'[t].ev = th[t].ev
      /\ th'[t].back = th[t].back /\ \A u \in Threads \ {t} : th'[u] = th[u]
  BY DEF IInv, TypeOK, ThreadType, Go
<1>2. Placed(t)
  BY DEF IInv, Placing
<1>3. pc # "idle" /\ (pc = "lua" => lua = t) /\ (lua = t => pc \in {"lua"} \cup Cleaning)
  BY <1>2 DEF Placed, Entry, Cleaning
<1>4. /\ pc \in Callback => th[t].ev # "none"
      /\ pc \in Ending => th[t].ev \in Ends
      /\ pc \in Cleaning /\ lua # t => th[t].ev # "none"
      /\ pc = "resume" => th[t].ev # "none"
  BY <1>2 DEF Placed, Entry, Cleaning, Callback, Ending
<1>5. /\ pc = "eof_input" => th[t].ev = "eof"
      /\ pc \in Entry => th[t].back = "idle"
      /\ pc \in {"detach", "detach_free", "report"} => th[t].back # "cleanup"
  BY <1>2 DEF Placed, Entry, Cleaning
<1>6. t # "main" => cfg.worker
  BY <1>2 DEF Placed, Entry, Cleaning
<1>7. Placed(t)'
  BY <1>1, <1>2, <1>3, <1>4, <1>5, <1>6 DEF Placed, CbThread
<1>8. QED
  BY <1>1, <1>7, OthersPlaced DEF IInv

\* A thread that returns to its event loop.
LEMMA DonePlaced ==
  ASSUME IInv, NEW t \in Threads, Done(t), lua' # t, cfg' = cfg, conn.made => conn'.made,
         \A u \in Threads \ {t} : lua' = u <=> lua = u
  PROVE  Placing'
<1>1. th'[t] = Idle /\ \A u \in Threads \ {t} : th'[u] = th[u]
  BY DEF IInv, TypeOK, Done
<1>2. Placed(t)'
  BY <1>1 DEF Placed, Idle, Callback, Cleaning, Ending, Entry
<1>3. QED
  BY <1>1, <1>2, OthersPlaced DEF IInv

\* A callback that calls a reference.
LEMMA CallPlaced ==
  ASSUME IInv, NEW t \in Threads, NEW ref, NEW pc, NEW n, Call(t, ref, pc, n),
         cfg' = cfg, lua' = lua, conn' = conn, th[t].pc \in Callback,
         pc # "idle" => th[t].pc \in Ending
  PROVE  Placing'
<1>1. /\ th'[t].pc = "mainthread" /\ th'[t].back = pc /\ th'[t].ev = th[t].ev
      /\ \A u \in Threads \ {t} : th'[u] = th[u]
  BY CallMoves DEF IInv
<1>2. Placed(t) /\ lua # t /\ (t # "main" => cfg.worker)
  BY DEF IInv, Placing, Placed, Callback, Cleaning, Ending
<1>3. Placed(t)'
  BY <1>1, <1>2 DEF Placed, CbThread, Callback, Cleaning, Ending, Entry
<1>4. QED
  BY <1>1, <1>3, OthersPlaced DEF IInv

\* One that gives the call up.
LEMMA AbandonPlaced ==
  ASSUME IInv, NEW t \in Threads, NEW why, Abandon(t, why), th[t].pc \in {"mainthread", "lock"},
         cfg' = cfg, lua' = lua, conn' = conn
  PROVE  Placing'
<1>1. Placed(t) /\ lua # t /\ (t # "main" => cfg.worker)
  BY DEF IInv, Placing, Placed, Cleaning
<1>2. CASE th[t].back = "idle"
  <2>1. Done(t)
    BY <1>2 DEF Abandon, Done
  <2>2. QED
    BY <1>1, <2>1, DonePlaced
<1>3. CASE th[t].back # "idle"
  <2>1. /\ th'[t].pc = th[t].back /\ th'[t].back = th[t].back /\ th'[t].ev = th[t].ev
        /\ \A u \in Threads \ {t} : th'[u] = th[u]
    BY <1>3, AbandonMoves DEF IInv
  <2>2. th[t].back \in {"detach", "cleanup"}
    BY <1>3 DEF IInv, TypeOK, ThreadType
  <2>3. Placed(t)'
    BY <1>1, <1>3, <2>1, <2>2 DEF Placed, CbThread, Callback, Cleaning, Ending, Entry, Ends
  <2>4. QED
    BY <2>1, <2>3, OthersPlaced DEF IInv
<1>4. QED
  BY <1>2, <1>3

\* Every step of the program leaves the threads where they may stand.
LEMMA NextPlacing ==
  ASSUME IInv, [Next]_vars
  PROVE  Placing'
<1> USE DEF IInv, TypeOK
<1>1. CASE UNCHANGED vars
  BY <1>1 DEF vars, Placing, Placed, CbThread
<1>2. CASE Turn
  <2>1. /\ th'["main"].pc = "lua" /\ th'["main"].back = "idle" /\ th'["main"].ev = "none"
        /\ \A u \in Threads \ {"main"} : th'[u] = th[u]
    BY <1>2 DEF Turn, Threads, ThreadType, Placing, Placed, Idle
  <2>2. Placed("main")'
    BY <1>2, <2>1 DEF Turn, Placed, Callback, Cleaning, Ending, Entry
  <2>3. QED
    BY <1>2, <2>1, <2>2, OthersPlaced DEF Turn, Threads
<1>3. CASE tcpd_server_listener_cb
  <2>1. /\ th'["main"].pc = "resume" /\ th'["main"].ref = "accept" /\ th'["main"].ev = "none"
        /\ th'["main"].back = "idle" /\ \A u \in Threads \ {"main"} : th'[u] = th[u]
    BY <1>3 DEF tcpd_server_listener_cb, Threads, ThreadType, Placing, Placed, Idle
  <2>2. Placed("main")'
    BY <1>3, <2>1 DEF tcpd_server_listener_cb, Placed, Callback, Cleaning, Ending, Entry, Threads
  <2>3. conn'.made
    BY <1>3 DEF tcpd_server_listener_cb, ConnType
  <2>4. QED
    BY <1>3, <2>1, <2>2, <2>3, OthersPlaced DEF tcpd_server_listener_cb, Threads
<1>4. CASE Dispatch
  <2>1. PICK t \in Threads : t = CbThread
    BY <1>4, DispatchMoves
  <2>2. PICK e \in bev.due :
          /\ th'[t].pc = (CASE e = "read" -> "read" [] e = "write" -> "write"
                            [] e = "connected" -> "connected" [] OTHER -> "end")
          /\ th'[t].ev = e /\ th'[t].back = "idle"
          /\ \A u \in Threads \ {t} : th'[u] = th[u]
    BY <1>4, <2>1, DispatchMoves
  <2>3. th[t].pc = "idle" /\ bev.cbs /\ UNCHANGED <<cfg, conn, peer, lua, log>>
    BY <1>4, <2>1, DispatchMoves
  <2>4. e \in Events /\ conn.made /\ lua # t /\ (t # "main" => cfg.worker)
    BY <2>1, <2>3 DEF BevType, Unmade, Placing, Placed, Cleaning, CbThread
  <2>5. t = CbThread'
    BY <2>1, <2>3 DEF CbThread
  <2>6. /\ th'[t].pc \in Entry /\ th'[t].pc # "eof_input"
        /\ th'[t].pc = "end" => e \in Ends
    BY <2>2, <2>4 DEF Entry, Events, Ends
  <2>7. Placed(t)'
    BY <2>2, <2>3, <2>4, <2>5, <2>6 DEF Placed, Events, Ends, Callback, Cleaning, Ending, Entry
  <2>8. QED
    BY <2>2, <2>3, <2>7, OthersPlaced
<1>5. CASE Reached \/ Arrive \/ Flushed \/ \E e \in Ends : Ended(e)
  <2>1. UNCHANGED <<cfg, conn, th, lua>>
    BY <1>5 DEF Reached, Arrive, Flushed, Ended
  <2>2. QED
    BY <2>1 DEF Placing, Placed, CbThread
<1>6. ASSUME NEW o \in Outcomes, tcpd_connect(o) PROVE Placing'
  <2>1. conn'.made /\ UNCHANGED <<cfg, th, lua>>
    BY <1>6 DEF tcpd_connect, ConnType
  <2>2. QED
    BY <2>1 DEF Placing, Placed, CbThread
<1>7. ASSUME NEW t \in Threads, Close(t) \/ EndCleanup(t) PROVE Placing'
  <2>1. cfg' = cfg /\ lua' = lua /\ (conn.made => conn'.made)
    BY <1>7 DEF Close, EndCleanup, Cleanup, ConnType
  <2>2. Placed(t) /\ (lua = t => th[t].pc = "lua") /\ (lua # t => th[t].pc = "cleanup")
    BY <1>7 DEF Close, EndCleanup, InLua, Placing, Placed, Cleaning
  <2>3. CASE conn.cleaned /\ lua # t
    <3>1. Done(t)
      BY <1>7, <2>3 DEF Close, EndCleanup, Cleanup
    <3>2. QED
      BY <2>1, <2>3, <3>1, DonePlaced
  <2>4. CASE ~conn.cleaned \/ lua = t
    <3>1. /\ th'[t].pc \in {th[t].pc, "ssl"} /\ th'[t].ref = th[t].ref /\ th'[t].ev = th[t].ev
          /\ th'[t].back = th[t].back /\ \A u \in Threads \ {t} : th'[u] = th[u]
      BY <1>7, <2>4 DEF Close, EndCleanup, Cleanup, ThreadType
    <3>2. lua # t => th'[t].pc = "ssl"
      BY <1>7, <2>4 DEF Close, EndCleanup, Cleanup, ThreadType
    <3>3. Placed(t)'
      BY <2>1, <2>2, <3>1, <3>2 DEF Placed, CbThread, Callback, Cleaning, Ending, Entry
    <3>4. QED
      BY <2>1, <3>1, <3>3, OthersPlaced
  <2>5. QED
    BY <2>3, <2>4
<1>8. ASSUME NEW t \in Threads,
             \/ tcpd_accept_bind(t) \/ Send(t) \/ tcpd_conn_shutdown(t)
             \/ \E on \in BOOLEAN : Reading(t, on)
      PROVE  Placing'
  <2>1. /\ th' = [th EXCEPT ![t].calls = @ + 1] /\ cfg' = cfg /\ lua' = lua
        /\ th[t].pc = "lua" /\ lua = t
    BY <1>8 DEF tcpd_accept_bind, Send, tcpd_conn_shutdown, Reading, InLua
  <2>2. conn.made => conn'.made
    BY <1>8 DEF tcpd_accept_bind, Send, tcpd_conn_shutdown, Reading, ConnType
  <2>3. /\ th'[t].pc = "lua" /\ th'[t].ref = th[t].ref /\ th'[t].ev = th[t].ev
        /\ th'[t].back = th[t].back /\ \A u \in Threads \ {t} : th'[u] = th[u]
    BY <2>1 DEF ThreadType
  <2>4. Placed(t)'
    BY <2>1, <2>2, <2>3 DEF Placing, Placed, CbThread, Callback, Cleaning, Ending, Entry
  <2>5. QED
    BY <2>1, <2>2, <2>3, <2>4, OthersPlaced
<1>9. ASSUME NEW t \in Threads, ReleaseSsl(t) \/ FreeBuf(t) \/ DetachFree(t) \/ EventCb(t)
      PROVE  Placing'
  BY <1>9, GoPlaced DEF ReleaseSsl, FreeBuf, DetachFree, EventCb, Cleaning
<1>10. ASSUME NEW t \in Threads, TakeBuf(t) \/ Detach(t) PROVE Placing'
  <2>1. conn.made => conn'.made
    BY <1>10 DEF TakeBuf, Detach, ConnType
  <2>2. QED
    BY <1>10, <2>1, GoPlaced DEF TakeBuf, Detach, Cleaning
<1>11. ASSUME NEW t \in Threads, ClearRef(t) PROVE Placing'
  <2>1. UNCHANGED <<cfg, th, lua>> /\ (conn.made => conn'.made)
    BY <1>11 DEF ClearRef, ConnType
  <2>2. QED
    BY <2>1 DEF Placing, Placed, CbThread
<1>12. ASSUME NEW t \in Threads, Cleaned(t) PROVE Placing'
  <2>1. conn.made => conn'.made
    BY <1>12 DEF Cleaned, ConnType
  <2>2. QED
    BY <1>12, <2>1, GoPlaced, DonePlaced DEF Cleaned, Cleaning
<1>13. ASSUME NEW t \in Threads, ReadCb(t) \/ WriteCb(t) \/ ConnectedCb(t) \/ Drain(t)
       PROVE  Placing'
  <2>1. /\ th[t].pc \in Callback /\ th[t].pc \in Entry /\ lua # t
        /\ UNCHANGED <<cfg, conn, lua>>
    BY <1>13 DEF ReadCb, WriteCb, ConnectedCb, Drain, Callback, Entry, Placing, Placed, Cleaning
  <2>2. \/ Go(t, "drain") \/ Done(t) \/ \E ref \in Refs, n \in Nat : Call(t, ref, "idle", n)
    BY <1>13 DEF ReadCb, WriteCb, ConnectedCb, Drain, Refs, BevType
  <2>3. QED
    BY <2>1, <2>2, GoPlaced, DonePlaced, CallPlaced
<1>14. ASSUME NEW t \in Threads, EofInput(t) PROVE Placing'
  <2>1. \/ Call(t, "read", "detach", bev.input) \/ Go(t, "detach") \/ th' = th
    BY <1>14 DEF EofInput
  <2>2. th[t].pc = "eof_input" /\ UNCHANGED <<cfg, conn, lua>>
    BY <1>14 DEF EofInput
  <2>3. CASE th' = th
    BY <2>2, <2>3 DEF Placing, Placed, CbThread
  <2>4. QED
    BY <2>1, <2>2, <2>3, GoPlaced, CallPlaced DEF Callback, Ending
<1>15. ASSUME NEW t \in Threads, Report(t) PROVE Placing'
  BY <1>15, GoPlaced, CallPlaced DEF Report, Callback, Ending
<1>16. ASSUME NEW t \in Threads, Mainthread(t) PROVE Placing'
  BY <1>16, GoPlaced, AbandonPlaced DEF Mainthread
<1>17. ASSUME NEW t \in Threads, Recheck(t) PROVE Placing'
  <2>1. (conn.made => conn'.made) /\ th[t].pc = "lock" /\ UNCHANGED <<cfg, lua>>
    BY <1>17 DEF Recheck, ConnType
  <2>2. Go(t, "resume") \/ \E why \in {"closed", "oom"} : Abandon(t, why) /\ conn' = conn
    BY <1>17 DEF Recheck
  <2>3. QED
    BY <2>1, <2>2, GoPlaced, AbandonPlaced
<1>18. ASSUME NEW t \in Threads, Resume(t) PROVE Placing'
  <2>1. /\ th'[t].pc = "lua" /\ th'[t].ev = th[t].ev /\ th'[t].back = th[t].back
        /\ \A u \in Threads \ {t} : th'[u] = th[u]
    BY <1>18 DEF Resume, ThreadType
  <2>2. Placed(t)'
    BY <1>18, <2>1 DEF Resume, Placing, Placed, CbThread, Callback, Cleaning, Ending, Entry
  <2>3. QED
    BY <1>18, <2>1, <2>2, OthersPlaced DEF Resume, Threads
<1>19. ASSUME NEW t \in Threads, TurnEnds(t) PROVE Placing'
  <2>1. cfg' = cfg /\ conn' = conn /\ lua = t /\ lua' = "free" /\ th[t].pc = "lua"
    BY <1>19 DEF TurnEnds, InLua
  <2>2. CASE th[t].back = "idle"
    <3>1. Done(t)
      BY <1>19, <2>2 DEF TurnEnds, Done
    <3>2. QED
      BY <2>1, <3>1, DonePlaced DEF Threads
  <2>3. CASE th[t].back # "idle"
    <3>1. /\ th'[t].pc = th[t].back /\ th'[t].back = th[t].back /\ th'[t].ev = th[t].ev
          /\ \A u \in Threads \ {t} : th'[u] = th[u]
      BY <1>19, <2>3 DEF TurnEnds, ThreadType
    <3>2. Placed(t) /\ th[t].back \in {"detach", "cleanup"}
      BY <2>3 DEF Placing, ThreadType
    <3>3. Placed(t)'
      BY <2>1, <2>3, <3>1, <3>2
      DEF Placed, CbThread, Callback, Cleaning, Ending, Entry, Ends, Threads
    <3>4. QED
      BY <2>1, <3>1, <3>3, OthersPlaced DEF Threads
  <2>4. QED
    BY <2>2, <2>3
<1> HIDE DEF IInv
<1>20. QED
  BY <1>1, <1>2, <1>3, <1>4, <1>5, <1>6, <1>7, <1>8, <1>9, <1>10, <1>11, <1>12, <1>13, <1>14,
     <1>15, <1>16, <1>17, <1>18, <1>19, NextActs DEF Acts

-----------------------------------------------------------------------------
(* Before the connection is made *)

\* Nothing but tcpd_connect and the listener makes a connection.
LEMMA NextUnmade ==
  ASSUME IInv, [Next]_vars
  PROVE  Unmade'
<1> USE DEF IInv, TypeOK, ConnType, BevType, PeerType, ThreadType, LogType, Threads, Unmade, Blank, Placing, Placed, Cleaning, Callback, CleanedOnce
<1>1. CASE UNCHANGED vars
  BY <1>1 DEF vars
<1>2. CASE Turn
  BY <1>2 DEF Turn
<1>3. CASE tcpd_server_listener_cb
  BY <1>3 DEF tcpd_server_listener_cb
<1>4. CASE Dispatch
  BY <1>4, DispatchMoves DEF CbThread
<1>5. CASE Reached
  BY <1>5 DEF Reached
<1>6. CASE Flushed
  BY <1>6 DEF Flushed
<1>7. CASE Arrive
  BY <1>7 DEF Arrive
<1>8. ASSUME NEW e \in Ends, Ended(e) PROVE Unmade'
  BY <1>8 DEF Ended, Ends
<1>9. ASSUME NEW o \in Outcomes, tcpd_connect(o) PROVE Unmade'
  BY <1>9 DEF tcpd_connect, InLua
<1>10. ASSUME NEW t \in Threads, tcpd_accept_bind(t) PROVE Unmade'
  BY <1>10 DEF tcpd_accept_bind
<1>11. ASSUME NEW t \in Threads, Send(t) \/ tcpd_conn_shutdown(t) PROVE Unmade'
  BY <1>11 DEF Send, tcpd_conn_shutdown, InLua
<1>12. ASSUME NEW t \in Threads, NEW on \in BOOLEAN, Reading(t, on) PROVE Unmade'
  BY <1>12 DEF Reading, InLua
<1>13. ASSUME NEW t \in Threads, Close(t) \/ EndCleanup(t) PROVE Unmade'
  BY <1>13 DEF Close, EndCleanup, Cleanup, InLua, Done, Idle
<1>14. ASSUME NEW t \in Threads, ReleaseSsl(t) PROVE Unmade'
  BY <1>14 DEF ReleaseSsl, Go
<1>15. ASSUME NEW t \in Threads, TakeBuf(t) PROVE Unmade'
  BY <1>15 DEF TakeBuf, Go
<1>16. ASSUME NEW t \in Threads, FreeBuf(t) PROVE Unmade'
  BY <1>16 DEF FreeBuf, Shut, Go
<1>17. ASSUME NEW t \in Threads, DetachFree(t) PROVE Unmade'
  BY <1>17 DEF DetachFree, Shut, Go, Ending
<1>18. ASSUME NEW t \in Threads, ClearRef(t) PROVE Unmade'
  BY <1>18 DEF ClearRef
<1>19. ASSUME NEW t \in Threads, Cleaned(t) PROVE Unmade'
  BY <1>19 DEF Cleaned, Go, Done, Idle
<1>20. ASSUME NEW t \in Threads, ReadCb(t) \/ WriteCb(t) \/ ConnectedCb(t) PROVE Unmade'
  BY <1>20, CallMoves DEF ReadCb, WriteCb, ConnectedCb, Go, Done, Idle
<1>21. ASSUME NEW t \in Threads, Drain(t) PROVE Unmade'
  BY <1>21, CallMoves DEF Drain, Done, Idle
<1>22. ASSUME NEW t \in Threads, EventCb(t) PROVE Unmade'
  BY <1>22 DEF EventCb, Go
<1>23. ASSUME NEW t \in Threads, EofInput(t) PROVE Unmade'
  BY <1>23, CallMoves DEF EofInput, Go
<1>24. ASSUME NEW t \in Threads, Detach(t) PROVE Unmade'
  BY <1>24 DEF Detach, Go, Ending
<1>25. ASSUME NEW t \in Threads, Report(t) PROVE Unmade'
  BY <1>25, CallMoves DEF Report, Go
<1>26. ASSUME NEW t \in Threads, Mainthread(t) PROVE Unmade'
  BY <1>26, AbandonMoves DEF Mainthread, Go, Idle
<1>27. ASSUME NEW t \in Threads, Recheck(t) PROVE Unmade'
  BY <1>27, AbandonMoves DEF Recheck, Go, Idle
<1>28. ASSUME NEW t \in Threads, Resume(t) PROVE Unmade'
  BY <1>28 DEF Resume
<1>29. ASSUME NEW t \in Threads, TurnEnds(t) PROVE Unmade'
  BY <1>29 DEF TurnEnds, InLua, Idle
<1> HIDE DEF IInv, Unmade
<1>30. QED
  BY <1>1, <1>2, <1>3, <1>4, <1>5, <1>6, <1>7, <1>8, <1>9, <1>10, <1>11, <1>12, <1>13,
     <1>14, <1>15, <1>16, <1>17, <1>18, <1>19, <1>20, <1>21, <1>22, <1>23, <1>24, <1>25,
     <1>26, <1>27, <1>28, <1>29, NextActs DEF Acts

-----------------------------------------------------------------------------
(* The bufferevent has one owner *)

\* Whoever frees the bufferevent took it from conn->buf first.
LEMMA NextOwned ==
  ASSUME IInv, [Next]_vars
  PROVE  Owned'
<1> USE DEF IInv, TypeOK, ConnType, BevType, PeerType, ThreadType, LogType, Threads, Owned, Holding, Unmade, Blank
<1>1. CASE UNCHANGED vars
  BY <1>1 DEF vars
<1>2. CASE Turn
  BY <1>2 DEF Turn
<1>3. CASE tcpd_server_listener_cb
  BY <1>3 DEF tcpd_server_listener_cb
<1>4. CASE Dispatch
  BY <1>4, DispatchMoves DEF CbThread
<1>5. CASE Reached
  BY <1>5 DEF Reached
<1>6. CASE Flushed
  BY <1>6 DEF Flushed
<1>7. CASE Arrive
  BY <1>7 DEF Arrive
<1>8. ASSUME NEW e \in Ends, Ended(e) PROVE Owned'
  BY <1>8 DEF Ended, Ends
<1>9. ASSUME NEW o \in Outcomes, tcpd_connect(o) PROVE Owned'
  BY <1>9 DEF tcpd_connect, InLua
<1>10. ASSUME NEW t \in Threads, tcpd_accept_bind(t) PROVE Owned'
  BY <1>10 DEF tcpd_accept_bind
<1>11. ASSUME NEW t \in Threads, Send(t) \/ tcpd_conn_shutdown(t) PROVE Owned'
  BY <1>11 DEF Send, tcpd_conn_shutdown, InLua
<1>12. ASSUME NEW t \in Threads, NEW on \in BOOLEAN, Reading(t, on) PROVE Owned'
  BY <1>12 DEF Reading, InLua
<1>13. ASSUME NEW t \in Threads, Close(t) \/ EndCleanup(t) PROVE Owned'
  BY <1>13 DEF Close, EndCleanup, Cleanup, InLua, Done, Idle
<1>14. ASSUME NEW t \in Threads, ReleaseSsl(t) PROVE Owned'
  BY <1>14 DEF ReleaseSsl, Go
<1>15. ASSUME NEW t \in Threads, TakeBuf(t) PROVE Owned'
  BY <1>15 DEF TakeBuf, Go
<1>16. ASSUME NEW t \in Threads, FreeBuf(t) PROVE Owned'
  BY <1>16 DEF FreeBuf, Shut, Go
<1>17. ASSUME NEW t \in Threads, DetachFree(t) PROVE Owned'
  BY <1>17 DEF DetachFree, Shut, Go
<1>18. ASSUME NEW t \in Threads, ClearRef(t) PROVE Owned'
  BY <1>18 DEF ClearRef
<1>19. ASSUME NEW t \in Threads, Cleaned(t) PROVE Owned'
  BY <1>19 DEF Cleaned, Go, Done, Idle
<1>20. ASSUME NEW t \in Threads, ReadCb(t) \/ WriteCb(t) \/ ConnectedCb(t) PROVE Owned'
  BY <1>20, CallMoves DEF ReadCb, WriteCb, ConnectedCb, Go, Done, Idle
<1>21. ASSUME NEW t \in Threads, Drain(t) PROVE Owned'
  BY <1>21, CallMoves DEF Drain, Done, Idle
<1>22. ASSUME NEW t \in Threads, EventCb(t) PROVE Owned'
  BY <1>22 DEF EventCb, Go
<1>23. ASSUME NEW t \in Threads, EofInput(t) PROVE Owned'
  BY <1>23, CallMoves DEF EofInput, Go
<1>24. ASSUME NEW t \in Threads, Detach(t) PROVE Owned'
  BY <1>24 DEF Detach, Go
<1>25. ASSUME NEW t \in Threads, Report(t) PROVE Owned'
  BY <1>25, CallMoves DEF Report, Go
<1>26. ASSUME NEW t \in Threads, Mainthread(t) PROVE Owned'
  BY <1>26, AbandonMoves DEF Mainthread, Go, Idle
<1>27. ASSUME NEW t \in Threads, Recheck(t) PROVE Owned'
  BY <1>27, AbandonMoves DEF Recheck, Go, Idle
<1>28. ASSUME NEW t \in Threads, Resume(t) PROVE Owned'
  BY <1>28 DEF Resume
<1>29. ASSUME NEW t \in Threads, TurnEnds(t) PROVE Owned'
  BY <1>29 DEF TurnEnds, InLua, Idle
<1> HIDE DEF IInv, Owned
<1>30. QED
  BY <1>1, <1>2, <1>3, <1>4, <1>5, <1>6, <1>7, <1>8, <1>9, <1>10, <1>11, <1>12, <1>13,
     <1>14, <1>15, <1>16, <1>17, <1>18, <1>19, <1>20, <1>21, <1>22, <1>23, <1>24, <1>25,
     <1>26, <1>27, <1>28, <1>29, NextActs DEF Acts

-----------------------------------------------------------------------------
(* One cleanup *)

\* The compare-and-swap lets one caller clean up, and that one finishes.
LEMMA NextCleanedOnce ==
  ASSUME IInv, [Next]_vars
  PROVE  CleanedOnce'
<1> USE DEF IInv, TypeOK, ConnType, BevType, PeerType, ThreadType, LogType, Threads, CleanedOnce, Cleaning, Unmade, Blank, Placing, Placed
<1>1. CASE UNCHANGED vars
  BY <1>1 DEF vars
<1>2. CASE Turn
  BY <1>2 DEF Turn
<1>3. CASE tcpd_server_listener_cb
  BY <1>3 DEF tcpd_server_listener_cb
<1>4. CASE Dispatch
  BY <1>4, DispatchMoves DEF CbThread
<1>5. CASE Reached
  BY <1>5 DEF Reached
<1>6. CASE Flushed
  BY <1>6 DEF Flushed
<1>7. CASE Arrive
  BY <1>7 DEF Arrive
<1>8. ASSUME NEW e \in Ends, Ended(e) PROVE CleanedOnce'
  BY <1>8 DEF Ended, Ends
<1>9. ASSUME NEW o \in Outcomes, tcpd_connect(o) PROVE CleanedOnce'
  BY <1>9 DEF tcpd_connect, InLua
<1>10. ASSUME NEW t \in Threads, tcpd_accept_bind(t) PROVE CleanedOnce'
  BY <1>10 DEF tcpd_accept_bind
<1>11. ASSUME NEW t \in Threads, Send(t) \/ tcpd_conn_shutdown(t) PROVE CleanedOnce'
  BY <1>11 DEF Send, tcpd_conn_shutdown, InLua
<1>12. ASSUME NEW t \in Threads, NEW on \in BOOLEAN, Reading(t, on) PROVE CleanedOnce'
  BY <1>12 DEF Reading, InLua
<1>13. ASSUME NEW t \in Threads, Close(t) \/ EndCleanup(t) PROVE CleanedOnce'
  BY <1>13 DEF Close, EndCleanup, Cleanup, InLua, Done, Idle
<1>14. ASSUME NEW t \in Threads, ReleaseSsl(t) PROVE CleanedOnce'
  BY <1>14 DEF ReleaseSsl, Go
<1>15. ASSUME NEW t \in Threads, TakeBuf(t) PROVE CleanedOnce'
  BY <1>15 DEF TakeBuf, Go
<1>16. ASSUME NEW t \in Threads, FreeBuf(t) PROVE CleanedOnce'
  BY <1>16 DEF FreeBuf, Shut, Go
<1>17. ASSUME NEW t \in Threads, DetachFree(t) PROVE CleanedOnce'
  BY <1>17 DEF DetachFree, Shut, Go
<1>18. ASSUME NEW t \in Threads, ClearRef(t) PROVE CleanedOnce'
  BY <1>18 DEF ClearRef
<1>19. ASSUME NEW t \in Threads, Cleaned(t) PROVE CleanedOnce'
  BY <1>19 DEF Cleaned, Go, Done, Idle
<1>20. ASSUME NEW t \in Threads, ReadCb(t) \/ WriteCb(t) \/ ConnectedCb(t) PROVE CleanedOnce'
  BY <1>20, CallMoves DEF ReadCb, WriteCb, ConnectedCb, Go, Done, Idle
<1>21. ASSUME NEW t \in Threads, Drain(t) PROVE CleanedOnce'
  BY <1>21, CallMoves DEF Drain, Done, Idle
<1>22. ASSUME NEW t \in Threads, EventCb(t) PROVE CleanedOnce'
  BY <1>22 DEF EventCb, Go
<1>23. ASSUME NEW t \in Threads, EofInput(t) PROVE CleanedOnce'
  BY <1>23, CallMoves DEF EofInput, Go
<1>24. ASSUME NEW t \in Threads, Detach(t) PROVE CleanedOnce'
  BY <1>24 DEF Detach, Go
<1>25. ASSUME NEW t \in Threads, Report(t) PROVE CleanedOnce'
  BY <1>25, CallMoves DEF Report, Go
<1>26. ASSUME NEW t \in Threads, Mainthread(t) PROVE CleanedOnce'
  BY <1>26, AbandonMoves DEF Mainthread, Go, Idle
<1>27. ASSUME NEW t \in Threads, Recheck(t) PROVE CleanedOnce'
  BY <1>27, AbandonMoves DEF Recheck, Go, Idle
<1>28. ASSUME NEW t \in Threads, Resume(t) PROVE CleanedOnce'
  BY <1>28 DEF Resume
<1>29. ASSUME NEW t \in Threads, TurnEnds(t) PROVE CleanedOnce'
  BY <1>29 DEF TurnEnds, InLua, Idle
<1> HIDE DEF IInv, CleanedOnce
<1>30. QED
  BY <1>1, <1>2, <1>3, <1>4, <1>5, <1>6, <1>7, <1>8, <1>9, <1>10, <1>11, <1>12, <1>13,
     <1>14, <1>15, <1>16, <1>17, <1>18, <1>19, <1>20, <1>21, <1>22, <1>23, <1>24, <1>25,
     <1>26, <1>27, <1>28, <1>29, NextActs DEF Acts

-----------------------------------------------------------------------------
(* The references *)

\* The references change in connect, bind and the cleanup; ondisconnected is
\* released when it is called.
LEMMA NextReferenced ==
  ASSUME IInv, [Next]_vars
  PROVE  Referenced'
<1> USE DEF IInv, TypeOK, ConnType, BevType, PeerType, ThreadType, LogType, Threads, Referenced, Refs, Unmade, Blank
<1>1. CASE UNCHANGED vars
  BY <1>1 DEF vars
<1>2. CASE Turn
  BY <1>2 DEF Turn
<1>3. CASE tcpd_server_listener_cb
  BY <1>3 DEF tcpd_server_listener_cb
<1>4. CASE Dispatch
  BY <1>4, DispatchMoves DEF CbThread
<1>5. CASE Reached
  BY <1>5 DEF Reached
<1>6. CASE Flushed
  BY <1>6 DEF Flushed
<1>7. CASE Arrive
  BY <1>7 DEF Arrive
<1>8. ASSUME NEW e \in Ends, Ended(e) PROVE Referenced'
  BY <1>8 DEF Ended, Ends
<1>9. ASSUME NEW o \in Outcomes, tcpd_connect(o) PROVE Referenced'
  BY <1>9 DEF tcpd_connect, InLua
<1>10. ASSUME NEW t \in Threads, tcpd_accept_bind(t) PROVE Referenced'
  BY <1>10 DEF tcpd_accept_bind
<1>11. ASSUME NEW t \in Threads, Send(t) \/ tcpd_conn_shutdown(t) PROVE Referenced'
  BY <1>11 DEF Send, tcpd_conn_shutdown, InLua
<1>12. ASSUME NEW t \in Threads, NEW on \in BOOLEAN, Reading(t, on) PROVE Referenced'
  BY <1>12 DEF Reading, InLua
<1>13. ASSUME NEW t \in Threads, Close(t) \/ EndCleanup(t) PROVE Referenced'
  BY <1>13 DEF Close, EndCleanup, Cleanup, InLua, Done, Idle
<1>14. ASSUME NEW t \in Threads, ReleaseSsl(t) PROVE Referenced'
  BY <1>14 DEF ReleaseSsl, Go
<1>15. ASSUME NEW t \in Threads, TakeBuf(t) PROVE Referenced'
  BY <1>15 DEF TakeBuf, Go
<1>16. ASSUME NEW t \in Threads, FreeBuf(t) PROVE Referenced'
  BY <1>16 DEF FreeBuf, Shut, Go
<1>17. ASSUME NEW t \in Threads, DetachFree(t) PROVE Referenced'
  BY <1>17 DEF DetachFree, Shut, Go
<1>18. ASSUME NEW t \in Threads, ClearRef(t) PROVE Referenced'
  BY <1>18 DEF ClearRef, CleanedOnce, Cleaning
<1>19. ASSUME NEW t \in Threads, Cleaned(t) PROVE Referenced'
  BY <1>19 DEF Cleaned, Go, Done, Idle
<1>20. ASSUME NEW t \in Threads, ReadCb(t) \/ WriteCb(t) \/ ConnectedCb(t) PROVE Referenced'
  BY <1>20, CallMoves DEF ReadCb, WriteCb, ConnectedCb, Go, Done, Idle
<1>21. ASSUME NEW t \in Threads, Drain(t) PROVE Referenced'
  BY <1>21, CallMoves DEF Drain, Done, Idle
<1>22. ASSUME NEW t \in Threads, EventCb(t) PROVE Referenced'
  BY <1>22 DEF EventCb, Go
<1>23. ASSUME NEW t \in Threads, EofInput(t) PROVE Referenced'
  BY <1>23, CallMoves DEF EofInput, Go
<1>24. ASSUME NEW t \in Threads, Detach(t) PROVE Referenced'
  BY <1>24 DEF Detach, Go
<1>25. ASSUME NEW t \in Threads, Report(t) PROVE Referenced'
  BY <1>25, CallMoves DEF Report, Go
<1>26. ASSUME NEW t \in Threads, Mainthread(t) PROVE Referenced'
  BY <1>26, AbandonMoves DEF Mainthread, Go, Idle
<1>27. ASSUME NEW t \in Threads, Recheck(t) PROVE Referenced'
  BY <1>27, AbandonMoves DEF Recheck, Go, Idle
<1>28. ASSUME NEW t \in Threads, Resume(t) PROVE Referenced'
  BY <1>28 DEF Resume
<1>29. ASSUME NEW t \in Threads, TurnEnds(t) PROVE Referenced'
  BY <1>29 DEF TurnEnds, InLua, Idle
<1> HIDE DEF IInv, Referenced
<1>30. QED
  BY <1>1, <1>2, <1>3, <1>4, <1>5, <1>6, <1>7, <1>8, <1>9, <1>10, <1>11, <1>12, <1>13,
     <1>14, <1>15, <1>16, <1>17, <1>18, <1>19, <1>20, <1>21, <1>22, <1>23, <1>24, <1>25,
     <1>26, <1>27, <1>28, <1>29, NextActs DEF Acts

-----------------------------------------------------------------------------
(* The data *)

\* No step loses a chunk: it moves on, is delivered, or is dropped and counted.
LEMMA NextCounted ==
  ASSUME IInv, [Next]_vars
  PROVE  Counted'
<1> USE DEF IInv, TypeOK, ConnType, BevType, PeerType, ThreadType, LogType, Threads, Counted, Calling, Placing, Placed, Idle, CleanedOnce
<1>1. CASE UNCHANGED vars
  BY <1>1 DEF vars
<1>2. CASE Turn
  BY <1>2 DEF Turn
<1>3. CASE tcpd_server_listener_cb
  BY <1>3 DEF tcpd_server_listener_cb
<1>4. CASE Dispatch
  BY <1>4, DispatchMoves DEF CbThread
<1>5. CASE Reached
  BY <1>5 DEF Reached
<1>6. CASE Flushed
  BY <1>6 DEF Flushed
<1>7. CASE Arrive
  BY <1>7 DEF Arrive
<1>8. ASSUME NEW e \in Ends, Ended(e) PROVE Counted'
  BY <1>8 DEF Ended, Ends
<1>9. ASSUME NEW o \in Outcomes, tcpd_connect(o) PROVE Counted'
  BY <1>9 DEF tcpd_connect, InLua
<1>10. ASSUME NEW t \in Threads, tcpd_accept_bind(t) PROVE Counted'
  BY <1>10 DEF tcpd_accept_bind
<1>11. ASSUME NEW t \in Threads, Send(t) \/ tcpd_conn_shutdown(t) PROVE Counted'
  BY <1>11 DEF Send, tcpd_conn_shutdown, InLua
<1>12. ASSUME NEW t \in Threads, NEW on \in BOOLEAN, Reading(t, on) PROVE Counted'
  BY <1>12 DEF Reading, InLua
<1>13. ASSUME NEW t \in Threads, Close(t) \/ EndCleanup(t) PROVE Counted'
  BY <1>13 DEF Close, EndCleanup, Cleanup, InLua, Done, Idle
<1>14. ASSUME NEW t \in Threads, ReleaseSsl(t) PROVE Counted'
  BY <1>14 DEF ReleaseSsl, Go
<1>15. ASSUME NEW t \in Threads, TakeBuf(t) PROVE Counted'
  BY <1>15 DEF TakeBuf, Go
<1>16. ASSUME NEW t \in Threads, FreeBuf(t) PROVE Counted'
  BY <1>16 DEF FreeBuf, Shut, Go
<1>17. ASSUME NEW t \in Threads, DetachFree(t) PROVE Counted'
  BY <1>17 DEF DetachFree, Shut, Go
<1>18. ASSUME NEW t \in Threads, ClearRef(t) PROVE Counted'
  BY <1>18 DEF ClearRef, Cleaning
<1>19. ASSUME NEW t \in Threads, Cleaned(t) PROVE Counted'
  BY <1>19 DEF Cleaned, Go, Done, Idle
<1>20. ASSUME NEW t \in Threads, ReadCb(t) \/ WriteCb(t) \/ ConnectedCb(t) PROVE Counted'
  BY <1>20, CallMoves DEF ReadCb, WriteCb, ConnectedCb, Go, Done, Idle
<1>21. ASSUME NEW t \in Threads, Drain(t) PROVE Counted'
  BY <1>21, CallMoves DEF Drain, Done, Idle
<1>22. ASSUME NEW t \in Threads, EventCb(t) PROVE Counted'
  BY <1>22 DEF EventCb, Go
<1>23. ASSUME NEW t \in Threads, EofInput(t) PROVE Counted'
  <2>1. CASE Call(t, "read", "detach", bev.input) /\ bev' = [bev EXCEPT !.input = 0] /\ UNCHANGED log
    BY <1>23, <2>1, CallMoves DEF EofInput
  <2>2. CASE Go(t, "detach") /\ UNCHANGED <<bev, log>>
    BY <1>23, <2>2 DEF EofInput, Go
  <2>3. CASE ~conn.buf /\ log' = [log EXCEPT !.crashed = TRUE] /\ UNCHANGED <<bev, th>>
    BY <1>23, <2>3 DEF EofInput
  <2>4. QED
    BY <1>23, <2>1, <2>2, <2>3 DEF EofInput
<1>24. ASSUME NEW t \in Threads, Detach(t) PROVE Counted'
  BY <1>24 DEF Detach, Go
<1>25. ASSUME NEW t \in Threads, Report(t) PROVE Counted'
  BY <1>25, CallMoves DEF Report, Go
<1>26. ASSUME NEW t \in Threads, Mainthread(t) PROVE Counted'
  BY <1>26, AbandonMoves DEF Mainthread, Go, Idle
<1>27. ASSUME NEW t \in Threads, Recheck(t) PROVE Counted'
  BY <1>27, AbandonMoves DEF Recheck, Go, Idle
<1>28. ASSUME NEW t \in Threads, Resume(t) PROVE Counted'
  BY <1>28 DEF Resume
<1>29. ASSUME NEW t \in Threads, TurnEnds(t) PROVE Counted'
  BY <1>29 DEF TurnEnds, InLua, Idle
<1> HIDE DEF IInv, Counted
<1>30. QED
  BY <1>1, <1>2, <1>3, <1>4, <1>5, <1>6, <1>7, <1>8, <1>9, <1>10, <1>11, <1>12, <1>13,
     <1>14, <1>15, <1>16, <1>17, <1>18, <1>19, <1>20, <1>21, <1>22, <1>23, <1>24, <1>25,
     <1>26, <1>27, <1>28, <1>29, NextActs DEF Acts

-----------------------------------------------------------------------------
(* The end of the connection *)

\* libevent reports the end once, and one callback carries it.
LEMMA NextEndsOnce ==
  ASSUME IInv, [Next]_vars
  PROVE  EndsOnce'
<1>1. CASE UNCHANGED vars
  BY <1>1 DEF vars, IInv, EndsOnce, EndAhead, Calling, Ends
<1> USE DEF IInv, TypeOK, ConnType, BevType, PeerType, ThreadType, LogType, Threads, EndsOnce, EndAhead, Calling, Ends, Placing, Placed, Idle, Unmade
<1>2. CASE Turn
  BY <1>2 DEF Turn
<1>3. CASE tcpd_server_listener_cb
  BY <1>3 DEF tcpd_server_listener_cb
<1>4. CASE Dispatch
  BY <1>4, DispatchMoves DEF CbThread
<1>5. CASE Reached
  BY <1>5 DEF Reached
<1>6. CASE Flushed
  BY <1>6 DEF Flushed
<1>7. CASE Arrive
  BY <1>7 DEF Arrive
<1>8. ASSUME NEW e \in Ends, Ended(e) PROVE EndsOnce'
  BY <1>8 DEF Ended, Ends
<1>9. ASSUME NEW o \in Outcomes, tcpd_connect(o) PROVE EndsOnce'
  BY <1>9 DEF tcpd_connect, InLua
<1>10. ASSUME NEW t \in Threads, tcpd_accept_bind(t) PROVE EndsOnce'
  BY <1>10 DEF tcpd_accept_bind
<1>11. ASSUME NEW t \in Threads, Send(t) \/ tcpd_conn_shutdown(t) PROVE EndsOnce'
  BY <1>11 DEF Send, tcpd_conn_shutdown, InLua
<1>12. ASSUME NEW t \in Threads, NEW on \in BOOLEAN, Reading(t, on) PROVE EndsOnce'
  BY <1>12 DEF Reading, InLua
<1>13. ASSUME NEW t \in Threads, Close(t) \/ EndCleanup(t) PROVE EndsOnce'
  BY <1>13 DEF Close, EndCleanup, Cleanup, InLua, Done, Idle
<1>14. ASSUME NEW t \in Threads, ReleaseSsl(t) PROVE EndsOnce'
  BY <1>14 DEF ReleaseSsl, Go
<1>15. ASSUME NEW t \in Threads, TakeBuf(t) PROVE EndsOnce'
  BY <1>15 DEF TakeBuf, Go
<1>16. ASSUME NEW t \in Threads, FreeBuf(t) PROVE EndsOnce'
  BY <1>16 DEF FreeBuf, Shut, Go
<1>17. ASSUME NEW t \in Threads, DetachFree(t) PROVE EndsOnce'
  BY <1>17 DEF DetachFree, Shut, Go
<1>18. ASSUME NEW t \in Threads, ClearRef(t) PROVE EndsOnce'
  BY <1>18 DEF ClearRef
<1>19. ASSUME NEW t \in Threads, Cleaned(t) PROVE EndsOnce'
  BY <1>19 DEF Cleaned, Go, Done, Idle
<1>20. ASSUME NEW t \in Threads, ReadCb(t) \/ WriteCb(t) \/ ConnectedCb(t) PROVE EndsOnce'
  BY <1>20, CallMoves DEF ReadCb, WriteCb, ConnectedCb, Go, Done, Idle, Entry
<1>21. ASSUME NEW t \in Threads, Drain(t) PROVE EndsOnce'
  BY <1>21, CallMoves DEF Drain, Done, Idle, Entry
<1>22. ASSUME NEW t \in Threads, EventCb(t) PROVE EndsOnce'
  BY <1>22 DEF EventCb, Go
<1>23. ASSUME NEW t \in Threads, EofInput(t) PROVE EndsOnce'
  BY <1>23, CallMoves DEF EofInput, Go, Entry
<1>24. ASSUME NEW t \in Threads, Detach(t) PROVE EndsOnce'
  BY <1>24 DEF Detach, Go
<1>25. ASSUME NEW t \in Threads, Report(t) PROVE EndsOnce'
  <2>1. CASE Call(t, "disconnected", "cleanup", 0)
    <3> HIDE DEF IInv, TypeOK, ConnType, BevType, PeerType, ThreadType, LogType, Threads, EndsOnce,
                 EndAhead, Calling, Ends, Placing, Placed, Idle, Unmade
    <3>1. TypeOK /\ Placing /\ EndsOnce
      BY DEF IInv
    <3>2. th[t].pc = "report" /\ UNCHANGED <<bev, peer, log>>
      BY <1>25 DEF Report
    <3>3. /\ th'[t].pc = "mainthread" /\ th'[t].back = "cleanup" /\ th'[t].ev = th[t].ev
          /\ \A u \in Threads \ {t} : th'[u] = th[u]
      BY <1>25, <2>1, <3>1, CallMoves
    <3>4. th[t].ev \in Ends /\ th[t].back # "cleanup"
      BY <1>25, <3>1, <3>2 DEF Placing, Placed, Ending
    <3>5. ~(log.ended > 0)
      BY <1>25, <3>1, <3>4 DEF EndsOnce, EndAhead
    <3>6. QED
      BY <3>1, <3>2, <3>3, <3>4, <3>5 DEF EndsOnce
  <2>2. CASE Go(t, "cleanup")
    BY <1>25, <2>2 DEF Report, Go
  <2>3. QED
    BY <1>25, <2>1, <2>2 DEF Report
<1>26. ASSUME NEW t \in Threads, Mainthread(t) PROVE EndsOnce'
  BY <1>26, AbandonMoves DEF Mainthread, Go, Idle
<1>27. ASSUME NEW t \in Threads, Recheck(t) PROVE EndsOnce'
  BY <1>27, AbandonMoves DEF Recheck, Go, Idle
<1>28. ASSUME NEW t \in Threads, Resume(t) PROVE EndsOnce'
  BY <1>28 DEF Resume
<1>29. ASSUME NEW t \in Threads, TurnEnds(t) PROVE EndsOnce'
  BY <1>29 DEF TurnEnds, InLua, Idle
<1> HIDE DEF IInv, EndsOnce
<1>30. QED
  BY <1>1, <1>2, <1>3, <1>4, <1>5, <1>6, <1>7, <1>8, <1>9, <1>10, <1>11, <1>12, <1>13,
     <1>14, <1>15, <1>16, <1>17, <1>18, <1>19, <1>20, <1>21, <1>22, <1>23, <1>24, <1>25,
     <1>26, <1>27, <1>28, <1>29, NextActs DEF Acts

-----------------------------------------------------------------------------
(* The input before the end *)

\* At the end of the stream the input is drained before ondisconnected is called,
\* unless the connection is cleaned up, which takes the reference away.
LEMMA NextInputFirst ==
  ASSUME IInv, [Next]_vars
  PROVE  InputFirst'
<1> USE DEF IInv, TypeOK, ConnType, BevType, PeerType, ThreadType, LogType, Threads, InputFirst, Drained, Calling, CbThread, Placing, Placed, Ending, Ends
<1>1. CASE UNCHANGED vars
  BY <1>1 DEF vars
<1>2. CASE Turn
  BY <1>2 DEF Turn
<1>3. CASE tcpd_server_listener_cb
  BY <1>3 DEF tcpd_server_listener_cb
<1>4. CASE Dispatch
  BY <1>4, DispatchMoves DEF CbThread
<1>5. CASE Reached
  BY <1>5 DEF Reached
<1>6. CASE Flushed
  BY <1>6 DEF Flushed
<1>7. CASE Arrive
  BY <1>7 DEF Arrive, EndsOnce
<1>8. ASSUME NEW e \in Ends, Ended(e) PROVE InputFirst'
  BY <1>8 DEF Ended, Ends
<1>9. ASSUME NEW o \in Outcomes, tcpd_connect(o) PROVE InputFirst'
  BY <1>9 DEF tcpd_connect, InLua
<1>10. ASSUME NEW t \in Threads, tcpd_accept_bind(t) PROVE InputFirst'
  BY <1>10 DEF tcpd_accept_bind, InLua
<1>11. ASSUME NEW t \in Threads, Send(t) \/ tcpd_conn_shutdown(t) PROVE InputFirst'
  BY <1>11 DEF Send, tcpd_conn_shutdown, InLua
<1>12. ASSUME NEW t \in Threads, NEW on \in BOOLEAN, Reading(t, on) PROVE InputFirst'
  BY <1>12 DEF Reading, InLua
<1>13. ASSUME NEW t \in Threads, Close(t) \/ EndCleanup(t) PROVE InputFirst'
  BY <1>13 DEF Close, EndCleanup, Cleanup, InLua, Done, Idle
<1>14. ASSUME NEW t \in Threads, ReleaseSsl(t) PROVE InputFirst'
  BY <1>14 DEF ReleaseSsl, Go
<1>15. ASSUME NEW t \in Threads, TakeBuf(t) PROVE InputFirst'
  BY <1>15 DEF TakeBuf, Go, CleanedOnce, Cleaning
<1>16. ASSUME NEW t \in Threads, FreeBuf(t) PROVE InputFirst'
  BY <1>16 DEF FreeBuf, Shut, Go
<1>17. ASSUME NEW t \in Threads, DetachFree(t) PROVE InputFirst'
  BY <1>17 DEF DetachFree, Shut, Go
<1>18. ASSUME NEW t \in Threads, ClearRef(t) PROVE InputFirst'
  BY <1>18 DEF ClearRef
<1>19. ASSUME NEW t \in Threads, Cleaned(t) PROVE InputFirst'
  BY <1>19 DEF Cleaned, Go, Done, Idle
<1>20. ASSUME NEW t \in Threads, ReadCb(t) \/ WriteCb(t) \/ ConnectedCb(t) PROVE InputFirst'
  BY <1>20, CallMoves DEF ReadCb, WriteCb, ConnectedCb, Go, Done, Idle
<1>21. ASSUME NEW t \in Threads, Drain(t) PROVE InputFirst'
  BY <1>21, CallMoves DEF Drain, Done, Idle
<1>22. ASSUME NEW t \in Threads, EventCb(t) PROVE InputFirst'
  BY <1>22 DEF EventCb, Go, Referenced, Ending
<1>23. ASSUME NEW t \in Threads, EofInput(t) PROVE InputFirst'
  BY <1>23, CallMoves DEF EofInput, Go
<1>24. ASSUME NEW t \in Threads, Detach(t) PROVE InputFirst'
  BY <1>24 DEF Detach, Go
<1>25. ASSUME NEW t \in Threads, Report(t) PROVE InputFirst'
  BY <1>25, CallMoves DEF Report, Go
<1>26. ASSUME NEW t \in Threads, Mainthread(t) PROVE InputFirst'
  BY <1>26, AbandonMoves DEF Mainthread, Go, Idle
<1>27. ASSUME NEW t \in Threads, Recheck(t) PROVE InputFirst'
  BY <1>27, AbandonMoves DEF Recheck, Go, Idle, CleanedOnce, Cleaning, Callback
<1>28. ASSUME NEW t \in Threads, Resume(t) PROVE InputFirst'
  BY <1>28 DEF Resume
<1>29. ASSUME NEW t \in Threads, TurnEnds(t) PROVE InputFirst'
  BY <1>29 DEF TurnEnds, InLua, Idle
<1> HIDE DEF IInv, InputFirst
<1>30. QED
  BY <1>1, <1>2, <1>3, <1>4, <1>5, <1>6, <1>7, <1>8, <1>9, <1>10, <1>11, <1>12, <1>13,
     <1>14, <1>15, <1>16, <1>17, <1>18, <1>19, <1>20, <1>21, <1>22, <1>23, <1>24, <1>25,
     <1>26, <1>27, <1>28, <1>29, NextActs DEF Acts

-----------------------------------------------------------------------------
(* Late callbacks and the second read *)

\* A late callback takes a late bind, the NULL of the second read a second thread.
LEMMA NextNoticed ==
  ASSUME IInv, [Next]_vars
  PROVE  Noticed'
<1> USE DEF IInv, TypeOK, ConnType, LogType, ThreadType, Noticed, CleanedOnce
<1>1. CASE UNCHANGED vars
  BY <1>1 DEF vars
<1>2. CASE Turn
  BY <1>2 DEF Turn
<1>3. CASE tcpd_server_listener_cb
  BY <1>3 DEF tcpd_server_listener_cb
<1>4. CASE Dispatch
  BY <1>4, DispatchMoves DEF CbThread
<1>5. CASE Reached
  BY <1>5 DEF Reached
<1>6. CASE Flushed
  BY <1>6 DEF Flushed
<1>7. CASE Arrive
  BY <1>7 DEF Arrive
<1>8. ASSUME NEW e \in Ends, Ended(e) PROVE Noticed'
  BY <1>8 DEF Ended, Ends
<1>9. ASSUME NEW o \in Outcomes, tcpd_connect(o) PROVE Noticed'
  BY <1>9 DEF tcpd_connect, InLua
<1>10. ASSUME NEW t \in Threads, tcpd_accept_bind(t) PROVE Noticed'
  BY <1>10 DEF tcpd_accept_bind
<1>11. ASSUME NEW t \in Threads, Send(t) \/ tcpd_conn_shutdown(t) PROVE Noticed'
  BY <1>11 DEF Send, tcpd_conn_shutdown, InLua
<1>12. ASSUME NEW t \in Threads, NEW on \in BOOLEAN, Reading(t, on) PROVE Noticed'
  BY <1>12 DEF Reading, InLua
<1>13. ASSUME NEW t \in Threads, Close(t) \/ EndCleanup(t) PROVE Noticed'
  BY <1>13 DEF Close, EndCleanup, Cleanup, InLua, Done, Idle
<1>14. ASSUME NEW t \in Threads, ReleaseSsl(t) PROVE Noticed'
  BY <1>14 DEF ReleaseSsl, Go
<1>15. ASSUME NEW t \in Threads, TakeBuf(t) PROVE Noticed'
  BY <1>15 DEF TakeBuf, Go
<1>16. ASSUME NEW t \in Threads, FreeBuf(t) PROVE Noticed'
  BY <1>16 DEF FreeBuf, Shut, Go
<1>17. ASSUME NEW t \in Threads, DetachFree(t) PROVE Noticed'
  BY <1>17 DEF DetachFree, Shut, Go
<1>18. ASSUME NEW t \in Threads, ClearRef(t) PROVE Noticed'
  BY <1>18 DEF ClearRef
<1>19. ASSUME NEW t \in Threads, Cleaned(t) PROVE Noticed'
  BY <1>19 DEF Cleaned, Go, Done, Idle
<1>20. ASSUME NEW t \in Threads, ReadCb(t) \/ WriteCb(t) \/ ConnectedCb(t) PROVE Noticed'
  BY <1>20, CallMoves DEF ReadCb, WriteCb, ConnectedCb, Go, Done, Idle
<1>21. ASSUME NEW t \in Threads, Drain(t) PROVE Noticed'
  BY <1>21, CallMoves DEF Drain, Done, Idle
<1>22. ASSUME NEW t \in Threads, EventCb(t) PROVE Noticed'
  BY <1>22 DEF EventCb, Go
<1>23. ASSUME NEW t \in Threads, EofInput(t) PROVE Noticed'
  <2>1. CASE Call(t, "read", "detach", bev.input) /\ bev' = [bev EXCEPT !.input = 0] /\ UNCHANGED log
    BY <1>23, <2>1, CallMoves DEF EofInput
  <2>2. CASE Go(t, "detach") /\ UNCHANGED <<bev, log>>
    BY <1>23, <2>2 DEF EofInput, Go
  <2>3. CASE ~conn.buf /\ log' = [log EXCEPT !.crashed = TRUE] /\ UNCHANGED <<bev, th>>
    BY <1>23, <2>3 DEF EofInput, InputFirst, Threads
  <2>4. QED
    BY <1>23, <2>1, <2>2, <2>3 DEF EofInput
<1>24. ASSUME NEW t \in Threads, Detach(t) PROVE Noticed'
  BY <1>24 DEF Detach, Go
<1>25. ASSUME NEW t \in Threads, Report(t) PROVE Noticed'
  BY <1>25, CallMoves DEF Report, Go
<1>26. ASSUME NEW t \in Threads, Mainthread(t) PROVE Noticed'
  BY <1>26, AbandonMoves DEF Mainthread, Go, Idle
<1>27. ASSUME NEW t \in Threads, Recheck(t) PROVE Noticed'
  BY <1>27, AbandonMoves DEF Recheck, Go, Idle
<1>28. ASSUME NEW t \in Threads, Resume(t) PROVE Noticed'
  BY <1>28 DEF Resume
<1>29. ASSUME NEW t \in Threads, TurnEnds(t) PROVE Noticed'
  BY <1>29 DEF TurnEnds, InLua, Idle
<1> HIDE DEF IInv, Noticed
<1>30. QED
  BY <1>1, <1>2, <1>3, <1>4, <1>5, <1>6, <1>7, <1>8, <1>9, <1>10, <1>11, <1>12, <1>13,
     <1>14, <1>15, <1>16, <1>17, <1>18, <1>19, <1>20, <1>21, <1>22, <1>23, <1>24, <1>25,
     <1>26, <1>27, <1>28, <1>29, NextActs DEF Acts

-----------------------------------------------------------------------------
(* The theorems *)

\* The inductive invariant holds in every state.
LEMMA Invariant == Spec => []IInv
<1>1. Init => IInv
  <2> SUFFICES ASSUME Init PROVE IInv
    OBVIOUS
  <2>1. TypeOK
    BY InitTypeOK
  <2>2. Placing /\ Unmade /\ Owned
    BY DEF Init, Placing, Placed, Unmade, Owned, Idle, Blank, Threads, Callback, Cleaning, Ending,
           Entry, Holding
  <2>3. CleanedOnce
    <3>1. \A t \in Threads : th[t].pc = "idle"
      BY DEF Init, Idle
    <3>2. ~conn.cleaned /\ conn.mutex /\ conn.mt
      BY DEF Init, Blank
    <3>3. log.releases = 0 /\ ~log.closed
      BY DEF Init
    <3>4. QED
      BY <3>1, <3>2, <3>3 DEF CleanedOnce, Threads, Cleaning
  <2>4. Referenced
    BY DEF Init, Referenced, Idle, Blank, Threads, Cleaning
  <2>5. Counted
    <3>1. \A t \in Threads : th[t].pc = "idle" /\ th[t].data = 0
      BY DEF Init, Idle
    <3>2. peer.sent = 0 /\ bev.input = 0
      BY DEF Init
    <3>3. log.delivered = 0 /\ log.dropped = 0
      BY DEF Init
    <3>4. QED
      BY <3>1, <3>2, <3>3 DEF Counted, Threads
  <2>6. EndsOnce
    BY DEF Init, EndsOnce, EndAhead, Idle, Threads, Calling, Ends
  <2>7. InputFirst
    BY DEF Init, InputFirst, EndAhead, Idle, Threads, Calling, Ends
  <2>8. Noticed
    BY DEF Init, Noticed, EndAhead, Idle, Threads, Calling, Ends
  <2>9. QED
    BY <2>1, <2>2, <2>3, <2>4, <2>5, <2>6, <2>7, <2>8 DEF IInv
<1>2. IInv /\ [Next]_vars => IInv'
  <2> SUFFICES ASSUME IInv, [Next]_vars PROVE IInv'
    OBVIOUS
  <2>1. TypeOK'
    BY NextTypeOK DEF IInv
  <2>2. QED
    BY <2>1, NextPlacing, NextUnmade, NextOwned, NextCleanedOnce, NextReferenced, NextCounted,
       NextEndsOnce, NextInputFirst, NextNoticed DEF IInv
<1>3. QED
  BY <1>1, <1>2, PTL DEF Spec

\* However close, __gc and the end of the connection meet, what a connection owns
\* is given back once, and when it has been cleaned up nothing is left.
THEOREM TcpReleasedOnce == Spec => []ReleasedOnce
<1>1. IInv => ReleasedOnce
  <2> SUFFICES ASSUME IInv PROVE ReleasedOnce
    OBVIOUS
  <2>1. (conn.buf => bev.exists /\ ~bev.freed) /\ log.frees <= 1 /\ log.releases <= 1
    BY DEF IInv, Owned, CleanedOnce
  <2>2. ~conn.mutex => ~conn.buf /\ ~conn.ssl /\ (conn.refs = {} \/ log.lateBind)
    BY DEF IInv, CleanedOnce
  <2>3. ~conn.mutex => (bev.exists => bev.freed) \/ \E t \in Threads : th[t].pc = "detach_free"
    BY DEF IInv, Owned, CleanedOnce, Holding, Cleaning
  <2>4. QED
    BY <2>1, <2>2, <2>3 DEF ReleasedOnce, IInv, Noticed
<1>2. QED
  BY <1>1, Invariant, PTL

\* No chunk is lost without a reason, and the end of the stream is reported after
\* all that arrived before it.
THEOREM TcpDataBeforeEnd == Spec => []DataBeforeEnd
<1>1. IInv => DataBeforeEnd
  BY DEF IInv, DataBeforeEnd, Counted, InputFirst, Drained, Calling
<1>2. QED
  BY <1>1, Invariant, PTL

\* ondisconnected runs at most once, and no callback starts after close.
THEOREM TcpCallbacksEnd == Spec => []CallbacksEnd
<1>1. IInv => CallbacksEnd
  BY DEF IInv, CallbacksEnd, EndsOnce, Noticed
<1>2. QED
  BY <1>1, Invariant, PTL
=============================================================================
