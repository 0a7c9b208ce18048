------------------------------ MODULE TcpConn ------------------------------
(***************************************************************************)
(* One TCP connection of fan.tcpd (tcpd.c, tcpd_event.c, and the accepted  *)
(* connections of tcpd_server.c): a Lua userdata that owns a libevent      *)
(* bufferevent, four registry references and, for a client, a share of an  *)
(* SSL context.                                                            *)
(*                                                                         *)
(* Two threads touch it.  Thread "main" runs the Lua program; the          *)
(* bufferevent's callbacks run on "io", a worker's event loop, when the    *)
(* connection was given a worker, and on "main" otherwise.  Lua runs on    *)
(* either thread, under lua_lock: in a callback after FAN_RESUME, and on   *)
(* "main" whenever another event resumes a coroutine there.  A section     *)
(* under buf_mutex is one step; everything between two such sections, and  *)
(* between two lua_lock sections, may interleave.  lua_lock is what an     *)
(* embedding Lua makes of it; where it is empty only builds without        *)
(* workers are covered.  The program binds an accepted connection once.    *)
(***************************************************************************)
EXTENDS Naturals, FiniteSets

CONSTANTS
  MaxData,     \* bound on the chunks the peer sends
  MaxTurns,    \* bound on the Lua turns of thread "main"
  MaxCalls,    \* bound on the calls Lua makes in one turn
  Setup        \* outcomes of fan_cb_setup: FALSE when memory runs out

ASSUME TcpConnAssumption ==
  /\ MaxData \in Nat /\ MaxTurns \in Nat /\ MaxCalls \in Nat
  /\ Setup \in SUBSET BOOLEAN /\ Setup # {}

VARIABLES
  cfg,     \* how the connection was made: kind, worker thread or not, TLS
  conn,    \* the tcpd_base_conn_t
  bev,     \* libevent's bufferevent
  peer,    \* what the other end has done
  th,      \* each thread: its place, the callback it runs, the chunks it holds
  lua,     \* who holds lua_lock
  log      \* ghost: what the Lua program saw and what happened on the way

vars == <<cfg, conn, bev, peer, th, lua, log>>

Threads == {"main", "io"}
Refs == {"read", "sendready", "disconnected", "connected"}
Ends == {"eof", "error"}   \* a timeout is handled as an error is
Events == Ends \cup {"connected", "read", "write"}
CbThread == IF cfg.worker THEN "io" ELSE "main"

Idle == [pc |-> "idle", ref |-> "none", ev |-> "none", data |-> 0, calls |-> 0, back |-> "idle"]

\* The order in which one activation of libevent's deferred callbacks runs them.
Rank(e) == CASE e = "connected" -> 1 [] e = "read" -> 2 [] e = "write" -> 3 [] OTHER -> 4

\* tcpd_base_conn_init.
Blank == [made |-> FALSE, buf |-> FALSE, cleaned |-> FALSE, mt |-> TRUE, refs |-> {},
          ssl |-> FALSE, mutex |-> TRUE]

Init ==
  /\ cfg \in {c \in [kind : {"client", "accept"}, worker : BOOLEAN, tls : BOOLEAN] :
                c.kind = "accept" => ~c.tls}
  /\ conn = Blank
  /\ bev = [exists |-> FALSE, freed |-> FALSE, cbs |-> FALSE, reading |-> FALSE,
            input |-> 0, output |-> FALSE, shut |-> FALSE, due |-> {}, ran |-> 0]
  /\ peer = [sent |-> 0, up |-> FALSE, ended |-> FALSE]
  /\ th = [t \in Threads |-> Idle]
  /\ lua = "free"
  /\ log = [turns |-> 0, frees |-> 0, releases |-> 0, delivered |-> 0, dropped |-> 0,
            ended |-> 0, closed |-> FALSE, late |-> FALSE, oom |-> FALSE,
            lateBind |-> FALSE, early |-> FALSE, crashed |-> FALSE]

Go(t, pc) == th' = [th EXCEPT ![t].pc = pc]
Done(t) == th' = [th EXCEPT ![t] = Idle]
InLua(t) == th[t].pc = "lua" /\ lua = t

-----------------------------------------------------------------------------
(* Making the connection. *)

\* The ways tcpd_connect ends: the SSL context could not be configured, no
\* bufferevent, the connect call refused, or a connection attempt under way.
\* All but the last hand Lua a connection without a bufferevent.
Outcomes == {"unconfigured", "no_bufferevent", "refused", "connecting"}

tcpd_connect(o) ==
  /\ InLua("main") /\ cfg.kind = "client" /\ ~conn.made
  /\ o = "unconfigured" => cfg.tls
  /\ \E refs \in {Refs, {"read"}} :
       conn' = [conn EXCEPT !.made = TRUE, !.refs = refs, !.ssl = cfg.tls, !.buf = (o = "connecting")]
  /\ bev' = [bev EXCEPT !.exists = o \in {"refused", "connecting"}, !.freed = (o = "refused"),
                        !.cbs = (o = "connecting"), !.reading = (o = "connecting")]
  /\ log' = [log EXCEPT !.frees = IF o = "refused" THEN @ + 1 ELSE @]
  /\ UNCHANGED <<cfg, peer, th, lua>>

\* tcpd_server_listener_cb, once it has a bufferevent: reading starts at once,
\* or with bind when a worker runs the callbacks.  onaccept then gets the
\* connection.
tcpd_server_listener_cb ==
  /\ th["main"].pc = "idle" /\ lua = "free" /\ cfg.kind = "accept" /\ ~conn.made
  /\ conn' = [conn EXCEPT !.made = TRUE, !.buf = TRUE]
  /\ bev' = [bev EXCEPT !.exists = TRUE, !.cbs = TRUE, !.reading = ~cfg.worker]
  /\ peer' = [peer EXCEPT !.up = TRUE]
  /\ th' = [th EXCEPT !["main"].pc = "resume", !["main"].ref = "accept"]
  /\ UNCHANGED <<cfg, lua, log>>

\* tcpd_accept_bind.
tcpd_accept_bind(t) ==
  /\ InLua(t) /\ cfg.kind = "accept" /\ conn.made /\ th[t].calls < MaxCalls
  /\ conn.refs = {} /\ ~log.lateBind
  /\ conn' = [conn EXCEPT !.refs = Refs]
  /\ bev' = IF conn.buf THEN [bev EXCEPT !.reading = TRUE] ELSE bev
  /\ th' = [th EXCEPT ![t].calls = @ + 1]
  /\ log' = [log EXCEPT !.lateBind = conn.cleaned]
  /\ UNCHANGED <<cfg, peer, lua>>

-----------------------------------------------------------------------------
(* Lua's turns and the calls it makes in them. *)

Turn ==
  /\ th["main"].pc = "idle" /\ lua = "free" /\ log.turns < MaxTurns
  /\ lua' = "main" /\ th' = [th EXCEPT !["main"].pc = "lua", !["main"].back = "idle"]
  /\ log' = [log EXCEPT !.turns = @ + 1]
  /\ UNCHANGED <<cfg, conn, bev, peer>>

TurnEnds(t) ==
  /\ InLua(t)
  /\ lua' = "free"
  /\ th' = [th EXCEPT ![t] = IF th[t].back = "idle" THEN Idle
                             ELSE [@ EXCEPT !.pc = th[t].back, !.calls = 0]]
  /\ UNCHANGED <<cfg, conn, bev, peer, log>>

\* Each of the two kinds has methods of its own, which do the same.
Send(t) ==
  /\ InLua(t) /\ conn.buf /\ ~bev.output /\ th[t].calls < MaxCalls
  /\ bev' = [bev EXCEPT !.output = TRUE]
  /\ th' = [th EXCEPT ![t].calls = @ + 1]
  /\ UNCHANGED <<cfg, conn, peer, lua, log>>

tcpd_conn_send(t) == cfg.kind = "client" /\ Send(t)

tcpd_accept_send(t) == cfg.kind = "accept" /\ Send(t)

\* The writing side is closed, if nothing is pending.
tcpd_conn_shutdown(t) ==
  /\ InLua(t) /\ cfg.kind = "client" /\ conn.buf /\ ~bev.output /\ th[t].calls < MaxCalls
  /\ bev' = [bev EXCEPT !.shut = TRUE]
  /\ th' = [th EXCEPT ![t].calls = @ + 1]
  /\ UNCHANGED <<cfg, conn, peer, lua, log>>

Reading(t, on) ==
  /\ InLua(t) /\ conn.buf /\ th[t].calls < MaxCalls
  /\ bev' = [bev EXCEPT !.reading = on]
  /\ th' = [th EXCEPT ![t].calls = @ + 1]
  /\ log' = [log EXCEPT !.early = @ \/ (on /\ conn.refs = {})]
  /\ UNCHANGED <<cfg, conn, peer, lua>>

tcpd_conn_read_pause(t) == cfg.kind = "client" /\ Reading(t, FALSE)

tcpd_conn_read_resume(t) == cfg.kind = "client" /\ Reading(t, TRUE)

tcpd_accept_read_pause(t) == cfg.kind = "accept" /\ Reading(t, FALSE)

tcpd_accept_read_resume(t) == cfg.kind = "accept" /\ Reading(t, TRUE)

\* tcpd_client_cleanup_on_disconnect, tcpd_accept_cleanup_on_disconnect and
\* tcpd_connection_cleanup_on_disconnect: one caller passes the
\* compare-and-swap.
CleanupUnguarded(t) ==
  /\ conn' = [conn EXCEPT !.cleaned = TRUE]
  /\ th' = [th EXCEPT ![t].pc = "ssl", ![t].calls = @ + 1]

Cleanup(t) ==
  IF conn.cleaned
  THEN /\ IF lua = t THEN th' = [th EXCEPT ![t].calls = @ + 1] ELSE Done(t)
       /\ UNCHANGED conn
  ELSE /\ conn' = [conn EXCEPT !.cleaned = TRUE]
       /\ th' = [th EXCEPT ![t].pc = "ssl", ![t].calls = @ + 1]

\* The __gc metamethods do what close does.
Close(t) ==
  /\ InLua(t) /\ conn.made /\ th[t].calls < MaxCalls
  /\ Cleanup(t)
  /\ UNCHANGED <<cfg, bev, peer, lua, log>>

tcpd_conn_close(t) == cfg.kind = "client" /\ Close(t)

tcpd_accept_close(t) == cfg.kind = "accept" /\ Close(t)

-----------------------------------------------------------------------------
(* The cleanup, in its steps: a client gives its SSL context back, then      *)
(* tcpd_base_conn_cleanup.                                                   *)

ReleaseSsl(t) ==
  /\ th[t].pc = "ssl"
  /\ log' = [log EXCEPT !.releases = IF conn.ssl THEN @ + 1 ELSE @]
  /\ Go(t, "take")
  /\ UNCHANGED <<cfg, conn, bev, peer, lua>>

\* It takes the pointer under buf_mutex.
TakeBuf(t) ==
  /\ th[t].pc = "take"
  /\ conn' = [conn EXCEPT !.buf = FALSE, !.ssl = FALSE]
  /\ Go(t, IF conn.buf THEN "free" ELSE "refs")
  /\ UNCHANGED <<cfg, bev, peer, lua, log>>

\* tcpd_shutdown_bufferevent: callbacks off, then the free.
Shut == bev' = [bev EXCEPT !.cbs = FALSE, !.reading = FALSE, !.freed = TRUE, !.due = {}, !.ran = 0]

FreeBuf(t) ==
  /\ th[t].pc = "free"
  /\ Shut /\ log' = [log EXCEPT !.frees = @ + 1]
  /\ Go(t, "refs")
  /\ UNCHANGED <<cfg, conn, peer, lua>>

\* CLEAR_REF: each reference under lua_lock of its own.
Order(r) == CASE r = "read" -> 1 [] r = "sendready" -> 2 [] r = "disconnected" -> 3
              [] r = "connected" -> 4

ClearRef(t) ==
  /\ th[t].pc = "refs" /\ lua \in {"free", t}
  /\ \E r \in conn.refs :
       /\ \A q \in conn.refs : Order(r) <= Order(q)
       /\ conn' = [conn EXCEPT !.refs = @ \ {r}]
  /\ UNCHANGED <<cfg, bev, peer, th, lua, log>>

Cleaned(t) ==
  /\ th[t].pc = "refs" /\ conn.refs = {}
  /\ conn' = [conn EXCEPT !.mt = FALSE, !.mutex = FALSE]
  /\ log' = [log EXCEPT !.closed = @ \/ lua = t]
  /\ IF lua = t THEN Go(t, "lua") ELSE Done(t)
  /\ UNCHANGED <<cfg, bev, peer, lua>>

-----------------------------------------------------------------------------
(* The callbacks.  libevent holds a reference on the bufferevent while it   *)
(* runs one, so a freed bufferevent lasts until the callback returns.       *)

\* The next callback that is due starts, if callbacks are still set: the next of
\* this activation, or the first of a new one.
Dispatch ==
  LET t == CbThread IN
  /\ th[t].pc = "idle" /\ bev.cbs
  /\ \E e \in bev.due :
       /\ LET ahead == {d \in bev.due : Rank(d) > bev.ran}
              turn == IF ahead = {} THEN bev.due ELSE ahead
          IN e \in turn /\ \A d \in turn : Rank(e) <= Rank(d)
       /\ bev' = [bev EXCEPT !.due = @ \ {e}, !.ran = Rank(e)]
       /\ th' = [th EXCEPT ![t] = [Idle EXCEPT !.ev = e, !.pc =
                  CASE e = "read" -> "read" [] e = "write" -> "write"
                    [] e = "connected" -> "connected" [] OTHER -> "end"]]
  /\ UNCHANGED <<cfg, conn, peer, lua, log>>

\* Run the callback behind a reference, or go on when it cannot be run.
Call(t, ref, pc, data) ==
  th' = [th EXCEPT ![t] = [@ EXCEPT !.pc = "mainthread", !.ref = ref, !.back = pc, !.data = data]]

\* tcpd_common_readcb: buf is still this bufferevent (under buf_mutex); then,
\* without it, onread is set and the input is drained.
ReadCb(t) ==
  /\ th[t].pc = "read"
  /\ IF conn.buf THEN Go(t, "drain") ELSE Done(t)
  /\ UNCHANGED <<cfg, conn, bev, peer, lua, log>>

Drain(t) ==
  /\ th[t].pc = "drain"
  /\ IF "read" \in conn.refs
     THEN Call(t, "read", "idle", bev.input) /\ bev' = [bev EXCEPT !.input = 0]
     ELSE Done(t) /\ UNCHANGED bev
  /\ UNCHANGED <<cfg, conn, peer, lua, log>>

\* tcpd_common_writecb: onsendready, once the output buffer is empty.
WriteCb(t) ==
  /\ th[t].pc = "write"
  /\ IF conn.buf /\ "sendready" \in conn.refs /\ ~bev.output
     THEN Call(t, "sendready", "idle", 0) ELSE Done(t)
  /\ UNCHANGED <<cfg, conn, bev, peer, lua, log>>

\* tcpd_common_eventcb for BEV_EVENT_CONNECTED.
ConnectedCb(t) ==
  /\ th[t].pc = "connected"
  /\ IF cfg.kind = "client" /\ "connected" \in conn.refs
     THEN Call(t, "connected", "idle", 0) ELSE Done(t)
  /\ UNCHANGED <<cfg, conn, bev, peer, lua, log>>

\* tcpd_common_eventcb for the end of the connection.  At EOF what is left of the
\* input goes to onread first.  conn->buf is read here without buf_mutex, twice:
\* to see that it is there and to reach the input.
EventCbAtOnce(t) ==
  /\ th[t].pc = "end" /\ Go(t, "detach")
  /\ UNCHANGED <<cfg, conn, bev, peer, lua, log>>

EventCb(t) ==
  /\ th[t].pc = "end"
  /\ Go(t, IF th[t].ev = "eof" /\ conn.buf /\ "read" \in conn.refs THEN "eof_input" ELSE "detach")
  /\ UNCHANGED <<cfg, conn, bev, peer, lua, log>>

\* The second read: a build that kept the first one's value reaches the
\* bufferevent, a build that reads again may find NULL.
EofInput(t) ==
  /\ th[t].pc = "eof_input"
  /\ \/ /\ IF bev.input > 0
           THEN Call(t, "read", "detach", bev.input) /\ bev' = [bev EXCEPT !.input = 0]
           ELSE Go(t, "detach") /\ UNCHANGED bev
        /\ UNCHANGED log
     \/ /\ ~conn.buf
        /\ log' = [log EXCEPT !.crashed = TRUE]
        /\ UNCHANGED <<bev, th>>
  /\ UNCHANGED <<cfg, conn, peer, lua>>

\* It takes the pointer under buf_mutex; then the free.
Detach(t) ==
  /\ th[t].pc = "detach"
  /\ conn' = [conn EXCEPT !.buf = FALSE]
  /\ Go(t, IF conn.buf THEN "detach_free" ELSE "report")
  /\ UNCHANGED <<cfg, bev, peer, lua, log>>

DetachFree(t) ==
  /\ th[t].pc = "detach_free"
  /\ Shut /\ log' = [log EXCEPT !.frees = @ + 1]
  /\ Go(t, "report")
  /\ UNCHANGED <<cfg, conn, peer, lua>>

ReportOnly(t) ==
  /\ th[t].pc = "report"
  /\ IF "disconnected" \in conn.refs THEN Call(t, "disconnected", "cleanup", 0) ELSE Done(t)
  /\ UNCHANGED <<cfg, conn, bev, peer, lua, log>>

Report(t) ==
  /\ th[t].pc = "report"
  /\ IF "disconnected" \in conn.refs THEN Call(t, "disconnected", "cleanup", 0)
     ELSE Go(t, "cleanup")
  /\ UNCHANGED <<cfg, conn, bev, peer, lua, log>>

EndCleanup(t) ==
  /\ th[t].pc = "cleanup"
  /\ Cleanup(t)
  /\ UNCHANGED <<cfg, bev, peer, lua, log>>

\* What was read and cannot be handed over is gone.
Abandon(t, why) ==
  /\ th' = [th EXCEPT ![t] = IF @.back = "idle" THEN Idle
                             ELSE [@ EXCEPT !.pc = th[t].back, !.data = 0]]
  /\ log' = [log EXCEPT !.dropped = @ + th[t].data, !.oom = @ \/ why = "oom"]

\* The steps every callback shares: conn->mainthread without a lock, ...
Mainthread(t) ==
  /\ th[t].pc = "mainthread"
  /\ IF conn.mt THEN Go(t, "lock") /\ UNCHANGED log ELSE Abandon(t, "closed")
  /\ UNCHANGED <<cfg, conn, bev, peer, lua>>

\* ... then the reference again and fan_cb_setup, under lua_lock, ...
RecheckNot(t) ==
  /\ th[t].pc = "lock" /\ lua = "free"
  /\ Go(t, "resume")
  /\ log' = [log EXCEPT !.late = @ \/ log.closed]
  /\ UNCHANGED <<cfg, conn, bev, peer, lua>>

Recheck(t) ==
  /\ th[t].pc = "lock" /\ lua = "free"
  /\ IF th[t].ref \notin conn.refs THEN Abandon(t, "closed") /\ UNCHANGED conn
     ELSE \E ok \in Setup :
       IF ok THEN /\ Go(t, "resume") /\ log' = [log EXCEPT !.late = @ \/ log.closed]
                  /\ conn' = IF th[t].ref = "disconnected"
                             THEN [conn EXCEPT !.refs = @ \ {"disconnected"}] ELSE conn
             ELSE Abandon(t, "oom") /\ UNCHANGED conn
  /\ UNCHANGED <<cfg, bev, peer, lua>>

\* ... and FAN_RESUME, which takes lua_lock anew.
Resume(t) ==
  /\ th[t].pc = "resume" /\ lua = "free"
  /\ lua' = t /\ th' = [th EXCEPT ![t] = [@ EXCEPT !.pc = "lua", !.data = 0]]
  /\ log' = [log EXCEPT !.delivered = @ + th[t].data,
                        !.ended = IF th[t].ref = "disconnected" THEN @ + 1 ELSE @]
  /\ UNCHANGED <<cfg, conn, bev, peer>>

-----------------------------------------------------------------------------
(* External: libevent and the other end. *)

Reached ==
  /\ bev.cbs /\ ~peer.up
  /\ peer' = [peer EXCEPT !.up = TRUE]
  /\ bev' = [bev EXCEPT !.due = @ \cup {"connected"}]
  /\ UNCHANGED <<cfg, conn, th, lua, log>>

Arrive ==
  /\ bev.cbs /\ bev.reading /\ peer.up /\ ~peer.ended /\ peer.sent < MaxData
  /\ peer' = [peer EXCEPT !.sent = @ + 1]
  /\ bev' = [bev EXCEPT !.input = @ + 1, !.due = @ \cup {"read"}]
  /\ UNCHANGED <<cfg, conn, th, lua, log>>

Flushed ==
  /\ bev.cbs /\ bev.output /\ ~bev.shut /\ peer.up
  /\ bev' = [bev EXCEPT !.output = FALSE, !.due = @ \cup {"write"}]
  /\ UNCHANGED <<cfg, conn, peer, th, lua, log>>

Ended(e) ==
  /\ bev.cbs /\ ~peer.ended /\ (e = "eof" => peer.up /\ bev.reading)
  /\ peer' = [peer EXCEPT !.ended = TRUE]
  /\ bev' = [bev EXCEPT !.due = @ \cup {e}, !.reading = FALSE]
  /\ UNCHANGED <<cfg, conn, th, lua, log>>

-----------------------------------------------------------------------------
Calls(t) == \/ \E o \in Outcomes : t = "main" /\ tcpd_connect(o)
            \/ tcpd_conn_send(t) \/ tcpd_conn_shutdown(t) \/ tcpd_conn_close(t)
            \/ tcpd_conn_read_pause(t) \/ tcpd_conn_read_resume(t)
            \/ tcpd_accept_bind(t) \/ tcpd_accept_send(t) \/ tcpd_accept_close(t)
            \/ tcpd_accept_read_pause(t) \/ tcpd_accept_read_resume(t)

Steps(t) ==
  \/ ReleaseSsl(t) \/ TakeBuf(t) \/ FreeBuf(t) \/ ClearRef(t) \/ Cleaned(t)
  \/ ReadCb(t) \/ Drain(t) \/ WriteCb(t) \/ ConnectedCb(t)
  \/ EventCb(t) \/ EofInput(t) \/ Detach(t) \/ DetachFree(t) \/ Report(t) \/ EndCleanup(t)
  \/ Mainthread(t) \/ Recheck(t) \/ Resume(t) \/ TurnEnds(t)

Network == Reached \/ Arrive \/ Flushed \/ \E e \in Ends : Ended(e)

Next ==
  /\ ~log.crashed
  /\ \/ Turn \/ tcpd_server_listener_cb \/ Dispatch \/ Network
     \/ \E t \in Threads : Calls(t) \/ Steps(t)

Spec == Init /\ [][Next]_vars

\* Threads run on, Lua's turns end, event loops dispatch.
FairSpec == Spec /\ WF_vars(~log.crashed /\ Dispatch)
                 /\ \A t \in Threads : SF_vars(~log.crashed /\ Steps(t))

-----------------------------------------------------------------------------
(* Properties.                                                              *)

\* However close, __gc and the end of the connection meet: conn->buf never
\* points to a bufferevent that was freed (whoever frees it took the pointer
\* under buf_mutex first), the bufferevent is freed once and the SSL context
\* given back once, and a connection that was cleaned up holds nothing any more.
\* Exceptions: the bufferevent may be in the hands of the event callback that
\* frees it next, and Lua may bind callbacks to an accepted connection that has
\* ended.  The NULL that the EOF branch may find takes a second thread.
ReleasedOnce ==
  /\ conn.buf => bev.exists /\ ~bev.freed
  /\ log.frees <= 1 /\ log.releases <= 1
  /\ ~conn.mutex => /\ ~conn.buf /\ ~conn.ssl
                    /\ \/ bev.exists => bev.freed
                       \/ \E t \in Threads : th[t].pc = "detach_free"
                    /\ conn.refs = {} \/ log.lateBind
  /\ log.crashed => cfg.worker

\* Every chunk that arrived is in the input, with a callback, delivered to
\* onread or dropped; one is dropped only when the connection was cleaned up
\* under the callback or memory ran out; and when ondisconnected reports the end
\* of the stream, onread has been given all that arrived: the EOF branch reads
\* on before it frees.  (Not if Lua had an accepted connection read before it
\* bound onread, or bound it late.)
DataBeforeEnd ==
  /\ peer.sent = bev.input + th["main"].data + th["io"].data + log.delivered + log.dropped
  /\ log.dropped > 0 => conn.cleaned \/ log.oom
  /\ \A t \in Threads : th[t].pc = "resume" /\ th[t].ref = "disconnected" /\ th[t].ev = "eof"
                         => bev.input = 0 \/ log.early \/ log.lateBind

\* ondisconnected runs at most once, and once close has returned no callback
\* passes its check of the reference any more.  (One that had passed it is still
\* resumed: lua_lock is given up in between.)
CallbacksEnd == log.ended <= 1 /\ (log.late => log.lateBind)

\* A cleanup that began is finished, and a connection whose end was noticed is
\* cleaned up even if Lua never closes it.
EndCleansUp ==
  /\ conn.cleaned ~> (~conn.mutex \/ log.crashed)
  /\ peer.ended ~> (~conn.mutex \/ log.crashed)
=============================================================================
