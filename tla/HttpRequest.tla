---------------------------- MODULE HttpRequest ----------------------------
(***************************************************************************)
(* One request of the HTTP server (httpd.c, httpd_request.c) and the       *)
(* WebSocket it may turn into (httpd_websocket.c): the Request object, the *)
(* coroutines that use it, and the libevent callbacks that refer to it.    *)
(*                                                                         *)
(* Everything runs on one thread.  The stack holds the coroutines that are *)
(* running, the innermost last, each with who resumed it; callbacks come   *)
(* only when it is empty and no read callback is in its loop.              *)
(***************************************************************************)
EXTENDS Integers, Sequences, SequencesExt

CONSTANTS
  Coroutines,   \* the coroutines that may use the request
  Handler,      \* the one httpd_handler_cgi_bin runs onService in
  NoCo,         \* LUA_NOREF
  QueueLimit,   \* WS_MAX_QUEUED_FRAMES
  MaxFrames     \* bound on the frames the peer sends

ASSUME HttpAssumption ==
  /\ Handler \in Coroutines /\ NoCo \notin Coroutines
  /\ QueueLimit \in Nat /\ MaxFrames \in Nat

VARIABLES
  req,        \* request->req is not NULL
  status,     \* request->reply_status
  gcRef,      \* request->prevent_gc_ref is held
  selfRef,    \* request->self_ref is held
  closecb,    \* httpd_conn_close_cb is set on the connection
  wsState,    \* request->ws_state; is_websocket is set with it
  bev,        \* request->ws_bev is not NULL
  ref,        \* request->_ref_: the coroutine suspended in websocket_receive
  queue,      \* the frame queue
  cleaning,   \* request->ws_cleaning_up
  cb,         \* whose callbacks the bufferevent has
  freeing,    \* ws_deferred_free_cb is scheduled
  conn,       \* whether libevent's connection exists
  evreq,      \* whether libevent's request exists
  response,   \* what libevent was told about the response
  output,     \* the output buffer is not empty
  inbox,      \* complete frames that have arrived: <<kind, number>>
  peer,       \* the other end, "gone" once its close was reported
  stack,      \* the running coroutines, <<coroutine, resumed by>>
  reading,    \* ws_readcb is in its loop
  co,         \* what each coroutine is doing
  sent,       \* ghost: frames the peer has sent
  received,   \* ghost: text frames handed to Lua
  wire        \* ghost: "closed" after a close frame, "late" after more

http   == <<req, status, gcRef, closecb, response, evreq, conn>>
socket == <<wsState, bev, queue, cleaning, cb, freeing, selfRef>>
peers  == <<inbox, peer, sent>>
luaSide == <<stack, co, reading>>
vars   == <<http, socket, ref, output, peers, luaSide, received, wire>>

IsWebsocket == wsState # "connecting"
Kinds == {"text", "ping", "close", "huge"}

\* newtable_from_req, and the handler about to run.
Init ==
  /\ req = TRUE /\ status = "none" /\ gcRef = TRUE /\ closecb = TRUE
  /\ response = "none" /\ evreq = TRUE /\ conn = "open"
  /\ wsState = "connecting" /\ bev = FALSE /\ queue = <<>> /\ cleaning = FALSE
  /\ cb = "http" /\ freeing = FALSE /\ selfRef = FALSE
  /\ ref = NoCo /\ output = FALSE
  /\ inbox = <<>> /\ peer = "open" /\ sent = 0
  /\ stack = <<<<Handler, "http">>>> /\ reading = FALSE
  /\ co = [c \in Coroutines |-> IF c = Handler THEN "running" ELSE "ready"]
  /\ received = <<>> /\ wire = "open"

Running(c) == stack # <<>> /\ Last(stack)[1] = c
Idle == stack = <<>> /\ ~reading

Leave(c, l) ==
  /\ co' = [co EXCEPT ![c] = l]
  /\ stack' = Front(stack)

-----------------------------------------------------------------------------
(* Replies *)

ReleaseGuard ==
  /\ closecb' = (closecb /\ ~req)
  /\ gcRef' = FALSE

\* A call on a request libevent has freed without telling is left out; see
\* GuardedUse for when that cannot be.
MayReply(c) == Running(c) /\ req /\ evreq

\* Ends a started reply, or sends a whole one.
Reply(c) ==
  /\ MayReply(c) /\ status # "replyed"
  /\ response' = "ended" /\ output' = TRUE
  /\ status' = "replyed"
  /\ ReleaseGuard
  /\ UNCHANGED <<req, evreq, conn, socket, ref, peers, luaSide, received, wire>>

ReplyStart(c) ==
  /\ MayReply(c) /\ status = "none"
  /\ response' = "started" /\ output' = TRUE
  /\ status' = "start"
  /\ UNCHANGED <<req, gcRef, closecb, evreq, conn, socket, ref, peers, luaSide,
                 received, wire>>

\* A look at the socket finds the peer gone before libevent does.
ReplyChunk(c) ==
  /\ MayReply(c) /\ status = "start"
  /\ status' = IF peer = "open" THEN status ELSE "replyed"
  /\ output' = (output \/ peer = "open")
  /\ UNCHANGED <<req, gcRef, closecb, response, evreq, conn, socket, ref,
                 peers, luaSide, received, wire>>

ReplyEndReopened(c) ==
  /\ MayReply(c) /\ status = "start"
  /\ response' = "ended" /\ output' = TRUE
  /\ ReleaseGuard
  /\ UNCHANGED <<req, status, evreq, conn, socket, ref, peers, luaSide, received, wire>>

ReplyEnd(c) ==
  /\ MayReply(c) /\ status = "start"
  /\ response' = "ended" /\ output' = TRUE
  /\ status' = "replyed"
  /\ ReleaseGuard
  /\ UNCHANGED <<req, evreq, conn, socket, ref, peers, luaSide, received, wire>>

-----------------------------------------------------------------------------
(* The WebSocket as Lua uses it *)

AcceptUnreferenced(c) ==
  /\ MayReply(c) /\ status = "none"
  /\ wsState' = "open" /\ bev' = TRUE /\ cb' = "ws"
  /\ status' = "replyed" /\ closecb' = FALSE /\ output' = TRUE
  /\ UNCHANGED <<req, gcRef, response, evreq, conn, queue, cleaning, freeing,
                 selfRef, ref, peers, luaSide, received, wire>>

\* The bufferevent of a live connection is never NULL.
Accept(c) ==
  /\ MayReply(c) /\ status = "none"
  /\ wsState' = "open" /\ bev' = TRUE /\ cb' = "ws" /\ selfRef' = TRUE
  /\ status' = "replyed" /\ closecb' = FALSE /\ output' = TRUE
  /\ UNCHANGED <<req, gcRef, response, evreq, conn, queue, cleaning, freeing,
                 ref, peers, luaSide, received, wire>>

Wrote(close) ==
  /\ output' = TRUE
  /\ wire' = IF close THEN (IF wire = "open" THEN "closed" ELSE wire)
             ELSE (IF wire = "open" THEN "open" ELSE "late")

SendUnlessClosed(c) ==
  /\ Running(c) /\ wsState \in {"open", "closing"} /\ bev
  /\ Wrote(FALSE)
  /\ UNCHANGED <<http, socket, ref, peers, luaSide, received>>

\* websocket_send, websocket_ping and websocket_pong.
Send(c) ==
  /\ Running(c) /\ wsState = "open" /\ bev
  /\ Wrote(FALSE)
  /\ UNCHANGED <<http, socket, ref, peers, luaSide, received>>

Close(c) ==
  /\ Running(c) /\ wsState \in {"open", "closing"}
  /\ wsState' = IF bev THEN "closing" ELSE "closed"
  /\ IF bev THEN Wrote(TRUE) ELSE UNCHANGED <<output, wire>>
  /\ UNCHANGED <<http, bev, queue, cleaning, cb, freeing, selfRef, ref, peers,
                 luaSide, received>>

\* websocket_receive takes a queued frame, or waits for one.
ReceiveQueued(c) ==
  /\ Running(c) /\ wsState = "open" /\ queue # <<>>
  /\ received' = Append(received, Head(queue))
  /\ queue' = Tail(queue)
  /\ UNCHANGED <<http, wsState, bev, cleaning, cb, freeing, selfRef, ref,
                 output, peers, luaSide, wire>>

ReceiveWait(c) ==
  /\ Running(c) /\ wsState = "open" /\ queue = <<>> /\ ref = NoCo
  /\ ref' = c
  /\ Leave(c, "waiting")
  /\ UNCHANGED <<http, socket, output, peers, reading, received, wire>>

-----------------------------------------------------------------------------
(* Cleanup and coroutines *)

\* ws_connection_cleanup; unsent says whether the output buffer holds bytes.
\* Its branch for a NULL ws_bev is not reached: only it clears ws_bev.
Cleanup(unsent) ==
  /\ cleaning' = TRUE
  /\ IF cleaning THEN UNCHANGED <<queue, bev, cb, freeing>>
     ELSE /\ queue' = <<>> /\ bev' = FALSE
          /\ cb' = IF unsent THEN "flush" ELSE "none"
          /\ freeing' = ~unsent

Sleep(c) ==
  /\ Running(c)
  /\ Leave(c, "sleeping")
  /\ UNCHANGED <<http, socket, ref, output, peers, reading, received, wire>>

\* The coroutine returns or raises.  Back in httpd_handler_cgi_bin the guard
\* is released unless there was a reply, back in ws_resume_* the connection
\* is cleaned up.
Finish(c) ==
  /\ Running(c)
  /\ Leave(c, "done")
  /\ IF Last(stack)[2] = "http" /\ status # "replyed"
     THEN ReleaseGuard ELSE UNCHANGED <<closecb, gcRef>>
  /\ IF Last(stack)[2] = "ws"
     THEN Cleanup(output) ELSE UNCHANGED <<queue, bev, cb, freeing, cleaning>>
  /\ UNCHANGED <<req, status, response, evreq, conn, wsState, selfRef, ref,
                 output, peers, reading, received, wire>>

Resume(c, by) ==
  /\ co' = [co EXCEPT ![c] = "running"]
  /\ stack' = Append(stack, <<c, by>>)

Spawn(c, d) ==
  /\ Running(c) /\ co[d] = "ready"
  /\ Resume(d, "lua")
  /\ UNCHANGED <<http, socket, ref, output, peers, reading, received, wire>>

Wake(c) ==
  /\ Idle /\ co[c] = "sleeping"
  /\ Resume(c, "timer")
  /\ UNCHANGED <<http, socket, ref, output, peers, reading, received, wire>>

-----------------------------------------------------------------------------
(* The peer and libevent *)

PeerSend(kind) ==
  /\ IsWebsocket /\ peer = "open" /\ sent < MaxFrames
  /\ sent' = sent + 1
  /\ inbox' = Append(inbox, <<kind, sent + 1>>)
  /\ UNCHANGED <<http, socket, ref, output, peer, luaSide, received, wire>>

PeerClose ==
  /\ peer = "open"
  /\ peer' = "closed"
  /\ UNCHANGED <<http, socket, ref, output, inbox, sent, luaSide, received, wire>>

\* ws_resume_with_error if somebody waits, ws_connection_cleanup if not.
Hangup(unsent) ==
  /\ wsState' = "closed"
  /\ ref' = NoCo
  /\ IF ref # NoCo
     THEN Resume(ref, "ws") /\ UNCHANGED <<queue, bev, cb, freeing, cleaning>>
     ELSE Cleanup(unsent) /\ UNCHANGED <<co, stack>>

\* One turn of the loop of ws_readcb.  Frames of other opcodes are dropped and
\* left out.  What a return leaves in the buffer may be read at any time.
ReadFrame(kind) ==
  /\ stack = <<>> /\ cb = "ws" /\ bev
  /\ inbox # <<>> /\ Head(inbox)[1] = kind
  /\ inbox' = Tail(inbox)
  /\ reading' = (kind \in {"text", "ping"})
  /\ UNCHANGED <<http, peer, sent, selfRef>>

ReadPing ==
  /\ ReadFrame("ping")
  /\ IF wsState = "open" THEN Wrote(FALSE) ELSE UNCHANGED <<output, wire>>
  /\ UNCHANGED <<wsState, bev, queue, cleaning, cb, freeing, ref, co, stack, received>>

ReadClose ==
  /\ ReadFrame("close")
  /\ Wrote(TRUE)
  /\ Hangup(TRUE)
  /\ UNCHANGED received

\* The payload cannot be allocated (websocket_parse_frame returns -1).
ReadHuge ==
  /\ ReadFrame("huge")
  /\ Hangup(output)
  /\ UNCHANGED <<output, wire, received>>

QueuePushFront(n) == IF Len(queue) >= QueueLimit THEN queue ELSE <<n>> \o queue

\* ws_frame_queue_push drops what does not fit.
QueuePush(n) == IF Len(queue) >= QueueLimit THEN queue ELSE Append(queue, n)

ReadText ==
  /\ ReadFrame("text")
  /\ IF ref # NoCo
     THEN /\ received' = Append(received, Head(inbox)[2])
          /\ Resume(ref, "ws")
          /\ ref' = NoCo
          /\ UNCHANGED queue
     ELSE /\ queue' = QueuePush(Head(inbox)[2])
          /\ UNCHANGED <<received, co, stack, ref>>
  /\ UNCHANGED <<wsState, bev, cleaning, cb, freeing, output, wire>>

ReadStop ==
  /\ reading /\ stack = <<>>
  /\ inbox = <<>> \/ ~bev
  /\ reading' = FALSE
  /\ UNCHANGED <<http, socket, ref, output, peers, stack, co, received, wire>>

EventCbSilent ==
  /\ Idle /\ cb = "ws" /\ peer = "closed"
  /\ peer' = "gone" /\ inbox' = <<>>
  /\ wsState' = "closed"
  /\ IF ref # NoCo THEN UNCHANGED <<queue, bev, cb, freeing, cleaning>>
     ELSE Cleanup(output)
  /\ UNCHANGED <<http, selfRef, ref, co, stack, output, sent, reading, received, wire>>

\* ws_eventcb: end of file, or an error that loses what was not yet read.
EventCb ==
  /\ Idle /\ cb = "ws" /\ peer = "closed"
  /\ peer' = "gone" /\ inbox' = <<>>
  /\ Hangup(output)
  /\ UNCHANGED <<http, selfRef, output, sent, reading, received, wire>>

\* The output is written, or fails to be; the flush callbacks look at
\* ws_cleaning_up first.  libevent drops a request whose reply is out.
Drain ==
  /\ Idle /\ output /\ conn = "open"
  /\ output' = FALSE
  /\ freeing' = (freeing \/ (cb = "flush" /\ ~cleaning))
  /\ evreq' = (evreq /\ ~(cb = "http" /\ response = "ended"))
  /\ UNCHANGED <<req, status, gcRef, closecb, response, conn, wsState, bev,
                 queue, cleaning, cb, selfRef, ref, peers, luaSide, received, wire>>

\* httpd_conn_close_cb
CloseCb ==
  IF closecb
  THEN /\ response' = IF req /\ status = "start" THEN "ended" ELSE response
       /\ req' = FALSE /\ status' = "replyed" /\ gcRef' = FALSE
  ELSE UNCHANGED <<req, status, gcRef, response>>

\* libevent finds the peer gone, tells the close callback, frees everything.
HttpClosed ==
  /\ Idle /\ cb = "http" /\ conn = "open" /\ peer = "closed"
  /\ CloseCb
  /\ closecb' = FALSE /\ evreq' = FALSE /\ conn' = "freed" /\ peer' = "gone"
  /\ UNCHANGED <<socket, ref, output, inbox, sent, luaSide, received, wire>>

DeferredFreeKeepsSelf ==
  /\ Idle /\ freeing /\ cleaning
  /\ freeing' = FALSE /\ conn' = "freed" /\ evreq' = FALSE /\ req' = FALSE
  /\ gcRef' = FALSE
  /\ UNCHANGED <<status, closecb, response, wsState, bev, queue, cleaning, cb,
                 selfRef, ref, output, peers, luaSide, received, wire>>

DeferredFree ==
  /\ Idle /\ freeing /\ cleaning
  /\ freeing' = FALSE /\ conn' = "freed" /\ evreq' = FALSE /\ req' = FALSE
  /\ selfRef' = FALSE /\ gcRef' = FALSE
  /\ UNCHANGED <<status, closecb, response, wsState, bev, queue, cleaning, cb,
                 ref, output, peers, luaSide, received, wire>>

-----------------------------------------------------------------------------

Call(c) ==
  \/ Reply(c) \/ ReplyStart(c) \/ ReplyChunk(c) \/ ReplyEnd(c)
  \/ Accept(c) \/ Send(c) \/ Close(c) \/ ReceiveQueued(c)
  \/ \E d \in Coroutines : Spawn(c, d)

Stop(c) == ReceiveWait(c) \/ Sleep(c) \/ Finish(c)
Read == ReadPing \/ ReadClose \/ ReadHuge \/ ReadText \/ ReadStop

Next ==
  \/ \E c \in Coroutines : Call(c) \/ Stop(c) \/ Wake(c)
  \/ (\E kind \in Kinds : PeerSend(kind)) \/ PeerClose
  \/ Read \/ EventCb \/ Drain \/ HttpClosed \/ DeferredFree

Spec == Init /\ [][Next]_vars

\* A running coroutine gives control back, and each turn of the event loop
\* serves every event that is ready: strong fairness, as a callback is not
\* enabled while a coroutine runs.  Nothing is assumed of sleepers or the peer.
Fairness ==
  /\ WF_vars(\E c \in Coroutines : Stop(c))
  /\ SF_vars(Read) /\ SF_vars(EventCb) /\ SF_vars(DeferredFree)

FairSpec == Spec /\ Fairness

-----------------------------------------------------------------------------
(* Properties *)

\* libevent never calls back into a collected Request: as long as a callback
\* has it for an argument, the registry refers to it.  The other way round, a
\* handler that has not returned never replies to a request libevent has
\* already freed, however often it was suspended, and ws_bev is never stale.
CallbacksReferenced ==
  /\ closecb => gcRef
  /\ (cb \in {"ws", "flush"} \/ freeing) => selfRef /\ conn = "open"
  /\ req /\ status # "replyed" /\ co[Handler] # "done" => evreq
  /\ bev => conn = "open" /\ evreq

\* "PENDING -> STARTED -> COMPLETED": reply_status and libevent agree on how
\* far the response is, so that it is started once and ended once.
ResponseInOrder ==
  /\ status = "none" => response = "none"
  /\ status = "start" => response = "started"
  /\ response = "started" /\ status = "replyed" => peer # "open"

\* Text frames reach Lua in the order they were sent, whether a coroutine
\* was waiting for them or they were queued, nobody waits in
\* websocket_receive beside a queued frame, and the queue keeps its limit.
\* In the other direction nothing follows a close frame.
FramesInOrder ==
  /\ LET s == received \o queue IN \A j \in 2..Len(s) : s[j - 1] < s[j]
  /\ ref # NoCo => queue = <<>>
  /\ Len(queue) =< QueueLimit
  /\ wire # "late"

\* When the peer goes away, the coroutine waiting in websocket_receive is
\* told, unless another one has ended the connection before; and a connection
\* cleaned up with nothing left to send is freed, so that its Request may be
\* collected.
ConnectionEnds ==
  /\ \A c \in Coroutines :
       (ref = c /\ peer = "closed") ~> (ref # c \/ cleaning)
  /\ (cleaning /\ cb = "none") ~> (conn = "freed" /\ ~selfRef /\ ~gcRef)
=============================================================================
