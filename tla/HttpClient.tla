----------------------------- MODULE HttpClient -----------------------------
(***************************************************************************)
(* fan.http on libcurl (http.c), composed with the event manager it runs   *)
(* on: requests in flight in the multi handle, the two static timers that  *)
(* drive it, the resume timers of finished requests, and the end of the    *)
(* loop, which tears all of it down under the requests.                    *)
(*                                                                         *)
(* libcurl is external: in curl_multi_socket_action it calls a transfer's  *)
(* callbacks, may set the timer and may finish any active transfer.        *)
(***************************************************************************)
EXTENDS EventMgr

CONSTANTS
  Reqs,      \* the requests a program may make: those of prog.reqs
  Malloc     \* outcomes of malloc for a ResumeInfo

ASSUME HttpClientAssumption ==
  /\ \A p \in Programs : p.reqs \subseteq Reqs
  /\ Malloc \in SUBSET BOOLEAN /\ Malloc # {}

VARIABLES
  curl,    \* http.c's statics: multi, timer_event, timer_check_multi_info, inflight_head
  reqs     \* each request: its ConnInfo and what became of its caller

hvars == <<prog, mgr, lua, ev, log, curl, reqs>>

Over == {"failed", "answered", "dropped", "lost", "unresumed"}

HttpInit ==
  /\ curl = [multi |-> FALSE, timer |-> "none", armed |-> FALSE, check |-> "none", due |-> FALSE,
             inflight |-> {}, opened |-> FALSE, late |-> FALSE, misuse |-> FALSE]
  /\ reqs = [r \in Reqs |-> [st |-> "none", refs |-> {}, lists |-> {}, mem |-> FALSE,
                             completed |-> FALSE, sock |-> FALSE, answers |-> 0, gen |-> 0]]

Active == {r \in Reqs : reqs[r].st = "active"}
Done == {r \in Reqs : reqs[r].st = "done"}

\* multi_timer_cb: the timer is added whatever the timeout, and whether or
\* not there is a timer.
Timer == {<<"timer", curl.timer>>}

-----------------------------------------------------------------------------
(* Starting a request that gives every option.  The options are read group *)
(* by group; each group may refuse the request, and leaves the references  *)
(* and lists that the groups before it took.                               *)

OptTransport == [refs |-> {"progress"}, lists |-> {}]
OptHeaders == [refs |-> {}, lists |-> {"headers"}]
OptProxy == [refs |-> {}, lists |-> {}]
OptBody(body) == [refs |-> {IF body THEN "body" ELSE "read"}, lists |-> {}]
OptCallbacks == [refs |-> {"write", "header", "oncomplete"}, lists |-> {}]
OptLast == [refs |-> {}, lists |-> {"resolve"}]

Options(body) == <<OptTransport, OptHeaders, OptProxy, OptBody(body), OptCallbacks, OptLast>>

\* What the first n groups took.
Taken(n, body) == [refs |-> UNION {Options(body)[i].refs : i \in 1..n},
                   lists |-> UNION {Options(body)[i].lists : i \in 1..n}]

\* The lists that group n + 1 may have started on when it refuses: a header
\* list out of memory, the resolve list before the cookie jar.
Started(n, body) == IF n < 6 THEN Options(body)[n + 1].lists ELSE {}

\* The new ConnInfo: its response and header tables are referenced first.
Fresh(q) == [q EXCEPT !.refs = {"head", "ret"}, !.mem = TRUE, !.gen = lua.gen]

\* The label ERROR of http_getpost: the body reference and the curl lists
\* stay behind.
Refused(q, t) ==
  [q EXCEPT !.st = "failed", !.refs = t.refs \cap {"body"}, !.lists = t.lists, !.mem = FALSE]

\* http_getpost: refused by option group n + 1 when n < 6, by
\* curl_multi_add_handle when it does not accept, and in flight otherwise.
http_getpost(r, n, body, accepted) ==
  LET t == Taken(n, body) IN
  /\ LuaRuns /\ curl.opened /\ reqs[r].st = "none" /\ r \in prog.reqs
  /\ n < 6 => ~accepted
  /\ IF accepted
     THEN /\ reqs' = [reqs EXCEPT ![r] = [Fresh(@) EXCEPT !.st = "active", !.lists = t.lists,
                        !.refs = {"head", "ret", "co"} \cup (t.refs \ {"oncomplete"})]]
          /\ curl' = [curl EXCEPT !.multi = TRUE, !.inflight = @ \cup {r}, !.armed = TRUE]
          /\ log' = [log EXCEPT !.crash = Broken(Timer)]
     ELSE /\ \E l \in SUBSET Started(n, body) :
               reqs' = [reqs EXCEPT ![r] = Refused(Fresh(@), [t EXCEPT !.lists = @ \cup l])]
          /\ curl' = [curl EXCEPT !.multi = @ \/ n = 6]
          /\ UNCHANGED log
  /\ UNCHANGED <<prog, mgr, lua, ev>>

\* http_get, http_post, http_put, http_update, http_delete and http_head: the
\* caller yields unless it gave an oncomplete callback.
http_get(r) ==
  \E n \in 0..6, body \in BOOLEAN, accepted \in BOOLEAN : http_getpost(r, n, body, accepted)

\* luaopen_fan_http_core: the timers, when there are none.
luaopen_fan_http_core ==
  LET made(w) == IF w = "none" THEN "live" ELSE w IN
  /\ LuaRuns /\ ~curl.opened /\ prog.reqs # {}
  /\ mgr' = Based(mgr)
  /\ curl' = [curl EXCEPT !.opened = TRUE, !.timer = made(@), !.check = made(@),
                          !.late = @ \/ log.ended]
  /\ UNCHANGED <<prog, lua, ev, log, reqs>>

-----------------------------------------------------------------------------
(* libcurl's callbacks, and the two events that drive it. *)

\* filldata needs the ConnInfo; fillheader, onwrite and onread return at once
\* when the request is completed, and otherwise look up the references they
\* were set up with.  What they do with the data is the caller's.
fillheader(q) == q.mem /\ (q.completed \/ {"head", "ret", "header"} \subseteq q.refs)
onwrite(q) == q.mem /\ (q.completed \/ "write" \in q.refs)
onread(q) == q.mem /\ (q.completed \/ q.refs \cap {"read", "body"} # {})

\* onprogress, which curl_multi_remove_handle may call too.
OnProgressUnguarded(q) == q.mem /\ "progress" \in q.refs
onprogress(q) == q.mem /\ (q.completed \/ "progress" \in q.refs)

CallbacksSafe(q) == fillheader(q) /\ onwrite(q) /\ onread(q) /\ onprogress(q)

\* sock_cb, addsock, setsock and remsock: a transfer's socket has an event
\* while curl wants it watched.
sock_cb(q, watch) == [q EXCEPT !.sock = watch]

\* The mutant: nobody arms the check of curl's messages.
SocketActionOnly(D, rearm) ==
  /\ reqs' = [r \in Reqs |-> IF r \in D THEN sock_cb([reqs[r] EXCEPT !.st = "done"], FALSE)
                             ELSE IF r \in Active THEN sock_cb(reqs[r], TRUE) ELSE reqs[r]]
  /\ curl' = [curl EXCEPT !.armed = rearm,
                          !.misuse = @ \/ \E r \in Active : ~CallbacksSafe(reqs[r])]
  /\ log' = [log EXCEPT !.crash = Broken(IF rearm THEN Timer ELSE {})]

\* curl_multi_socket_action, and the check of its messages that both of its
\* callers arm: the transfers D finish, and curl may set its timer.
SocketAction(D, rearm) ==
  /\ reqs' = [r \in Reqs |-> IF r \in D THEN sock_cb([reqs[r] EXCEPT !.st = "done"], FALSE)
                             ELSE IF r \in Active THEN sock_cb(reqs[r], TRUE) ELSE reqs[r]]
  /\ curl' = [curl EXCEPT !.armed = rearm, !.due = TRUE,
                          !.misuse = @ \/ \E r \in Active : ~CallbacksSafe(reqs[r])]
  /\ log' = [log EXCEPT !.crash = Broken(IF rearm THEN Timer ELSE {})]

timer_cb(D, rearm) ==
  /\ Dispatching /\ curl.armed /\ curl.timer = "live"
  /\ SocketAction(D, rearm)
  /\ UNCHANGED <<prog, mgr, lua, ev>>

\* event_cb, on a socket that sock_cb registered for a transfer under way.
\* The timer goes with the last transfer.
event_cb(D, rearm) ==
  /\ Dispatching /\ \E r \in Active : reqs[r].sock
  /\ rearm => Active # D
  /\ SocketAction(D, rearm)
  /\ UNCHANGED <<prog, mgr, lua, ev>>

-----------------------------------------------------------------------------
(* Completion. *)

\* http_getpost_complete: every reference but the coroutine's goes, and a
\* resume timer keeps that one; without memory for it the caller is given up.
http_getpost_complete(q, ok) ==
  [q EXCEPT !.completed = TRUE, !.refs = IF ok THEN {"co"} ELSE {},
            !.st = IF ok THEN "resume" ELSE "unresumed"]

\* timer_check_multi_info_cb, for every message: complete the request, take
\* its handle out of curl (which may report progress once more), free it.
timer_check_multi_info_cb(ok) ==
  /\ Dispatching /\ curl.due /\ curl.check = "live"
  /\ reqs' = [r \in Reqs |-> IF r \notin Done THEN reqs[r]
                ELSE [http_getpost_complete(reqs[r], ok) EXCEPT !.lists = {}, !.mem = FALSE]]
  /\ curl' = [curl EXCEPT !.due = FALSE, !.inflight = @ \ Done,
                !.misuse = @ \/ \E r \in Done : ~onprogress(http_getpost_complete(reqs[r], ok))]
  /\ UNCHANGED <<prog, mgr, lua, ev, log>>

\* The mutant: the resume timer is not freed and fires again.
ResumeAgain(r) ==
  /\ Dispatching /\ reqs[r].st = "resume" /\ reqs[r].answers < 2
  /\ reqs' = [reqs EXCEPT ![r].refs = {}, ![r].answers = @ + 1]
  /\ log' = [log EXCEPT !.deadResume = @ \/ reqs[r].gen # lua.gen]
  /\ UNCHANGED <<prog, mgr, lua, ev, curl>>

\* resume_cb: the coroutine is resumed with the response.
resume_cb(r) ==
  /\ Dispatching /\ reqs[r].st = "resume"
  /\ reqs' = [reqs EXCEPT ![r].st = "answered", ![r].refs = {}, ![r].answers = @ + 1]
  /\ log' = [log EXCEPT !.deadResume = @ \/ reqs[r].gen # lua.gen]
  /\ UNCHANGED <<prog, mgr, lua, ev, curl>>

-----------------------------------------------------------------------------
(* Teardown. *)

\* The drain of cleanup_http_curl: the requests in flight are dropped, their
\* callers never resumed.  A finished request's resume timer stays on the
\* base.
Dropped(q) == [q EXCEPT !.st = "dropped", !.completed = TRUE, !.refs = {}]
Drained == [r \in Reqs |-> IF r \in curl.inflight
                           THEN [Dropped(reqs[r]) EXCEPT !.lists = {}, !.mem = FALSE, !.sock = FALSE]
                           ELSE reqs[r]]

\* The rest of cleanup_http_curl: the multi handle and the timers go.
cleanup_http_curl ==
  curl' = [curl EXCEPT !.multi = FALSE, !.timer = "none", !.armed = FALSE, !.check = "none",
             !.due = FALSE, !.inflight = {},
             !.misuse = @ \/ \E r \in curl.inflight : ~onprogress(Dropped(reqs[r]))]

\* Freeing the base loses the resume timers on it.
Unresumable(rs) == [r \in Reqs |-> IF rs[r].st = "resume" THEN [rs[r] EXCEPT !.st = "lost", !.refs = {}]
                                   ELSE rs[r]]

HttpLoopEnds == LoopEnds /\ cleanup_http_curl /\ reqs' = Drained

HttpCleanup == event_mgr_cleanup /\ cleanup_http_curl /\ reqs' = Unresumable(Drained)

HttpLoopCleanup ==
  /\ event_mgr_loop_cleanup
  /\ curl' = [curl EXCEPT !.timer = Staled(@), !.check = Staled(@), !.armed = FALSE, !.due = FALSE]
  /\ reqs' = Unresumable(reqs)

\* A new Lua state loads the module again.
HttpNewState == luaL_newstate /\ curl' = [curl EXCEPT !.opened = FALSE] /\ UNCHANGED reqs

HttpLuaClose == lua_close /\ UNCHANGED <<curl, reqs>>

-----------------------------------------------------------------------------
Manager ==
  \/ main_handler \/ event_mgr_break \/ luafan_sleep \/ clock_handler
  \/ \E b \in BOOLEAN : luafan_start(b) \/ evdns_create(b)
  \/ evdns_get_base \/ evdns_gc
  \/ event_mgr_workers_init \/ event_mgr_worker_base \/ worker_thread_func

ClientInit == MgrInit /\ HttpInit

CurlStep == \E D \in SUBSET Active, rearm \in BOOLEAN : timer_cb(D, rearm) \/ event_cb(D, rearm)

ClientNext ==
  \/ Manager /\ UNCHANGED <<curl, reqs>>
  \/ HttpLoopEnds \/ HttpLuaClose \/ HttpLoopCleanup \/ HttpCleanup \/ HttpNewState
  \/ luaopen_fan_http_core
  \/ CurlStep
  \/ \E ok \in Malloc : timer_check_multi_info_cb(ok)
  \/ \E r \in Reqs : http_get(r) \/ resume_cb(r)

ClientSpec == ClientInit /\ [][ClientNext]_hvars

\* libevent runs every due event, curl ends every transfer (its timeouts see
\* to that), and a loop that was broken returns.
ClientFairness ==
  /\ WF_hvars(main_handler /\ UNCHANGED <<curl, reqs>>)
  /\ WF_hvars(clock_handler /\ UNCHANGED <<curl, reqs>>)
  /\ WF_hvars(worker_thread_func /\ UNCHANGED <<curl, reqs>>)
  /\ WF_hvars(HttpLoopEnds)
  /\ WF_hvars(\E rearm \in BOOLEAN : timer_cb(Active, rearm))
  /\ WF_hvars(event_cb(Active, FALSE))
  /\ WF_hvars(\E ok \in Malloc : timer_check_multi_info_cb(ok))
  /\ \A r \in Reqs : WF_hvars(resume_cb(r))

-----------------------------------------------------------------------------
\* What a request holds at each point of its life: no callback of curl finds
\* a reference released or its ConnInfo freed, also not the progress report
\* that taking the handle out of curl sends after completion; the list of
\* requests in flight is exactly the ones curl still has; and a request that
\* is over has given everything back, but for the body and the lists that a
\* refused option leaves behind (http_getpost's ERROR, http.c:1326).
RefsAccounted ==
  /\ ~curl.misuse
  /\ curl.inflight = Active \cup Done
  /\ \A r \in Reqs :
       /\ r \in curl.inflight => reqs[r].mem /\ ~reqs[r].completed
       /\ reqs[r].st \in Over => reqs[r].refs \subseteq {"body"}
       /\ reqs[r].st \in Over \ {"failed"} => reqs[r].refs = {} /\ reqs[r].lists = {}

\* A caller is resumed at most once, never for a request that was refused or
\* dropped, and never by a resume timer of a Lua state that was closed
\* (resume_cb, http.c:389).
AnsweredOnce ==
  /\ ~log.deadResume
  /\ \A r \in Reqs : reqs[r].answers = IF reqs[r].st = "answered" THEN 1 ELSE 0

\* No step uses an object whose base is gone, except through a static that
\* the teardown left behind: a finaliser always finds its base; the base,
\* the signal events, dnsbase and the startup event are found unless
\* event_mgr_loop_cleanup ran over an initialised manager or an armed
\* startup event; curl's timer, unless a loop has ended since the module was
\* loaded or before it was; and a DNS handle, unless it is another name for
\* the manager's resolver (event_mgr_loop, event_mgr.c:327).
LiveBases ==
  /\ "finaliser" \notin log.crash
  /\ log.crash \cap {"base", "signals", "dns", "main"} # {} => log.leftover
  /\ "timer" \in log.crash => log.ended \/ curl.late
  /\ "handle" \in log.crash => ~ev.custom

\* While a loop runs, it serves what waits on it: a request in flight ends
\* and its caller is resumed, a sleeper wakes, the startup function runs, a
\* connection on a worker that still runs is served, unless the loop ends first
\* or the HTTP module was loaded only after a loop had ended.
LoopServes ==
  LET running == lua.pc = "loop" /\ ~mgr.broke /\ log.crash = {} IN
  /\ \A r \in Reqs : (running /\ ~curl.late /\ reqs[r].st \in {"active", "done", "resume"})
                       ~> (reqs[r].st \in Over \/ ~running)
  /\ (running /\ ev.sleep = "live") ~> (ev.sleep = "none" \/ ~running)
  /\ (running /\ ev.main = "live") ~> (ev.main = "none" \/ ~running)
  /\ (mgr.threads /\ ev.conn = "live") ~> (ev.served \/ ev.conn = "none" \/ ~mgr.threads \/ log.crash # {})
=============================================================================
