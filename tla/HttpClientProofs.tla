-------------------------- MODULE HttpClientProofs --------------------------
(***************************************************************************)
(* RefsAccounted, AnsweredOnce and LiveBases hold for any number of        *)
(* requests, any set of programs and any number of loops and Lua states.   *)
(*                                                                         *)
(* The three rest on one invariant, as what a request may do depends on    *)
(* the statics of http.c and event_mgr.c: a transfer advances only while   *)
(* curl's timer sits on a base, that timer and the resume timers go with   *)
(* the base, and a base that went under an initialised manager is on       *)
(* record.                                                                 *)
(***************************************************************************)
EXTENDS HttpClient, TLAPS

Where == {"none", "live", "stale"}

MgrType == [base : BOOLEAN, dns : Where, sigs : Where, inited : BOOLEAN,
            looping : BOOLEAN, broke : BOOLEAN, threads : BOOLEAN, wbases : BOOLEAN]
LuaType == [pc : {"script", "loop", "closed"}, gen : Nat, loops : Nat]
EvType == [main : Where, sleep : Where, evdns : Where, custom : BOOLEAN,
           conn : Where, served : BOOLEAN]
Objects == {"base", "signals", "dns", "main", "timer", "handle", "finaliser"}
LogType == [crash : SUBSET Objects, leftover : BOOLEAN, ended : BOOLEAN, deadResume : BOOLEAN]
CurlType == [multi : BOOLEAN, timer : Where, armed : BOOLEAN, check : Where, due : BOOLEAN,
             inflight : SUBSET Reqs, opened : BOOLEAN, late : BOOLEAN, misuse : BOOLEAN]
ReqStates == {"none", "active", "done", "resume"} \cup Over
RefNames == {"head", "ret", "co", "progress", "body", "read", "write", "header", "oncomplete"}
ListNames == {"headers", "resolve"}
ReqType == [st : ReqStates, refs : SUBSET RefNames, lists : SUBSET ListNames, mem : BOOLEAN,
            completed : BOOLEAN, sock : BOOLEAN, answers : Nat, gen : Nat]

HttpTypeOK ==
  /\ mgr \in MgrType /\ lua \in LuaType /\ ev \in EvType /\ log \in LogType
  /\ curl \in CurlType /\ reqs \in [Reqs -> ReqType]

\* The manager and what sits on its base: a base is missing under an
\* initialised manager, and an object is stale, only after a cleanup that
\* left something behind.
BaseOK(m, l, e, g, t, k) ==
  /\ m.inited => (m.base /\ m.sigs = "live") \/ g.leftover
  /\ ~m.inited => m.dns # "live"
  /\ m.dns = "stale" \/ e.main = "stale" => g.leftover
  /\ l.pc = "loop" => m.inited
  /\ e.conn # "stale"
  /\ e.custom => e.evdns = "live" /\ l.pc # "closed"
  /\ t = "live" \/ k = "live" => m.base

\* curl's timer since the module was loaded.
TimerOK(l, g, c) ==
  /\ g.ended /\ c.timer = "live" => c.late
  /\ c.timer = "stale" => c.late
  /\ c.opened => c.timer = "live" \/ g.ended \/ c.late
  /\ l.pc = "closed" => g.ended
  /\ l.pc = "script" /\ l.loops > 0 => g.ended
  /\ l.pc = "loop" => l.loops > 0

\* What a transfer holds: every reference its callbacks look up.
Held(refs) ==
  /\ {"head", "ret", "header", "write", "progress"} \subseteq refs
  /\ "read" \in refs \/ "body" \in refs

\* One request, by itself.
Accounted(q) ==
  /\ q.st \in {"active", "done"} => q.mem /\ Held(q.refs)
  /\ q.st \in {"none", "active", "done"} => ~q.completed
  /\ q.st \in Over => q.refs \subseteq {"body"}
  /\ q.st \in Over \ {"failed"} => q.refs = {}
  /\ q.st \in (Over \ {"failed"}) \cup {"resume"} => q.lists = {}
  /\ q.answers = IF q.st = "answered" THEN 1 ELSE 0
  /\ q.sock => q.st = "active"

\* One request in its Lua state, and the events that can reach it.
Reached(q, l, t, m) ==
  /\ q.st = "resume" => q.gen = l.gen /\ m.base
  /\ q.st = "done" => q.gen = l.gen /\ l.pc = "loop"
  /\ q.st = "active" /\ q.gen # l.gen => t # "live"
  /\ q.sock => l.pc = "loop" /\ t = "live"

HInv ==
  /\ HttpTypeOK
  /\ BaseOK(mgr, lua, ev, log, curl.timer, curl.check)
  /\ TimerOK(lua, log, curl)
  /\ \A r \in Reqs : Accounted(reqs[r])
  /\ \A r \in Reqs : Reached(reqs[r], lua, curl.timer, mgr)
  /\ \A r \in Reqs : reqs[r].st = "active" /\ log.crash = {} => curl.timer # "none"
  /\ \A r \in Reqs : r \in curl.inflight <=> reqs[r].st \in {"active", "done"}
  /\ ~curl.misuse /\ ~log.deadResume
  /\ LiveBases
-----------------------------------------------------------------------------
(* The manager *)

\* event_mgr_base leaves a base and an initialised manager.
LEMMA BasedResult ==
  ASSUME NEW m \in MgrType, NEW b, b = Based(m)
  PROVE  /\ b \in MgrType /\ b.base /\ b.inited
         /\ m.inited => b.sigs = m.sigs /\ b.dns = m.dns
         /\ ~m.inited => b.sigs = "live" /\ b.dns \in {"live", "none"}
<1>1. TRUE \in BOOLEAN /\ "live" \in Where /\ "none" \in Where
  BY DEF Where
<1>2. CASE m.inited
  <2>1. b = [m EXCEPT !.base = TRUE]
    BY <1>2 DEF Based
  <2>2. b \in MgrType
    BY <1>1, <2>1, Zenon DEF MgrType
  <2>3. b.base = TRUE /\ b.inited = m.inited /\ b.sigs = m.sigs /\ b.dns = m.dns
    BY <2>1, Zenon DEF MgrType
  <2>4. QED
    BY <1>2, <2>2, <2>3
<1>3. CASE ~m.inited
  <2>1. PICK d \in {"live", "none"} : d = IF prog.dnsOk THEN "live" ELSE "none"
    OBVIOUS
  <2>2. b = [m EXCEPT !.base = TRUE, !.inited = TRUE, !.sigs = "live", !.dns = d]
    BY <1>3, <2>1 DEF Based
  <2>3. d \in Where
    BY DEF Where
  <2>4. b \in MgrType
    BY <1>1, <2>2, <2>3, Zenon DEF MgrType
  <2>5. b.base = TRUE /\ b.inited = TRUE /\ b.sigs = "live" /\ b.dns = d
    BY <2>2, Zenon DEF MgrType
  <2>6. QED
    BY <1>3, <2>4, <2>5
<1>4. QED
  BY <1>2, <1>3

\* event_mgr_init leaves an initialised manager as it is.
LEMMA InitedResult ==
  ASSUME NEW m \in MgrType, NEW b, b = Inited(m)
  PROVE  /\ b \in MgrType /\ b.inited
         /\ m.inited => b = m
         /\ ~m.inited => b.base /\ b.sigs = "live" /\ b.dns \in {"live", "none"}
         /\ m.base => b.base
<1>1. CASE m.inited
  BY <1>1 DEF Inited
<1>2. CASE ~m.inited
  BY <1>2, BasedResult DEF Inited
<1>3. QED
  BY <1>1, <1>2

\* What touches an object that is there does not break.
LEMMA BrokenOne ==
  ASSUME NEW n \in Objects, NEW w
  PROVE  /\ Broken({<<n, w>>}) \in SUBSET {n}
         /\ w = "live" => Broken({<<n, w>>}) = {}
         /\ w # "live" => Broken({<<n, w>>}) = {n}
         /\ Broken(Present(n, w)) \in SUBSET {n}
         /\ w \in {"none", "live"} => Broken(Present(n, w)) = {}
<1>1. Broken({<<n, w>>}) = IF w = "live" THEN {} ELSE {n}
  <2>1. CASE w = "live"
    BY <2>1 DEF Broken
  <2>2. CASE w # "live"
    <3>1. PICK x : x = <<n, w>>
      OBVIOUS
    <3>2. x[1] = n /\ x[2] = w
      BY <3>1
    <3>3. {y \in {x} : y[2] # "live"} = {x}
      BY <2>2, <3>2
    <3>4. QED
      BY <2>2, <3>1, <3>2, <3>3 DEF Broken
  <2>3. QED
    BY <2>1, <2>2
<1>2. w = "none" => Broken(Present(n, w)) = {}
  BY DEF Broken, Present
<1>3. w # "none" => Broken(Present(n, w)) = Broken({<<n, w>>})
  BY DEF Present
<1>4. QED
  BY <1>1, <1>2, <1>3

\* Of two objects, the ones that break.
LEMMA BrokenTwo ==
  ASSUME NEW S, NEW T
  PROVE  Broken(S \cup T) = Broken(S) \cup Broken(T)
BY DEF Broken

-----------------------------------------------------------------------------
(* Steps of the manager alone *)

\* What a step of the manager has to keep, when it leaves the client alone.
LEMMA ManagerStep ==
  ASSUME HInv, log.crash = {}, curl' = curl, reqs' = reqs,
         mgr' \in MgrType, lua' \in LuaType, ev' \in EvType, log' \in LogType,
         lua'.gen = lua.gen, lua.pc = "loop" => lua'.pc = "loop",
         mgr.base => mgr'.base, log'.deadResume = log.deadResume,
         BaseOK(mgr', lua', ev', log', curl.timer, curl.check),
         TimerOK(lua', log', curl),
         log'.crash = {} \/ LiveBases'
  PROVE  HInv'
<1>1. HttpTypeOK'
  BY DEF HInv, HttpTypeOK
<1>2. BaseOK(mgr', lua', ev', log', curl'.timer, curl'.check) /\ TimerOK(lua', log', curl')
  OBVIOUS
<1>3. \A r \in Reqs : Accounted(reqs'[r])
  BY DEF HInv
<1>4. \A r \in Reqs : Reached(reqs'[r], lua', curl'.timer, mgr')
  BY DEF HInv, Reached
<1>5. \A r \in Reqs : reqs'[r].st = "active" /\ log'.crash = {} => curl'.timer # "none"
  BY DEF HInv
<1>6. \A r \in Reqs : r \in curl'.inflight <=> reqs'[r].st \in {"active", "done"}
  BY DEF HInv
<1>7. ~curl'.misuse /\ ~log'.deadResume
  BY DEF HInv
<1>8. LiveBases'
  BY DEF LiveBases
<1>9. QED
  BY <1>1, <1>2, <1>3, <1>4, <1>5, <1>6, <1>7, <1>8 DEF HInv

\* An event that only one field of ev is about.
LEMMA EvStep ==
  ASSUME HInv, log.crash = {}, UNCHANGED <<mgr, lua, log, curl, reqs>>, ev' \in EvType,
         ev'.main \in {ev.main, "none"}, ev'.conn \in {ev.conn, "live"},
         ev'.custom = ev.custom /\ ev'.evdns = ev.evdns
  PROVE  HInv'
<1>1. BaseOK(mgr', lua', ev', log', curl.timer, curl.check)
  BY DEF HInv, BaseOK
<1>2. TimerOK(lua', log', curl)
  BY DEF HInv
<1>3. QED
  BY <1>1, <1>2, ManagerStep DEF HInv, HttpTypeOK

\* main_handler frees the startup event.
LEMMA MainHandlerInv ==
  ASSUME HInv, main_handler, UNCHANGED <<curl, reqs>>
  PROVE  HInv'
<1>1. ev \in EvType /\ "none" \in Where /\ log.crash = {}
  BY DEF HInv, HttpTypeOK, Where, main_handler, Dispatching
<1>2. PICK e : e = [ev EXCEPT !.main = "none"]
  OBVIOUS
<1>3. e \in EvType
  BY <1>1, <1>2, Zenon DEF EvType
<1>4. e.main = "none" /\ e.conn = ev.conn /\ e.custom = ev.custom /\ e.evdns = ev.evdns
  BY <1>1, <1>2, Zenon DEF EvType
<1>5. ev' = e /\ UNCHANGED <<mgr, lua, log>>
  BY <1>2 DEF main_handler
<1>6. QED
  BY <1>1, <1>3, <1>4, <1>5, EvStep

\* clock_handler frees the sleeper's event.
LEMMA ClockHandlerInv ==
  ASSUME HInv, clock_handler, UNCHANGED <<curl, reqs>>
  PROVE  HInv'
<1>1. ev \in EvType /\ "none" \in Where /\ log.crash = {}
  BY DEF HInv, HttpTypeOK, Where, clock_handler, Dispatching
<1>2. PICK e : e = [ev EXCEPT !.sleep = "none"]
  OBVIOUS
<1>3. e \in EvType
  BY <1>1, <1>2, Zenon DEF EvType
<1>4. e.main = ev.main /\ e.conn = ev.conn /\ e.custom = ev.custom /\ e.evdns = ev.evdns
  BY <1>1, <1>2, Zenon DEF EvType
<1>5. ev' = e /\ UNCHANGED <<mgr, lua, log>>
  BY <1>2 DEF clock_handler
<1>6. QED
  BY <1>1, <1>3, <1>4, <1>5, EvStep

\* A connection is put on a worker's base.
LEMMA WorkerBaseInv ==
  ASSUME HInv, event_mgr_worker_base, UNCHANGED <<curl, reqs>>
  PROVE  HInv'
<1>1. ev \in EvType /\ "live" \in Where /\ FALSE \in BOOLEAN /\ log.crash = {}
  BY DEF HInv, HttpTypeOK, Where, event_mgr_worker_base, LuaRuns
<1>2. PICK e : e = [ev EXCEPT !.conn = "live", !.served = FALSE]
  OBVIOUS
<1>3. e \in EvType
  BY <1>1, <1>2, Zenon DEF EvType
<1>4. e.main = ev.main /\ e.conn = "live" /\ e.custom = ev.custom /\ e.evdns = ev.evdns
  BY <1>1, <1>2, Zenon DEF EvType
<1>5. ev' = e /\ UNCHANGED <<mgr, lua, log>>
  BY <1>2 DEF event_mgr_worker_base
<1>6. QED
  BY <1>1, <1>3, <1>4, <1>5, EvStep

\* A worker serves the connection.
LEMMA WorkerThreadInv ==
  ASSUME HInv, worker_thread_func, UNCHANGED <<curl, reqs>>
  PROVE  HInv'
<1>1. ev \in EvType /\ TRUE \in BOOLEAN /\ log.crash = {}
  BY DEF HInv, HttpTypeOK, worker_thread_func
<1>2. PICK e : e = [ev EXCEPT !.served = TRUE]
  OBVIOUS
<1>3. e \in EvType
  BY <1>1, <1>2, Zenon DEF EvType
<1>4. e.main = ev.main /\ e.conn = ev.conn /\ e.custom = ev.custom /\ e.evdns = ev.evdns
  BY <1>1, <1>2, Zenon DEF EvType
<1>5. ev' = e /\ UNCHANGED <<mgr, lua, log>>
  BY <1>2 DEF worker_thread_func
<1>6. QED
  BY <1>1, <1>3, <1>4, <1>5, EvStep

\* Flags of the manager that no base depends on.
LEMMA FlagStep ==
  ASSUME HInv, log.crash = {}, UNCHANGED <<lua, ev, log, curl, reqs>>, mgr' \in MgrType,
         mgr'.base = mgr.base, mgr'.inited = mgr.inited, mgr'.sigs = mgr.sigs,
         mgr'.dns = mgr.dns
  PROVE  HInv'
<1>1. BaseOK(mgr', lua', ev', log', curl.timer, curl.check)
  BY DEF HInv, BaseOK
<1>2. TimerOK(lua', log', curl)
  BY DEF HInv
<1>3. QED
  BY <1>1, <1>2, ManagerStep DEF HInv, HttpTypeOK

\* event_mgr_break asks the loop to end.
LEMMA BreakInv ==
  ASSUME HInv, event_mgr_break, UNCHANGED <<curl, reqs>>
  PROVE  HInv'
<1>1. mgr \in MgrType /\ TRUE \in BOOLEAN /\ log.crash = {}
  BY DEF HInv, HttpTypeOK, event_mgr_break, Dispatching
<1>2. PICK m : m = [mgr EXCEPT !.broke = TRUE]
  OBVIOUS
<1>3. m \in MgrType
  BY <1>1, <1>2, Zenon DEF MgrType
<1>4. m.base = mgr.base /\ m.inited = mgr.inited /\ m.sigs = mgr.sigs /\ m.dns = mgr.dns
  BY <1>1, <1>2, Zenon DEF MgrType
<1>5. mgr' = m /\ UNCHANGED <<lua, ev, log>>
  BY <1>2 DEF event_mgr_break
<1>6. QED
  BY <1>1, <1>3, <1>4, <1>5, FlagStep

\* The workers are started.
LEMMA WorkersInitInv ==
  ASSUME HInv, event_mgr_workers_init, UNCHANGED <<curl, reqs>>
  PROVE  HInv'
<1>1. mgr \in MgrType /\ TRUE \in BOOLEAN /\ log.crash = {}
  BY DEF HInv, HttpTypeOK, event_mgr_workers_init
<1>2. PICK m : m = [mgr EXCEPT !.threads = TRUE, !.wbases = TRUE]
  OBVIOUS
<1>3. m \in MgrType
  BY <1>1, <1>2, Zenon DEF MgrType
<1>4. m.base = mgr.base /\ m.inited = mgr.inited /\ m.sigs = mgr.sigs /\ m.dns = mgr.dns
  BY <1>1, <1>2, Zenon DEF MgrType
<1>5. mgr' = m /\ UNCHANGED <<lua, ev, log>>
  BY <1>2 DEF event_mgr_workers_init
<1>6. QED
  BY <1>1, <1>3, <1>4, <1>5, FlagStep

\* luafan_sleep makes sure of a base.
LEMMA SleepInv ==
  ASSUME HInv, luafan_sleep, UNCHANGED <<curl, reqs>>
  PROVE  HInv'
<1>1. mgr \in MgrType /\ ev \in EvType /\ "live" \in Where /\ log.crash = {}
  BY DEF HInv, HttpTypeOK, Where, luafan_sleep, LuaRuns
<1>2. PICK e : e = [ev EXCEPT !.sleep = "live"]
  OBVIOUS
<1>3. e \in EvType
  BY <1>1, <1>2, Zenon DEF EvType
<1>4. e.main = ev.main /\ e.conn = ev.conn /\ e.custom = ev.custom /\ e.evdns = ev.evdns
  BY <1>1, <1>2, Zenon DEF EvType
<1>5. ev' = e /\ mgr' = Based(mgr) /\ UNCHANGED <<lua, log>>
  BY <1>2 DEF luafan_sleep
<1>6. /\ mgr' \in MgrType /\ mgr'.base /\ mgr'.inited
      /\ mgr.inited => mgr'.sigs = mgr.sigs /\ mgr'.dns = mgr.dns
      /\ ~mgr.inited => mgr'.sigs = "live" /\ mgr'.dns \in {"live", "none"}
  BY <1>1, <1>5, BasedResult
<1>7. BaseOK(mgr', lua', ev', log', curl.timer, curl.check)
  BY <1>3, <1>4, <1>5, <1>6 DEF HInv, BaseOK
<1>8. TimerOK(lua', log', curl)
  BY <1>5 DEF HInv
<1>9. QED
  BY <1>1, <1>3, <1>5, <1>6, <1>7, <1>8, ManagerStep DEF HInv, HttpTypeOK

\* The log with what a step broke.
LEMMA CrashLogged ==
  ASSUME NEW g \in LogType, NEW C \in SUBSET Objects, NEW h, h = [g EXCEPT !.crash = C]
  PROVE  /\ h \in LogType
         /\ h.crash = C /\ h.leftover = g.leftover /\ h.ended = g.ended
         /\ h.deadResume = g.deadResume
<1>1. h \in LogType
  BY Zenon DEF LogType
<1>2. h.crash = C /\ h.leftover = g.leftover /\ h.ended = g.ended /\ h.deadResume = g.deadResume
  BY Zenon DEF LogType
<1>3. QED
  BY <1>1, <1>2

\* A base that is there does not break, and whether it is there is all that
\* matters.
LEMMA BrokenBase ==
  ASSUME NEW m \in MgrType
  PROVE  /\ Broken(BaseOf(m)) \in SUBSET {"base"}
         /\ m.base => Broken(BaseOf(m)) = {}
<1>1. "base" \in Objects
  BY DEF Objects
<1>2. QED
  BY <1>1, BrokenOne DEF BaseOf

\* luafan_start enters the loop.
LEMMA StartInv ==
  ASSUME HInv, NEW startup \in BOOLEAN, luafan_start(startup), UNCHANGED <<curl, reqs>>
  PROVE  HInv'
<1>1. /\ mgr \in MgrType /\ ev \in EvType /\ log \in LogType /\ lua \in LuaType
      /\ log.crash = {} /\ lua.pc = "script"
  BY DEF HInv, HttpTypeOK, luafan_start, LuaRuns
<1>2. PICK i, m : i = Inited(mgr) /\ m = IF startup THEN Based(i) ELSE i
  OBVIOUS
<1>3. /\ i \in MgrType /\ i.inited
      /\ mgr.inited => i = mgr
      /\ ~mgr.inited => i.base /\ i.sigs = "live" /\ i.dns \in {"live", "none"}
      /\ mgr.base => i.base
  BY <1>1, <1>2, InitedResult
<1>4. /\ m \in MgrType /\ m.inited /\ m.sigs = i.sigs /\ m.dns = i.dns
      /\ startup => m.base
      /\ i.base => m.base
  <2>1. CASE startup
    BY <1>2, <1>3, <2>1, BasedResult
  <2>2. CASE ~startup
    BY <1>2, <1>3, <2>2
  <2>3. QED
    BY <2>1, <2>2
<1>5. PICK n : n = [m EXCEPT !.looping = TRUE, !.broke = FALSE]
  OBVIOUS
<1>6. n \in MgrType
  <2>1. TRUE \in BOOLEAN /\ FALSE \in BOOLEAN
    OBVIOUS
  <2>2. QED
    BY <1>4, <1>5, <2>1, Zenon DEF MgrType
<1>7. n.base = m.base /\ n.inited = m.inited /\ n.sigs = m.sigs /\ n.dns = m.dns
  BY <1>4, <1>5, Zenon DEF MgrType
<1>8. PICK w \in Where : w = IF startup THEN "live" ELSE ev.main
  BY <1>1 DEF EvType, Where
<1>9. PICK e : e = [ev EXCEPT !.main = w]
  OBVIOUS
<1>10. e \in EvType
  BY <1>1, <1>9, Zenon DEF EvType
<1>11. e.main = w /\ e.conn = ev.conn /\ e.custom = ev.custom /\ e.evdns = ev.evdns
  BY <1>1, <1>9, Zenon DEF EvType
<1>12. PICK old, C : /\ old = IF startup THEN Present("main", ev.main) ELSE {}
                     /\ C = Broken(old \cup BaseOf(m))
  OBVIOUS
<1>13. Broken(old) \in SUBSET {"main"} /\ (Broken(old) # {} => ev.main = "stale")
  <2>1. CASE startup
    <3>1. "main" \in Objects /\ ev.main \in Where
      BY <1>1 DEF Objects, EvType
    <3>2. QED
      BY <1>12, <2>1, <3>1, BrokenOne DEF Where
  <2>2. CASE ~startup
    BY <1>12, <2>2 DEF Broken
  <2>3. QED
    BY <2>1, <2>2
<1>14. /\ C \in SUBSET {"main", "base"}
       /\ C # {} => ev.main = "stale" \/ ~m.base
  <2>1. C = Broken(old) \cup Broken(BaseOf(m))
    BY <1>12, BrokenTwo
  <2>2. Broken(BaseOf(m)) \in SUBSET {"base"} /\ (m.base => Broken(BaseOf(m)) = {})
    BY <1>4, BrokenBase
  <2>3. QED
    BY <1>13, <2>1, <2>2
<1>15. PICK g : g = [log EXCEPT !.crash = C]
  OBVIOUS
<1>16. /\ g \in LogType /\ g.crash = C /\ g.leftover = log.leftover /\ g.ended = log.ended
       /\ g.deadResume = log.deadResume
  <2>1. C \in SUBSET Objects
    BY <1>14 DEF Objects
  <2>2. QED
    BY <1>1, <1>15, <2>1, CrashLogged
<1>17. PICK l : l = [lua EXCEPT !.pc = "loop", !.loops = @ + 1]
  OBVIOUS
<1>18. l \in LuaType /\ l.pc = "loop" /\ l.gen = lua.gen /\ l.loops > 0
  <2>1. PICK k \in Nat : k = lua.loops + 1 /\ k > 0
    BY <1>1 DEF LuaType
  <2>2. l = [lua EXCEPT !.pc = "loop", !.loops = k]
    BY <1>17, <2>1
  <2>3. l \in LuaType
    BY <1>1, <2>2 DEF LuaType
  <2>4. l.pc = "loop" /\ l.gen = lua.gen /\ l.loops = k
    BY <1>1, <2>2 DEF LuaType
  <2>5. QED
    BY <2>1, <2>3, <2>4
<1>19. mgr' = n /\ lua' = l /\ ev' = e /\ log' = g
  <2>1. mgr' = n
    BY <1>2, <1>5 DEF luafan_start
  <2>2. ev' = e
    <3>1. ev' = [ev EXCEPT !.main = IF startup THEN "live" ELSE @]
      BY DEF luafan_start
    <3>2. CASE startup
      BY <1>8, <1>9, <3>1, <3>2
    <3>3. CASE ~startup
      BY <1>8, <1>9, <3>1, <3>3
    <3>4. QED
      BY <3>2, <3>3
  <2>3. lua' = l
    BY <1>17 DEF luafan_start
  <2>4. log' = g
    BY <1>2, <1>12, <1>15 DEF luafan_start
  <2>5. QED
    BY <2>1, <2>2, <2>3, <2>4
<1>20. ~m.base => log.leftover
  BY <1>3, <1>4 DEF HInv, BaseOK
<1>21. ev.main = "stale" => log.leftover
  BY DEF HInv, BaseOK
<1>22. BaseOK(n, l, e, g, curl.timer, curl.check)
  <2>1. w = "stale" => log.leftover
    BY <1>8, <1>21
  <2>2. n.inited /\ ((n.base /\ n.sigs = "live") \/ g.leftover)
    BY <1>3, <1>4, <1>7, <1>16, <1>20 DEF HInv, BaseOK
  <2>3. n.dns = "stale" => g.leftover
    BY <1>3, <1>4, <1>7, <1>16 DEF HInv, BaseOK
  <2>4. curl.timer = "live" \/ curl.check = "live" => n.base
    BY <1>3, <1>4, <1>7 DEF HInv, BaseOK
  <2>5. e.conn # "stale" /\ (e.custom => e.evdns = "live")
    BY <1>11 DEF HInv, BaseOK
  <2>6. QED
    BY <1>11, <1>16, <1>18, <2>1, <2>2, <2>3, <2>4, <2>5 DEF BaseOK
<1>23. TimerOK(l, g, curl)
  BY <1>16, <1>18 DEF HInv, TimerOK
<1>24. mgr.base => n.base
  BY <1>3, <1>4, <1>7
<1>25. LiveBases'
  <2>1. g.leftover \/ g.crash = {}
    BY <1>14, <1>16, <1>20, <1>21
  <2>2. g.crash \in SUBSET {"main", "base"}
    BY <1>14, <1>16
  <2>3. QED
    BY <1>19, <2>1, <2>2 DEF LiveBases
<1>26. QED
  BY <1>1, <1>6, <1>10, <1>16, <1>18, <1>19, <1>22, <1>23, <1>24, <1>25, ManagerStep

\* evdns_create makes a handle, of its own or of the manager's resolver.
LEMMA DnsCreateInv ==
  ASSUME HInv, NEW custom \in BOOLEAN, evdns_create(custom), UNCHANGED <<curl, reqs>>
  PROVE  HInv'
<1>1. mgr \in MgrType /\ ev \in EvType /\ log \in LogType /\ log.crash = {}
  BY DEF HInv, HttpTypeOK, evdns_create, LuaRuns
<1>2. mgr' = Inited(mgr) /\ lua' = lua
  BY DEF evdns_create
<1>3. /\ mgr' \in MgrType /\ mgr'.inited
      /\ mgr.inited => mgr' = mgr
      /\ ~mgr.inited => mgr'.base /\ mgr'.sigs = "live" /\ mgr'.dns \in {"live", "none"}
      /\ mgr.base => mgr'.base
  BY <1>1, <1>2, InitedResult
<1>4. PICK w \in Where : w = IF custom THEN "live" ELSE mgr'.dns
  BY <1>3 DEF MgrType, Where
<1>5. PICK e : e = [ev EXCEPT !.custom = custom, !.evdns = w]
  OBVIOUS
<1>6. e \in EvType
  BY <1>1, <1>5, Zenon DEF EvType
<1>7. e.main = ev.main /\ e.conn = ev.conn /\ e.custom = custom /\ e.evdns = w
  BY <1>1, <1>5, Zenon DEF EvType
<1>8. ev' = e
  BY <1>4, <1>5 DEF evdns_create
<1>9. PICK C : C = IF custom THEN Broken(BaseOf(mgr')) ELSE {}
  OBVIOUS
<1>10. C \in SUBSET {"base"} /\ (mgr'.base => C = {})
  BY <1>3, <1>9, BrokenBase
<1>11. PICK g : g = [log EXCEPT !.crash = C]
  OBVIOUS
<1>12. /\ g \in LogType /\ g.crash = C /\ g.leftover = log.leftover /\ g.ended = log.ended
       /\ g.deadResume = log.deadResume
  <2>1. C \in SUBSET Objects
    BY <1>10 DEF Objects
  <2>2. QED
    BY <1>1, <1>11, <2>1, CrashLogged
<1>13. log' = g
  BY <1>9, <1>11 DEF evdns_create
<1>14. (mgr'.base /\ mgr'.sigs = "live") \/ log.leftover
  BY <1>3 DEF HInv, BaseOK
<1>15. BaseOK(mgr', lua', ev', log', curl.timer, curl.check)
  <2>1. mgr'.dns = "stale" \/ ev.main = "stale" => log.leftover
    BY <1>3 DEF HInv, BaseOK
  <2>2. custom => w = "live"
    BY <1>4
  <2>3. curl.timer = "live" \/ curl.check = "live" => mgr'.base
    BY <1>3 DEF HInv, BaseOK
  <2>4. ev.conn # "stale" /\ lua.pc # "closed"
    BY DEF HInv, BaseOK, evdns_create, LuaRuns
  <2>5. QED
    BY <1>2, <1>3, <1>7, <1>8, <1>12, <1>13, <1>14, <2>1, <2>2, <2>3, <2>4 DEF BaseOK
<1>16. TimerOK(lua', log', curl)
  BY <1>2, <1>12, <1>13 DEF HInv, TimerOK
<1>17. LiveBases'
  BY <1>10, <1>12, <1>13, <1>14 DEF LiveBases
<1>18. QED
  BY <1>1, <1>2, <1>3, <1>6, <1>8, <1>12, <1>13, <1>15, <1>16, <1>17, ManagerStep
     DEF HInv, HttpTypeOK

\* A name is resolved through the handle.
LEMMA DnsGetBaseInv ==
  ASSUME HInv, evdns_get_base, UNCHANGED <<curl, reqs>>
  PROVE  HInv'
<1>1. ev \in EvType /\ log \in LogType /\ log.crash = {} /\ UNCHANGED <<mgr, lua, ev>>
  BY DEF HInv, HttpTypeOK, evdns_get_base, LuaRuns
<1>2. PICK C : C = Broken({<<"handle", ev.evdns>>})
  OBVIOUS
<1>3. C \in SUBSET {"handle"} /\ C \in SUBSET Objects /\ (ev.evdns = "live" => C = {})
  <2>1. "handle" \in Objects
    BY DEF Objects
  <2>2. QED
    BY <1>2, <2>1, BrokenOne
<1>4. log' = [log EXCEPT !.crash = C]
  BY <1>2 DEF evdns_get_base
<1>5. /\ log' \in LogType /\ log'.crash = C /\ log'.leftover = log.leftover
      /\ log'.ended = log.ended /\ log'.deadResume = log.deadResume
  BY <1>1, <1>3, <1>4, CrashLogged
<1>6. BaseOK(mgr', lua', ev', log', curl.timer, curl.check) /\ TimerOK(lua', log', curl)
  BY <1>1, <1>5 DEF HInv, BaseOK, TimerOK
<1>7. LiveBases'
  <2>1. C # {} => ~ev.custom
    BY <1>3 DEF HInv, BaseOK
  <2>2. QED
    BY <1>1, <1>3, <1>5, <2>1 DEF LiveBases
<1>8. QED
  BY <1>1, <1>5, <1>6, <1>7, ManagerStep DEF HInv, HttpTypeOK

\* The finaliser of a handle frees a resolver that is still on its base.
LEMMA DnsGcInv ==
  ASSUME HInv, evdns_gc, UNCHANGED <<curl, reqs>>
  PROVE  HInv'
<1>1. /\ ev \in EvType /\ log \in LogType /\ log.crash = {} /\ UNCHANGED <<mgr, lua>>
      /\ "none" \in Where /\ FALSE \in BOOLEAN
  BY DEF HInv, HttpTypeOK, evdns_gc, LuaRuns, Where
<1>2. PICK e : e = [ev EXCEPT !.evdns = "none", !.custom = FALSE]
  OBVIOUS
<1>3. e \in EvType
  BY <1>1, <1>2, Zenon DEF EvType
<1>4. e.main = ev.main /\ e.conn = ev.conn /\ e.custom = FALSE
  BY <1>1, <1>2, Zenon DEF EvType
<1>5. ev' = e
  BY <1>2 DEF evdns_gc
<1>6. log' = [log EXCEPT !.crash = {}]
  <2>1. CASE ev.custom
    <3>1. "finaliser" \in Objects /\ ev.evdns = "live"
      BY <2>1 DEF HInv, BaseOK, Objects
    <3>2. Broken({<<"finaliser", ev.evdns>>}) = {}
      BY <3>1, BrokenOne
    <3>3. QED
      BY <2>1, <3>2 DEF evdns_gc
  <2>2. CASE ~ev.custom
    BY <2>2 DEF evdns_gc
  <2>3. QED
    BY <2>1, <2>2
<1>7. /\ log' \in LogType /\ log'.crash = {} /\ log'.leftover = log.leftover
      /\ log'.ended = log.ended /\ log'.deadResume = log.deadResume
  BY <1>1, <1>6, CrashLogged
<1>8. BaseOK(mgr', lua', ev', log', curl.timer, curl.check) /\ TimerOK(lua', log', curl)
  BY <1>1, <1>4, <1>5, <1>7 DEF HInv, BaseOK, TimerOK
<1>9. QED
  BY <1>1, <1>3, <1>5, <1>7, <1>8, ManagerStep DEF HInv, HttpTypeOK

-----------------------------------------------------------------------------
(* One request *)

\* What each group of options takes.
LEMMA OptionTakes ==
  ASSUME NEW body \in BOOLEAN
  PROVE  /\ Options(body)[1] = OptTransport /\ Options(body)[2] = OptHeaders
         /\ Options(body)[3] = OptProxy /\ Options(body)[4] = OptBody(body)
         /\ Options(body)[5] = OptCallbacks /\ Options(body)[6] = OptLast
         /\ \A i \in 1..6 : /\ Options(body)[i].refs \in SUBSET RefNames
                            /\ Options(body)[i].lists \in SUBSET ListNames
<1>1. /\ Options(body)[1] = OptTransport /\ Options(body)[2] = OptHeaders
      /\ Options(body)[3] = OptProxy /\ Options(body)[4] = OptBody(body)
      /\ Options(body)[5] = OptCallbacks /\ Options(body)[6] = OptLast
  BY DEF Options
<1>2. /\ OptTransport.refs \in SUBSET RefNames /\ OptTransport.lists \in SUBSET ListNames
      /\ OptHeaders.refs \in SUBSET RefNames /\ OptHeaders.lists \in SUBSET ListNames
      /\ OptProxy.refs \in SUBSET RefNames /\ OptProxy.lists \in SUBSET ListNames
  BY DEF OptTransport, OptHeaders, OptProxy, RefNames, ListNames
<1>3. /\ OptBody(body).refs \in SUBSET RefNames /\ OptBody(body).lists \in SUBSET ListNames
      /\ OptCallbacks.refs \in SUBSET RefNames /\ OptCallbacks.lists \in SUBSET ListNames
      /\ OptLast.refs \in SUBSET RefNames /\ OptLast.lists \in SUBSET ListNames
  BY DEF OptBody, OptCallbacks, OptLast, RefNames, ListNames
<1>4. ASSUME NEW i \in 1..6
      PROVE  /\ Options(body)[i].refs \in SUBSET RefNames
             /\ Options(body)[i].lists \in SUBSET ListNames
  <2>1. i = 1 \/ i = 2 \/ i = 3 \/ i = 4 \/ i = 5 \/ i = 6
    OBVIOUS
  <2>2. QED
    BY <1>1, <1>2, <1>3, <2>1
<1>5. QED
  BY <1>1, <1>4

\* The groups together take known references and lists; all six of them take
\* whatever a callback looks up.
LEMMA TakenHeld ==
  ASSUME NEW n \in 0..6, NEW body \in BOOLEAN, NEW t, t = Taken(n, body)
  PROVE  /\ t.refs \in SUBSET RefNames /\ t.lists \in SUBSET ListNames
         /\ Started(n, body) \in SUBSET ListNames
         /\ n = 6 => Held({"head", "ret", "co"} \cup (t.refs \ {"oncomplete"}))
<1>1. /\ t.refs = UNION {Options(body)[i].refs : i \in 1..n}
      /\ t.lists = UNION {Options(body)[i].lists : i \in 1..n}
  BY DEF Taken
<1>2. t.refs \in SUBSET RefNames
  <2>1. ASSUME NEW x \in t.refs PROVE x \in RefNames
    <3>1. PICK i \in 1..n : x \in Options(body)[i].refs
      BY <1>1
    <3>2. i \in 1..6
      OBVIOUS
    <3>3. QED
      BY <3>1, <3>2, OptionTakes
  <2>2. QED
    BY <2>1
<1>3. t.lists \in SUBSET ListNames
  <2>1. ASSUME NEW x \in t.lists PROVE x \in ListNames
    <3>1. PICK i \in 1..n : x \in Options(body)[i].lists
      BY <1>1
    <3>2. i \in 1..6
      OBVIOUS
    <3>3. QED
      BY <3>1, <3>2, OptionTakes
  <2>2. QED
    BY <2>1
<1>4. Started(n, body) \in SUBSET ListNames
  <2>1. CASE n < 6
    <3>1. n + 1 \in 1..6
      BY <2>1
    <3>2. QED
      BY <2>1, <3>1, OptionTakes DEF Started
  <2>2. CASE ~(n < 6)
    BY <2>2 DEF Started
  <2>3. QED
    BY <2>1, <2>2
<1>5. ASSUME n = 6 PROVE Held({"head", "ret", "co"} \cup (t.refs \ {"oncomplete"}))
  <2>1. 1 \in 1..n /\ 4 \in 1..n /\ 5 \in 1..n
    BY <1>5
  <2>2. "progress" \in Options(body)[1].refs
    BY OptionTakes DEF OptTransport
  <2>3. "write" \in Options(body)[5].refs /\ "header" \in Options(body)[5].refs
    BY OptionTakes DEF OptCallbacks
  <2>4. "read" \in Options(body)[4].refs \/ "body" \in Options(body)[4].refs
    <3>1. Options(body)[4] = OptBody(body)
      BY OptionTakes
    <3>2. PICK x : x = IF body THEN "body" ELSE "read"
      OBVIOUS
    <3>3. OptBody(body) = [refs |-> {x}, lists |-> {}]
      BY <3>2 DEF OptBody
    <3>4. x = "body" \/ x = "read"
      BY <3>2
    <3>5. QED
      BY <3>1, <3>3, <3>4
  <2>5. "progress" \in t.refs
    BY <1>1, <2>1, <2>2
  <2>6. "write" \in t.refs /\ "header" \in t.refs
    BY <1>1, <2>1, <2>3
  <2>7. "read" \in t.refs \/ "body" \in t.refs
    <3>1. CASE "read" \in Options(body)[4].refs
      BY <1>1, <2>1, <3>1
    <3>2. CASE "body" \in Options(body)[4].refs
      BY <1>1, <2>1, <3>2
    <3>3. QED
      BY <2>4, <3>1, <3>2
  <2>8. QED
    BY <2>5, <2>6, <2>7 DEF Held
<1>6. QED
  BY <1>2, <1>3, <1>4, <1>5

\* What http_getpost leaves in flight.
InFlight(q, R, L) == [Fresh(q) EXCEPT !.st = "active", !.lists = L, !.refs = R]

\* A request that curl accepted holds what its callbacks need.
LEMMA AcceptedReq ==
  ASSUME NEW q \in ReqType, Accounted(q), q.st = "none", lua \in LuaType,
         NEW R \in SUBSET RefNames, Held(R), NEW L \in SUBSET ListNames,
         NEW a, a = InFlight(q, R, L)
  PROVE  /\ a \in ReqType /\ Accounted(a) /\ a.st = "active" /\ a.gen = lua.gen
         /\ a.sock = q.sock /\ ~a.sock
<1>1. /\ TRUE \in BOOLEAN /\ "active" \in ReqStates /\ lua.gen \in Nat
      /\ {"head", "ret"} \in SUBSET RefNames
  BY DEF ReqStates, LuaType, RefNames
<1>2. PICK f : f = [q EXCEPT !.refs = {"head", "ret"}, !.mem = TRUE, !.gen = lua.gen]
  OBVIOUS
<1>3. f \in ReqType
  BY <1>1, <1>2, Zenon DEF ReqType
<1>4. f.mem = TRUE /\ f.gen = lua.gen /\ f.completed = q.completed /\ f.sock = q.sock
      /\ f.answers = q.answers
  BY <1>2, Zenon DEF ReqType
<1>5. a = [f EXCEPT !.st = "active", !.lists = L, !.refs = R]
  BY <1>2 DEF InFlight, Fresh
<1>6. a \in ReqType
  BY <1>1, <1>3, <1>5, Zenon DEF ReqType
<1>7. /\ a.st = "active" /\ a.lists = L /\ a.refs = R /\ a.mem = f.mem /\ a.gen = f.gen
      /\ a.completed = f.completed /\ a.sock = f.sock /\ a.answers = f.answers
  BY <1>3, <1>5, Zenon DEF ReqType
<1>8. ~q.completed /\ ~q.sock /\ q.answers = 0
  BY DEF Accounted
<1>9. Accounted(a)
  BY <1>4, <1>7, <1>8 DEF Accounted, Over
<1>10. QED
  BY <1>4, <1>6, <1>7, <1>8, <1>9

\* A request that was refused keeps at most its body.
LEMMA RefusedReq ==
  ASSUME NEW q \in ReqType, Accounted(q), q.st = "none", lua \in LuaType,
         NEW t, NEW a, a = Refused(Fresh(q), t), t.lists \in SUBSET ListNames
  PROVE  /\ a \in ReqType /\ Accounted(a) /\ a.st = "failed" /\ ~a.sock
<1>1. /\ TRUE \in BOOLEAN /\ FALSE \in BOOLEAN /\ "failed" \in ReqStates /\ lua.gen \in Nat
      /\ {"head", "ret"} \in SUBSET RefNames /\ t.refs \cap {"body"} \in SUBSET RefNames
  BY DEF ReqStates, Over, LuaType, RefNames
<1>2. PICK f : f = [q EXCEPT !.refs = {"head", "ret"}, !.mem = TRUE, !.gen = lua.gen]
  OBVIOUS
<1>3. f \in ReqType
  BY <1>1, <1>2, Zenon DEF ReqType
<1>4. f.sock = q.sock /\ f.answers = q.answers
  BY <1>2, Zenon DEF ReqType
<1>5. a = [f EXCEPT !.st = "failed", !.refs = t.refs \cap {"body"}, !.lists = t.lists, !.mem = FALSE]
  BY <1>2 DEF Fresh, Refused
<1>6. a \in ReqType
  BY <1>1, <1>3, <1>5, Zenon DEF ReqType
<1>7. /\ a.st = "failed" /\ a.refs = t.refs \cap {"body"} /\ a.sock = f.sock
      /\ a.answers = f.answers
  BY <1>3, <1>5, Zenon DEF ReqType
<1>8. ~q.sock /\ q.answers = 0
  BY DEF Accounted
<1>9. Accounted(a)
  BY <1>4, <1>7, <1>8 DEF Accounted, Over
<1>10. QED
  BY <1>4, <1>6, <1>7, <1>8, <1>9

\* A transfer goes on.
LEMMA WatchedReq ==
  ASSUME NEW q \in ReqType, Accounted(q), q.st = "active", NEW w, w = sock_cb(q, TRUE)
  PROVE  w \in ReqType /\ Accounted(w) /\ w.st = "active" /\ w.gen = q.gen
<1>1. TRUE \in BOOLEAN
  OBVIOUS
<1>2. w = [q EXCEPT !.sock = TRUE]
  BY DEF sock_cb
<1>3. w \in ReqType
  BY <1>1, <1>2, Zenon DEF ReqType
<1>4. /\ w.st = q.st /\ w.refs = q.refs /\ w.lists = q.lists /\ w.mem = q.mem
      /\ w.completed = q.completed /\ w.answers = q.answers /\ w.gen = q.gen
  BY <1>2, Zenon DEF ReqType
<1>5. Accounted(w)
  BY <1>4 DEF Accounted, Over
<1>6. QED
  BY <1>3, <1>4, <1>5

\* A transfer finishes.
LEMMA FinishedReq ==
  ASSUME NEW q \in ReqType, Accounted(q), q.st = "active",
         NEW d, d = sock_cb([q EXCEPT !.st = "done"], FALSE)
  PROVE  d \in ReqType /\ Accounted(d) /\ d.st = "done" /\ d.gen = q.gen /\ ~d.sock
<1>1. FALSE \in BOOLEAN /\ "done" \in ReqStates
  BY DEF ReqStates
<1>2. PICK f : f = [q EXCEPT !.st = "done"]
  OBVIOUS
<1>3. d = [f EXCEPT !.sock = FALSE]
  BY <1>2 DEF sock_cb
<1>4. f \in ReqType
  BY <1>1, <1>2, Zenon DEF ReqType
<1>5. /\ f.st = "done" /\ f.refs = q.refs /\ f.lists = q.lists /\ f.mem = q.mem
      /\ f.completed = q.completed /\ f.answers = q.answers /\ f.gen = q.gen
  BY <1>2, Zenon DEF ReqType
<1>6. d \in ReqType
  BY <1>1, <1>3, <1>4, Zenon DEF ReqType
<1>7. /\ d.st = f.st /\ d.refs = f.refs /\ d.lists = f.lists /\ d.mem = f.mem
      /\ d.completed = f.completed /\ d.answers = f.answers /\ d.gen = f.gen /\ d.sock = FALSE
  BY <1>3, <1>4, Zenon DEF ReqType
<1>8. Accounted(d)
  BY <1>5, <1>7 DEF Accounted, Over
<1>9. QED
  BY <1>5, <1>6, <1>7, <1>8

\* What is left of a finished request, of one in flight when the loop ends,
\* and of one whose base is freed.
Freed(q) == [q EXCEPT !.lists = {}, !.mem = FALSE]
FreedDropped(q) == [q EXCEPT !.lists = {}, !.mem = FALSE, !.sock = FALSE]
Lost(q) == [q EXCEPT !.st = "lost", !.refs = {}]

\* A finished request is completed, and its handle taken out of curl.
LEMMA CompletedReq ==
  ASSUME NEW q \in ReqType, Accounted(q), q.st = "done", NEW ok \in BOOLEAN,
         NEW c, c = http_getpost_complete(q, ok),
         NEW a, a = Freed(c)
  PROVE  /\ onprogress(c)
         /\ a \in ReqType /\ Accounted(a) /\ a.st \in {"resume", "unresumed"}
         /\ a.gen = q.gen /\ ~a.sock
<1>1. /\ TRUE \in BOOLEAN /\ FALSE \in BOOLEAN /\ {} \in SUBSET ListNames
  OBVIOUS
<1>2. PICK s, R : s = (IF ok THEN "resume" ELSE "unresumed") /\ R = IF ok THEN {"co"} ELSE {}
  OBVIOUS
<1>3. /\ s \in ReqStates /\ R \in SUBSET RefNames /\ s \in {"resume", "unresumed"}
      /\ s = "unresumed" => R = {}
  BY <1>2 DEF ReqStates, Over, RefNames
<1>4. c = [q EXCEPT !.completed = TRUE, !.refs = R, !.st = s]
  BY <1>2 DEF http_getpost_complete
<1>5. c \in ReqType
  BY <1>1, <1>3, <1>4, Zenon DEF ReqType
<1>6. /\ c.st = s /\ c.refs = R /\ c.mem = q.mem /\ c.completed = TRUE
      /\ c.answers = q.answers /\ c.gen = q.gen /\ c.sock = q.sock
  BY <1>4, Zenon DEF ReqType
<1>7. a \in ReqType
  BY <1>1, <1>5, Zenon DEF ReqType, Freed
<1>8. /\ a.st = c.st /\ a.refs = c.refs /\ a.lists = {} /\ a.completed = c.completed
      /\ a.answers = c.answers /\ a.gen = c.gen /\ a.sock = c.sock
  BY <1>5, Zenon DEF ReqType, Freed
<1>9. q.mem /\ ~q.sock /\ q.answers = 0
  BY DEF Accounted
<1>10. onprogress(c)
  BY <1>6, <1>9 DEF onprogress
<1>11. Accounted(a)
  BY <1>3, <1>6, <1>8, <1>9 DEF Accounted, Over
<1>12. QED
  BY <1>3, <1>6, <1>7, <1>8, <1>9, <1>10, <1>11

\* The caller is resumed.
LEMMA AnsweredReq ==
  ASSUME NEW q \in ReqType, Accounted(q), q.st = "resume",
         NEW a, a = [q EXCEPT !.st = "answered", !.refs = {}, !.answers = @ + 1]
  PROVE  a \in ReqType /\ Accounted(a) /\ a.st = "answered" /\ ~a.sock
<1>1. q.answers = 0 /\ ~q.sock /\ q.lists = {} /\ 1 \in Nat /\ 0 + 1 = 1
  BY DEF Accounted, Over
<1>2. "answered" \in ReqStates /\ {} \in SUBSET RefNames
  BY DEF ReqStates, Over
<1>3. a = [q EXCEPT !.st = "answered", !.refs = {}, !.answers = 1]
  BY <1>1
<1>4. a \in ReqType
  BY <1>1, <1>2, <1>3, Zenon DEF ReqType
<1>5. a.st = "answered" /\ a.refs = {} /\ a.answers = 1 /\ a.lists = q.lists /\ a.sock = q.sock
  BY <1>3, Zenon DEF ReqType
<1>6. Accounted(a)
  BY <1>1, <1>5 DEF Accounted, Over
<1>7. QED
  BY <1>1, <1>4, <1>5, <1>6

\* A request in flight is dropped at the end of the loop.
LEMMA DroppedReq ==
  ASSUME NEW q \in ReqType, Accounted(q), q.st \in {"active", "done"},
         NEW c, c = Dropped(q),
         NEW a, a = FreedDropped(c)
  PROVE  onprogress(c) /\ a \in ReqType /\ Accounted(a) /\ a.st = "dropped" /\ ~a.sock
<1>1. /\ TRUE \in BOOLEAN /\ FALSE \in BOOLEAN /\ {} \in SUBSET ListNames
      /\ "dropped" \in ReqStates /\ {} \in SUBSET RefNames
  BY DEF ReqStates, Over
<1>2. c = [q EXCEPT !.st = "dropped", !.completed = TRUE, !.refs = {}]
  BY DEF Dropped
<1>3. c \in ReqType
  BY <1>1, <1>2, Zenon DEF ReqType
<1>4. c.st = "dropped" /\ c.refs = {} /\ c.mem = q.mem /\ c.completed = TRUE
      /\ c.answers = q.answers
  BY <1>2, Zenon DEF ReqType
<1>5. a \in ReqType
  BY <1>1, <1>3, Zenon DEF ReqType, FreedDropped
<1>6. a.st = c.st /\ a.refs = c.refs /\ a.lists = {} /\ a.answers = c.answers /\ a.sock = FALSE
  BY <1>3, Zenon DEF ReqType, FreedDropped
<1>7. q.mem /\ q.answers = 0
  BY DEF Accounted
<1>8. onprogress(c)
  BY <1>4, <1>7 DEF onprogress
<1>9. Accounted(a)
  BY <1>4, <1>6, <1>7 DEF Accounted, Over
<1>10. QED
  BY <1>4, <1>5, <1>6, <1>8, <1>9

\* The resume timer is lost with its base.
LEMMA LostReq ==
  ASSUME NEW q \in ReqType, Accounted(q), q.st = "resume",
         NEW a, a = Lost(q)
  PROVE  a \in ReqType /\ Accounted(a) /\ a.st = "lost" /\ ~a.sock
<1>1. "lost" \in ReqStates /\ {} \in SUBSET RefNames
  BY DEF ReqStates, Over
<1>2. a \in ReqType
  BY <1>1, Zenon DEF ReqType, Lost
<1>3. a.st = "lost" /\ a.refs = {} /\ a.lists = q.lists /\ a.answers = q.answers /\ a.sock = q.sock
  BY Zenon DEF ReqType, Lost
<1>4. q.lists = {} /\ q.answers = 0 /\ ~q.sock
  BY DEF Accounted, Over
<1>5. Accounted(a)
  BY <1>3, <1>4 DEF Accounted, Over
<1>6. QED
  BY <1>2, <1>3, <1>4, <1>5

-----------------------------------------------------------------------------
(* Steps of the client *)

\* A step that changes one request, and of curl's statics only the list of
\* those in flight.
LEMMA OneReqStep ==
  ASSUME HInv, log.crash = {}, UNCHANGED <<mgr, lua, ev>>,
         NEW r \in Reqs, NEW a \in ReqType, reqs' = [reqs EXCEPT ![r] = a],
         Accounted(a), Reached(a, lua, curl.timer, mgr),
         curl' \in CurlType, log' \in LogType,
         log'.leftover = log.leftover, log'.ended = log.ended, ~log'.deadResume,
         curl'.timer = curl.timer, curl'.check = curl.check, curl'.opened = curl.opened,
         curl'.late = curl.late, ~curl'.misuse,
         a.st = "active" /\ log'.crash = {} => curl.timer # "none",
         \A x \in Reqs \ {r} : x \in curl'.inflight <=> x \in curl.inflight,
         r \in curl'.inflight <=> a.st \in {"active", "done"},
         LiveBases'
  PROVE  HInv'
<1>1. reqs' \in [Reqs -> ReqType] /\ reqs'[r] = a /\ \A x \in Reqs \ {r} : reqs'[x] = reqs[x]
  BY DEF HInv, HttpTypeOK
<1>2. HttpTypeOK'
  BY <1>1 DEF HInv, HttpTypeOK
<1>3. BaseOK(mgr', lua', ev', log', curl'.timer, curl'.check)
  BY DEF HInv, BaseOK
<1>4. TimerOK(lua', log', curl')
  BY DEF HInv, TimerOK
<1>5. \A x \in Reqs : Accounted(reqs'[x]) /\ Reached(reqs'[x], lua', curl'.timer, mgr')
  BY <1>1 DEF HInv
<1>6. \A x \in Reqs : reqs'[x].st = "active" /\ log'.crash = {} => curl'.timer # "none"
  BY <1>1 DEF HInv
<1>7. \A x \in Reqs : x \in curl'.inflight <=> reqs'[x].st \in {"active", "done"}
  BY <1>1 DEF HInv
<1>8. QED
  BY <1>2, <1>3, <1>4, <1>5, <1>6, <1>7 DEF HInv

\* Using curl's timer.
LEMMA TimerUsed ==
  ASSUME HInv, curl.opened \/ curl.timer = "live", NEW C, C = Broken(Timer)
  PROVE  /\ C \in SUBSET {"timer"} /\ C \in SUBSET Objects
         /\ C = {} => curl.timer = "live"
         /\ C # {} => log.ended \/ curl.late
<1>1. "timer" \in Objects
  BY DEF Objects
<1>2. /\ C \in SUBSET {"timer"}
      /\ curl.timer = "live" => C = {}
      /\ curl.timer # "live" => C = {"timer"}
  BY <1>1, BrokenOne DEF Timer
<1>3. QED
  BY <1>1, <1>2 DEF HInv, TimerOK

\* http_getpost, in flight.
LEMMA AcceptedInv ==
  ASSUME HInv, NEW r \in Reqs, NEW n \in 0..6, NEW body \in BOOLEAN,
         http_getpost(r, n, body, TRUE)
  PROVE  HInv'
<1>1. /\ n = 6 /\ log.crash = {} /\ curl.opened /\ reqs[r].st = "none"
      /\ UNCHANGED <<mgr, lua, ev>>
  BY DEF http_getpost, LuaRuns
<1>2. /\ lua \in LuaType /\ log \in LogType /\ curl \in CurlType /\ reqs[r] \in ReqType
      /\ reqs \in [Reqs -> ReqType] /\ Accounted(reqs[r])
  BY DEF HInv, HttpTypeOK
<1>3. PICK t : t = Taken(n, body)
  OBVIOUS
<1>4. PICK R : R = {"head", "ret", "co"} \cup (t.refs \ {"oncomplete"})
  OBVIOUS
<1>5. R \in SUBSET RefNames /\ Held(R) /\ t.lists \in SUBSET ListNames
  <2>1. {"head", "ret", "co"} \in SUBSET RefNames
    BY DEF RefNames
  <2>2. QED
    BY <1>1, <1>3, <1>4, <2>1, TakenHeld
<1>6. PICK a : a = [Fresh(reqs[r]) EXCEPT !.st = "active", !.lists = t.lists, !.refs = R]
  OBVIOUS
<1>7. a \in ReqType /\ Accounted(a) /\ a.st = "active" /\ a.gen = lua.gen /\ ~a.sock
  <2>1. PICK q, L : q = reqs[r] /\ L = t.lists
    OBVIOUS
  <2>2. q \in ReqType /\ Accounted(q) /\ q.st = "none" /\ L \in SUBSET ListNames
    BY <1>1, <1>2, <1>5, <2>1
  <2>3. a = InFlight(q, R, L)
    BY <1>6, <2>1 DEF InFlight
  <2>4. QED
    BY <1>2, <1>5, <2>2, <2>3, AcceptedReq
<1>8. reqs' = [reqs EXCEPT ![r] = a]
  BY <1>3, <1>4, <1>6 DEF http_getpost
<1>9. PICK I : I = curl.inflight \cup {r}
  OBVIOUS
<1>10. curl' = [curl EXCEPT !.multi = TRUE, !.inflight = I, !.armed = TRUE]
  BY <1>9 DEF http_getpost
<1>11. TRUE \in BOOLEAN /\ I \in SUBSET Reqs
  BY <1>2, <1>9 DEF CurlType
<1>12. curl' \in CurlType
  BY <1>2, <1>10, <1>11, Zenon DEF CurlType
<1>13. /\ curl'.timer = curl.timer /\ curl'.check = curl.check /\ curl'.opened = curl.opened
       /\ curl'.late = curl.late /\ curl'.misuse = curl.misuse /\ curl'.inflight = I
  BY <1>2, <1>10, Zenon DEF CurlType
<1>14. PICK C : C = Broken(Timer)
  OBVIOUS
<1>15. /\ C \in SUBSET {"timer"} /\ C \in SUBSET Objects
       /\ C = {} => curl.timer = "live"
       /\ C # {} => log.ended \/ curl.late
  BY <1>1, <1>14, TimerUsed
<1>16. log' = [log EXCEPT !.crash = C]
  BY <1>14 DEF http_getpost
<1>17. /\ log' \in LogType /\ log'.crash = C /\ log'.leftover = log.leftover
       /\ log'.ended = log.ended /\ log'.deadResume = log.deadResume
  <2>1. log \in LogType /\ C \in SUBSET Objects
    BY <1>2, <1>15
  <2>2. QED
    BY <1>16, <2>1, CrashLogged
<1>18. LiveBases'
  BY <1>13, <1>15, <1>17 DEF LiveBases
<1>19. Reached(a, lua, curl.timer, mgr)
  BY <1>7 DEF Reached
<1>20. ~curl'.misuse /\ ~log'.deadResume
  BY <1>13, <1>17 DEF HInv
<1>21. a.st = "active" /\ log'.crash = {} => curl.timer # "none"
  BY <1>15, <1>17
<1>22. \A x \in Reqs \ {r} : x \in curl'.inflight <=> x \in curl.inflight
  BY <1>9, <1>13
<1>23. r \in curl'.inflight <=> a.st \in {"active", "done"}
  BY <1>7, <1>9, <1>13
<1>24. QED
  BY <1>1, <1>7, <1>8, <1>12, <1>13, <1>17, <1>18, <1>19, <1>20, <1>21, <1>22, <1>23, OneReqStep

\* http_getpost, refused.
LEMMA RefusedInv ==
  ASSUME HInv, NEW r \in Reqs, NEW n \in 0..6, NEW body \in BOOLEAN,
         http_getpost(r, n, body, FALSE)
  PROVE  HInv'
<1>1. log.crash = {} /\ reqs[r].st = "none" /\ UNCHANGED <<mgr, lua, ev, log>>
  BY DEF http_getpost, LuaRuns
<1>2. /\ lua \in LuaType /\ log \in LogType /\ curl \in CurlType /\ reqs[r] \in ReqType
      /\ reqs \in [Reqs -> ReqType] /\ Accounted(reqs[r])
  BY DEF HInv, HttpTypeOK
<1>3. PICK t : t = Taken(n, body)
  OBVIOUS
<1>4. t.lists \in SUBSET ListNames /\ Started(n, body) \in SUBSET ListNames
  BY <1>3, TakenHeld
<1>5. PICK l \in SUBSET Started(n, body) :
        reqs' = [reqs EXCEPT ![r] = Refused(Fresh(@), [t EXCEPT !.lists = @ \cup l])]
  BY <1>3 DEF http_getpost
<1>6. PICK u : u = [t EXCEPT !.lists = @ \cup l]
  OBVIOUS
<1>7. u.lists \in SUBSET ListNames
  BY <1>3, <1>4, <1>6 DEF Taken
<1>8. PICK a : a = Refused(Fresh(reqs[r]), u)
  OBVIOUS
<1>9. a \in ReqType /\ Accounted(a) /\ a.st = "failed" /\ ~a.sock
  BY <1>1, <1>2, <1>7, <1>8, RefusedReq
<1>10. reqs' = [reqs EXCEPT ![r] = a]
  BY <1>5, <1>6, <1>8
<1>11. PICK b \in BOOLEAN : b = (curl.multi \/ n = 6)
  OBVIOUS
<1>12. curl' = [curl EXCEPT !.multi = b]
  BY <1>11, Zenon DEF http_getpost
<1>13. curl' \in CurlType
  BY <1>2, <1>12, Zenon DEF CurlType
<1>14. /\ curl'.timer = curl.timer /\ curl'.check = curl.check /\ curl'.opened = curl.opened
       /\ curl'.late = curl.late /\ curl'.misuse = curl.misuse /\ curl'.inflight = curl.inflight
  BY <1>2, <1>12, Zenon DEF CurlType
<1>15. LiveBases'
  BY <1>1 DEF LiveBases
<1>16. Reached(a, lua, curl.timer, mgr)
  BY <1>9 DEF Reached
<1>17. ~curl'.misuse /\ ~log'.deadResume
  BY <1>1, <1>14 DEF HInv
<1>18. r \in curl'.inflight <=> a.st \in {"active", "done"}
  BY <1>1, <1>9, <1>14 DEF HInv
<1>19. \A x \in Reqs \ {r} : x \in curl'.inflight <=> x \in curl.inflight
  BY <1>14
<1>20. QED
  BY <1>1, <1>2, <1>9, <1>10, <1>13, <1>14, <1>15, <1>16, <1>17, <1>18, <1>19, OneReqStep

\* resume_cb resumes the caller in the Lua state it belongs to.
LEMMA ResumeInv ==
  ASSUME HInv, NEW r \in Reqs, resume_cb(r)
  PROVE  HInv'
<1>1. log.crash = {} /\ reqs[r].st = "resume" /\ UNCHANGED <<mgr, lua, ev, curl>>
  BY DEF resume_cb, Dispatching
<1>2. /\ log \in LogType /\ curl \in CurlType /\ reqs[r] \in ReqType
      /\ reqs \in [Reqs -> ReqType] /\ Accounted(reqs[r])
  BY DEF HInv, HttpTypeOK
<1>3. PICK a : a = [reqs[r] EXCEPT !.st = "answered", !.refs = {}, !.answers = @ + 1]
  OBVIOUS
<1>4. a \in ReqType /\ Accounted(a) /\ a.st = "answered" /\ ~a.sock
  BY <1>1, <1>2, <1>3, AnsweredReq
<1>5. reqs' = [reqs EXCEPT ![r] = a]
  BY <1>2, <1>3 DEF resume_cb
<1>6. reqs[r].gen = lua.gen /\ ~log.deadResume
  BY <1>1 DEF HInv, Reached
<1>7. PICK b \in BOOLEAN : b = (log.deadResume \/ reqs[r].gen # lua.gen)
  OBVIOUS
<1>8. log' = [log EXCEPT !.deadResume = b]
  BY <1>7, Zenon DEF resume_cb
<1>9. log' \in LogType
  BY <1>2, <1>8, Zenon DEF LogType
<1>10. /\ log'.crash = log.crash /\ log'.leftover = log.leftover /\ log'.ended = log.ended
       /\ log'.deadResume = b
  BY <1>2, <1>8, Zenon DEF LogType
<1>11. ~log'.deadResume
  BY <1>6, <1>7, <1>10
<1>12. LiveBases'
  BY <1>1, <1>10 DEF LiveBases
<1>13. Reached(a, lua, curl.timer, mgr)
  BY <1>4 DEF Reached
<1>14. r \in curl'.inflight <=> a.st \in {"active", "done"}
  BY <1>1, <1>4 DEF HInv
<1>15. QED
  BY <1>1, <1>2, <1>4, <1>5, <1>9, <1>10, <1>11, <1>12, <1>13, <1>14, OneReqStep DEF HInv

\* Any way a request starts.
LEMMA GetInv ==
  ASSUME HInv, NEW r \in Reqs, http_get(r)
  PROVE  HInv'
<1>1. PICK n \in 0..6, body \in BOOLEAN, accepted \in BOOLEAN :
        http_getpost(r, n, body, accepted)
  BY DEF http_get
<1>2. CASE accepted = TRUE
  <2>1. http_getpost(r, n, body, TRUE)
    BY <1>1, <1>2
  <2>2. QED
    BY <2>1, AcceptedInv
<1>3. CASE accepted = FALSE
  <2>1. http_getpost(r, n, body, FALSE)
    BY <1>1, <1>3
  <2>2. QED
    BY <2>1, RefusedInv
<1>4. QED
  BY <1>2, <1>3

\* luaopen_fan_http_core makes the timers that are missing; no transfer waits
\* for them.
LEMMA OpenInv ==
  ASSUME HInv, luaopen_fan_http_core
  PROVE  HInv'
<1>1. log.crash = {} /\ mgr' = Based(mgr) /\ UNCHANGED <<lua, ev, log, reqs>>
  BY DEF luaopen_fan_http_core, LuaRuns
<1>2. mgr \in MgrType /\ log \in LogType /\ curl \in CurlType
  BY DEF HInv, HttpTypeOK
<1>3. /\ mgr' \in MgrType /\ mgr'.base /\ mgr'.inited
      /\ mgr.inited => mgr'.sigs = mgr.sigs /\ mgr'.dns = mgr.dns
      /\ ~mgr.inited => mgr'.sigs = "live" /\ mgr'.dns \in {"live", "none"}
  BY <1>1, <1>2, BasedResult
<1>4. PICK t, k : /\ t = IF curl.timer = "none" THEN "live" ELSE curl.timer
                  /\ k = IF curl.check = "none" THEN "live" ELSE curl.check
  OBVIOUS
<1>5. /\ t \in Where /\ k \in Where /\ curl.timer \in Where
      /\ curl.late \in BOOLEAN /\ log.ended \in BOOLEAN
  BY <1>2, <1>4 DEF CurlType, LogType, Where
<1>6. PICK b \in BOOLEAN : b = (curl.late \/ log.ended)
  OBVIOUS
<1>7. curl' = [curl EXCEPT !.opened = TRUE, !.timer = t, !.check = k, !.late = b]
  <2>1. curl' = [curl EXCEPT !.opened = TRUE, !.timer = t, !.check = k,
                             !.late = @ \/ log.ended]
    BY <1>4 DEF luaopen_fan_http_core
  <2>2. QED
    BY <1>6, <2>1, Zenon
<1>8. curl' \in CurlType
  <2>1. TRUE \in BOOLEAN
    OBVIOUS
  <2>2. QED
    BY <1>2, <1>5, <1>7, <2>1, Zenon DEF CurlType
<1>9. /\ curl'.timer = t /\ curl'.check = k /\ curl'.late = b /\ curl'.opened = TRUE
      /\ curl'.inflight = curl.inflight /\ curl'.misuse = curl.misuse
  BY <1>2, <1>7, Zenon DEF CurlType
<1>10. /\ curl.late => b
       /\ log.ended => b
  BY <1>6
<1>11. BaseOK(mgr', lua', ev', log', curl'.timer, curl'.check)
  BY <1>1, <1>3 DEF HInv, BaseOK
<1>12. TimerOK(lua', log', curl')
  <2>1. t = "stale" => curl.timer = "stale"
    BY <1>4
  <2>2. t = "stale" => b
    BY <1>10, <2>1 DEF HInv, TimerOK
  <2>3. t = "live" \/ t = "stale"
    BY <1>4, <1>5 DEF Where
  <2>4. QED
    BY <1>1, <1>9, <1>10, <2>2, <2>3 DEF HInv, TimerOK
<1>13. \A r \in Reqs : Accounted(reqs'[r])
  BY <1>1 DEF HInv
<1>14. \A r \in Reqs : Reached(reqs'[r], lua', curl'.timer, mgr')
  <2>1. ASSUME NEW r \in Reqs PROVE Reached(reqs[r], lua, t, mgr')
    <3>1. reqs[r].st = "active" => t = curl.timer
      BY <1>1, <1>4 DEF HInv
    <3>2. reqs[r].sock => reqs[r].st = "active"
      BY DEF HInv, Accounted
    <3>3. Reached(reqs[r], lua, curl.timer, mgr)
      BY DEF HInv
    <3>4. QED
      BY <1>3, <3>1, <3>2, <3>3 DEF Reached
  <2>2. QED
    BY <1>1, <1>9, <2>1
<1>15. \A r \in Reqs : reqs'[r].st = "active" /\ log'.crash = {} => curl'.timer # "none"
  BY <1>4, <1>9
<1>16. /\ \A r \in Reqs : r \in curl'.inflight <=> reqs'[r].st \in {"active", "done"}
       /\ ~curl'.misuse /\ ~log'.deadResume
  BY <1>1, <1>9 DEF HInv
<1>17. HttpTypeOK' /\ LiveBases'
  BY <1>1, <1>3, <1>8 DEF HInv, HttpTypeOK, LiveBases
<1>18. QED
  BY <1>11, <1>12, <1>13, <1>14, <1>15, <1>16, <1>17 DEF HInv

\* curl_multi_socket_action, while curl's timer is on a base.
LEMMA SocketActionInv ==
  ASSUME HInv, Dispatching, curl.timer = "live", NEW D \in SUBSET Active,
         NEW rearm \in BOOLEAN, SocketAction(D, rearm), UNCHANGED <<mgr, lua, ev>>
  PROVE  HInv'
<1>1. log.crash = {} /\ lua.pc = "loop"
  BY DEF Dispatching
<1>2. log \in LogType /\ curl \in CurlType /\ reqs \in [Reqs -> ReqType]
  BY DEF HInv, HttpTypeOK
<1>3. PICK b \in BOOLEAN : b = (curl.misuse \/ \E r \in Active : ~CallbacksSafe(reqs[r]))
  OBVIOUS
<1>4. ~b
  <2>1. ASSUME NEW r \in Active PROVE CallbacksSafe(reqs[r])
    <3>1. reqs[r].mem /\ Held(reqs[r].refs)
      BY DEF HInv, Accounted, Active
    <3>2. QED
      BY <3>1 DEF Held, CallbacksSafe, fillheader, onwrite, onread, onprogress
  <2>2. ~curl.misuse
    BY DEF HInv
  <2>3. QED
    BY <1>3, <2>1, <2>2
<1>5. curl' = [curl EXCEPT !.armed = rearm, !.due = TRUE, !.misuse = b]
  BY <1>3, Zenon DEF SocketAction
<1>6. curl' \in CurlType
  <2>1. TRUE \in BOOLEAN
    OBVIOUS
  <2>2. QED
    BY <1>2, <1>5, <2>1, Zenon DEF CurlType
<1>7. /\ curl'.timer = curl.timer /\ curl'.check = curl.check /\ curl'.opened = curl.opened
      /\ curl'.late = curl.late /\ curl'.misuse = b /\ curl'.inflight = curl.inflight
  BY <1>2, <1>5, Zenon DEF CurlType
<1>8. log' = [log EXCEPT !.crash = {}]
  <2>1. "timer" \in Objects
    BY DEF Objects
  <2>2. Broken(Timer) = {} /\ Broken({}) = {}
    BY <2>1, BrokenOne DEF Timer, Broken
  <2>3. QED
    BY <2>2 DEF SocketAction
<1>9. /\ log' \in LogType /\ log'.crash = {} /\ log'.leftover = log.leftover
      /\ log'.ended = log.ended /\ log'.deadResume = log.deadResume
  BY <1>2, <1>8, CrashLogged
<1>10. ASSUME NEW r \in Reqs
       PROVE  /\ reqs'[r] \in ReqType /\ Accounted(reqs'[r])
              /\ Reached(reqs'[r], lua, curl.timer, mgr)
              /\ reqs'[r].st \in {"active", "done"} <=> reqs[r].st \in {"active", "done"}
  <2>1. reqs[r] \in ReqType /\ Accounted(reqs[r]) /\ Reached(reqs[r], lua, curl.timer, mgr)
    BY <1>2 DEF HInv
  <2>2. CASE r \in D
    <3>1. reqs[r].st = "active"
      BY <2>2 DEF Active
    <3>2. reqs'[r] = sock_cb([reqs[r] EXCEPT !.st = "done"], FALSE)
      BY <2>2 DEF SocketAction
    <3>3. /\ reqs'[r] \in ReqType /\ Accounted(reqs'[r]) /\ reqs'[r].st = "done"
          /\ reqs'[r].gen = reqs[r].gen /\ ~reqs'[r].sock
      BY <2>1, <3>1, <3>2, FinishedReq
    <3>4. reqs[r].gen = lua.gen
      BY <2>1, <3>1 DEF Reached
    <3>5. QED
      BY <1>1, <3>1, <3>3, <3>4 DEF Reached
  <2>3. CASE r \notin D /\ r \in Active
    <3>1. reqs[r].st = "active"
      BY <2>3 DEF Active
    <3>2. reqs'[r] = sock_cb(reqs[r], TRUE)
      BY <2>3 DEF SocketAction
    <3>3. /\ reqs'[r] \in ReqType /\ Accounted(reqs'[r]) /\ reqs'[r].st = "active"
          /\ reqs'[r].gen = reqs[r].gen
      BY <2>1, <3>1, <3>2, WatchedReq
    <3>4. QED
      BY <1>1, <2>1, <3>1, <3>3 DEF Reached
  <2>4. CASE r \notin D /\ r \notin Active
    BY <2>1, <2>4 DEF SocketAction
  <2>5. QED
    BY <2>2, <2>3, <2>4
<1>11. HttpTypeOK'
  <2>1. reqs' \in [Reqs -> ReqType]
    <3>1. \A r \in Reqs : reqs'[r] \in ReqType
      BY <1>10
    <3>2. reqs' = [r \in Reqs |-> reqs'[r]]
      BY DEF SocketAction
    <3>3. QED
      BY <3>1, <3>2
  <2>2. QED
    BY <1>6, <1>9, <2>1 DEF HInv, HttpTypeOK
<1>12. BaseOK(mgr', lua', ev', log', curl'.timer, curl'.check) /\ TimerOK(lua', log', curl')
  BY <1>7, <1>9 DEF HInv, BaseOK, TimerOK
<1>13. \A r \in Reqs : Accounted(reqs'[r]) /\ Reached(reqs'[r], lua', curl'.timer, mgr')
  BY <1>7, <1>10
<1>14. \A r \in Reqs : reqs'[r].st = "active" /\ log'.crash = {} => curl'.timer # "none"
  BY <1>7
<1>15. \A r \in Reqs : r \in curl'.inflight <=> reqs'[r].st \in {"active", "done"}
  BY <1>7, <1>10 DEF HInv
<1>16. ~curl'.misuse /\ ~log'.deadResume /\ LiveBases'
  BY <1>4, <1>7, <1>9 DEF HInv, LiveBases
<1>17. QED
  BY <1>11, <1>12, <1>13, <1>14, <1>15, <1>16 DEF HInv

\* Both callers of curl_multi_socket_action find curl's timer on its base.
LEMMA CurlInv ==
  ASSUME HInv, CurlStep
  PROVE  HInv'
<1>1. PICK D \in SUBSET Active, rearm \in BOOLEAN : timer_cb(D, rearm) \/ event_cb(D, rearm)
  BY DEF CurlStep
<1>2. /\ Dispatching /\ SocketAction(D, rearm) /\ UNCHANGED <<mgr, lua, ev>>
      /\ curl.timer = "live" \/ \E r \in Active : reqs[r].sock
  BY <1>1 DEF timer_cb, event_cb
<1>3. curl.timer = "live"
  BY <1>2 DEF HInv, Reached, Active
<1>4. QED
  BY <1>2, <1>3, SocketActionInv

\* timer_check_multi_info_cb completes what curl has finished.
LEMMA CheckInv ==
  ASSUME HInv, NEW ok \in BOOLEAN, timer_check_multi_info_cb(ok)
  PROVE  HInv'
<1>1. /\ log.crash = {} /\ lua.pc = "loop" /\ mgr.base /\ UNCHANGED <<mgr, lua, ev, log>>
  BY DEF timer_check_multi_info_cb, Dispatching, HInv, BaseOK
<1>2. curl \in CurlType /\ reqs \in [Reqs -> ReqType]
  BY DEF HInv, HttpTypeOK
<1>3. PICK b \in BOOLEAN :
        b = (curl.misuse \/ \E r \in Done : ~onprogress(http_getpost_complete(reqs[r], ok)))
  OBVIOUS
<1>4. PICK I : I = curl.inflight \ Done
  OBVIOUS
<1>5. curl' = [curl EXCEPT !.due = FALSE, !.inflight = I, !.misuse = b]
  <2>1. curl' = [curl EXCEPT !.due = FALSE, !.inflight = I,
                   !.misuse = @ \/ \E r \in Done :
                                ~onprogress(http_getpost_complete(reqs[r], ok))]
    BY <1>4, Zenon DEF timer_check_multi_info_cb
  <2>2. QED
    BY <1>3, <2>1, Zenon
<1>6. curl' \in CurlType
  <2>1. FALSE \in BOOLEAN /\ I \in SUBSET Reqs
    BY <1>2, <1>4 DEF CurlType
  <2>2. QED
    BY <1>2, <1>5, <2>1, Zenon DEF CurlType
<1>7. /\ curl'.timer = curl.timer /\ curl'.check = curl.check /\ curl'.opened = curl.opened
      /\ curl'.late = curl.late /\ curl'.misuse = b /\ curl'.inflight = I
  BY <1>2, <1>5, Zenon DEF CurlType
<1>8. ASSUME NEW r \in Done
      PROVE  /\ onprogress(http_getpost_complete(reqs[r], ok))
             /\ reqs'[r] \in ReqType /\ Accounted(reqs'[r])
             /\ reqs'[r].st \in {"resume", "unresumed"}
             /\ Reached(reqs'[r], lua, curl.timer, mgr)
  <2>1. /\ r \in Reqs /\ reqs[r].st = "done" /\ reqs[r] \in ReqType /\ Accounted(reqs[r])
        /\ Reached(reqs[r], lua, curl.timer, mgr)
    BY <1>2 DEF HInv, Done
  <2>2. PICK c : c = http_getpost_complete(reqs[r], ok)
    OBVIOUS
  <2>3. reqs'[r] = Freed(c)
    BY <2>1, <2>2 DEF timer_check_multi_info_cb, Freed
  <2>4. /\ onprogress(c) /\ reqs'[r] \in ReqType /\ Accounted(reqs'[r])
        /\ reqs'[r].st \in {"resume", "unresumed"} /\ reqs'[r].gen = reqs[r].gen
        /\ ~reqs'[r].sock
    BY <2>1, <2>2, <2>3, CompletedReq
  <2>5. QED
    BY <1>1, <2>1, <2>2, <2>4 DEF Reached
<1>9. ~b
  BY <1>3, <1>8 DEF HInv
<1>10. \A r \in Reqs \ Done : reqs'[r] = reqs[r]
  BY DEF timer_check_multi_info_cb
<1>11. HttpTypeOK'
  <2>1. \A r \in Reqs : reqs'[r] \in ReqType
    BY <1>2, <1>8, <1>10
  <2>2. reqs' = [r \in Reqs |-> reqs'[r]]
    BY DEF timer_check_multi_info_cb
  <2>3. reqs' \in [Reqs -> ReqType]
    BY <2>1, <2>2
  <2>4. QED
    BY <1>1, <1>6, <2>3 DEF HInv, HttpTypeOK
<1>12. BaseOK(mgr', lua', ev', log', curl'.timer, curl'.check) /\ TimerOK(lua', log', curl')
  BY <1>1, <1>7 DEF HInv, BaseOK, TimerOK
<1>13. \A r \in Reqs : Accounted(reqs'[r]) /\ Reached(reqs'[r], lua', curl'.timer, mgr')
  BY <1>1, <1>7, <1>8, <1>10 DEF HInv
<1>14. \A r \in Reqs : reqs'[r].st = "active" /\ log'.crash = {} => curl'.timer # "none"
  BY <1>1, <1>7, <1>8, <1>10 DEF HInv
<1>15. ASSUME NEW r \in Reqs PROVE r \in curl'.inflight <=> reqs'[r].st \in {"active", "done"}
  <2>1. CASE r \in Done
    BY <1>4, <1>7, <1>8, <2>1
  <2>2. CASE r \notin Done
    BY <1>4, <1>7, <1>10, <2>2 DEF HInv
  <2>3. QED
    BY <2>1, <2>2
<1>16. ~curl'.misuse /\ ~log'.deadResume /\ LiveBases'
  BY <1>1, <1>7, <1>9 DEF HInv, LiveBases
<1>17. QED
  BY <1>11, <1>12, <1>13, <1>14, <1>15, <1>16 DEF HInv

-----------------------------------------------------------------------------
(* Teardown *)

\* The drain leaves no request in flight.
LEMMA DrainedReqs ==
  ASSUME HInv, NEW ds, ds = Drained
  PROVE  /\ ds \in [Reqs -> ReqType]
         /\ \A r \in Reqs : /\ Accounted(ds[r]) /\ ds[r].st \notin {"active", "done"}
                            /\ ds[r].st = "resume" => ds[r] = reqs[r]
         /\ \A r \in curl.inflight : onprogress(Dropped(reqs[r]))
<1>1. curl \in CurlType /\ reqs \in [Reqs -> ReqType] /\ curl.inflight \in SUBSET Reqs
  BY DEF HInv, HttpTypeOK, CurlType
<1>2. ASSUME NEW r \in curl.inflight
      PROVE  /\ onprogress(Dropped(reqs[r])) /\ ds[r] \in ReqType /\ Accounted(ds[r])
             /\ ds[r].st = "dropped"
  <2>1. /\ r \in Reqs /\ reqs[r] \in ReqType /\ Accounted(reqs[r])
        /\ reqs[r].st \in {"active", "done"}
    BY <1>1 DEF HInv
  <2>2. PICK c : c = Dropped(reqs[r])
    OBVIOUS
  <2>3. ds[r] = FreedDropped(c)
    BY <2>1, <2>2 DEF Drained, FreedDropped
  <2>4. onprogress(c) /\ ds[r] \in ReqType /\ Accounted(ds[r]) /\ ds[r].st = "dropped"
    BY <2>1, <2>2, <2>3, DroppedReq
  <2>5. QED
    BY <2>2, <2>4
<1>3. ASSUME NEW r \in Reqs, r \notin curl.inflight
      PROVE  /\ ds[r] = reqs[r] /\ ds[r] \in ReqType /\ Accounted(ds[r])
             /\ ds[r].st \notin {"active", "done"}
  <2>1. ds[r] = reqs[r]
    BY <1>3 DEF Drained
  <2>2. QED
    BY <1>1, <1>3, <2>1 DEF HInv
<1>4. \A r \in Reqs : ds[r] \in ReqType
  BY <1>2, <1>3
<1>5. ds = [r \in Reqs |-> ds[r]]
  BY DEF Drained
<1>6. ds \in [Reqs -> ReqType]
  BY <1>4, <1>5
<1>7. QED
  BY <1>2, <1>3, <1>6

\* Freeing the base leaves no resume timer.
LEMMA LostReqs ==
  ASSUME NEW rs \in [Reqs -> ReqType], \A r \in Reqs : Accounted(rs[r]),
         NEW us, us = Unresumable(rs)
  PROVE  /\ us \in [Reqs -> ReqType]
         /\ \A r \in Reqs : /\ Accounted(us[r]) /\ us[r].st # "resume"
                            /\ us[r] = rs[r] \/ (us[r].st = "lost" /\ rs[r].st = "resume")
<1>1. ASSUME NEW r \in Reqs
      PROVE  /\ us[r] \in ReqType /\ Accounted(us[r]) /\ us[r].st # "resume"
             /\ us[r] = rs[r] \/ (us[r].st = "lost" /\ rs[r].st = "resume")
  <2>1. CASE rs[r].st = "resume"
    <3>1. us[r] = Lost(rs[r])
      BY <2>1 DEF Unresumable, Lost
    <3>2. us[r] \in ReqType /\ Accounted(us[r]) /\ us[r].st = "lost"
      BY <2>1, <3>1, LostReq
    <3>3. QED
      BY <2>1, <3>2
  <2>2. CASE rs[r].st # "resume"
    BY <2>2 DEF Unresumable
  <2>3. QED
    BY <2>1, <2>2
<1>2. us = [r \in Reqs |-> us[r]]
  BY DEF Unresumable
<1>3. us \in [Reqs -> ReqType]
  <2>1. \A r \in Reqs : us[r] \in ReqType
    BY <1>1
  <2>2. QED
    BY <1>2, <2>1
<1>4. QED
  BY <1>1, <1>3

\* cleanup_http_curl leaves neither timers nor requests in flight.
LEMMA CurlCleaned ==
  ASSUME HInv, cleanup_http_curl
  PROVE  /\ curl' \in CurlType /\ curl'.timer = "none" /\ curl'.check = "none"
         /\ curl'.inflight = {} /\ curl'.opened = curl.opened /\ curl'.late = curl.late
         /\ ~curl'.misuse
<1>1. curl \in CurlType /\ ~curl.misuse
  BY DEF HInv, HttpTypeOK
<1>2. PICK b \in BOOLEAN :
        b = (curl.misuse \/ \E r \in curl.inflight : ~onprogress(Dropped(reqs[r])))
  OBVIOUS
<1>3. ~b
  <2>1. PICK ds : ds = Drained
    OBVIOUS
  <2>2. \A r \in curl.inflight : onprogress(Dropped(reqs[r]))
    BY <2>1, DrainedReqs
  <2>3. QED
    BY <1>1, <1>2, <2>2
<1>4. curl' = [curl EXCEPT !.multi = FALSE, !.timer = "none", !.armed = FALSE,
                           !.check = "none", !.due = FALSE, !.inflight = {}, !.misuse = b]
  BY <1>2, Zenon DEF cleanup_http_curl
<1>5. FALSE \in BOOLEAN /\ "none" \in Where /\ {} \in SUBSET Reqs
  BY DEF Where
<1>6. curl' \in CurlType
  BY <1>1, <1>4, <1>5, Zenon DEF CurlType
<1>7. /\ curl'.timer = "none" /\ curl'.check = "none" /\ curl'.inflight = {}
      /\ curl'.opened = curl.opened /\ curl'.late = curl.late /\ curl'.misuse = b
  BY <1>1, <1>4, Zenon DEF CurlType
<1>8. QED
  BY <1>3, <1>6, <1>7

\* The state after a drain.
LEMMA DrainedStep ==
  ASSUME HInv, mgr' \in MgrType, lua' \in LuaType, ev' \in EvType, log' \in LogType,
         cleanup_http_curl, reqs' \in [Reqs -> ReqType],
         \A r \in Reqs : /\ Accounted(reqs'[r]) /\ reqs'[r].st \notin {"active", "done"}
                         /\ reqs'[r].st = "resume" => reqs'[r].gen = lua'.gen /\ mgr'.base,
         BaseOK(mgr', lua', ev', log', "none", "none"),
         lua'.pc \in {"script", "closed"}, log'.ended, ~log'.deadResume, LiveBases'
  PROVE  HInv'
<1>1. /\ curl' \in CurlType /\ curl'.timer = "none" /\ curl'.check = "none"
      /\ curl'.inflight = {} /\ curl'.opened = curl.opened /\ curl'.late = curl.late
      /\ ~curl'.misuse
  BY CurlCleaned
<1>2. HttpTypeOK'
  BY <1>1 DEF HttpTypeOK
<1>3. BaseOK(mgr', lua', ev', log', curl'.timer, curl'.check)
  BY <1>1
<1>4. TimerOK(lua', log', curl')
  BY <1>1 DEF TimerOK
<1>5. \A r \in Reqs : Reached(reqs'[r], lua', curl'.timer, mgr')
  BY DEF Reached, Accounted
<1>6. /\ \A r \in Reqs : reqs'[r].st = "active" /\ log'.crash = {} => curl'.timer # "none"
      /\ \A r \in Reqs : r \in curl'.inflight <=> reqs'[r].st \in {"active", "done"}
  BY <1>1
<1>7. QED
  BY <1>1, <1>2, <1>3, <1>4, <1>5, <1>6 DEF HInv

\* Freeing the signal events and dnsbase of an initialised manager.
LEMMA SignalsFreed ==
  ASSUME HInv, mgr.inited,
         NEW C, C = Broken({<<"signals", mgr.sigs>>} \cup Present("dns", mgr.dns))
  PROVE  /\ C \in SUBSET {"signals", "dns"} /\ C \in SUBSET Objects
         /\ C # {} => log.leftover
<1>1. "signals" \in Objects /\ "dns" \in Objects
  BY DEF Objects
<1>2. C = Broken({<<"signals", mgr.sigs>>}) \cup Broken(Present("dns", mgr.dns))
  BY BrokenTwo
<1>3. /\ Broken({<<"signals", mgr.sigs>>}) \in SUBSET {"signals"}
      /\ mgr.sigs = "live" => Broken({<<"signals", mgr.sigs>>}) = {}
  BY <1>1, BrokenOne
<1>4. /\ Broken(Present("dns", mgr.dns)) \in SUBSET {"dns"}
      /\ mgr.dns \in {"none", "live"} => Broken(Present("dns", mgr.dns)) = {}
  BY <1>1, BrokenOne
<1>5. mgr.dns \in {"none", "live"} \/ log.leftover
  BY DEF HInv, HttpTypeOK, MgrType, Where, BaseOK
<1>6. mgr.sigs = "live" \/ log.leftover
  BY DEF HInv, BaseOK
<1>7. QED
  BY <1>1, <1>2, <1>3, <1>4, <1>5, <1>6

\* The default DNS handle is orphaned.
LEMMA OrphanedEv ==
  ASSUME NEW e \in EvType, NEW o, o = Orphaned(e)
  PROVE  /\ o \in EvType /\ o.main = e.main /\ o.conn = e.conn /\ o.custom = e.custom
         /\ e.custom => o.evdns = e.evdns
<1>1. CASE e.evdns = "live" /\ ~e.custom
  <2>1. o = [e EXCEPT !.evdns = "stale"] /\ "stale" \in Where
    BY <1>1 DEF Orphaned, Where
  <2>2. o \in EvType
    BY <2>1, Zenon DEF EvType
  <2>3. o.main = e.main /\ o.conn = e.conn /\ o.custom = e.custom
    BY <2>1, Zenon DEF EvType
  <2>4. QED
    BY <1>1, <2>2, <2>3
<1>2. CASE ~(e.evdns = "live" /\ ~e.custom)
  BY <1>2 DEF Orphaned
<1>3. QED
  BY <1>1, <1>2

\* The end of the loop.
LEMMA LoopEndsInv ==
  ASSUME HInv, HttpLoopEnds
  PROVE  HInv'
<1>1. lua.pc = "loop" /\ log.crash = {} /\ mgr.inited
  BY DEF HttpLoopEnds, LoopEnds, HInv, BaseOK
<1>2. mgr \in MgrType /\ lua \in LuaType /\ ev \in EvType /\ log \in LogType
  BY DEF HInv, HttpTypeOK
<1>3. FALSE \in BOOLEAN /\ TRUE \in BOOLEAN /\ "none" \in Where
  BY DEF Where
<1>4. PICK m : m = [mgr EXCEPT !.sigs = "none", !.dns = "none", !.threads = FALSE,
                               !.looping = FALSE, !.inited = FALSE]
  OBVIOUS
<1>5. m \in MgrType
  BY <1>2, <1>3, <1>4, Zenon DEF MgrType
<1>6. m.dns = "none" /\ m.inited = FALSE /\ m.base = mgr.base
  BY <1>2, <1>4, Zenon DEF MgrType
<1>7. PICK l : l = [lua EXCEPT !.pc = "script"]
  OBVIOUS
<1>8. l \in LuaType /\ l.pc = "script" /\ l.gen = lua.gen
  BY <1>2, <1>7 DEF LuaType
<1>9. PICK e : e = Orphaned(ev)
  OBVIOUS
<1>10. /\ e \in EvType /\ e.main = ev.main /\ e.conn = ev.conn /\ e.custom = ev.custom
       /\ ev.custom => e.evdns = ev.evdns
  BY <1>2, <1>9, OrphanedEv
<1>11. PICK C : C = Broken({<<"signals", mgr.sigs>>} \cup Present("dns", mgr.dns))
  OBVIOUS
<1>12. /\ C \in SUBSET {"signals", "dns"} /\ C \in SUBSET Objects
       /\ C # {} => log.leftover
  BY <1>1, <1>11, SignalsFreed
<1>13. PICK g : g = [log EXCEPT !.crash = C, !.ended = TRUE]
  OBVIOUS
<1>14. g \in LogType
  BY <1>2, <1>3, <1>12, <1>13, Zenon DEF LogType
<1>15. g.crash = C /\ g.ended = TRUE /\ g.leftover = log.leftover /\ g.deadResume = log.deadResume
  BY <1>2, <1>13, Zenon DEF LogType
<1>16. mgr' = m /\ lua' = l /\ ev' = e /\ log' = g
  BY <1>4, <1>7, <1>9, <1>11, <1>13 DEF HttpLoopEnds, LoopEnds
<1>17. reqs' = Drained /\ cleanup_http_curl
  BY DEF HttpLoopEnds
<1>18. /\ reqs' \in [Reqs -> ReqType]
       /\ \A r \in Reqs : /\ Accounted(reqs'[r]) /\ reqs'[r].st \notin {"active", "done"}
                          /\ reqs'[r].st = "resume" => reqs'[r] = reqs[r]
  BY <1>17, DrainedReqs
<1>19. \A r \in Reqs : reqs'[r].st = "resume" => reqs'[r].gen = l.gen /\ m.base
  BY <1>6, <1>8, <1>18 DEF HInv, Reached
<1>20. BaseOK(m, l, e, g, "none", "none")
  BY <1>6, <1>8, <1>10, <1>15 DEF HInv, BaseOK
<1>21. LiveBases'
  BY <1>12, <1>15, <1>16 DEF LiveBases
<1>22. ~g.deadResume /\ g.ended
  BY <1>15 DEF HInv
<1>23. QED
  BY <1>5, <1>8, <1>10, <1>14, <1>16, <1>17, <1>18, <1>19, <1>20, <1>21, <1>22, DrainedStep

\* Freeing the base: what was registered with it is stale.
LEMMA FreedBaseEv ==
  ASSUME NEW o \in EvType, NEW e, e = FreedBase(o)
  PROVE  /\ e \in EvType /\ e.conn = o.conn /\ e.custom = o.custom
         /\ e.main = "stale" => o.main # "none"
<1>1. PICK x \in Where : x = Staled(o.main)
  BY DEF Staled, EvType, Where
<1>2. PICK y \in Where : y = Staled(o.evdns)
  BY DEF Staled, EvType, Where
<1>3. e = [o EXCEPT !.main = x, !.sleep = "none", !.evdns = y] /\ "none" \in Where
  BY <1>1, <1>2 DEF FreedBase, Where
<1>4. e \in EvType
  BY <1>1, <1>2, <1>3, Zenon DEF EvType
<1>5. e.conn = o.conn /\ e.custom = o.custom /\ e.main = x
  BY <1>3, Zenon DEF EvType
<1>6. QED
  BY <1>1, <1>4, <1>5 DEF Staled

\* event_mgr_cleanup drains and frees the base under what is left.
LEMMA CleanupInv ==
  ASSUME HInv, HttpCleanup
  PROVE  HInv'
<1>1. /\ lua.pc = "script" /\ log.crash = {} /\ mgr.inited
      /\ ev.conn = "none" /\ ~ev.custom
  BY DEF HttpCleanup, event_mgr_cleanup
<1>2. mgr \in MgrType /\ lua \in LuaType /\ ev \in EvType /\ log \in LogType
  BY DEF HInv, HttpTypeOK
<1>3. FALSE \in BOOLEAN /\ TRUE \in BOOLEAN /\ "none" \in Where
  BY DEF Where
<1>4. PICK m : m = [mgr EXCEPT !.base = FALSE, !.sigs = "none", !.dns = "none",
                               !.threads = FALSE, !.wbases = FALSE, !.inited = FALSE,
                               !.looping = FALSE]
  OBVIOUS
<1>5. m \in MgrType
  BY <1>2, <1>3, <1>4, Zenon DEF MgrType
<1>6. m.dns = "none" /\ m.inited = FALSE
  BY <1>2, <1>4, Zenon DEF MgrType
<1>7. PICK o : o = Orphaned(ev)
  OBVIOUS
<1>8. o \in EvType /\ o.main = ev.main /\ o.conn = ev.conn /\ o.custom = ev.custom
  BY <1>2, <1>7, OrphanedEv
<1>9. PICK e : e = FreedBase(o)
  OBVIOUS
<1>10. /\ e \in EvType /\ e.conn = o.conn /\ e.custom = o.custom
       /\ e.main = "stale" => o.main # "none"
  BY <1>8, <1>9, FreedBaseEv
<1>11. PICK C : C = Broken({<<"signals", mgr.sigs>>} \cup Present("dns", mgr.dns))
  OBVIOUS
<1>12. /\ C \in SUBSET {"signals", "dns"} /\ C \in SUBSET Objects
       /\ C # {} => log.leftover
  BY <1>1, <1>11, SignalsFreed
<1>13. PICK b \in BOOLEAN : b = (log.leftover \/ ev.main # "none")
  OBVIOUS
<1>14. PICK g : g = [log EXCEPT !.crash = C, !.leftover = b, !.ended = TRUE]
  OBVIOUS
<1>15. g \in LogType
  BY <1>2, <1>3, <1>12, <1>13, <1>14, Zenon DEF LogType
<1>16. g.crash = C /\ g.ended = TRUE /\ g.leftover = b /\ g.deadResume = log.deadResume
  BY <1>2, <1>14, Zenon DEF LogType
<1>17. mgr' = m /\ lua' = lua /\ ev' = e
  BY <1>4, <1>7, <1>9 DEF HttpCleanup, event_mgr_cleanup
<1>18. log' = g
  BY <1>11, <1>13, <1>14, Zenon DEF HttpCleanup, event_mgr_cleanup
<1>19. PICK ds : ds = Drained
  OBVIOUS
<1>20. reqs' = Unresumable(ds) /\ cleanup_http_curl
  BY <1>19 DEF HttpCleanup
<1>21. /\ ds \in [Reqs -> ReqType]
       /\ \A r \in Reqs : Accounted(ds[r]) /\ ds[r].st \notin {"active", "done"}
  BY <1>19, DrainedReqs
<1>22. /\ reqs' \in [Reqs -> ReqType]
       /\ \A r \in Reqs : /\ Accounted(reqs'[r]) /\ reqs'[r].st # "resume"
                          /\ reqs'[r] = ds[r] \/ (reqs'[r].st = "lost" /\ ds[r].st = "resume")
  BY <1>20, <1>21, LostReqs
<1>23. \A r \in Reqs : reqs'[r].st \notin {"active", "done", "resume"}
  BY <1>21, <1>22
<1>24. BaseOK(m, lua, e, g, "none", "none")
  BY <1>1, <1>6, <1>8, <1>10, <1>13, <1>16 DEF BaseOK
<1>25. LiveBases'
  BY <1>12, <1>13, <1>16, <1>18 DEF LiveBases
<1>26. ~g.deadResume /\ g.ended
  BY <1>16 DEF HInv
<1>27. QED
  BY <1>1, <1>2, <1>5, <1>10, <1>15, <1>17, <1>18, <1>20, <1>22, <1>23, <1>24, <1>25,
     <1>26, DrainedStep

\* lua_close: every finaliser finds its base.
LEMMA LuaCloseInv ==
  ASSUME HInv, HttpLuaClose
  PROVE  HInv'
<1>1. lua.pc = "script" /\ log.crash = {} /\ lua.loops > 0
  BY DEF HttpLuaClose, lua_close
<1>2. mgr \in MgrType /\ lua \in LuaType /\ ev \in EvType /\ log \in LogType
  BY DEF HInv, HttpTypeOK
<1>3. FALSE \in BOOLEAN /\ "none" \in Where
  BY DEF Where
<1>4. PICK l : l = [lua EXCEPT !.pc = "closed"]
  OBVIOUS
<1>5. l \in LuaType /\ l.pc = "closed" /\ l.gen = lua.gen /\ l.loops = lua.loops
  BY <1>2, <1>4 DEF LuaType
<1>6. PICK e : e = [ev EXCEPT !.conn = "none", !.evdns = "none", !.custom = FALSE]
  OBVIOUS
<1>7. e \in EvType
  BY <1>2, <1>3, <1>6, Zenon DEF EvType
<1>8. e.conn = "none" /\ e.custom = FALSE /\ e.main = ev.main
  BY <1>2, <1>6, Zenon DEF EvType
<1>9. PICK C : C = Broken(Present("finaliser", ev.conn) \cup
                 (IF ev.custom THEN {<<"finaliser", ev.evdns>>} ELSE {}))
  OBVIOUS
<1>10. C = {}
  <2>1. "finaliser" \in Objects /\ ev.conn \in {"none", "live"} /\ (ev.custom => ev.evdns = "live")
    BY <1>2 DEF Objects, HInv, BaseOK, EvType, Where
  <2>2. Broken(Present("finaliser", ev.conn)) = {}
    BY <2>1, BrokenOne
  <2>3. Broken(IF ev.custom THEN {<<"finaliser", ev.evdns>>} ELSE {}) = {}
    BY <2>1, BrokenOne DEF Broken
  <2>4. QED
    BY <1>9, <2>2, <2>3, BrokenTwo
<1>11. log' = [log EXCEPT !.crash = C] /\ mgr' = mgr /\ lua' = l /\ ev' = e
       /\ curl' = curl /\ reqs' = reqs
  BY <1>4, <1>6, <1>9 DEF HttpLuaClose, lua_close
<1>12. log' = log
  BY <1>1, <1>2, <1>10, <1>11 DEF LogType
<1>13. HttpTypeOK'
  BY <1>5, <1>7, <1>11, <1>12 DEF HInv, HttpTypeOK
<1>14. BaseOK(mgr, l, e, log, curl.timer, curl.check)
  BY <1>5, <1>8 DEF HInv, BaseOK
<1>15. TimerOK(l, log, curl)
  BY <1>1, <1>5 DEF HInv, TimerOK
<1>16. \A r \in Reqs : Reached(reqs[r], l, curl.timer, mgr)
  BY <1>1, <1>5 DEF HInv, Reached
<1>17. LiveBases'
  BY <1>1, <1>12 DEF LiveBases
<1>18. QED
  BY <1>11, <1>12, <1>13, <1>14, <1>15, <1>16, <1>17 DEF HInv

\* event_mgr_loop_cleanup frees the base and leaves the statics.
LEMMA LoopCleanupInv ==
  ASSUME HInv, HttpLoopCleanup
  PROVE  HInv'
<1>1. lua.pc = "closed" /\ log.crash = {} /\ mgr.base /\ ~ev.custom /\ log.ended
  BY DEF HttpLoopCleanup, event_mgr_loop_cleanup, HInv, BaseOK, TimerOK
<1>2. /\ mgr \in MgrType /\ lua \in LuaType /\ ev \in EvType /\ log \in LogType
      /\ curl \in CurlType /\ reqs \in [Reqs -> ReqType]
  BY DEF HInv, HttpTypeOK
<1>3. FALSE \in BOOLEAN
  OBVIOUS
<1>4. PICK d \in Where : d = Staled(mgr.dns)
  BY <1>2 DEF Staled, MgrType, Where
<1>5. PICK s \in Where : s = Staled(mgr.sigs)
  BY <1>2 DEF Staled, MgrType, Where
<1>6. mgr' = [mgr EXCEPT !.base = FALSE, !.wbases = FALSE, !.dns = d, !.sigs = s]
  BY <1>4, <1>5 DEF HttpLoopCleanup, event_mgr_loop_cleanup
<1>7. mgr' \in MgrType
  BY <1>2, <1>3, <1>4, <1>5, <1>6, Zenon DEF MgrType
<1>8. mgr'.inited = mgr.inited /\ mgr'.dns = d
  BY <1>2, <1>6, Zenon DEF MgrType
<1>9. ev' = FreedBase(ev)
  BY DEF HttpLoopCleanup, event_mgr_loop_cleanup
<1>10. /\ ev' \in EvType /\ ev'.conn = ev.conn /\ ev'.custom = ev.custom
       /\ ev'.main = "stale" => ev.main # "none"
  BY <1>2, <1>9, FreedBaseEv
<1>11. PICK b \in BOOLEAN : b = (log.leftover \/ mgr.inited \/ ev.main # "none")
  OBVIOUS
<1>12. log' = [log EXCEPT !.leftover = b]
  BY <1>11, Zenon DEF HttpLoopCleanup, event_mgr_loop_cleanup
<1>13. log' \in LogType
  BY <1>2, <1>11, <1>12, Zenon DEF LogType
<1>14. /\ log'.crash = log.crash /\ log'.ended = log.ended /\ log'.leftover = b
       /\ log'.deadResume = log.deadResume
  BY <1>2, <1>12, Zenon DEF LogType
<1>15. PICK x \in Where : x = Staled(curl.timer)
  BY <1>2 DEF Staled, CurlType, Where
<1>16. PICK y \in Where : y = Staled(curl.check)
  BY <1>2 DEF Staled, CurlType, Where
<1>17. curl' = [curl EXCEPT !.timer = x, !.check = y, !.armed = FALSE, !.due = FALSE]
  BY <1>15, <1>16 DEF HttpLoopCleanup
<1>18. curl' \in CurlType
  BY <1>2, <1>3, <1>15, <1>16, <1>17, Zenon DEF CurlType
<1>19. /\ curl'.timer = x /\ curl'.check = y /\ curl'.late = curl.late
       /\ curl'.inflight = curl.inflight /\ curl'.misuse = curl.misuse
  BY <1>2, <1>17, Zenon DEF CurlType
<1>20. /\ x # "live" /\ y # "live"
       /\ x = "stale" => curl.late
       /\ x = "none" => curl.timer = "none"
  BY <1>1, <1>2, <1>15, <1>16 DEF Staled, HInv, TimerOK, CurlType, Where
<1>21. reqs' = Unresumable(reqs) /\ lua' = lua
  BY DEF HttpLoopCleanup, event_mgr_loop_cleanup
<1>22. /\ reqs' \in [Reqs -> ReqType]
       /\ \A r \in Reqs : /\ Accounted(reqs'[r]) /\ reqs'[r].st # "resume"
                          /\ reqs'[r] = reqs[r] \/ (reqs'[r].st = "lost" /\ reqs[r].st = "resume")
  <2>1. \A r \in Reqs : Accounted(reqs[r])
    BY DEF HInv
  <2>2. QED
    BY <1>2, <1>21, <2>1, LostReqs
<1>23. HttpTypeOK'
  BY <1>2, <1>7, <1>10, <1>13, <1>18, <1>21, <1>22 DEF HttpTypeOK
<1>24. BaseOK(mgr', lua', ev', log', curl'.timer, curl'.check)
  <2>1. mgr'.inited => log'.leftover
    BY <1>8, <1>11, <1>14
  <2>2. d # "live" /\ (d = "stale" => log'.leftover)
    BY <1>4, <1>11, <1>14 DEF Staled, HInv, BaseOK
  <2>3. ev'.main = "stale" => log'.leftover
    BY <1>10, <1>11, <1>14
  <2>4. ev'.conn # "stale" /\ ~ev'.custom
    BY <1>1, <1>10 DEF HInv, BaseOK
  <2>5. QED
    BY <1>1, <1>8, <1>19, <1>20, <1>21, <2>1, <2>2, <2>3, <2>4 DEF BaseOK
<1>25. TimerOK(lua', log', curl')
  BY <1>1, <1>14, <1>19, <1>20, <1>21 DEF TimerOK
<1>26. \A r \in Reqs : Reached(reqs'[r], lua', curl'.timer, mgr')
  <2>1. SUFFICES ASSUME NEW r \in Reqs
                 PROVE  Reached(reqs'[r], lua, x, mgr')
    BY <1>19, <1>21
  <2>2. Reached(reqs[r], lua, curl.timer, mgr) /\ Accounted(reqs'[r])
    BY <1>22 DEF HInv
  <2>3. CASE reqs'[r] = reqs[r]
    BY <1>1, <1>20, <1>22, <2>2, <2>3 DEF Reached
  <2>4. CASE reqs'[r].st = "lost"
    BY <2>2, <2>4 DEF Reached, Accounted
  <2>5. QED
    BY <1>22, <2>3, <2>4
<1>27. \A r \in Reqs : reqs'[r].st = "active" /\ log'.crash = {} => curl'.timer # "none"
  BY <1>1, <1>19, <1>20, <1>22 DEF HInv
<1>28. \A r \in Reqs : r \in curl'.inflight <=> reqs'[r].st \in {"active", "done"}
  BY <1>19, <1>22 DEF HInv
<1>29. LiveBases'
  BY <1>1, <1>14 DEF LiveBases
<1>30. ~curl'.misuse /\ ~log'.deadResume
  BY <1>14, <1>19 DEF HInv
<1>31. QED
  BY <1>22, <1>23, <1>24, <1>25, <1>26, <1>27, <1>28, <1>29, <1>30 DEF HInv

\* A new Lua state starts without a base.
LEMMA NewStateInv ==
  ASSUME HInv, HttpNewState
  PROVE  HInv'
<1>1. lua.pc = "closed" /\ log.crash = {} /\ ~mgr.base
  BY DEF HttpNewState, luaL_newstate
<1>2. lua \in LuaType /\ log \in LogType /\ curl \in CurlType
  BY DEF HInv, HttpTypeOK
<1>3. PICK k \in Nat : k = lua.gen + 1
  BY <1>2 DEF LuaType
<1>4. lua' = [pc |-> "script", gen |-> k, loops |-> 0]
  BY <1>3 DEF HttpNewState, luaL_newstate
<1>5. lua' \in LuaType /\ lua'.pc = "script" /\ lua'.loops = 0
  BY <1>4 DEF LuaType
<1>6. log' = [log EXCEPT !.ended = FALSE]
  BY DEF HttpNewState, luaL_newstate
<1>7. /\ log' \in LogType /\ log'.crash = log.crash /\ log'.leftover = log.leftover
      /\ log'.deadResume = log.deadResume /\ log'.ended = FALSE
  BY <1>2, <1>6, Zenon DEF LogType
<1>8. curl' = [curl EXCEPT !.opened = FALSE]
  BY DEF HttpNewState
<1>9. curl' \in CurlType
  BY <1>2, <1>8, Zenon DEF CurlType
<1>10. /\ curl'.timer = curl.timer /\ curl'.check = curl.check /\ curl'.late = curl.late
       /\ curl'.inflight = curl.inflight /\ curl'.misuse = curl.misuse /\ curl'.opened = FALSE
  BY <1>2, <1>8, Zenon DEF CurlType
<1>11. UNCHANGED <<mgr, ev, reqs>>
  BY DEF HttpNewState, luaL_newstate
<1>12. curl.timer # "live" /\ curl.check # "live"
  BY <1>1 DEF HInv, BaseOK
<1>13. HttpTypeOK'
  BY <1>5, <1>7, <1>9, <1>11 DEF HInv, HttpTypeOK
<1>14. BaseOK(mgr, lua', ev, log', curl.timer, curl.check)
  BY <1>5, <1>7 DEF HInv, BaseOK
<1>15. TimerOK(lua', log', curl')
  <2>1. curl.timer = "stale" => curl.late
    BY DEF HInv, TimerOK
  <2>2. QED
    BY <1>5, <1>7, <1>10, <1>12, <2>1 DEF TimerOK
<1>16. \A r \in Reqs : Reached(reqs[r], lua', curl.timer, mgr)
  BY <1>1, <1>12 DEF HInv, Reached
<1>17. LiveBases'
  BY <1>1, <1>7 DEF LiveBases
<1>18. QED
  BY <1>7, <1>10, <1>11, <1>13, <1>14, <1>15, <1>16, <1>17 DEF HInv

-----------------------------------------------------------------------------
(* The specification *)

\* Before the program runs there is no base, no timer and no request.
LEMMA ClientInitInv ==
  ASSUME ClientInit
  PROVE  HInv
<1>1. "none" \in Where /\ {} \in SUBSET Objects /\ {} \in SUBSET Reqs /\ "none" \in ReqStates
  BY DEF Where, ReqStates
<1>2. mgr \in MgrType
  BY <1>1 DEF ClientInit, MgrInit, MgrType
<1>3. lua \in LuaType
  BY DEF ClientInit, MgrInit, LuaType
<1>4. ev \in EvType
  BY <1>1 DEF ClientInit, MgrInit, EvType
<1>5. log \in LogType
  BY <1>1 DEF ClientInit, MgrInit, LogType
<1>6. curl \in CurlType
  BY <1>1 DEF ClientInit, HttpInit, CurlType
<1>7. reqs \in [Reqs -> ReqType]
  BY <1>1 DEF ClientInit, HttpInit, ReqType
<1>8. BaseOK(mgr, lua, ev, log, curl.timer, curl.check)
  BY DEF ClientInit, MgrInit, HttpInit, BaseOK
<1>9. TimerOK(lua, log, curl)
  <2>1. curl.timer = "none" /\ ~curl.opened
    BY DEF ClientInit, HttpInit
  <2>2. lua.pc = "script" /\ lua.loops = 0
    BY DEF ClientInit, MgrInit
  <2>3. QED
    BY <2>1, <2>2 DEF TimerOK
<1>10. \A r \in Reqs : /\ reqs[r].st = "none" /\ reqs[r].completed = FALSE
                       /\ reqs[r].sock = FALSE /\ reqs[r].answers = 0
  BY DEF ClientInit, HttpInit
<1>11. \A r \in Reqs : Accounted(reqs[r]) /\ Reached(reqs[r], lua, curl.timer, mgr)
  BY <1>10 DEF Accounted, Reached, Over
<1>12. curl.inflight = {} /\ curl.misuse = FALSE /\ log.deadResume = FALSE /\ log.crash = {}
  BY DEF ClientInit, MgrInit, HttpInit
<1>13. QED
  BY <1>2, <1>3, <1>4, <1>5, <1>6, <1>7, <1>8, <1>9, <1>10, <1>11, <1>12
     DEF HInv, HttpTypeOK, LiveBases

\* Every step of the event manager's own keeps the invariant.
LEMMA ManagerInv ==
  ASSUME HInv, Manager, UNCHANGED <<curl, reqs>>
  PROVE  HInv'
<1>1. CASE main_handler
  BY <1>1, MainHandlerInv
<1>2. CASE event_mgr_break
  BY <1>2, BreakInv
<1>3. CASE luafan_sleep
  BY <1>3, SleepInv
<1>4. CASE clock_handler
  BY <1>4, ClockHandlerInv
<1>5. CASE \E b \in BOOLEAN : luafan_start(b) \/ evdns_create(b)
  BY <1>5, StartInv, DnsCreateInv
<1>6. CASE evdns_get_base
  BY <1>6, DnsGetBaseInv
<1>7. CASE evdns_gc
  BY <1>7, DnsGcInv
<1>8. CASE event_mgr_workers_init
  BY <1>8, WorkersInitInv
<1>9. CASE event_mgr_worker_base
  BY <1>9, WorkerBaseInv
<1>10. CASE worker_thread_func
  BY <1>10, WorkerThreadInv
<1>11. QED
  BY <1>1, <1>2, <1>3, <1>4, <1>5, <1>6, <1>7, <1>8, <1>9, <1>10 DEF Manager

\* Every step keeps the invariant.
LEMMA ClientNextInv ==
  ASSUME HInv, [ClientNext]_hvars
  PROVE  HInv'
<1>1. CASE Manager /\ UNCHANGED <<curl, reqs>>
  BY <1>1, ManagerInv
<1>2. CASE HttpLoopEnds
  BY <1>2, LoopEndsInv
<1>3. CASE HttpLuaClose
  BY <1>3, LuaCloseInv
<1>4. CASE HttpLoopCleanup
  BY <1>4, LoopCleanupInv
<1>5. CASE HttpCleanup
  BY <1>5, CleanupInv
<1>6. CASE HttpNewState
  BY <1>6, NewStateInv
<1>7. CASE luaopen_fan_http_core
  BY <1>7, OpenInv
<1>8. CASE CurlStep
  BY <1>8, CurlInv
<1>9. CASE \E ok \in Malloc : timer_check_multi_info_cb(ok)
  <2>1. Malloc \subseteq BOOLEAN
    BY HttpClientAssumption
  <2>2. PICK ok \in BOOLEAN : timer_check_multi_info_cb(ok)
    BY <1>9, <2>1
  <2>3. QED
    BY <2>2, CheckInv
<1>10. CASE \E r \in Reqs : http_get(r) \/ resume_cb(r)
  BY <1>10, GetInv, ResumeInv
<1>11. CASE UNCHANGED hvars
  <2>1. UNCHANGED <<mgr, lua, ev, log, curl, reqs>>
    BY <1>11 DEF hvars
  <2>2. QED
    BY <2>1 DEF HInv, HttpTypeOK, LiveBases
<1>12. QED
  BY <1>1, <1>2, <1>3, <1>4, <1>5, <1>6, <1>7, <1>8, <1>9, <1>10, <1>11 DEF ClientNext

\* The invariant holds in every state.
LEMMA ClientInvariant == ClientSpec => []HInv
<1>1. ClientInit => HInv
  BY ClientInitInv
<1>2. HInv /\ [ClientNext]_hvars => HInv'
  BY ClientNextInv
<1>3. QED
  BY <1>1, <1>2, PTL DEF ClientSpec

\* No callback of curl finds a reference released or its ConnInfo freed, the
\* list of http.c's requests in flight is curl's, and a request that is over
\* has given back what it held (http_getpost, http_getpost_complete,
\* cleanup_http_curl).
THEOREM RequestsAccounted == ClientSpec => []RefsAccounted
<1>1. HInv => RefsAccounted
  <2>1. SUFFICES ASSUME HInv PROVE RefsAccounted
    OBVIOUS
  <2>2. curl.inflight \in SUBSET Reqs
    BY <2>1 DEF HInv, HttpTypeOK, CurlType
  <2>3. curl.inflight = Active \cup Done
    BY <2>1, <2>2 DEF HInv, Active, Done
  <2>4. ASSUME NEW r \in Reqs
        PROVE  /\ r \in curl.inflight => reqs[r].mem /\ ~reqs[r].completed
               /\ reqs[r].st \in Over => reqs[r].refs \subseteq {"body"}
               /\ reqs[r].st \in Over \ {"failed"} => reqs[r].refs = {} /\ reqs[r].lists = {}
    <3>1. /\ Accounted(reqs[r])
          /\ r \in curl.inflight => reqs[r].st \in {"active", "done"}
      BY <2>1 DEF HInv
    <3>2. QED
      BY <3>1 DEF Accounted
  <2>5. QED
    BY <2>1, <2>3, <2>4 DEF HInv, RefsAccounted
<1>2. QED
  BY <1>1, ClientInvariant, PTL

\* A caller is resumed at most once, never for a request that was refused or
\* dropped, and never by a resume timer of a closed Lua state (resume_cb).
THEOREM CallersAnsweredOnce == ClientSpec => []AnsweredOnce
<1>1. HInv => AnsweredOnce
  BY DEF HInv, AnsweredOnce, Accounted
<1>2. QED
  BY <1>1, ClientInvariant, PTL

\* No step uses an object whose base is gone, except through a static that a
\* teardown left behind (event_mgr_loop_cleanup, event_mgr_loop).
THEOREM BasesLive == ClientSpec => []LiveBases
<1>1. HInv => LiveBases
  BY DEF HInv
<1>2. QED
  BY <1>1, ClientInvariant, PTL
=============================================================================
