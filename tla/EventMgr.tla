------------------------------ MODULE EventMgr ------------------------------
(***************************************************************************)
(* The event manager (event_mgr.c), fan.loop and fan.sleep (luafan.c) and  *)
(* the DNS handles (evdns.c): statics that outlive a run of the loop, and  *)
(* even the Lua state, while libevent's base comes and goes beneath them.  *)
(*                                                                         *)
(* Everything here runs on the main thread: a Lua call, an event's         *)
(* callback, the end of the loop and the embedder's calls are one step     *)
(* each.  What is registered with a base is "none", "live" (its base       *)
(* exists) or "stale" (its base was freed under it).  Touching a stale     *)
(* object, or a missing one, is a crash: the program stops, and log.crash  *)
(* names the object.                                                       *)
(***************************************************************************)
EXTENDS Naturals, FiniteSets

CONSTANTS
  MaxLoops,    \* bound on the runs of the loop in one Lua state
  MaxStates,   \* bound on the Lua states the embedder opens, one after another
  Programs     \* the programs looked at: what each of them uses, and whether
               \* evdns_base_new finds a network

Features == {"startup", "sleep", "evdns", "workers", "cleanup"}

ASSUME EventMgrAssumption ==
  /\ MaxLoops \in Nat /\ MaxStates \in Nat \ {0}
  /\ \A p \in Programs : p.uses \subseteq Features /\ p.dnsOk \in BOOLEAN

VARIABLES
  prog,   \* the program that runs
  mgr,    \* event_mgr.c's statics: base, dnsbase, signal events, flags, workers
  lua,    \* where the Lua program is
  ev,     \* events and objects of this file's users that sit on a base
  log     \* ghost: crashes and what led to them

MgrInit ==
  /\ prog \in Programs
  /\ mgr = [base |-> FALSE, dns |-> "none", sigs |-> "none", inited |-> FALSE,
            looping |-> FALSE, broke |-> FALSE, threads |-> FALSE, wbases |-> FALSE]
  /\ lua = [pc |-> "script", gen |-> 1, loops |-> 0]
  /\ ev = [main |-> "none", sleep |-> "none", evdns |-> "none", custom |-> FALSE,
           conn |-> "none", served |-> FALSE]
  /\ log = [crash |-> {}, leftover |-> FALSE, ended |-> FALSE, deadResume |-> FALSE]

\* Lua runs: the main chunk, or a callback of the loop.
LuaRuns == lua.pc \in {"script", "loop"} /\ log.crash = {}
Dispatching == lua.pc = "loop" /\ ~mgr.broke /\ log.crash = {}

\* Of the objects S that a step uses, each given with where it is, the ones
\* whose use is a crash.
Broken(S) == {x[1] : x \in {y \in S : y[2] # "live"}}
Present(name, w) == IF w = "none" THEN {} ELSE {<<name, w>>}
BaseOf(m) == {<<"base", IF m.base THEN "live" ELSE "none">>}

\* event_mgr_base: a base when there is none, and event_mgr_init's work when
\* it was not done: dnsbase and the signal events go on that base.
Based(m) ==
  IF m.inited THEN [m EXCEPT !.base = TRUE]
  ELSE [m EXCEPT !.base = TRUE, !.inited = TRUE, !.sigs = "live",
                 !.dns = IF prog.dnsOk THEN "live" ELSE "none"]

\* event_mgr_init on its own: an initialised manager is left as it is, even
\* when its base is gone.
Inited(m) == IF m.inited THEN m ELSE Based(m)

-----------------------------------------------------------------------------
(* fan.loop, fan.loopbreak and the end of the loop. *)

\* main_handler: the startup function runs once, and its event is freed.
main_handler ==
  /\ Dispatching /\ ev.main = "live"
  /\ ev' = [ev EXCEPT !.main = "none"]
  /\ UNCHANGED <<prog, mgr, lua, log>>

\* luafan_start outside a loop: a startup event of an earlier loop is dropped,
\* the new one is armed, and event_mgr_loop (or event_mgr_loop_later_cleanup)
\* enters libevent's loop.  Inside a loop the function is simply called.
luafan_start(startup) ==
  LET m == IF startup THEN Based(Inited(mgr)) ELSE Inited(mgr)
      old == IF startup THEN Present("main", ev.main) ELSE {}
  IN  /\ LuaRuns /\ lua.pc = "script" /\ ~mgr.looping /\ (startup => "startup" \in prog.uses)
      /\ lua.loops < MaxLoops
      /\ mgr' = [m EXCEPT !.looping = TRUE, !.broke = FALSE]
      /\ lua' = [lua EXCEPT !.pc = "loop", !.loops = @ + 1]
      /\ ev' = [ev EXCEPT !.main = IF startup THEN "live" ELSE @]
      /\ log' = [log EXCEPT !.crash = Broken(old \cup BaseOf(m))]
      /\ UNCHANGED prog

\* event_mgr_break, from fan.loopbreak or a signal.
event_mgr_break ==
  /\ Dispatching /\ mgr.base
  /\ mgr' = [mgr EXCEPT !.broke = TRUE]
  /\ UNCHANGED <<prog, lua, ev, log>>

\* What the default DNS handles see when dnsbase is freed.
Orphaned(e) == IF e.evdns = "live" /\ ~e.custom THEN [e EXCEPT !.evdns = "stale"] ELSE e

\* The mutant: the worker bases go with the loop, as full_cleanup would do.
LoopEndsFreesWorkers ==
  /\ lua.pc = "loop" /\ mgr.broke /\ log.crash = {}
  /\ mgr' = [mgr EXCEPT !.sigs = "none", !.dns = "none", !.threads = FALSE, !.wbases = FALSE,
                        !.looping = FALSE, !.inited = FALSE]
  /\ lua' = [lua EXCEPT !.pc = "script"]
  /\ ev' = [Orphaned(ev) EXCEPT !.conn = IF @ = "live" THEN "stale" ELSE @]
  /\ log' = [log EXCEPT !.crash = Broken({<<"signals", mgr.sigs>>} \cup Present("dns", mgr.dns)),
                        !.ended = TRUE]
  /\ UNCHANGED prog

\* The rest of event_mgr_loop: signal events and dnsbase go, the workers'
\* threads stop, and the bases stay for the finalisers of the Lua state.
LoopEnds ==
  /\ lua.pc = "loop" /\ mgr.broke /\ log.crash = {}
  /\ mgr' = [mgr EXCEPT !.sigs = "none", !.dns = "none", !.threads = FALSE,
                        !.looping = FALSE, !.inited = FALSE]
  /\ lua' = [lua EXCEPT !.pc = "script"]
  /\ ev' = Orphaned(ev)
  /\ log' = [log EXCEPT !.crash = Broken({<<"signals", mgr.sigs>>} \cup Present("dns", mgr.dns)),
                        !.ended = TRUE]
  /\ UNCHANGED prog

-----------------------------------------------------------------------------
(* fan.sleep, DNS handles and connections on the workers. *)

\* luafan_sleep and clock_handler.
luafan_sleep ==
  /\ LuaRuns /\ ev.sleep = "none" /\ "sleep" \in prog.uses
  /\ mgr' = Based(mgr)
  /\ ev' = [ev EXCEPT !.sleep = "live"]
  /\ UNCHANGED <<prog, lua, log>>

clock_handler ==
  /\ Dispatching /\ ev.sleep = "live"
  /\ ev' = [ev EXCEPT !.sleep = "none"]
  /\ UNCHANGED <<prog, mgr, lua, log>>

\* evdns_create: a resolver of its own when a usable name server was given,
\* and otherwise another name for the manager's.
evdns_create(custom) ==
  /\ LuaRuns /\ ev.evdns = "none" /\ "evdns" \in prog.uses
  /\ mgr' = Inited(mgr)
  /\ ev' = [ev EXCEPT !.custom = custom, !.evdns = IF custom THEN "live" ELSE mgr'.dns]
  /\ log' = [log EXCEPT !.crash = IF custom THEN Broken(BaseOf(mgr')) ELSE {}]
  /\ UNCHANGED <<prog, lua>>

\* evdns_get_base: a connection resolves a name through the handle.
evdns_get_base ==
  /\ LuaRuns /\ ev.evdns # "none"
  /\ log' = [log EXCEPT !.crash = Broken({<<"handle", ev.evdns>>})]
  /\ UNCHANGED <<prog, mgr, lua, ev>>

\* evdns_gc: only a resolver of its own is freed.
evdns_gc ==
  /\ LuaRuns /\ ev.evdns # "none"
  /\ ev' = [ev EXCEPT !.evdns = "none", !.custom = FALSE]
  /\ log' = [log EXCEPT !.crash = IF ev.custom THEN Broken({<<"finaliser", ev.evdns>>}) ELSE {}]
  /\ UNCHANGED <<prog, mgr, lua>>

\* event_mgr_workers_init, by the embedder, before the first loop.
event_mgr_workers_init ==
  /\ lua.pc = "script" /\ log.crash = {} /\ ~mgr.wbases /\ lua.loops = 0
  /\ "workers" \in prog.uses
  /\ mgr' = [mgr EXCEPT !.threads = TRUE, !.wbases = TRUE]
  /\ UNCHANGED <<prog, lua, ev, log>>

\* event_mgr_worker_base: a connection's bufferevent is put on a worker's
\* base, whether or not the worker's thread still runs.
event_mgr_worker_base ==
  /\ LuaRuns /\ mgr.wbases /\ ev.conn = "none"
  /\ ev' = [ev EXCEPT !.conn = "live", !.served = FALSE]
  /\ UNCHANGED <<prog, mgr, lua, log>>

\* worker_thread_func: a worker's loop serves the connection.
worker_thread_func ==
  /\ mgr.threads /\ log.crash = {} /\ ev.conn = "live" /\ ~ev.served
  /\ ev' = [ev EXCEPT !.served = TRUE]
  /\ UNCHANGED <<prog, mgr, lua, log>>

-----------------------------------------------------------------------------
(* The embedder: the Lua state is closed, then the bases are freed. *)

\* lua_close: the finalisers free the connection's bufferevent and the
\* resolver of a custom DNS handle.
lua_close ==
  /\ lua.pc = "script" /\ log.crash = {} /\ lua.loops > 0
  /\ lua' = [lua EXCEPT !.pc = "closed"]
  /\ ev' = [ev EXCEPT !.conn = "none", !.evdns = "none", !.custom = FALSE]
  /\ log' = [log EXCEPT !.crash = Broken(Present("finaliser", ev.conn) \cup
                 (IF ev.custom THEN {<<"finaliser", ev.evdns>>} ELSE {}))]
  /\ UNCHANGED <<prog, mgr>>

Staled(w) == IF w = "live" THEN "stale" ELSE w

\* cleanup_eventbase: events still registered are left with a dead base.
\* A pending sleep is lost with it.
FreedBase(e) == [e EXCEPT !.main = Staled(@), !.sleep = "none", !.evdns = Staled(@)]

\* event_mgr_loop_cleanup, after lua_close: it resets neither initialized nor
\* dnsbase nor fan.loop's pending startup event.
event_mgr_loop_cleanup ==
  /\ lua.pc = "closed" /\ log.crash = {} /\ mgr.base
  /\ mgr' = [mgr EXCEPT !.base = FALSE, !.wbases = FALSE,
                        !.dns = Staled(@), !.sigs = Staled(@)]
  /\ ev' = FreedBase(ev)
  /\ log' = [log EXCEPT !.leftover = @ \/ mgr.inited \/ ev.main # "none"]
  /\ UNCHANGED <<prog, lua>>

\* event_mgr_cleanup: full_cleanup, once no finaliser needs the bases.
event_mgr_cleanup ==
  /\ lua.pc = "script" /\ log.crash = {} /\ mgr.inited /\ "cleanup" \in prog.uses
  /\ ev.conn = "none" /\ ~ev.custom
  /\ mgr' = [mgr EXCEPT !.base = FALSE, !.sigs = "none", !.dns = "none", !.threads = FALSE,
                        !.wbases = FALSE, !.inited = FALSE, !.looping = FALSE]
  /\ ev' = FreedBase(Orphaned(ev))
  /\ log' = [log EXCEPT !.crash = Broken({<<"signals", mgr.sigs>>} \cup Present("dns", mgr.dns)),
                        !.leftover = @ \/ ev.main # "none", !.ended = TRUE]
  /\ UNCHANGED <<prog, lua>>

\* The embedder opens the next Lua state; every base is gone.
luaL_newstate ==
  /\ lua.pc = "closed" /\ log.crash = {} /\ ~mgr.base /\ lua.gen < MaxStates
  /\ lua' = [pc |-> "script", gen |-> lua.gen + 1, loops |-> 0]
  /\ log' = [log EXCEPT !.ended = FALSE]
  /\ UNCHANGED <<prog, mgr, ev>>
=============================================================================
