------------------------------- MODULE Worker -------------------------------
(***************************************************************************)
(* Worker processes, modules/fan/worker/init.lua: a master whose           *)
(* coroutines call functions on slave processes that it forked, over one   *)
(* FIFO connector to each (FifoConnector).                                 *)
(*                                                                         *)
(*   wm    the master: #slave_pids, the connections accepted (obj.slaves   *)
(*         and loadbalance.slaves), the queue of findbest, who waits for   *)
(*         all slaves, whether it listens, and whether a second listener   *)
(*         took the place of the first                                     *)
(*   apt   each slave and its connection: whether it lives and could be    *)
(*         written to when accepted, the state of the receive loop,        *)
(*         jobcount, task_index, task_map (a key's caller, or Result when  *)
(*         the answer came before send returned), and the tasks the slave  *)
(*         has yet to answer, in order                                     *)
(*   call  the coroutines: what each is doing, for which slave and task    *)
(*                                                                         *)
(* A stretch of Lua between two yields is one step.  The handlers resume   *)
(* one another inside themselves, so they are operators on the state as a  *)
(* whole, [m, a, c], and an action applies one to it.  Over FIFOs the end  *)
(* of a slave is never reported: nothing ends the receive loop but an      *)
(* error in it.                                                            *)
(***************************************************************************)
EXTENDS Integers, Sequences, FiniteSets, SequencesExt

CONSTANTS Callers,        \* coroutines of the master
          Slaves,         \* the processes forked
          Nobody,
          Result,         \* an answer in task_map
          max_job_count,
          MaxTasks        \* bound on the calls made

ASSUME WorkerAssumption ==
    /\ Nobody \notin Callers /\ Result \notin Callers
    /\ IsFiniteSet(Slaves) /\ max_job_count \in Nat \ {0} /\ MaxTasks \in Nat

VARIABLES wm, apt, call

workerVars == <<wm, apt, call>>

World == [m |-> wm, a |-> apt, c |-> call]

Becomes(w) == wm' = w.m /\ apt' = w.a /\ call' = w.c

WorkerInit ==
    /\ wm = [pids |-> Cardinality(Slaves), slaves |-> {}, queue |-> <<>>, waiting |-> Nobody,
             bound |-> FALSE, replaced |-> FALSE, calls |-> 0]
    /\ apt = [s \in Slaves |-> [alive |-> TRUE, open |-> FALSE, loop |-> "none",
                                jobcount |-> 0, task_index |-> 1,
                                map |-> [k \in 1..MaxTasks |-> Nobody], todo |-> <<>>]]
    /\ call = [c \in Callers |-> [st |-> "idle", s |-> Nobody, key |-> 0]]

Doing(w, c, st) == [w EXCEPT !.c[c] = [st |-> st, s |-> Nobody, key |-> 0]]

-----------------------------------------------------------------------------
(* A call. *)

(* What a call does with the slave findbest returned: the task gets the    *)
(* next key and is given to send, which yields.  A connection that was     *)
(* never open for writing refuses it: the call returns nothing, and        *)
(* jobcount stays as it is.                                                *)
Give(w, c, s) ==
    LET counted == [w EXCEPT !.a[s].jobcount = @ + 1, !.a[s].task_index = @ + 1]
    IN  IF w.a[s].open
        THEN [counted EXCEPT !.c[c] = [st |-> "sending", s |-> s, key |-> w.a[s].task_index]]
        ELSE Doing(counted, c, "idle")

(* The least busy slaves, the first of which findbest takes after sorting. *)
Best(w) == {s \in w.m.slaves : \A r \in w.m.slaves : w.a[s].jobcount <= w.a[r].jobcount}

Queues(w, c) == [Doing(w, c, "queued") EXCEPT !.m.queue = Append(@, c)]

(* Mutant: a slave that is full takes one more. *)
findbestBeyond(w, c) ==
    LET free == {s \in Best(w) : w.a[s].jobcount <= max_job_count}
    IN  IF free = {} THEN {Queues(w, c)} ELSE {Give(w, c, s) : s \in free}

(* When the least busy slave is full, or there is none, the caller queues. *)
findbest(w, c) ==
    LET free == {s \in Best(w) : w.a[s].jobcount < max_job_count}
    IN  IF free = {} THEN {Queues(w, c)} ELSE {Give(w, c, s) : s \in free}

(* Unless there are as many connections as processes, the master binds,    *)
(* and the caller takes the place of whoever waited.                       *)
wait_all_slaves(w, c) ==
    IF Cardinality(w.m.slaves) = w.m.pids THEN findbest(w, c)
    ELSE {[Doing(w, c, "slaves") EXCEPT !.m.bound = TRUE, !.m.replaced = @ \/ w.m.bound,
                                        !.m.waiting = c]}

(* obj:name(...): __index waits for the slaves, and what it returns calls. *)
Calls(w, c) ==
    IF w.m.calls < MaxTasks THEN wait_all_slaves([w EXCEPT !.m.calls = @ + 1], c) ELSE {}

Call(c) ==
    /\ call[c].st = "idle"
    /\ \E w \in Calls(World, c) : Becomes(w)

(* The first in the queue goes on with this slave. *)
_assign(w, s) ==
    IF w.m.queue = <<>> THEN w
    ELSE Give([w EXCEPT !.m.queue = Tail(@)], Head(w.m.queue), s)

(* The senders of a connection take turns, in the order of their keys.     *)
Turn(c) ==
    \A d \in Callers : call[d].s = call[c].s /\ call[d].st \in {"sending", "flushing"}
                         => call[c].key <= call[d].key

(* The task is written to the pipe; without a reader every write fails,    *)
(* again and again.                                                        *)
Write(c) ==
    /\ call[c].st = "sending" /\ Turn(c) /\ apt[call[c].s].alive
    /\ Becomes([World EXCEPT !.c[c].st = "flushing",
                             !.a[call[c].s].todo = Append(@, call[c].key)])

(* Mutant: the caller registers without looking for an early answer. *)
SendReturnsBlind(c) ==
    /\ call[c].st = "flushing"
    /\ Becomes([World EXCEPT !.a[call[c].s].map[call[c].key] = c, !.c[c].st = "waiting"])

(* send returns at the next write event: the answer may be there already,  *)
(* and otherwise the caller registers for it.                              *)
SendReturns(c) ==
    LET s == call[c].s
        key == call[c].key
    IN  /\ call[c].st = "flushing"
        /\ IF apt[s].map[key] = Result
           THEN Becomes(Doing([World EXCEPT !.a[s].map[key] = Nobody], c, "idle"))
           ELSE Becomes([World EXCEPT !.a[s].map[key] = c, !.c[c].st = "waiting"])

-----------------------------------------------------------------------------
(* onaccept, the coroutine of one connection. *)

(* A slave has connected, and may have died since.  A queued caller gets   *)
(* it; the one that waited for all slaves goes on when they are there.     *)
onaccept(s) ==
    /\ wm.bound /\ s \notin wm.slaves
    /\ LET all == Cardinality(wm.slaves) + 1 = wm.pids
           w == _assign([World EXCEPT !.a[s].open = apt[s].alive, !.a[s].loop = "receive",
                                      !.m.slaves = @ \cup {s},
                                      !.m.waiting = IF all THEN Nobody ELSE @], s)
       IN  \E v \in IF all /\ wm.waiting # Nobody THEN findbest(w, wm.waiting) ELSE {w} :
             Becomes(v)

telldone(w, s) == _assign([w EXCEPT !.a[s].jobcount = @ - 1], s)

(* The caller of a task is resumed with its answer, and may make another   *)
(* call before it yields again; an answer nobody waits for yet is kept.    *)
Answered(w, s, key) ==
    LET c == w.a[s].map[key]
        done == Doing([w EXCEPT !.a[s].map[key] = Nobody], c, "idle")
    IN  IF c = Nobody THEN {[w EXCEPT !.a[s].map[key] = Result]}
        ELSE {done} \cup Calls(done, c)

(* What the loop of a slave answers a task: the key with the results, or   *)
(* an empty string when the function raised or is unknown.                 *)
SlaveAnswers == {"results", ""}

(* The slave's next answer arrives.  decode makes no table of an empty     *)
(* string, and indexing it ends the receive loop.                          *)
Receive(s) ==
    /\ apt[s].loop = "receive" /\ apt[s].todo # <<>>
    /\ LET w == [World EXCEPT !.a[s].todo = Tail(@)]
       IN  \E str \in SlaveAnswers :
             \/ str # "" /\ \E v \in Answered(w, s, Head(apt[s].todo)) : Becomes(telldone(v, s))
             \/ str = "" /\ Becomes([w EXCEPT !.a[s].loop = "raised"])

(* A slave ends; the first n of its answers are in the pipe already. *)
Ended(p, n) == [p EXCEPT !.alive = FALSE, !.todo = SubSeq(@, 1, n)]

SlaveEnds(s) ==
    /\ apt[s].alive
    /\ \E n \in 0..Len(apt[s].todo) : Becomes([World EXCEPT !.a[s] = Ended(@, n)])

(* terminate kills the slaves and forgets their pids. *)
terminate ==
    /\ wm.pids > 0
    /\ \E n \in [Slaves -> 0..max_job_count] :
         /\ \A s \in Slaves : n[s] <= Len(apt[s].todo)
         /\ Becomes([World EXCEPT !.m.pids = 0,
                                  !.a = [s \in Slaves |-> Ended(apt[s], n[s])]])

WorkerNext ==
    \/ \E c \in Callers : Call(c) \/ Write(c) \/ SendReturns(c)
    \/ \E s \in Slaves : onaccept(s) \/ Receive(s) \/ SlaveEnds(s)
    \/ terminate

(* The loop dispatches the write events of a connection, a live slave      *)
(* answers, and connects while the pipe's name is there: the listener that *)
(* was replaced removes it when it is collected.                           *)
WorkerFairness ==
    /\ \A c \in Callers : WF_workerVars(Write(c)) /\ WF_workerVars(SendReturns(c))
    /\ \A s \in Slaves : WF_workerVars(Receive(s)) /\ WF_workerVars(onaccept(s) /\ ~wm.replaced)

-----------------------------------------------------------------------------
Impaired ==
    wm.replaced \/ \E s \in Slaves : ~apt[s].alive \/ apt[s].loop = "raised"

(* No slave has more jobs than max_job_count, although queued callers are  *)
(* handed slaves without looking at it; while the receive loop of a live   *)
(* slave runs, jobcount is the number of calls under way there; and a      *)
(* caller waits for an answer only under its own key and while the slave   *)
(* still owes it, whichever of the answer and send's return came first     *)
(* (findbest, telldone, __index and onaccept of worker/init.lua).          *)
WorkerTasks ==
    \A s \in Slaves :
        LET owed == ToSet(apt[s].todo) IN
        /\ apt[s].jobcount <= max_job_count
        /\ apt[s].loop = "receive" /\ apt[s].alive =>
             apt[s].jobcount = Len(apt[s].todo) +
                Cardinality({c \in Callers : call[c].st = "sending" /\ call[c].s = s})
        /\ apt[s].loop = "receive" /\ apt[s].alive => \A c \in Callers :
             call[c].st = "waiting" /\ call[c].s = s =>
                apt[s].map[call[c].key] = c /\ call[c].key \in owed

(* A call returns, as long as all slaves live, no function has raised in   *)
(* one, and no second caller took the place of the one that waited for the *)
(* slaves to connect: callers that wait for a connection, for a slave with *)
(* room, for their turn to send or for the answer are all resumed.         *)
CallsReturn ==
    \A c \in Callers : call[c].st # "idle" ~> call[c].st = "idle" \/ Impaired
=============================================================================
