------------------------------- MODULE MCPool -------------------------------
(***************************************************************************)
(* What coroutines share and wait for: the pool, the slaves of worker, and *)
(* a MariaDB connection.  Each is explored by itself; `which' says the one *)
(* a behaviour is about.                                                   *)
(***************************************************************************)
EXTENDS Pool, Worker, MariaDb

VARIABLE which

MCInit ==
    /\ which \in {"pool", "worker", "maria"} /\ Init /\ WorkerInit /\ MariaInit
    /\ which # "maria" => env.keeps

MCNext ==
    \/ which = "pool" /\ Next /\ UNCHANGED <<which, workerVars, mariaVars>>
    \/ which = "worker" /\ WorkerNext /\ UNCHANGED <<which, vars, mariaVars>>
    \/ which = "maria" /\ MariaNext /\ UNCHANGED <<which, vars, workerVars>>

(* The fair actions of the components that are not explored are disabled   *)
(* in their initial states.                                                *)
MCFairSpec ==
    /\ MCInit /\ [][MCNext]_<<which, vars, workerVars, mariaVars>>
    /\ Fairness /\ WorkerFairness /\ MariaFairness

-----------------------------------------------------------------------------
(* A coroutine that waits for an answer of a slave or of the database gets *)
(* it, except in the cases the two properties name (the calls of           *)
(* worker/init.lua and the operations of luamariadb.c).                    *)
AnswersCome == CallsReturn /\ MariaAnswered
=============================================================================
