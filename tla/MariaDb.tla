------------------------------ MODULE MariaDb -------------------------------
(***************************************************************************)
(* The MariaDB client: src/luamariadb.c and src/mariadb.  A connection,    *)
(* its prepared statements and the cursors of its queries are userdata; an *)
(* operation that the client library cannot finish at once leaves an event *)
(* with the coroutine and the object (DB_STATUS), and yields.              *)
(*                                                                         *)
(*   obj   the objects: whether each exists and the program has been given *)
(*         it, closed, coref (the coroutine it anchors) and coref_count,   *)
(*         and the registry references kept for it: to itself while        *)
(*         connect or prepare wait, to its table (st->table, or the column *)
(*         names and types of a cursor)                                    *)
(*   bags  the events: coroutine, object, operation                        *)
(*   co    the coroutines, and the object of the operation each waits for  *)
(*   env   keeps: the program holds the connection as long as its          *)
(*         statements; half: mysql_close had to wait; strayed: the         *)
(*         finaliser of a statement had to; crashed: freed memory was used *)
(*                                                                         *)
(* One operation at a time runs on a connection, as the library demands;   *)
(* only close may come while another coroutine waits (the comment in       *)
(* wait_for_status expects it), and finalisers come when they like.  An    *)
(* operation that finishes at once changes nothing here and is not shown.  *)
(* Results are stored, so cursors never wait.                              *)
(***************************************************************************)
EXTENDS Integers, FiniteSets

CONSTANTS DbCos,          \* coroutines
          Conn,           \* the connection
          Stmts,          \* the statements
          Curs,           \* the cursors
          NoCo

ASSUME MariaAssumption ==
    /\ IsFiniteSet(DbCos) /\ NoCo \notin DbCos
    /\ Conn \notin Stmts \cup Curs /\ Stmts \cap Curs = {}

VARIABLES obj, bags, co, env

mariaVars == <<obj, bags, co, env>>

DbObjects == {Conn} \cup Stmts \cup Curs

MariaInit ==
    /\ obj = [o \in DbObjects |-> [life |-> "none", closed |-> FALSE, ref |-> NoCo, count |-> 0,
                                   self |-> FALSE, table |-> FALSE]]
    /\ bags = {}
    /\ co = [c \in DbCos |-> [st |-> "run", on |-> Conn]]
    /\ env \in [keeps : BOOLEAN, half : {FALSE}, strayed : {FALSE}, crashed : {FALSE}]

REF_CO(x, c) ==
    IF x.ref = NoCo THEN [x EXCEPT !.ref = c, !.count = 1] ELSE [x EXCEPT !.count = @ + 1]

UNREF_CO(x) ==
    IF x.ref = NoCo THEN x
    ELSE [x EXCEPT !.count = @ - 1, !.ref = IF x.count = 1 THEN NoCo ELSE @]

(* Mutant: there is no test of closed. *)
wait_for_statusAlways(ctx, bag) == bags \cup {bag}

(* A connection that is closed, or closing, gets no event. *)
wait_for_status(ctx, bag) == IF ctx.closed THEN bags ELSE bags \cup {bag}

Bag(c, o, op) == [co |-> c, on |-> o, op |-> op]

Waits(c, o) == co' = [co EXCEPT ![c] = [st |-> "wait", on |-> o]]

Crash == env' = [env EXCEPT !.crashed = TRUE]

(* getconnection and getstatement refuse a closed object.  A statement     *)
(* does not keep its connection; the program may.                          *)
Usable(c, o) ==
    /\ co[c].st = "run" /\ obj[o].life = "held" /\ ~obj[o].closed
    /\ env.keeps => obj[Conn].life = "held"

(* Whether the library may have to wait: a closed connection is detached   *)
(* from its statements, unless closing it had to wait itself.              *)
MayWait == ~obj[Conn].closed \/ env.half

(* An operation on o starts and has to wait, holding x of the object. *)
Starts(c, o, op, x) ==
    /\ MayWait /\ bags = {}
    /\ IF obj[Conn].life = "gone" THEN Crash /\ UNCHANGED <<obj, bags, co>>
       ELSE /\ obj' = [obj EXCEPT ![o] = REF_CO(x, c)]
            /\ bags' = wait_for_status(obj[Conn], Bag(c, o, op))
            /\ Waits(c, o)
            /\ UNCHANGED env

(* Mutant: an error is reported to nobody. *)
ContinuesSilently(c, o, op, made) ==
    /\ Bag(c, o, op) \in bags
    /\ bags' = bags \ {Bag(c, o, op)}
    /\ \/ UNCHANGED <<obj, co>>
       \/ /\ \E objects \in made : obj' = [objects EXCEPT ![o] = UNREF_CO(@)]
          /\ co' = [co EXCEPT ![c].st = "run"]
    /\ UNCHANGED env

(* Its event fires.  It waits again, which a closed connection refuses     *)
(* (otherwise the new event is like the old one), or the coroutine is      *)
(* resumed with the result or an error; made is what the objects may have  *)
(* become.                                                                 *)
Continues(c, o, op, made) ==
    /\ Bag(c, o, op) \in bags
    /\ bags' = bags \ {Bag(c, o, op)}
    /\ IF obj[o].life = "gone" \/ obj[Conn].life = "gone"
       THEN Crash /\ UNCHANGED <<obj, co>>
       ELSE /\ \/ /\ obj[Conn].closed
                  /\ UNCHANGED <<obj, co>>
               \/ /\ \E objects \in made : obj' = [objects EXCEPT ![o] = UNREF_CO(@)]
                  /\ co' = [co EXCEPT ![c].st = "run"]
            /\ UNCHANGED env

Operation(c, o, op) ==
    \/ Usable(c, o) /\ Starts(c, o, op, obj[o])
    \/ Continues(c, o, op, {obj})

-----------------------------------------------------------------------------
(* The connection. *)

conn_ping(c)         == Operation(c, Conn, "ping")
conn_commit(c)       == Operation(c, Conn, "commit")
conn_rollback(c)     == Operation(c, Conn, "rollback")
conn_autocommit(c)   == Operation(c, Conn, "autocommit")
set_character_set(c) == Operation(c, Conn, "setcharset")

(* real_query_result makes a cursor for each result of the query. *)
create_cursor(made) ==
    [o \in DbObjects |-> IF o \in made THEN [obj[o] EXCEPT !.life = "held"] ELSE obj[o]]

real_query_result == {create_cursor(made) : made \in SUBSET {k \in Curs : obj[k].life = "none"}}

real_query(c) ==
    \/ /\ Usable(c, Conn)
       /\ \/ Starts(c, Conn, "execute", obj[Conn])
          \/ bags = {} /\ obj' \in real_query_result /\ UNCHANGED <<bags, co, env>>
    \/ Continues(c, Conn, "execute", real_query_result)

(* What connect or prepare made is handed out, or failed. *)
Handed(o) ==
    {[obj EXCEPT ![o].self = FALSE, ![o].life = life] : life \in {"fresh", "held"}}

(* connect makes the connection and, when it waits, keeps it in the        *)
(* registry; what failed is not handed out.                                *)
real_connect(c) ==
    LET o == obj[Conn] IN
    \/ /\ co[c].st = "run" /\ o.life = "none"
       /\ \/ Starts(c, Conn, "connect", [o EXCEPT !.life = "fresh", !.self = TRUE])
          \/ /\ \E life \in {"fresh", "held"} : obj' = [obj EXCEPT ![Conn].life = life]
             /\ UNCHANGED <<bags, co, env>>
    \/ Continues(c, Conn, "connect", Handed(Conn))

(* closed is set first, so that no event is made: conn_close_cont is never *)
(* reached, and a coroutine that has to wait here waits for good.          *)
conn_close(c) ==
    /\ co[c].st = "run" /\ obj[Conn].life = "held" /\ ~obj[Conn].closed
    /\ LET o == [obj[Conn] EXCEPT !.closed = TRUE] IN
       \/ obj' = [obj EXCEPT ![Conn] = o] /\ UNCHANGED <<bags, co, env>>
       \/ /\ obj' = [obj EXCEPT ![Conn] = REF_CO(o, c)]
          /\ bags' = wait_for_status(o, Bag(c, Conn, "close"))
          /\ Waits(c, Conn)
          /\ env' = [env EXCEPT !.half = TRUE]

-----------------------------------------------------------------------------
(* Statements. *)

(* prepare makes the statement and its table. *)
stmt_prepare(c, s) ==
    LET o == [obj[s] EXCEPT !.life = "fresh", !.table = TRUE] IN
    \/ /\ Usable(c, Conn) /\ bags = {} /\ obj[s].life = "none"
       /\ \/ Starts(c, s, "prepare", [o EXCEPT !.self = TRUE])
          \/ /\ \E life \in {"fresh", "held"} : obj' = [obj EXCEPT ![s] = [o EXCEPT !.life = life]]
             /\ UNCHANGED <<bags, co, env>>
    \/ Continues(c, s, "prepare", Handed(s))

stmt_execute(c, s)        == Operation(c, s, "execute")
stmt_store_result(c, s)   == Operation(c, s, "store_result")
stmt_fetch(c, s)          == Operation(c, s, "fetch")
stmt_send_long_data(c, s) == Operation(c, s, "send_long_data")

(* st_close.  An error found at once leaves the table in the registry.     *)
stmt_close(c, s) ==
    \/ /\ Usable(c, s)
       /\ \/ Starts(c, s, "stmt_close", [obj[s] EXCEPT !.closed = TRUE])
          \/ /\ bags = {} /\ ~(obj[Conn].life = "gone" /\ env.half)
             /\ \E table \in {FALSE, obj[s].table} :
                  obj' = [obj EXCEPT ![s].closed = TRUE, ![s].table = table]
             /\ UNCHANGED <<bags, co, env>>
    \/ Continues(c, s, "stmt_close", {[obj EXCEPT ![s].table = FALSE]})

-----------------------------------------------------------------------------
(* Cursors: create_colinfo keeps names and types with the first row;       *)
(* free_result_start releases them, at the end of the rows, in close and   *)
(* in the finaliser.                                                       *)
FreeResult(x) == [x EXCEPT !.closed = TRUE, !.table = FALSE]

fetch_row_result(x) == {[x EXCEPT !.table = TRUE], FreeResult(x)}

fetch_row(k) ==
    /\ obj[k].life = "held" /\ ~obj[k].closed
    /\ \E x \in fetch_row_result(obj[k]) : obj' = [obj EXCEPT ![k] = x]
    /\ UNCHANGED <<bags, co, env>>

cur_close(k) ==
    /\ obj[k].life = "held" /\ ~obj[k].closed
    /\ obj' = [obj EXCEPT ![k] = FreeResult(@)]
    /\ UNCHANGED <<bags, co, env>>

-----------------------------------------------------------------------------
(* The collector.  An object is reachable from the registry while connect  *)
(* or prepare wait, and from the stack of a coroutine that waits for it;   *)
(* the program may drop it at any other time.                              *)
Garbage(o) ==
    /\ obj[o].life \in {"fresh", "held"} /\ ~obj[o].self
    /\ \A c \in DbCos : co[c].st = "wait" => co[c].on # o

Gone(o, x) == obj' = [obj EXCEPT ![o] = [x EXCEPT !.life = "gone"]]

(* In a finaliser yield raises: the coroutine that happened to run, c, is  *)
(* referenced all the same.                                                *)
conn_gc(c) ==
    LET o == [obj[Conn] EXCEPT !.closed = TRUE] IN
    /\ co[c].st = "run" /\ Garbage(Conn)
    /\ env.keeps => \A s \in Stmts : obj[s].life \in {"none", "gone"}
    /\ \/ Gone(Conn, o) /\ UNCHANGED env
       \/ /\ ~obj[Conn].closed
          /\ Gone(Conn, REF_CO(o, c))
          /\ env' = [env EXCEPT !.half = TRUE]
    /\ UNCHANGED <<bags, co>>

st_gc(c, s) ==
    LET o == [obj[s] EXCEPT !.closed = TRUE]
        dangling == obj[Conn].life = "gone" /\ env.half
    IN
    /\ co[c].st = "run" /\ Garbage(s)
    /\ \/ obj[s].closed /\ Gone(s, o) /\ UNCHANGED <<bags, env>>
       \/ /\ ~obj[s].closed
          /\ \E table \in {FALSE, obj[s].table} : Gone(s, [o EXCEPT !.table = table])
          /\ env' = [env EXCEPT !.crashed = @ \/ dangling]
          /\ UNCHANGED bags
       \/ /\ ~obj[s].closed /\ MayWait /\ obj[Conn].life # "gone"
          /\ Gone(s, REF_CO(o, c))
          /\ bags' = wait_for_status(obj[Conn], Bag(c, s, "stmt_close"))
          /\ env' = [env EXCEPT !.strayed = TRUE]
    /\ UNCHANGED co

cur_gc(k) ==
    /\ Garbage(k)
    /\ Gone(k, FreeResult(obj[k]))
    /\ UNCHANGED <<bags, co, env>>

(* A coroutine that waits and is not anchored goes when the program drops  *)
(* it.                                                                     *)
CoCollected(c) ==
    /\ co[c].st = "wait" /\ \A o \in DbObjects : obj[o].ref # c
    /\ co' = [co EXCEPT ![c].st = "gone"]
    /\ UNCHANGED <<obj, bags, env>>

-----------------------------------------------------------------------------
DbOperation(c) ==
    \/ real_connect(c) \/ conn_ping(c) \/ conn_commit(c) \/ conn_rollback(c)
    \/ conn_autocommit(c) \/ set_character_set(c) \/ real_query(c) \/ conn_close(c)
    \/ \E s \in Stmts : \/ stmt_prepare(c, s) \/ stmt_execute(c, s) \/ stmt_store_result(c, s)
                        \/ stmt_fetch(c, s) \/ stmt_send_long_data(c, s) \/ stmt_close(c, s)

MariaNext ==
    /\ ~env.crashed
    /\ \/ \E c \in DbCos : \/ DbOperation(c) \/ conn_gc(c) \/ CoCollected(c)
                           \/ \E s \in Stmts : st_gc(c, s)
       \/ \E k \in Curs : fetch_row(k) \/ cur_close(k) \/ cur_gc(k)

(* While the connection is open its server answers. *)
MariaFairness ==
    \A c \in DbCos :
        WF_mariaVars(/\ ~env.crashed /\ ~obj[Conn].closed /\ co[c].st = "wait"
                     /\ DbOperation(c) /\ co'[c].st = "run")

-----------------------------------------------------------------------------
(* What an event needs is there when it fires: its coroutine waits for its *)
(* object, and the object's coref keeps that coroutine, whoever else       *)
(* closes the connection or collects what in the meantime (REF_CO,         *)
(* wait_for_status and the *_cont callbacks).  coref_count is the number   *)
(* of coroutines that wait for the object.  The registry keeps an object   *)
(* only while connect or prepare wait for an event, or were refused one;   *)
(* and freed memory is used only if the program dropped a connection       *)
(* before its statements, or the finaliser of a statement had to wait.     *)
MariaRefs ==
    /\ env.crashed => ~env.keeps \/ env.strayed
    /\ env.keeps /\ ~env.strayed =>
         /\ \A b \in bags : /\ co[b.co] = [st |-> "wait", on |-> b.on]
                            /\ obj[b.on].ref = b.co /\ obj[b.on].life # "gone"
         /\ \A o \in DbObjects : obj[o].life # "gone" =>
              /\ obj[o].count = Cardinality({c \in DbCos : co[c].st # "run" /\ co[c].on = o})
              /\ obj[o].self => obj[Conn].closed \/ \E b \in bags : b.on = o

(* A coroutine that waits is resumed, unless the connection is closed: by  *)
(* another coroutine while this one waits, or by this one when mysql_close *)
(* has to wait.                                                            *)
MariaAnswered ==
    \A c \in DbCos : (co[c].st = "wait") ~> (co[c].st = "run" \/ obj[Conn].closed \/ env.crashed)
=============================================================================
