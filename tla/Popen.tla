------------------------------- MODULE Popen --------------------------------
(***************************************************************************)
(* Child processes: src/popen.c, and modules/fan/connector/popen.lua that  *)
(* lets a coroutine wait for a child's output.                             *)
(*                                                                         *)
(*   pp     the POPEN object: which callbacks are set, the two read        *)
(*          events, the write end of stdin, child_pid, closed, and whether *)
(*          the program is inside a write to the child                     *)
(*   pc     the connector object (when `used'): receiving, the bytes in    *)
(*          _readstream, disconnected, exit_code                           *)
(*   child  the process: running, exited or reaped; who holds the write    *)
(*          end of its stdin; its pipes; what it does next                 *)
(*   plog   what was reported and where the exit status went               *)
(*                                                                         *)
(* The parent is one thread: while it is inside a blocking write nothing   *)
(* else of it runs.  Pipes hold PopenPipe units.                           *)
(***************************************************************************)
EXTENDS Integers, FiniteSets

CONSTANTS PopenPipe,   \* capacity of a pipe
          MaxSends,    \* how often the program sends to the child
          MaxOutput,   \* how much the child writes to each of its outputs
          PopenReaders,\* the coroutines that call receive
          Settings     \* the ways the object is used

ASSUME PopenAssumption ==
    /\ PopenPipe \in Nat \ {0} /\ MaxSends \in Nat /\ MaxOutput \in Nat
    /\ Settings \subseteq [used : BOOLEAN, onread : BOOLEAN, onstderr : BOOLEAN,
                           ondisconnected : BOOLEAN, capture_stderr : BOOLEAN]
    \* the connector always sets these two
    /\ \A s \in Settings : s.used => s.onread /\ s.ondisconnected

VARIABLES pp, pc, child, plog

popenVars == <<pp, pc, child, plog>>

NoReader == "none"


PopenInit ==
    /\ \E s \in Settings :
         pp = [set |-> s, stdout_ev |-> FALSE, stderr_ev |-> FALSE, stdin |-> FALSE,
               pid |-> FALSE, closed |-> FALSE, writing |-> FALSE, made |-> FALSE, sends |-> 0]
    /\ pc = [receiving |-> NoReader, expect |-> 0, available |-> 0, disconnected |-> FALSE,
             st |-> [c \in PopenReaders |-> "idle"]]
    /\ child = [st |-> "none", holders |-> {}, inp |-> 0, out |-> 0, err |-> 0,
                wrote |-> 0, wroteErr |-> 0, outHeld |-> FALSE, errHeld |-> FALSE, next |-> "read"]
    /\ plog = [told |-> 0, exit |-> "nil", reaper |-> "nobody", killed |-> "no", lost |-> {}]

Idle == pp.made /\ ~pp.writing

-----------------------------------------------------------------------------
(* spawn: pipes, the child, and an event for each output that has a         *)
(* callback.  When a pipe or the child cannot be made, every descriptor     *)
(* made before it is closed and spawn returns nil.                          *)
luafan_popen_spawn ==
    /\ ~pp.made
    /\ pp' = [pp EXCEPT !.made = TRUE, !.pid = TRUE, !.stdin = TRUE,
                        !.stdout_ev = pp.set.onread,
                        !.stderr_ev = pp.set.capture_stderr /\ pp.set.onstderr]
    /\ child' = [child EXCEPT !.st = "run", !.holders = {"parent"},
                              !.outHeld = TRUE, !.errHeld = TRUE]
    /\ UNCHANGED <<pc, plog>>

(* Another child is spawned: nothing closes this child's stdin in it, so   *)
(* it holds the write end too, until it exits.                             *)
SpawnOther ==
    /\ Idle /\ pp.stdin /\ "other" \notin child.holders
    /\ child' = [child EXCEPT !.holders = @ \cup {"other"}]
    /\ UNCHANGED <<pp, pc, plog>>

OtherExits ==
    /\ "other" \in child.holders
    /\ child' = [child EXCEPT !.holders = @ \ {"other"}]
    /\ UNCHANGED <<pp, pc, plog>>

-----------------------------------------------------------------------------
(* The end of the outputs. *)

(* _ondisconnected of the connector: the receiver gets nil. *)
Ended(k) ==
    IF ~pp.set.used THEN k
    ELSE [k EXCEPT !.disconnected = TRUE, !.receiving = NoReader,
                   !.st = [c \in PopenReaders |-> IF c = k.receiving THEN "nil" ELSE @[c]]]

popen_try_disconnected(p) ==
    IF p.stdout_ev \/ p.stderr_ev \/ ~p.set.ondisconnected
    THEN /\ pp' = p
         /\ UNCHANGED <<pc, child, plog>>
    ELSE LET reaped == p.pid /\ child.st = "exited" IN
         /\ pp' = [p EXCEPT !.pid = @ /\ ~reaped]
         /\ child' = [child EXCEPT !.st = IF reaped THEN "reaped" ELSE @]
         /\ plog' = [plog EXCEPT !.told = @ + 1,
                                 !.exit = IF reaped THEN "code" ELSE child.st,
                                 !.reaper = IF reaped THEN "disconnect" ELSE @]
         /\ pc' = Ended(pc)

(* Mutant: the end of stdout only frees the event. *)
StdoutCbSilent ==
    /\ Idle /\ pp.stdout_ev /\ child.out = 0 /\ ~child.outHeld
    /\ pp' = [pp EXCEPT !.stdout_ev = FALSE]
    /\ UNCHANGED <<pc, child, plog>>

(* Data goes to onread, and a receiver with enough of it is resumed. *)
popen_stdout_cb ==
    /\ Idle /\ pp.stdout_ev
    /\ \/ /\ child.out > 0
          /\ child' = [child EXCEPT !.out = 0]
          /\ LET k == [pc EXCEPT !.available = @ + (IF pp.set.used THEN child.out ELSE 0)]
                 wakes == k.receiving # NoReader /\ k.available >= k.expect
             IN pc' = IF wakes THEN [k EXCEPT !.receiving = NoReader, !.expect = 0,
                                              !.st[k.receiving] = "got"]
                      ELSE k
          /\ UNCHANGED <<pp, plog>>
       \/ /\ child.out = 0 /\ ~child.outHeld
          /\ popen_try_disconnected([pp EXCEPT !.stdout_ev = FALSE])

popen_stderr_cb ==
    /\ Idle /\ pp.stderr_ev
    /\ \/ /\ child.err > 0
          /\ child' = [child EXCEPT !.err = 0]
          /\ UNCHANGED <<pp, pc, plog>>
       \/ /\ child.err = 0 /\ ~child.errHeld
          /\ popen_try_disconnected([pp EXCEPT !.stderr_ev = FALSE])

-----------------------------------------------------------------------------
(* Operations of the program. *)

(* send writes to a descriptor that was not made non-blocking: a full pipe *)
(* keeps the program inside write; a child that is gone fails it.          *)
luafan_popen_send ==
    /\ Idle /\ pp.sends < MaxSends
    /\ \/ /\ pc.disconnected \/ pp.closed \/ ~pp.stdin \/ child.st # "run"
          /\ pp' = [pp EXCEPT !.sends = @ + 1]
          /\ UNCHANGED child
       \/ /\ ~pc.disconnected /\ ~pp.closed /\ pp.stdin /\ child.st = "run"
          /\ pp' = [pp EXCEPT !.sends = @ + 1, !.writing = child.inp = PopenPipe]
          /\ child' = IF child.inp = PopenPipe THEN child ELSE [child EXCEPT !.inp = @ + 1]
    /\ UNCHANGED <<pc, plog>>

(* The kernel lets the write go on, or fails it when the child is gone. *)
WriteReturns ==
    /\ pp.writing /\ (child.inp < PopenPipe \/ child.st # "run")
    /\ pp' = [pp EXCEPT !.writing = FALSE]
    /\ child' = IF child.st = "run" THEN [child EXCEPT !.inp = @ + 1] ELSE child
    /\ UNCHANGED <<pc, plog>>

luafan_popen_close_stdin ==
    /\ Idle /\ pp.stdin
    /\ pp' = [pp EXCEPT !.stdin = FALSE]
    /\ child' = [child EXCEPT !.holders = @ \ {"parent"}]
    /\ UNCHANGED <<pc, plog>>

(* Mutant: the pid is kept after the child is waited for. *)
CloseKeepsPid ==
    /\ Idle
    /\ pp' = [pp EXCEPT !.closed = TRUE, !.stdout_ev = FALSE, !.stderr_ev = FALSE, !.stdin = FALSE]
    /\ child' = [child EXCEPT !.holders = @ \ {"parent"}, !.out = 0, !.err = 0,
                              !.outHeld = FALSE, !.errHeld = FALSE, !.st = "reaped"]
    /\ plog' = [plog EXCEPT !.killed = IF pp.pid THEN child.st ELSE @]
    /\ pc' = [pc EXCEPT !.disconnected = @ \/ pp.set.used]

(* close, and the collector: callbacks, events and pipes go, a child that  *)
(* was not reaped is terminated and waited for.  The connector marks       *)
(* itself disconnected and resumes nobody.                                 *)
luafan_popen_close ==
    /\ Idle /\ ~pp.closed
    /\ pp' = [pp EXCEPT !.closed = TRUE, !.stdout_ev = FALSE, !.stderr_ev = FALSE,
                        !.stdin = FALSE, !.pid = FALSE]
    /\ child' = [child EXCEPT !.holders = @ \ {"parent"}, !.out = 0, !.err = 0,
                              !.outHeld = @ /\ ~pp.pid, !.errHeld = @ /\ ~pp.pid,
                              !.st = IF pp.pid THEN "reaped" ELSE @]
    /\ plog' = [plog EXCEPT !.killed = IF pp.pid THEN child.st ELSE @,
                            !.reaper = IF pp.pid THEN "close" ELSE @]
    /\ pc' = [pc EXCEPT !.disconnected = @ \/ pp.set.used]

(* is_alive reaps a child that has exited, and its status is lost. *)
luafan_popen_is_alive ==
    /\ Idle /\ pp.pid /\ child.st = "exited"
    /\ pp' = [pp EXCEPT !.pid = FALSE]
    /\ child' = [child EXCEPT !.st = "reaped"]
    /\ plog' = [plog EXCEPT !.reaper = "is_alive"]
    /\ UNCHANGED pc

(* receive of the connector, and the program taking what it waited for. *)
popen_receive(c, n) ==
    /\ Idle /\ pp.set.used /\ pc.st[c] = "idle"
    /\ \/ /\ pc.disconnected
          /\ pc' = [pc EXCEPT !.st[c] = "nil"]
          /\ UNCHANGED plog
       \/ /\ ~pc.disconnected /\ pc.available >= n
          /\ pc' = [pc EXCEPT !.st[c] = "got"]
          /\ UNCHANGED plog
       \/ /\ ~pc.disconnected /\ pc.available < n
          /\ pc' = [pc EXCEPT !.st[c] = "waiting", !.receiving = c, !.expect = n]
          /\ plog' = [plog EXCEPT !.lost = @ \cup ({pc.receiving} \ {NoReader})]
    /\ UNCHANGED <<pp, child>>

PopenTake(c) ==
    /\ pc.st[c] = "got"
    /\ pc' = [pc EXCEPT !.st[c] = "idle", !.available = 0]
    /\ UNCHANGED <<pp, child, plog>>

-----------------------------------------------------------------------------
(* The child: it reads and writes in any order, waits where the pipe makes *)
(* it wait, may close its outputs early, hand them to a process that       *)
(* outlives it, and exits when it likes.                                   *)
ChildTurn ==
    /\ child.st = "run"
    /\ \E next \in {"read", "out", "err"} :
         \/ /\ child.next = "read" /\ child.inp > 0
            /\ child' = [child EXCEPT !.inp = @ - 1, !.next = next]
         \/ /\ child.next = "out" /\ child.out < PopenPipe /\ child.wrote < MaxOutput
            /\ child.outHeld
            /\ child' = [child EXCEPT !.out = @ + 1, !.wrote = @ + 1, !.next = next]
         \/ /\ child.next = "err" /\ child.err < PopenPipe /\ child.wroteErr < MaxOutput
            /\ child.errHeld
            /\ child' = [child EXCEPT !.err = @ + (IF pp.set.capture_stderr THEN 1 ELSE 0),
                                      !.wroteErr = @ + 1, !.next = next]
         \/ /\ child.next = "out" /\ (child.wrote = MaxOutput \/ ~child.outHeld)
            /\ child' = [child EXCEPT !.next = "read"]
         \/ /\ child.next = "err" /\ (child.wroteErr = MaxOutput \/ ~child.errHeld)
            /\ child' = [child EXCEPT !.next = "read"]
    /\ UNCHANGED <<pp, pc, plog>>

OutputsClosed ==
    /\ child.st # "none" /\ child.outHeld
    /\ \E e \in BOOLEAN : child' = [child EXCEPT !.outHeld = FALSE, !.errHeld = @ /\ e]
    /\ UNCHANGED <<pp, pc, plog>>

ErrClosed ==
    /\ child.st # "none" /\ child.errHeld
    /\ child' = [child EXCEPT !.errHeld = FALSE]
    /\ UNCHANGED <<pp, pc, plog>>

ChildExits ==
    /\ child.st = "run"
    /\ child' = [child EXCEPT !.st = "exited"]
    /\ UNCHANGED <<pp, pc, plog>>

PopenNext ==
    \/ luafan_popen_spawn \/ SpawnOther \/ OtherExits
    \/ popen_stdout_cb \/ popen_stderr_cb
    \/ luafan_popen_send \/ WriteReturns \/ luafan_popen_close_stdin
    \/ luafan_popen_close \/ luafan_popen_is_alive
    \/ \E c \in PopenReaders, n \in 1..2 : popen_receive(c, n)
    \/ \E c \in PopenReaders : PopenTake(c)
    \/ ChildTurn \/ OutputsClosed \/ ErrClosed \/ ChildExits

(* The loop dispatches the events that fire, the kernel lets a write go on, *)
(* and a child that can go on does.                                         *)
PopenFairness ==
    /\ WF_popenVars(popen_stdout_cb)
    /\ WF_popenVars(popen_stderr_cb)
    /\ WF_popenVars(WriteReturns)
    /\ WF_popenVars(ChildTurn)

-----------------------------------------------------------------------------
(* child_pid is set exactly while the child is not waited for, so that     *)
(* close never signals a pid the system may have given away; after close   *)
(* the child is gone and no event or write end is left.  ondisconnected is *)
(* called at most once, never after close, only when both outputs ended;   *)
(* it reports the exit code unless is_alive reaped the child before or the *)
(* child was still running.                                                *)
ChildAccounted ==
    /\ pp.pid <=> child.st \in {"run", "exited"}
    /\ plog.killed \in {"no", "run", "exited"}
    /\ pp.closed => /\ child.st = "reaped"
                    /\ ~pp.stdout_ev /\ ~pp.stderr_ev /\ "parent" \notin child.holders
    /\ plog.told <= 1
    /\ plog.told = 1 => pp.set.ondisconnected /\ ~pp.stdout_ev /\ ~pp.stderr_ev
    /\ plog.exit = "code" <=> plog.reaper = "disconnect"
    /\ plog.exit = "reaped" => plog.reaper = "is_alive"
    /\ plog.exit \in {"nil", "code", "reaped", "run"}

(* A coroutine that waits in receive is registered, was replaced by a      *)
(* later receiver, or was left waiting by close.                           *)
PopenReceiverRegistered ==
    /\ {c \in PopenReaders : pc.st[c] = "waiting"} = ({pc.receiving} \ {NoReader}) \cup plog.lost
    /\ pc.receiving # NoReader => pc.available < pc.expect /\ (pc.disconnected => pp.closed)

(* Once nobody holds the outputs, the end is reported, if an output has    *)
(* an event and ondisconnected is set, or the object was closed, or the    *)
(* program is kept inside a write.                                         *)
EndReported ==
    (pp.stdout_ev \/ pp.stderr_ev) /\ pp.set.ondisconnected /\ ~child.outHeld /\ ~child.errHeld
        ~> plog.told = 1 \/ pp.closed \/ pp.writing

(* A write to the child returns, unless the child itself waits for the      *)
(* program to read one of its outputs, or has closed its eyes to stdin.     *)
PopenSendReturns ==
    pp.writing ~> ~pp.writing
                  \/ (child.next = "out" /\ child.out = PopenPipe)
                  \/ (child.next = "err" /\ child.err = PopenPipe)
=============================================================================
