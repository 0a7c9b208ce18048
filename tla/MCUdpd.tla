------------------------------ MODULE MCUdpd -------------------------------
(* Two connections and one destination look-up.                             *)
EXTENDS Udpd

CONSTANTS c1, c2, a1

MCConns == {c1, c2}
MCAsks == {a1}

Table(target, onread, onsend, bindHost, selfFirst) ==
  [target |-> target, onread |-> onread, onsend |-> onsend,
   bindHost |-> bindHost, selfFirst |-> selfFirst]

MCTables == {Table("address", TRUE, TRUE, FALSE, TRUE),
             Table("name", TRUE, TRUE, TRUE, TRUE),
             Table("name", TRUE, FALSE, FALSE, FALSE),
             Table("none", TRUE, FALSE, FALSE, TRUE),
             Table("bad_port", TRUE, TRUE, FALSE, FALSE)}
=============================================================================
