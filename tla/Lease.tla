------------------------------- MODULE Lease -------------------------------
(***************************************************************************)
(* What a resource pool promises its clients, with no queue, no idle list  *)
(* and no callbacks: a resource is leased to at most one borrower at a     *)
(* time, and at most Limit of them are out at once.  Returning a resource  *)
(* may pass it straight to another borrower.                               *)
(***************************************************************************)
EXTENDS Naturals, FiniteSets

CONSTANTS Borrowers, Resources, Free, Limit

VARIABLE lease

Leased == {b \in Borrowers : lease[b] # Free}

Init == lease = [b \in Borrowers |-> Free]

Acquire(b, r) ==
  /\ lease[b] = Free
  /\ \A a \in Borrowers : lease[a] # r
  /\ Cardinality(Leased) < Limit
  /\ lease' = [lease EXCEPT ![b] = r]

Release(b) ==
  /\ lease[b] # Free
  /\ lease' = [lease EXCEPT ![b] = Free]

Transfer(b, a) ==
  /\ lease[b] # Free
  /\ lease[a] = Free
  /\ lease' = [lease EXCEPT ![b] = Free, ![a] = lease[b]]

Next ==
  \E b \in Borrowers :
    \/ \E r \in Resources : Acquire(b, r)
    \/ Release(b)
    \/ \E a \in Borrowers : Transfer(b, a)

Spec == Init /\ [][Next]_lease
=============================================================================
