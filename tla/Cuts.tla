-------------------------------- MODULE Cuts --------------------------------
(* Frontiers of a distributed execution, as consistent_cut.rs and            *)
(* recovery_line.rs have them: how many events of each process are inside.   *)
(* A log is a set of delivered messages, each with its sender's and its      *)
(* receiver's event number, counted from 1.                                  *)
EXTENDS Naturals

\* Received inside and sent outside.
Orphan(m, frontier) ==
  /\ m.received <= frontier[m.to]
  /\ m.sent > frontier[m.from]

\* Cut::verify returns Ok.
Verifies(frontier, log) == \A m \in log : ~ Orphan(m, frontier)

\* Mutant: it goes back one event too far.
RolledBackPast(frontier, m) == [frontier EXCEPT ![m.to] = m.received - 2]

\* The domino step of Line::resolve: the receiver goes back below the receive.
RolledBack(frontier, m) == [frontier EXCEPT ![m.to] = m.received - 1]

Below(frontier, other) == \A p \in DOMAIN frontier : frontier[p] <= other[p]
=============================================================================
