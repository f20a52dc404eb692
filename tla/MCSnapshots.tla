----------------------------- MODULE MCSnapshots -----------------------------
(* Instances of Snapshots: a ring of three with a shortcut, so that one      *)
(* process has two channels to record.                                       *)
EXTENDS Snapshots

CONSTANTS a, b, c

RingAndShortcut == {<<a, b>>, <<b, c>>, <<c, a>>, <<a, c>>}

=============================================================================
