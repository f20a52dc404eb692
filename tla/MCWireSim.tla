----------------------------- MODULE MCWireSim -----------------------------
(* Instances of WireSim: the leases and the silence of tests/wire_sim.rs,   *)
(* and time enough for the latest election to end.                          *)
EXTENDS WireSim

============================================================================
