---------------------------- MODULE MCMpmcQueue ----------------------------
(* Small instances of MpmcQueue for TLC. *)
EXTENDS MpmcQueue

CONSTANTS p1, p2, c1, c2, a, b

MCProducers == {p1, p2}
MCConsumers == {c1, c2}
MCItems == {a, b}
=============================================================================
