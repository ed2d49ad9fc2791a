---------------------------- MODULE MCSupervisor ----------------------------
(* Instances of Supervisor for TLC. *)
EXTENDS Supervisor

CONSTANTS a1, a2, p1, p2

OneAgent == {a1}
TwoPids == {p1, p2}

=============================================================================
