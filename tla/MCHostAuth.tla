----------------------------- MODULE MCHostAuth -----------------------------
(* Instances of HostAuth for TLC. *)
EXTENDS HostAuth, TLC

CONSTANTS h1, h2, c1, c2, f1, f2, i1, i2

OneHost == {h1}
TwoHosts == {h1, h2}
OneCaller == {c1}
TwoCallers == {c1, c2}
OneFlight == {f1}
TwoFlights == {f1, f2}
OneAttempt == {i1}
TwoAttempts == {i1, i2}

=============================================================================
