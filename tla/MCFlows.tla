------------------------------- MODULE MCFlows -------------------------------
\* Values for Flows, small enough for TLC.
EXTENDS Flows

\* Requests fail, or the user starts an agent that is being deleted.
TwoModes == {{"lossy"}, {"eager"}}

\* The platform has one room to begin with.
OneRoom == {<<1>>}
=============================================================================
