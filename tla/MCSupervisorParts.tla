-------------------------- MODULE MCSupervisorParts --------------------------
(***************************************************************************)
(* One instance of Supervisor for two questions at once: two agents as     *)
(* long as nothing is wrong, one agent with crashes, failing saves and     *)
(* reused process ids.                                                     *)
(***************************************************************************)
EXTENDS Supervisor, TLC

CONSTANTS a1, a2, p1, p2

PidSymmetry == Permutations(Pids)

\* A START found its agent's record in error and made a second worker.
Displaced == \E p \in Pids : proc[p].displaced

NoFaults == faults = <<0, 0>> /\ \A p \in Pids : proc[p].kind # "other"

OneAgent ==
    /\ mem[a2] = None /\ disk[a2] = None /\ target # a2
    /\ \A p \in Pids : proc[p].kind = "worker" => proc[p].agent # a2

\* The bound on the states whose successors are explored.
FaultsOrAgents ==
    \/ NoFaults /\ ~Displaced
    \/ OneAgent /\ (Displaced => failures = 0)
=============================================================================
