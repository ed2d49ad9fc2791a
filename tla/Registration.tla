----------------------------- MODULE Registration -----------------------------
(***************************************************************************)
(* What registering, reconfiguring and deleting a managed agent does to    *)
(* the platform, to the keyring and to managed_agents.json                 *)
(* (ManagedAgentStore).  Every Band pane reads the file once and keeps its *)
(* snapshot.  A pane may be closed at any step, a call may be refused, and  *)
(* the answer of a request to the platform may be lost.                    *)
(***************************************************************************)
EXTENDS Naturals, FiniteSets

CONSTANTS Ids,        \* agent ids the platform hands out, never twice
          Panes,      \* Band panes of one user
          Tunings,    \* profiles in the adapters' present vocabulary
          Old,        \* a profile of an earlier vocabulary
          None,
          MaxTasks    \* bound: operations that are begun

VARIABLES agents,    \* the user's agents on the platform
          retired,   \* ids of deleted agents
          keys,      \* agents whose API key is in the keyring
          file,      \* managed_agents.json
          memory,    \* ManagedAgentStore._profiles of every pane, None while it is closed
          task,      \* what a pane's screens are doing, one operation at a time
          tasks,
          keyed,     \* agents whose key has ever been stored
          broken,    \* history: agents an operation on which was broken off: an answer
                     \* was lost, a clean-up or a later step failed, the pane was closed,
                     \* or the agent was deleted elsewhere
          diverged   \* two panes have been open at once, or a pane could not read the file

registrationVars == <<agents, retired, keys, file, memory, task, tasks,
                      keyed, broken, diverged>>
remote == <<agents, retired, keys, keyed>>

Values == Tunings \cup {Old, None}
Nobody == [i \in Ids |-> None]
Idle == [op |-> "none", at |-> "idle", id |-> None, value |-> None]
Steps == {"create", "key", "rollback", "record", "cleanup", "forget", "delete", "drop"}

\* normalize_tuning: what a selection means in the present vocabulary.
Normalized(v) == IF v = Old THEN CHOOSE t \in Tunings : TRUE ELSE v

Init ==
  /\ file \in [Ids -> Values]
  /\ agents = {i \in Ids : file[i] # None} /\ keys = agents /\ keyed = keys /\ retired = {}
  /\ memory = [p \in Panes |-> None]
  /\ task = [p \in Panes |-> Idle] /\ tasks = 0
  /\ broken = {} /\ diverged = FALSE

IsOpen(p) == memory[p] # None
Goes(p, at) == task' = [task EXCEPT ![p].at = at]
Ends(p) == task' = [task EXCEPT ![p] = Idle]
Breaks(i) == broken' = broken \cup {i}

Begins(p, op, at, i, v) ==
  /\ IsOpen(p) /\ task[p] = Idle /\ tasks < MaxTasks
  /\ tasks' = tasks + 1
  /\ task' = [task EXCEPT ![p] = [op |-> op, at |-> at, id |-> i, value |-> v]]

-----------------------------------------------------------------------------
(* Panes.                                                                  *)

\* ManagedAgentStore._load: the snapshot is normalized and, if it differs,
\* saved; a save that fails is ignored.  A file that cannot be read or parsed
\* is taken for an empty one.
Opens(p) ==
  LET loaded == [i \in Ids |-> Normalized(file[i])] IN
  /\ ~IsOpen(p)
  /\ \/ /\ memory' = [memory EXCEPT ![p] = loaded]
        /\ file' \in {file, loaded}
        /\ diverged' = (diverged \/ \E q \in Panes : IsOpen(q))
     \/ /\ memory' = [memory EXCEPT ![p] = Nobody]
        /\ UNCHANGED file
        /\ diverged' = TRUE
  /\ UNCHANGED <<remote, task, tasks, broken>>

\* The pane is closed or dies; nothing takes up what it was doing.
Closes(p) ==
  /\ IsOpen(p)
  /\ memory' = [memory EXCEPT ![p] = None]
  /\ Ends(p) /\ broken' = broken \cup ({task[p].id} \ {None})
  /\ UNCHANGED <<remote, file, tasks, diverged>>

\* _commit, whose save replaces the whole file by the pane's snapshot, and
\* which restores the snapshot when the save fails.
Commits(p, i, v) ==
  /\ memory' = [memory EXCEPT ![p][i] = v]
  /\ file' = memory'[p]

Fails(p) == UNCHANGED <<memory, file>>

-----------------------------------------------------------------------------
(* RegisterAgentScreen._submit and BandClient.create_agent.                *)

Register(p) ==
  /\ \E v \in Tunings : Begins(p, "register", "create", None, v)
  /\ UNCHANGED <<remote, file, memory, broken, diverged>>

\* The answer names the agent and holds its key.
KeyMade(p, i) ==
  task' = [task EXCEPT ![p] = [op |-> "register", at |-> "key", id |-> i, value |-> task[p].value]]

\* The platform registers the agent, refuses it, or its answer is lost.
Created(p) ==
  /\ task[p].at = "create"
  /\ \/ \E i \in Ids \ (agents \cup retired) :
          /\ agents' = agents \cup {i}
          /\ \/ KeyMade(p, i) /\ UNCHANGED broken
             \/ Ends(p) /\ Breaks(i)
     \/ Ends(p) /\ UNCHANGED <<agents, broken>>
  /\ UNCHANGED <<retired, keys, keyed, file, memory, tasks, diverged>>

BugKeyStored(p) ==
  /\ task[p].at = "key"
  /\ \/ keys' = keys \cup {task[p].id} /\ keyed' = keyed \cup {task[p].id} /\ Goes(p, "record")
     \/ Ends(p) /\ UNCHANGED <<keys, keyed>>
  /\ UNCHANGED <<agents, retired, file, memory, tasks, broken, diverged>>

\* A key that cannot be stored rolls the registration back.
KeyStored(p) ==
  /\ task[p].at = "key"
  /\ \/ keys' = keys \cup {task[p].id} /\ keyed' = keyed \cup {task[p].id} /\ Goes(p, "record")
     \/ Goes(p, "rollback") /\ UNCHANGED <<keys, keyed>>
  /\ UNCHANGED <<agents, retired, file, memory, tasks, broken, diverged>>

\* _rollback_agent_registration, which tells nobody that it failed, and the
\* platform half of delete_agent behind a profile that was not saved.
Withdrawn(p) ==
  LET i == task[p].id IN
  /\ task[p].at \in {"rollback", "cleanup"}
  /\ \/ /\ agents' = agents \ {i} /\ retired' = retired \cup {i}
        /\ \/ /\ IF task[p].at = "cleanup" THEN Goes(p, "drop") ELSE Ends(p)
              /\ UNCHANGED broken
           \/ Ends(p) /\ Breaks(i)
     \/ Ends(p) /\ Breaks(i) /\ UNCHANGED <<agents, retired>>
  /\ UNCHANGED <<keys, keyed, file, memory, tasks, diverged>>

\* ManagedAgentStore.record of a new agent.
Recorded(p) ==
  /\ task[p].at = "record" /\ task[p].op = "register"
  /\ \/ Commits(p, task[p].id, task[p].value) /\ Ends(p)
     \/ Fails(p) /\ Goes(p, "cleanup")
  /\ UNCHANGED <<remote, tasks, broken, diverged>>

-----------------------------------------------------------------------------
(* _submit_reconfigure and set_git_init_declined.                          *)

\* The new profile is made from what the pane knows when it is recorded.
Reconfigure(p, i) ==
  /\ \E v \in Tunings : Begins(p, "reconfigure", "record", i, v)
  /\ i \in agents
  /\ UNCHANGED <<remote, file, memory, broken, diverged>>

Reconfigured(p) ==
  /\ task[p].at = "record" /\ task[p].op = "reconfigure"
  /\ \/ Commits(p, task[p].id, task[p].value)
     \/ Fails(p)
  /\ Ends(p)
  /\ UNCHANGED <<remote, tasks, broken, diverged>>

-----------------------------------------------------------------------------
(* ManagedAgentOperations.delete behind the stop of the worker.            *)

Delete(p, i) ==
  /\ i \in agents \cup retired
  /\ Begins(p, "delete", "delete", i, None)
  /\ UNCHANGED <<remote, file, memory, broken, diverged>>

\* The platform deletes the agent, and its answer may be lost: key and profile
\* stay.  An agent that is missing is forgotten by the screen, its key stays.
Deleted(p) ==
  LET i == task[p].id IN
  /\ task[p].at = "delete"
  /\ \/ /\ i \in agents
        /\ agents' = agents \ {i} /\ retired' = retired \cup {i}
        /\ \/ Goes(p, "drop") /\ UNCHANGED broken
           \/ Ends(p) /\ Breaks(i)
     \/ i \notin agents /\ Goes(p, "forget") /\ UNCHANGED <<agents, retired, broken>>
     \/ Ends(p) /\ UNCHANGED <<agents, retired, broken>>
  /\ UNCHANGED <<keys, keyed, file, memory, tasks, diverged>>

\* The key is deleted behind the agent.  The keyring's PasswordDeleteError is
\* taken for a key that was gone; any other error breaks the operation off.
KeyDropped(p) ==
  LET i == task[p].id
      goesOn == IF task[p].op = "delete" THEN Goes(p, "forget") ELSE Ends(p)
  IN
  /\ task[p].at = "drop"
  /\ \/ keys' = keys \ {i} /\ goesOn /\ UNCHANGED broken
     \/ UNCHANGED keys /\ Breaks(i) /\ (goesOn \/ Ends(p))
  /\ UNCHANGED <<agents, retired, keyed, file, memory, tasks, diverged>>

\* ManagedAgentStore.remove, which does nothing without a profile.
Forgotten(p) ==
  LET i == task[p].id IN
  /\ task[p].at = "forget" /\ Ends(p)
  /\ \/ memory[p][i] # None /\ Commits(p, i, None) /\ UNCHANGED broken
     \/ memory[p][i] = None /\ Fails(p) /\ UNCHANGED broken
     \/ memory[p][i] # None /\ Fails(p) /\ Breaks(i)
  /\ UNCHANGED <<remote, tasks, diverged>>

\* The user deletes the agent with another program.
DeletedElsewhere(i) ==
  /\ i \in agents /\ agents' = agents \ {i} /\ retired' = retired \cup {i}
  /\ Breaks(i)
  /\ UNCHANGED <<keys, keyed, file, memory, task, tasks, diverged>>

Next ==
  \/ \E i \in Ids : DeletedElsewhere(i)
  \/ \E p \in Panes :
       \/ Opens(p) \/ Closes(p)
       \/ Register(p) \/ Created(p) \/ KeyStored(p) \/ Withdrawn(p) \/ Recorded(p)
       \/ \E i \in Ids : Reconfigure(p, i) \/ Delete(p, i)
       \/ Reconfigured(p) \/ Deleted(p) \/ KeyDropped(p) \/ Forgotten(p)

-----------------------------------------------------------------------------
TypeOK ==
  /\ agents \subseteq Ids /\ retired \subseteq Ids /\ keys \subseteq Ids
  /\ agents \cap retired = {}
  /\ file \in [Ids -> Values]
  /\ memory \in [Panes -> {None} \cup [Ids -> Tunings \cup {None}]]
  /\ \A p \in Panes : task[p].at \in Steps \cup {"idle"} /\ task[p].id \in Ids \cup {None}
  /\ tasks \in 0..MaxTasks /\ broken \subseteq Ids /\ diverged \in BOOLEAN

(***************************************************************************)
(* A key that was stored is kept as long as its agent is on the platform,  *)
(* so START does not end in "re-register this agent from `band agent`",    *)
(* whatever step of a registration or a deletion failed (client.py         *)
(* create_agent, delete_agent).                                            *)
(***************************************************************************)
KeyLastsAsItsAgent == keyed \cap agents \subseteq keys

(***************************************************************************)
(* A profile changes in the file only by the operation on that agent, as   *)
(* long as one pane is open at a time and could read the file.  With two,  *)
(* the snapshot of one overwrites what the other recorded.                 *)
(***************************************************************************)
ProfilesAreKept ==
  [][\A i \in Ids : ~diverged' /\ file'[i] # Normalized(file[i]) /\ file'[i] # file[i]
        => \E p \in Panes : task[p].id = i /\ task'[p] = Idle]_registrationVars

\* What the only pane shows as the profiles is what the file holds, also
\* after a save failed (ManagedAgentStore._commit).
SnapshotIsFile ==
  \A p \in Panes : ~diverged /\ IsOpen(p) => memory[p] = [i \in Ids |-> Normalized(file[i])]

(***************************************************************************)
(* Every agent that no operation is at work on has, on the platform, its   *)
(* key and its profile, or none of the three: a registration whose key or  *)
(* profile cannot be stored is taken back as a whole, and what is broken   *)
(* off for one agent leaves the others whole.  It does not speak of the    *)
(* agents that are broken themselves (create_agent, _submit, delete).      *)
(***************************************************************************)
NothingHalfRegistered ==
  ~diverged =>
    \A i \in Ids \ broken : (\A p \in Panes : task[p].id # i)
       => (i \in keys <=> i \in agents) /\ (file[i] # None <=> i \in agents)

(***************************************************************************)
(* Deleting an agent drops its stored key: once nothing is under way a key *)
(* in the keyring is that of an agent on the platform, or of one that has  *)
(* a profile and can be deleted again (client.py delete_agent).            *)
(***************************************************************************)
KeysAreInUse ==
  (\A p \in Panes : task[p] = Idle) => \A i \in keys : i \in agents \/ file[i] # None

\* Platform, keyring, file and snapshots agree as far as one pane can ensure
\* it, and no profile is dropped by a save.
RegistrationIsWhole ==
  /\ [](KeyLastsAsItsAgent /\ SnapshotIsFile /\ NothingHalfRegistered)
  /\ ProfilesAreKept
=============================================================================
