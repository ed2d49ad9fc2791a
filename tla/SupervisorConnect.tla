--------------------------- MODULE SupervisorConnect ---------------------------
(***************************************************************************)
(* How panes and commands find the one supervisor of their user, or start  *)
(* it: supervisor/client.py SupervisorClient.connect, the lock file that   *)
(* they share, and the boot of supervisor/runtime.py SupervisorServer.     *)
(* What a supervisor does once it serves is module Supervisor.             *)
(***************************************************************************)
EXTENDS Naturals

CONSTANTS Clients,      \* panes and commands of one user
          MaxServers,   \* bound: supervisors that are ever spawned
          None

VARIABLES at,        \* where every client's connect is
          lock,      \* the client that holds the lock file
          server,    \* every supervisor process
          file,      \* the supervisor whose endpoint the state file names
          deserted   \* history: a client left while a supervisor booted, or
                     \* a live one did not answer a client in time

connectVars == <<at, lock, server, file, deserted>>

Servers == 1..MaxServers
Booting == {p \in Servers : server[p] \in {"spawned", "saved"}}
Live == {p \in Servers : server[p] \in {"bound", "serving"}}

\* The endpoint is known to nobody before the state file names it.
Answers == file \in Live

Init ==
  /\ at = [c \in Clients |-> "idle"] /\ lock = None
  /\ server = [p \in Servers |-> "none"] /\ file = None
  /\ deserted = FALSE

Goes(c, place) == at' = [at EXCEPT ![c] = place]
Leaves(c) == Goes(c, "idle") /\ lock' = IF lock = c THEN None ELSE lock

-----------------------------------------------------------------------------
(* connect.                                                                *)

\* A client that was connected pings first; adopting needs no lock.
Connect(c) ==
  /\ at[c] = "idle" /\ Goes(c, "queued")
  /\ UNCHANGED <<lock, server, file, deserted>>

Acquire(c) ==
  /\ at[c] = "queued" /\ lock = None
  /\ lock' = c /\ Goes(c, "checking")
  /\ UNCHANGED <<server, file, deserted>>

\* SUPERVISOR_LOCK_TIMEOUT_SECONDS, or the pane is quit.
LockTimesOut(c) ==
  /\ at[c] = "queued" /\ Leaves(c)
  /\ UNCHANGED <<server, file, deserted>>

\* The second ping, under the lock.
Adopt(c) ==
  /\ at[c] = "checking" /\ Answers
  /\ Leaves(c)
  /\ UNCHANGED <<server, file, deserted>>

Spawns(p) == server[p] = "none" /\ server' = [server EXCEPT ![p] = "spawned"]

StartSupervisor(c) ==
  /\ at[c] = "checking" /\ ~Answers
  /\ \E p \in Servers : Spawns(p)
  /\ Goes(c, "waiting")
  /\ UNCHANGED <<lock, file, deserted>>

\* The ping of a live supervisor times out.
StartAnother(c) ==
  /\ at[c] = "checking" /\ Answers
  /\ \E p \in Servers : Spawns(p)
  /\ Goes(c, "waiting") /\ deserted' = TRUE
  /\ UNCHANGED <<lock, file>>

\* _wait_until_ready.
Ready(c) ==
  /\ at[c] = "waiting" /\ Answers
  /\ Leaves(c)
  /\ UNCHANGED <<server, file, deserted>>

BugGiveUp(c) ==
  /\ at[c] \in {"checking", "waiting"}
  /\ Goes(c, "idle") /\ deserted' = (deserted \/ Booting # {})
  /\ UNCHANGED <<server, file, lock>>

\* SUPERVISOR_START_TIMEOUT_SECONDS, or the pane is quit: the lock is free
\* while the supervisor may still come up.
GiveUp(c) ==
  /\ at[c] \in {"checking", "waiting"}
  /\ Leaves(c) /\ deserted' = (deserted \/ Booting # {})
  /\ UNCHANGED <<server, file>>

-----------------------------------------------------------------------------
(* SupervisorServer.run.                                                   *)

\* _load_or_create_state takes the file over and names its own endpoint.
SavesState(p) ==
  /\ server[p] = "spawned"
  /\ server' = [server EXCEPT ![p] = "saved"] /\ file' = p
  /\ UNCHANGED <<at, lock, deserted>>

Binds(p) ==
  /\ server[p] = "saved"
  /\ server' = [server EXCEPT ![p] = "bound"]
  /\ UNCHANGED <<at, lock, file, deserted>>

\* The second save, with the endpoint that was bound.
Serves(p) ==
  /\ server[p] = "bound"
  /\ server' = [server EXCEPT ![p] = "serving"] /\ file' = p
  /\ UNCHANGED <<at, lock, deserted>>

\* A crash, or a boot that fails; the file keeps naming the endpoint.
Dies(p) ==
  /\ server[p] \notin {"none", "gone"}
  /\ server' = [server EXCEPT ![p] = "gone"]
  /\ UNCHANGED <<at, lock, file, deserted>>

Next ==
  \/ \E c \in Clients :
       \/ Connect(c) \/ Acquire(c) \/ LockTimesOut(c) \/ Adopt(c)
       \/ StartSupervisor(c) \/ StartAnother(c) \/ Ready(c) \/ GiveUp(c)
  \/ \E p \in Servers : SavesState(p) \/ Binds(p) \/ Serves(p) \/ Dies(p)

\* Every wait of a client has its deadline, and the lock file passes to one
\* of those who poll for it.
Fairness ==
  \A c \in Clients :
    /\ WF_connectVars(LockTimesOut(c) \/ Acquire(c))
    /\ WF_connectVars(GiveUp(c) \/ Adopt(c) \/ Ready(c))

-----------------------------------------------------------------------------
TypeOK ==
  /\ at \in [Clients -> {"idle", "queued", "checking", "waiting"}]
  /\ lock \in Clients \cup {None} /\ file \in Servers \cup {None}
  /\ server \in [Servers -> {"none", "spawned", "saved", "bound", "serving", "gone"}]
  /\ deserted \in BOOLEAN

(***************************************************************************)
(* "Adopt a healthy supervisor or atomically start one": at most one       *)
(* supervisor is up or coming up, and the file names it, so workers are    *)
(* never looked after by two.  It takes the patience of those who start    *)
(* one: after a client left a boot, the next one starts another.           *)
(***************************************************************************)
OneSupervisor ==
  ~deserted => /\ \A p, q \in Booting \cup Live : p = q
               /\ Live \subseteq {file}

\* A connect ends, whoever else holds the lock file, and gives it back.
ConnectEnds == \A c \in Clients : at[c] # "idle" ~> at[c] = "idle" /\ lock # c
=============================================================================
