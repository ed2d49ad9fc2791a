---------------------------- MODULE OpenCodeServer ----------------------------
(***************************************************************************)
(* The `opencode serve` child that a control pane (or an OpenCode worker)  *)
(* owns, agent/opencode_server.py, and the cache of model catalogs that    *)
(* asks it for models, catalogs/service.py.  Tasks of one event loop call  *)
(* ModelCatalogService.load or OpenCodeServerManager.close and may be      *)
(* cancelled at every await: the wizard's loader is an exclusive worker,   *)
(* and an application that quits cancels its workers.                      *)
(***************************************************************************)
EXTENDS Naturals

CONSTANTS Loads,        \* tasks that load the OpenCode catalog
          Closes,       \* tasks that close the server: sign-out, unmount
          MaxServers,   \* bound: children ever spawned
          None

VARIABLES at,        \* where every task is
          locked,    \* the task that holds the manager's lock
          child,     \* every child ever spawned
          slot,      \* self._process
          endpoint,  \* self._endpoint is set
          closing,   \* the child that _close_locked waits for, and what follows
          loading,   \* the task that holds the catalog's lock
          catalog    \* the catalog is cached

serverVars == <<at, locked, child, slot, endpoint, closing, loading, catalog>>

Servers == 1..MaxServers
Tasks == Loads \cup Closes

\* A signalled child may ignore all but a kill.
Untold == {p \in Servers : child[p] \in {"up", "healthy"}}
Running(p) == p # None /\ child[p] # "gone"

Init ==
  /\ at = [t \in Tasks |-> "idle"]
  /\ locked = None /\ loading = None
  /\ child = [p \in Servers |-> "none"]
  /\ slot = None /\ endpoint = FALSE /\ closing = None
  /\ catalog = FALSE

Goes(t, place) == at' = [at EXCEPT ![t] = place]
Drops(lock, t) == IF lock = t THEN None ELSE lock

\* The task ends: it leaves the locks that it holds.
Ends(t) ==
  /\ Goes(t, "idle")
  /\ locked' = Drops(locked, t) /\ loading' = Drops(loading, t)
  /\ closing' = IF locked = t THEN None ELSE closing

\* What follows a close: a start, the failure of the start, or nothing.
After(t, next) ==
  IF next = "start"
  THEN Goes(t, "spawning") /\ locked' = t /\ closing' = None /\ UNCHANGED loading
  ELSE Ends(t)

\* ModelCatalogService.load: a cached catalog is returned without the lock.
Load(t) ==
  /\ t \in Loads /\ at[t] = "idle" /\ ~catalog
  /\ Goes(t, "queued")
  /\ UNCHANGED <<locked, child, slot, endpoint, closing, loading, catalog>>

\* The lock is granted: the cache is read again before the loader runs.
EnterCatalog(t) ==
  /\ at[t] = "queued" /\ loading = None
  /\ IF catalog THEN Goes(t, "idle") /\ UNCHANGED loading
                ELSE Goes(t, "wanting") /\ loading' = t
  /\ UNCHANGED <<locked, child, slot, endpoint, closing, catalog>>

AskToClose(t) ==
  /\ t \in Closes /\ at[t] = "idle"
  /\ Goes(t, "wanting")
  /\ UNCHANGED <<locked, child, slot, endpoint, closing, loading, catalog>>

BugBeginClose(t, next) ==
  /\ slot' = None /\ endpoint' = FALSE
  /\ UNCHANGED child /\ After(t, next)

(***************************************************************************)
(* _close_locked up to its first await: the fields are cleared before      *)
(* anything is awaited, a running child is terminated.                     *)
(***************************************************************************)
BeginClose(t, next) ==
  /\ slot' = None /\ endpoint' = FALSE
  /\ IF Running(slot)
     THEN /\ child' = [child EXCEPT ![slot] = "told"]
          /\ closing' = [server |-> slot, next |-> next]
          /\ locked' = t /\ Goes(t, "stopping") /\ UNCHANGED loading
     ELSE UNCHANGED child /\ After(t, next)

\* ensure: only a child that is known to serve is probed, any other is closed.
Ensure(t) ==
  /\ t \in Loads /\ at[t] = "wanting" /\ locked = None
  /\ IF Running(slot) /\ endpoint
     THEN /\ locked' = t /\ Goes(t, "probing")
          /\ UNCHANGED <<child, slot, endpoint, closing, loading>>
     ELSE BeginClose(t, "start")
  /\ UNCHANGED catalog

Close(t) ==
  /\ t \in Closes /\ at[t] = "wanting" /\ locked = None
  /\ BeginClose(t, "done")
  /\ UNCHANGED catalog

\* _health_check's answer; a child that answered once may fail to in time.
Probed(t) ==
  /\ at[t] = "probing"
  /\ \/ /\ child[slot] = "healthy"
        /\ Goes(t, "fetching") /\ locked' = None
        /\ UNCHANGED <<child, slot, endpoint, closing, loading>>
     \/ BeginClose(t, "start")
  /\ UNCHANGED catalog

\* create_subprocess_exec answers with a child, or fails.
Spawned(t) ==
  /\ at[t] = "spawning"
  /\ \/ \E p \in Servers :
          /\ child[p] = "none" /\ \A q \in 1..(p - 1) : child[q] # "none"
          /\ child' = [child EXCEPT ![p] = "up"]
          /\ slot' = p /\ Goes(t, "waiting")
          /\ UNCHANGED <<locked, closing, loading>>
     \/ Ends(t) /\ UNCHANGED <<child, slot>>
  /\ UNCHANGED <<endpoint, catalog>>

\* The address was announced and the health check answered.
Ready(t) ==
  /\ at[t] = "waiting" /\ child[slot] = "healthy"
  /\ endpoint' = TRUE
  /\ Goes(t, "fetching") /\ locked' = None
  /\ UNCHANGED <<child, slot, closing, loading, catalog>>

\* The startup timeout, a child that exits first, or the task is cancelled.
StartFails(t) ==
  /\ at[t] = "waiting"
  /\ BeginClose(t, "raise")
  /\ UNCHANGED catalog

\* process.wait() returns; the reader task is cancelled and gathered.
Stopped(t) ==
  /\ at[t] \in {"stopping", "killing"} /\ child[closing.server] = "gone"
  /\ After(t, closing.next)
  /\ UNCHANGED <<child, slot, endpoint, catalog>>

ShutdownTimeout(t) ==
  /\ at[t] = "stopping" /\ child[closing.server] = "told"
  /\ Goes(t, "killing")
  /\ child' = [child EXCEPT ![closing.server] = "killed"]
  /\ UNCHANGED <<locked, slot, endpoint, closing, loading, catalog>>

\* GET /config/providers: the catalog is cached, or the load fails.
Fetched(t) ==
  /\ at[t] = "fetching"
  /\ catalog' \in {catalog, TRUE}
  /\ Ends(t)
  /\ UNCHANGED <<child, slot, endpoint>>

(***************************************************************************)
(* CancelledError at an await of a load.  Only _start_locked closes the    *)
(* server for it (StartFails); asyncio reaps a child whose creation is     *)
(* cancelled; a cancelled _close_locked sends no kill.                     *)
(***************************************************************************)
Cancel(t) ==
  /\ t \in Loads /\ at[t] \notin {"idle", "waiting"}
  /\ Ends(t)
  /\ UNCHANGED <<child, slot, endpoint, catalog>>

\* The children: they come up, ignore or obey a signal, and die at any time.
ComesUp(p) ==
  /\ child[p] = "up" /\ child' = [child EXCEPT ![p] = "healthy"]
  /\ UNCHANGED <<at, locked, slot, endpoint, closing, loading, catalog>>

Dies(p) ==
  /\ child[p] \notin {"none", "gone"} /\ child' = [child EXCEPT ![p] = "gone"]
  /\ UNCHANGED <<at, locked, slot, endpoint, closing, loading, catalog>>

Advances(t) ==
  \/ EnterCatalog(t) \/ Ensure(t) \/ Close(t) \/ Probed(t) \/ Spawned(t)
  \/ StartFails(t) \/ Stopped(t) \/ ShutdownTimeout(t) \/ Fetched(t)

Next ==
  \/ \E t \in Tasks : Load(t) \/ AskToClose(t) \/ Cancel(t)
  \/ \E t \in Tasks : EnterCatalog(t) \/ Ensure(t) \/ Close(t)
  \/ \E t \in Tasks : Probed(t) \/ Spawned(t) \/ Ready(t) \/ StartFails(t)
  \/ \E t \in Tasks : Stopped(t) \/ ShutdownTimeout(t) \/ Fetched(t)
  \/ \E p \in Servers : ComesUp(p) \/ Dies(p)

(***************************************************************************)
(* The lock is fair and every wait of a task has a timeout or ends when a  *)
(* killed child is gone, which the kernel sees to.                         *)
(***************************************************************************)
Fairness ==
  /\ \A t \in Tasks : SF_serverVars(EnterCatalog(t) \/ Ensure(t) \/ Close(t))
  /\ \A t \in Tasks : WF_serverVars(Probed(t) \/ Spawned(t) \/ StartFails(t) \/ Stopped(t)
                                      \/ ShutdownTimeout(t) \/ Fetched(t))
  /\ \A p \in Servers : WF_serverVars(child[p] = "killed" /\ Dies(p))

-----------------------------------------------------------------------------
(***************************************************************************)
(* "starting it exactly once": a child that runs and was not told to stop  *)
(* is the one the manager holds, so close reaches it, whatever was         *)
(* cancelled before, and there is never a second one.                      *)
(***************************************************************************)
NoStrayServer == Untold \subseteq {slot}

\* The catalog is loaded once: no loader runs after an answer was cached.
LoadedOnce == \A t \in Loads : at[t] \in {"wanting", "probing", "spawning", "waiting", "fetching"} => ~catalog

\* A sign-out's or a closing pane's close returns, whatever the child does.
CloseReturns == \A t \in Closes : at[t] = "wanting" ~> at[t] = "idle"

TypeOK ==
  /\ at \in [Tasks -> {"idle", "queued", "wanting", "probing", "spawning", "waiting",
                       "stopping", "killing", "fetching"}]
  /\ locked \in Tasks \cup {None} /\ loading \in Loads \cup {None}
  /\ child \in [Servers -> {"none", "up", "healthy", "told", "killed", "gone"}]
  /\ slot \in Servers \cup {None} /\ endpoint \in BOOLEAN /\ catalog \in BOOLEAN
  /\ closing \in [server : Servers, next : {"start", "raise", "done"}] \cup {None}
=============================================================================
