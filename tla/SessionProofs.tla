---------------------------- MODULE SessionProofs ----------------------------
(***************************************************************************)
(* The parts of module Session for any values of its constants: their      *)
(* types, and the servers that a view owns.                                *)
(***************************************************************************)
EXTENDS Session, ControlSessionProofs

-----------------------------------------------------------------------------
(* OpenCodeServer: the inductive invariant.                                *)

\* The steps between taking the manager's lock and giving it back.
Holding == {"probing", "spawning", "waiting", "stopping", "killing"}

\* The task that holds the manager's lock is the one that is past it.
LockHeld == \A t \in O!Tasks : at[t] \in Holding <=> locked = t

\* A load that asks for the catalog holds its lock, and nobody else has cached
\* it (ModelCatalogService.load).
CatalogHeld == \A t \in Loads : at[t] \notin {"idle", "queued"} => loading = t /\ ~catalog

\* A task that only closes never spawns or asks for models.
ClosesClose == \A t \in Closes : at[t] \in {"idle", "wanting", "stopping", "killing"}

\* What is closed is known, and a close that was asked for ends with it.
CloseIsKnown ==
  \A t \in O!Tasks : at[t] \in {"stopping", "killing"} =>
    /\ closing \in [server : O!Servers, next : {"start", "raise", "done"}]
    /\ t \in Closes => closing.next = "done"

\* The fields are cleared before a child is waited for or spawned
\* (_close_locked).
SlotIsClear == \A t \in O!Tasks : at[t] \in {"spawning", "stopping", "killing"} => slot = None

ServerInv ==
  /\ O!TypeOK /\ LockHeld /\ CatalogHeld /\ ClosesClose /\ CloseIsKnown /\ SlotIsClear
  /\ O!NoStrayServer

Places == {"idle", "queued", "wanting", "probing", "spawning", "waiting", "stopping",
           "killing", "fetching"}

\* A task moves to another place.
LEMMA Moved ==
  ASSUME ServerInv, NEW t \in O!Tasks, NEW place \in Places, O!Goes(t, place)
  PROVE  /\ at' \in [O!Tasks -> Places] /\ at'[t] = place
         /\ \A u \in O!Tasks \ {t} : at'[u] = at[u]
BY DEF ServerInv, O!TypeOK, O!Goes, Places

\* A task that has the manager's lock, or finds it free, is the only one past
\* it.
LEMMA AloneInside ==
  ASSUME SessionAssumption, ServerInv, NEW t \in O!Tasks, locked = None \/ locked = t
  PROVE  \A u \in O!Tasks \ {t} : at[u] \notin Holding
BY DEF SessionAssumption, ServerInv, LockHeld, O!Tasks

\* A child that is told to stop is none that runs untold.
LEMMA SlotOnly ==
  ASSUME SessionAssumption, ServerInv, ~O!Running(slot)
  PROVE  O!Untold = {}
<1>1. None \notin O!Servers
  BY DEF SessionAssumption, O!Servers
<1> QED
  BY <1>1 DEF ServerInv, O!NoStrayServer, O!Untold, O!Running

\* A task ends: it gives back its locks.
LEMMA EndKeeps ==
  ASSUME SessionAssumption, ServerInv, NEW t \in O!Tasks, O!Ends(t),
         child' = child, endpoint' \in BOOLEAN,
         slot' = slot \/ (slot' = None /\ O!Untold = {}),
         catalog' = catalog \/ (catalog' = TRUE /\ t \in Loads /\ loading = t)
  PROVE  ServerInv'
<1>1. /\ at' \in [O!Tasks -> Places] /\ at'[t] = "idle"
      /\ \A u \in O!Tasks \ {t} : at'[u] = at[u]
  BY Moved DEF O!Ends, Places
<1>2. O!TypeOK'
  <2>1. catalog' \in BOOLEAN /\ slot' \in O!Servers \cup {None}
    BY DEF ServerInv, O!TypeOK
  <2> QED
    BY <1>1, <2>1 DEF ServerInv, O!TypeOK, O!Ends, O!Drops, Places
<1>3. LockHeld'
  BY <1>1 DEF ServerInv, LockHeld, O!Ends, O!Drops, Holding, SessionAssumption, O!Tasks
<1>4. CatalogHeld'
  BY <1>1 DEF ServerInv, CatalogHeld, O!Ends, O!Drops, O!Tasks
<1>5. ClosesClose' /\ SlotIsClear'
  BY <1>1 DEF ServerInv, ClosesClose, SlotIsClear, O!Tasks
<1>6. CloseIsKnown'
  <2> SUFFICES ASSUME NEW u \in O!Tasks, at'[u] \in {"stopping", "killing"}
               PROVE  /\ closing' \in [server : O!Servers, next : {"start", "raise", "done"}]
                      /\ u \in Closes => closing'.next = "done"
    BY DEF CloseIsKnown
  <2>1. u # t /\ at[u] \in {"stopping", "killing"}
    BY <1>1
  <2>2. locked = u
    BY <2>1 DEF ServerInv, LockHeld, Holding
  <2>3. closing' = closing
    BY <2>1, <2>2 DEF O!Ends
  <2> QED
    BY <2>1, <2>3 DEF ServerInv, CloseIsKnown
<1>7. O!NoStrayServer'
  BY DEF ServerInv, O!NoStrayServer, O!Untold
<1> QED
  BY <1>2, <1>3, <1>4, <1>5, <1>6, <1>7 DEF ServerInv

\* What follows a close whose child is gone (_close_locked, _start_locked).
LEMMA AfterKeeps ==
  ASSUME SessionAssumption, ServerInv, NEW t \in O!Tasks, NEW next, O!After(t, next),
         locked = None \/ locked = t, child' = child, endpoint' \in BOOLEAN, catalog' = catalog,
         slot' = None, O!Untold = {},
         at[t] \notin {"idle", "queued"}, t \in Closes => next = "done"
  PROVE  ServerInv'
<1>1. CASE next = "start"
  <2>1. /\ O!Goes(t, "spawning") /\ locked' = t /\ closing' = None /\ loading' = loading
    BY <1>1 DEF O!After
  <2>2. /\ at' \in [O!Tasks -> Places] /\ at'[t] = "spawning"
        /\ \A u \in O!Tasks \ {t} : at'[u] = at[u]
    BY <2>1, Moved DEF Places
  <2>3. \A u \in O!Tasks \ {t} : at[u] \notin Holding
    BY AloneInside
  <2>4. t \in Loads /\ t \notin Closes
    BY <1>1 DEF O!Tasks
  <2>5. O!TypeOK'
    BY <2>1, <2>2 DEF ServerInv, O!TypeOK, Places
  <2>6. LockHeld' /\ ClosesClose' /\ CloseIsKnown' /\ SlotIsClear'
    BY <2>1, <2>2, <2>3, <2>4
       DEF ServerInv, LockHeld, ClosesClose, CloseIsKnown, SlotIsClear, Holding, O!Tasks
  <2>7. CatalogHeld'
    BY <2>1, <2>2 DEF ServerInv, CatalogHeld, O!Tasks
  <2>8. O!NoStrayServer'
    BY DEF O!NoStrayServer, O!Untold
  <2> QED
    BY <2>5, <2>6, <2>7, <2>8 DEF ServerInv
<1>2. CASE next # "start"
  <2>1. O!Ends(t)
    BY <1>2 DEF O!After
  <2> QED
    BY <2>1, EndKeeps
<1> QED
  BY <1>1, <1>2

\* The fields are cleared and a running child is told (_close_locked).
LEMMA BeginCloseKeeps ==
  ASSUME SessionAssumption, ServerInv, NEW t \in O!Tasks,
         NEW next \in {"start", "raise", "done"}, O!BeginClose(t, next),
         locked = None \/ locked = t, catalog' = catalog,
         at[t] \notin {"idle", "queued"}, t \in Closes => next = "done"
  PROVE  ServerInv'
<1>1. slot' = None /\ endpoint' = FALSE
  BY DEF O!BeginClose
<1>2. CASE O!Running(slot)
  <2>1. /\ child' = [child EXCEPT ![slot] = "told"]
        /\ closing' = [server |-> slot, next |-> next]
        /\ locked' = t /\ O!Goes(t, "stopping") /\ loading' = loading
    BY <1>2 DEF O!BeginClose
  <2>2. slot \in O!Servers
    BY <1>2 DEF O!Running, ServerInv, O!TypeOK
  <2>3. /\ at' \in [O!Tasks -> Places] /\ at'[t] = "stopping"
        /\ \A u \in O!Tasks \ {t} : at'[u] = at[u]
    BY <2>1, Moved DEF Places
  <2>4. \A u \in O!Tasks \ {t} : at[u] \notin Holding
    BY AloneInside
  <2>5. /\ closing' \in [server : O!Servers, next : {"start", "raise", "done"}]
        /\ closing'.next = next
    BY <2>1, <2>2
  <2>6. /\ child' \in [O!Servers -> {"none", "up", "healthy", "told", "killed", "gone"}]
        /\ child'[slot] = "told" /\ \A p \in O!Servers \ {slot} : child'[p] = child[p]
    BY <2>1, <2>2 DEF ServerInv, O!TypeOK
  <2>7. O!TypeOK'
    BY <1>1, <2>1, <2>3, <2>5, <2>6 DEF ServerInv, O!TypeOK, Places
  <2>8. LockHeld' /\ ClosesClose' /\ CloseIsKnown' /\ SlotIsClear'
    BY <1>1, <2>1, <2>3, <2>4, <2>5
       DEF ServerInv, LockHeld, ClosesClose, CloseIsKnown, SlotIsClear, Holding, O!Tasks
  <2>9. CatalogHeld'
    BY <2>1, <2>3 DEF ServerInv, CatalogHeld, O!Tasks
  <2>10. O!NoStrayServer'
    BY <2>6 DEF ServerInv, O!NoStrayServer, O!Untold
  <2> QED
    BY <2>7, <2>8, <2>9, <2>10 DEF ServerInv
<1>3. CASE ~O!Running(slot)
  <2>1. child' = child /\ O!After(t, next)
    BY <1>3 DEF O!BeginClose
  <2> QED
    BY <1>1, <1>3, <2>1, SlotOnly, AfterKeeps
<1> QED
  BY <1>2, <1>3

-----------------------------------------------------------------------------
(* OpenCodeServer: its steps.                                              *)

\* A task moves on outside the manager's lock, or gives it back.
LEMMA MovesOn ==
  ASSUME SessionAssumption, ServerInv, NEW t \in O!Tasks,
         NEW place \in {"queued", "wanting", "fetching"}, O!Goes(t, place),
         child' = child, slot' = slot, endpoint' \in BOOLEAN, closing' = closing,
         catalog' = catalog, loading' \in Loads \cup {None},
         locked' = O!Drops(locked, t),
         place # "wanting" => t \in Loads,
         t \in Loads => place = "queued" \/ (loading' = t /\ ~catalog),
         loading' = loading \/ loading = None
  PROVE  ServerInv'
<1>1. /\ at' \in [O!Tasks -> Places] /\ at'[t] = place
      /\ \A u \in O!Tasks \ {t} : at'[u] = at[u]
  BY Moved DEF Places
<1>2. None \notin Loads
  BY DEF SessionAssumption
<1>3. O!TypeOK'
  BY <1>1 DEF ServerInv, O!TypeOK, O!Drops, Places
<1>4. LockHeld' /\ CloseIsKnown' /\ SlotIsClear'
  BY <1>1 DEF ServerInv, LockHeld, CloseIsKnown, SlotIsClear, O!Drops, Holding,
              SessionAssumption, O!Tasks
<1>5. CatalogHeld'
  BY <1>1, <1>2 DEF ServerInv, CatalogHeld, O!Tasks
<1>6. ClosesClose'
  BY <1>1 DEF ServerInv, ClosesClose, O!Tasks, SessionAssumption
<1>7. O!NoStrayServer'
  BY DEF ServerInv, O!NoStrayServer, O!Untold
<1> QED
  BY <1>3, <1>4, <1>5, <1>6, <1>7 DEF ServerInv

\* A task that is not past the manager's lock has none to give back.
LEMMA NothingToDrop ==
  ASSUME ServerInv, NEW t \in O!Tasks, at[t] \notin Holding
  PROVE  locked # t /\ O!Drops(locked, t) = locked
BY DEF ServerInv, LockHeld, O!Drops

\* A task begins, or enters the catalog.
LEMMA BeginningsKeep ==
  ASSUME SessionAssumption, ServerInv, NEW t \in O!Tasks,
         O!Load(t) \/ O!EnterCatalog(t) \/ O!AskToClose(t)
  PROVE  ServerInv'
<1>1. /\ endpoint \in BOOLEAN /\ loading \in Loads \cup {None}
      /\ locked # t /\ O!Drops(locked, t) = locked
  BY NothingToDrop DEF ServerInv, O!TypeOK, Holding, O!Load, O!EnterCatalog, O!AskToClose
<1>2. CASE O!Load(t)
  BY <1>1, <1>2, MovesOn DEF O!Load
<1>3. CASE O!AskToClose(t)
  <2>1. t \notin Loads
    BY <1>3 DEF O!AskToClose, SessionAssumption
  <2> QED
    BY <1>1, <1>3, <2>1, MovesOn DEF O!AskToClose
<1>4. CASE O!EnterCatalog(t)
  <2>1. t \in Loads /\ t \notin Closes /\ loading = None
    BY <1>4 DEF O!EnterCatalog, ServerInv, ClosesClose, O!Tasks
  <2>2. CASE catalog
    <3>1. O!Goes(t, "idle") /\ UNCHANGED <<locked, child, slot, endpoint, closing, loading, catalog>>
      BY <1>4, <2>2 DEF O!EnterCatalog
    <3>2. O!Ends(t)
      BY <1>1, <2>1, <3>1 DEF O!Ends, O!Drops
    <3> QED
      BY <1>1, <3>1, <3>2, EndKeeps
  <2>3. CASE ~catalog
    <3>1. /\ O!Goes(t, "wanting") /\ loading' = t
          /\ UNCHANGED <<locked, child, slot, endpoint, closing, catalog>>
      BY <1>4, <2>3 DEF O!EnterCatalog
    <3> QED
      BY <1>1, <2>1, <2>3, <3>1, MovesOn
  <2> QED
    BY <2>2, <2>3
<1> QED
  BY <1>2, <1>3, <1>4

\* A task takes the manager's lock: ensure and close.
LEMMA EntriesKeep ==
  ASSUME SessionAssumption, ServerInv, NEW t \in O!Tasks, O!Ensure(t) \/ O!Close(t)
  PROVE  ServerInv'
<1>1. at[t] = "wanting" /\ locked = None /\ catalog' = catalog
  BY DEF O!Ensure, O!Close
<1>2. CASE O!Close(t)
  BY <1>1, <1>2, BeginCloseKeeps DEF O!Close
<1>3. CASE O!Ensure(t) /\ O!BeginClose(t, "start")
  <2>1. t \notin Closes
    BY <1>3 DEF O!Ensure, SessionAssumption
  <2> QED
    BY <1>1, <1>3, <2>1, BeginCloseKeeps
<1>4. CASE O!Ensure(t) /\ ~O!BeginClose(t, "start")
  <2>1. /\ t \in Loads /\ t \notin Closes /\ locked' = t /\ O!Goes(t, "probing")
        /\ UNCHANGED <<child, slot, endpoint, closing, loading, catalog>>
    BY <1>4 DEF O!Ensure, SessionAssumption
  <2>2. /\ at' \in [O!Tasks -> Places] /\ at'[t] = "probing"
        /\ \A u \in O!Tasks \ {t} : at'[u] = at[u]
    BY <2>1, Moved DEF Places
  <2>3. \A u \in O!Tasks \ {t} : at[u] \notin Holding
    BY <1>1, AloneInside
  <2>4. O!TypeOK'
    BY <2>1, <2>2 DEF ServerInv, O!TypeOK, Places
  <2>5. LockHeld' /\ ClosesClose' /\ CloseIsKnown' /\ SlotIsClear'
    BY <2>1, <2>2, <2>3
       DEF ServerInv, LockHeld, ClosesClose, CloseIsKnown, SlotIsClear, Holding, O!Tasks
  <2>6. CatalogHeld'
    BY <1>1, <2>1, <2>2 DEF ServerInv, CatalogHeld, O!Tasks
  <2>7. O!NoStrayServer'
    BY <2>1 DEF ServerInv, O!NoStrayServer, O!Untold
  <2> QED
    BY <2>4, <2>5, <2>6, <2>7 DEF ServerInv
<1> QED
  BY <1>2, <1>3, <1>4

\* A child is spawned while no other runs (_start_locked).
LEMMA SpawnKeeps ==
  ASSUME SessionAssumption, ServerInv, NEW t \in O!Tasks, at[t] = "spawning", O!Spawned(t)
  PROVE  ServerInv'
<1>1. t \notin Closes /\ t \in Loads /\ locked = t /\ slot = None
  BY DEF ServerInv, ClosesClose, LockHeld, SlotIsClear, Holding, O!Tasks
<1>2. O!Untold = {}
  BY <1>1, SlotOnly DEF O!Running
<1>3. CASE O!Ends(t) /\ UNCHANGED <<child, slot>>
  <2>1. endpoint' = endpoint /\ catalog' = catalog /\ endpoint \in BOOLEAN
    BY DEF O!Spawned, ServerInv, O!TypeOK
  <2> QED
    BY <1>3, <2>1, EndKeeps
<1>4. ASSUME NEW p \in O!Servers, child' = [child EXCEPT ![p] = "up"], slot' = p,
             O!Goes(t, "waiting"), UNCHANGED <<locked, closing, loading, endpoint, catalog>>
      PROVE  ServerInv'
  <2>1. /\ at' \in [O!Tasks -> Places] /\ at'[t] = "waiting"
        /\ \A u \in O!Tasks \ {t} : at'[u] = at[u]
    BY <1>4, Moved DEF Places
  <2>2. \A u \in O!Tasks \ {t} : at[u] \notin Holding
    BY <1>1, AloneInside
  <2>3. /\ child' \in [O!Servers -> {"none", "up", "healthy", "told", "killed", "gone"}]
        /\ \A q \in O!Servers \ {p} : child'[q] = child[q]
    BY <1>4 DEF ServerInv, O!TypeOK
  <2>4. O!TypeOK'
    BY <1>4, <2>1, <2>3 DEF ServerInv, O!TypeOK, Places
  <2>5. LockHeld' /\ ClosesClose' /\ CloseIsKnown' /\ SlotIsClear'
    BY <1>1, <1>4, <2>1, <2>2
       DEF ServerInv, LockHeld, ClosesClose, CloseIsKnown, SlotIsClear, Holding, O!Tasks
  <2>6. CatalogHeld'
    BY <1>4, <2>1 DEF ServerInv, CatalogHeld, O!Tasks
  <2>7. O!NoStrayServer'
    BY <1>2, <1>4, <2>3 DEF O!NoStrayServer, O!Untold
  <2> QED
    BY <2>4, <2>5, <2>6, <2>7 DEF ServerInv
<1> QED
  BY <1>3, <1>4 DEF O!Spawned

\* A probe, a start or a wait for a child is over.
LEMMA WaitsKeep ==
  ASSUME SessionAssumption, ServerInv, NEW t \in O!Tasks,
         O!Probed(t) \/ O!Ready(t) \/ O!StartFails(t) \/ O!Stopped(t) \/ O!ShutdownTimeout(t)
  PROVE  ServerInv'
<1>1. at[t] \in Holding /\ locked = t /\ locked # None /\ catalog' = catalog /\ endpoint \in BOOLEAN
  BY DEF ServerInv, LockHeld, Holding, O!Probed, O!Ready, O!StartFails, O!Stopped,
         O!ShutdownTimeout, SessionAssumption, O!Tasks, O!TypeOK
<1>2. t \in Loads => loading = t /\ ~catalog
  BY <1>1 DEF ServerInv, CatalogHeld, Holding
<1>3. CASE /\ (O!Probed(t) \/ O!Ready(t)) /\ O!Goes(t, "fetching")
           /\ locked' = None /\ UNCHANGED <<child, slot, closing, loading>> /\ endpoint' \in BOOLEAN
  <2>1. t \in Loads /\ t \notin Closes
    BY <1>3 DEF ServerInv, ClosesClose, O!Tasks, O!Probed, O!Ready
  <2>2. O!Drops(locked, t) = None
    BY <1>1 DEF O!Drops
  <2>3. loading' \in Loads \cup {None}
    BY <1>2, <1>3, <2>1
  <2> QED
    BY <1>1, <1>2, <1>3, <2>1, <2>2, <2>3, MovesOn
<1>4. CASE O!Probed(t) /\ O!BeginClose(t, "start")
  <2>1. t \notin Closes /\ at[t] \notin {"idle", "queued"}
    BY <1>4 DEF ServerInv, ClosesClose, O!Probed
  <2> QED
    BY <1>1, <1>4, <2>1, BeginCloseKeeps
<1>5. CASE O!StartFails(t)
  <2>1. t \notin Closes /\ at[t] \notin {"idle", "queued"} /\ O!BeginClose(t, "raise")
    BY <1>5 DEF ServerInv, ClosesClose, O!StartFails
  <2> QED
    BY <1>1, <2>1, BeginCloseKeeps
<1>6. CASE O!Stopped(t)
  <2>1. /\ at[t] \notin {"idle", "queued"} /\ slot = None /\ (t \in Closes => closing.next = "done")
    BY <1>6 DEF ServerInv, SlotIsClear, CloseIsKnown, O!Stopped
  <2>2. O!Untold = {}
    BY <2>1, SlotOnly DEF O!Running
  <2>3. O!After(t, closing.next) /\ UNCHANGED <<child, slot, endpoint>>
    BY <1>6 DEF O!Stopped
  <2> QED
    BY <1>1, <2>1, <2>2, <2>3, AfterKeeps
<1>7. CASE O!ShutdownTimeout(t)
  <2>1. /\ O!Goes(t, "killing") /\ at[t] = "stopping" /\ child[closing.server] = "told"
        /\ child' = [child EXCEPT ![closing.server] = "killed"]
        /\ UNCHANGED <<locked, slot, endpoint, closing, loading, catalog>>
    BY <1>7 DEF O!ShutdownTimeout
  <2>2. /\ at' \in [O!Tasks -> Places] /\ at'[t] = "killing"
        /\ \A u \in O!Tasks \ {t} : at'[u] = at[u]
    BY <2>1, Moved DEF Places
  <2>3. /\ child' \in [O!Servers -> {"none", "up", "healthy", "told", "killed", "gone"}]
        /\ \A p \in O!Servers : child'[p] = child[p] \/ child'[p] = "killed"
    BY <2>1 DEF ServerInv, O!TypeOK
  <2>4. O!TypeOK'
    BY <2>1, <2>2, <2>3 DEF ServerInv, O!TypeOK, Places
  <2>5. LockHeld' /\ ClosesClose' /\ CloseIsKnown' /\ SlotIsClear'
    BY <2>1, <2>2 DEF ServerInv, LockHeld, ClosesClose, CloseIsKnown, SlotIsClear, Holding, O!Tasks
  <2>6. CatalogHeld'
    BY <2>1, <2>2 DEF ServerInv, CatalogHeld, O!Tasks
  <2>7. O!NoStrayServer'
    BY <2>1, <2>3 DEF ServerInv, O!NoStrayServer, O!Untold
  <2> QED
    BY <2>4, <2>5, <2>6, <2>7 DEF ServerInv
<1>8. O!Probed(t) => \/ O!BeginClose(t, "start")
                    \/ /\ O!Goes(t, "fetching") /\ locked' = None
                       /\ UNCHANGED <<child, slot, endpoint, closing, loading>>
  BY DEF O!Probed
<1>9. O!Ready(t) => /\ O!Goes(t, "fetching") /\ locked' = None /\ endpoint' = TRUE
                    /\ UNCHANGED <<child, slot, closing, loading>>
  BY DEF O!Ready
<1> QED
  BY <1>1, <1>3, <1>4, <1>5, <1>6, <1>7, <1>8, <1>9

\* The catalog's answer, and a task that is cancelled.
LEMMA EndingsKeep ==
  ASSUME SessionAssumption, ServerInv, NEW t \in O!Tasks, O!Fetched(t) \/ O!Cancel(t)
  PROVE  ServerInv'
<1>1. O!Ends(t) /\ UNCHANGED <<child, slot, endpoint>> /\ endpoint \in BOOLEAN
  BY DEF O!Fetched, O!Cancel, ServerInv, O!TypeOK
<1>2. CASE O!Cancel(t)
  BY <1>1, <1>2, EndKeeps DEF O!Cancel
<1>3. CASE O!Fetched(t)
  <2>1. t \in Loads
    BY <1>3 DEF O!Fetched, ServerInv, ClosesClose, O!Tasks
  <2>2. loading = t
    BY <1>3, <2>1 DEF O!Fetched, ServerInv, CatalogHeld
  <2>3. catalog' = catalog \/ catalog' = TRUE
    BY <1>3 DEF O!Fetched
  <2> QED
    BY <1>1, <2>1, <2>2, <2>3, EndKeeps
<1> QED
  BY <1>2, <1>3

\* A child comes up or dies.
LEMMA ChildrenKeep ==
  ASSUME ServerInv, NEW p \in O!Servers, O!ComesUp(p) \/ O!Dies(p)
  PROVE  ServerInv'
<1>1. UNCHANGED <<at, locked, slot, endpoint, closing, loading, catalog>>
  BY DEF O!ComesUp, O!Dies
<1>2. child' \in [O!Servers -> {"none", "up", "healthy", "told", "killed", "gone"}]
  BY DEF O!ComesUp, O!Dies, ServerInv, O!TypeOK
<1>3. O!Untold' \subseteq O!Untold
  BY <1>2 DEF O!ComesUp, O!Dies, O!Untold, ServerInv, O!TypeOK
<1>4. O!TypeOK'
  BY <1>1, <1>2 DEF ServerInv, O!TypeOK
<1>5. O!NoStrayServer'
  BY <1>1, <1>3 DEF ServerInv, O!NoStrayServer
<1> QED
  BY <1>1, <1>4, <1>5
     DEF ServerInv, LockHeld, CatalogHeld, ClosesClose, CloseIsKnown, SlotIsClear

\* Every step of the OpenCode server's tasks keeps the invariant.
LEMMA ServerStep ==
  ASSUME SessionAssumption, ServerInv, O!Next
  PROVE  ServerInv'
<1>1. ASSUME NEW t \in O!Tasks, O!Load(t) \/ O!AskToClose(t) \/ O!EnterCatalog(t)
      PROVE  ServerInv'
  BY <1>1, BeginningsKeep
<1>2. ASSUME NEW t \in O!Tasks, O!Ensure(t) \/ O!Close(t)
      PROVE  ServerInv'
  BY <1>2, EntriesKeep
<1>3. ASSUME NEW t \in O!Tasks, O!Spawned(t)
      PROVE  ServerInv'
  BY <1>3, SpawnKeeps DEF O!Spawned
<1>4. ASSUME NEW t \in O!Tasks,
             O!Probed(t) \/ O!Ready(t) \/ O!StartFails(t) \/ O!Stopped(t) \/ O!ShutdownTimeout(t)
      PROVE  ServerInv'
  BY <1>4, WaitsKeep
<1>5. ASSUME NEW t \in O!Tasks, O!Fetched(t) \/ O!Cancel(t)
      PROVE  ServerInv'
  BY <1>5, EndingsKeep
<1>6. ASSUME NEW p \in O!Servers, O!ComesUp(p) \/ O!Dies(p)
      PROVE  ServerInv'
  BY <1>6, ChildrenKeep
<1> QED
  BY <1>1, <1>2, <1>3, <1>4, <1>5, <1>6 DEF O!Next

LEMMA ServerInit ==
  ASSUME SessionAssumption, O!Init
  PROVE  ServerInv
<1>1. /\ at \in [O!Tasks -> Places] /\ \A t \in O!Tasks : at[t] = "idle"
      /\ child \in [O!Servers -> {"none", "up", "healthy", "told", "killed", "gone"}]
      /\ \A p \in O!Servers : child[p] = "none"
  BY DEF O!Init, Places
<1>2. O!TypeOK
  BY <1>1 DEF O!Init, O!TypeOK, Places
<1> QED
  BY <1>1, <1>2 DEF O!Init, ServerInv, LockHeld, CatalogHeld, ClosesClose, CloseIsKnown,
     SlotIsClear, O!NoStrayServer, O!Untold, Holding, SessionAssumption, O!Tasks
-----------------------------------------------------------------------------
(* SupervisorConnect: the inductive invariant.                             *)

\* Only the client that holds the lock file looks for a supervisor, or waits
\* for the one it spawned.
HolderLooks == \A c \in Clients : connectAt[c] \in {"checking", "waiting"} => lock = c

\* Somebody waits for a supervisor that boots, unless one was deserted.
BootIsAwaited ==
  ~deserted /\ S!Booting # {} => \E c \in Clients : connectAt[c] = "waiting"

\* A supervisor names itself in the state file before it binds.
SavedIsNamed ==
  ~deserted => \A p \in S!Servers : supervisor[p] \in {"saved", "bound", "serving"} => file = p

ConnectInv == S!TypeOK /\ HolderLooks /\ BootIsAwaited /\ SavedIsNamed /\ S!OneSupervisor

-----------------------------------------------------------------------------
(* SupervisorConnect: its steps.                                           *)

\* The lock file has one holder (SupervisorClient.connect).
LEMMA HolderStep ==
  ASSUME None \notin Clients, ConnectInv, [S!Next]_connectVars
  PROVE  S!TypeOK' /\ HolderLooks'
<1> USE DEF ConnectInv, S!TypeOK, HolderLooks, S!Goes, S!Leaves, S!Spawns
<1>1. CASE UNCHANGED connectVars
  BY <1>1 DEF connectVars
<1>2. ASSUME NEW c \in Clients,
             \/ S!Connect(c) \/ S!Acquire(c) \/ S!LockTimesOut(c) \/ S!Adopt(c)
             \/ S!StartSupervisor(c) \/ S!StartAnother(c) \/ S!Ready(c) \/ S!GiveUp(c)
      PROVE  S!TypeOK' /\ HolderLooks'
  BY <1>2 DEF S!Connect, S!Acquire, S!LockTimesOut, S!Adopt, S!StartSupervisor, S!StartAnother, S!Ready, S!GiveUp
<1>3. ASSUME NEW p \in S!Servers, S!SavesState(p) \/ S!Binds(p) \/ S!Serves(p) \/ S!Dies(p)
      PROVE  S!TypeOK' /\ HolderLooks'
  BY <1>3 DEF S!SavesState, S!Binds, S!Serves, S!Dies
<1> QED
  BY <1>1, <1>2, <1>3 DEF S!Next

\* Where a client looks for a supervisor and none answers, none is up or
\* coming up.
LEMMA NoneToFind ==
  ASSUME None \notin Clients, ConnectInv, ~deserted, NEW c \in Clients, connectAt[c] = "checking", ~S!Answers
  PROVE  S!Booting \cup S!Live = {}
<1>1. S!Booting = {}
  BY DEF ConnectInv, BootIsAwaited, HolderLooks
<1>2. S!Live = {}
  BY DEF ConnectInv, S!OneSupervisor, S!Answers
<1> QED
  BY <1>1, <1>2

\* Every step of a client keeps at most one supervisor.
LEMMA ClientStep ==
  ASSUME None \notin Clients, ConnectInv, NEW c \in Clients,
         \/ S!Connect(c) \/ S!Acquire(c) \/ S!LockTimesOut(c) \/ S!Adopt(c)
         \/ S!StartSupervisor(c) \/ S!StartAnother(c) \/ S!Ready(c) \/ S!GiveUp(c)
  PROVE  BootIsAwaited' /\ SavedIsNamed' /\ S!OneSupervisor'
<1> USE DEF ConnectInv, S!TypeOK, S!Booting, S!Live
<1>1. CASE S!Connect(c) \/ S!Acquire(c) \/ S!LockTimesOut(c)
  BY <1>1 DEF S!Connect, S!Acquire, S!LockTimesOut, S!Goes, S!Leaves, BootIsAwaited, SavedIsNamed,
              S!OneSupervisor
<1>2. CASE S!Adopt(c)
  BY <1>2 DEF S!Adopt, S!Goes, S!Leaves, BootIsAwaited, SavedIsNamed, S!OneSupervisor, S!Answers
<1>3. CASE S!StartSupervisor(c)
  <2>1. PICK p \in S!Servers : S!Spawns(p)
    BY <1>3 DEF S!StartSupervisor
  <2>2. ~deserted => S!Booting \cup S!Live = {}
    BY <1>3, NoneToFind DEF S!StartSupervisor
  <2>3. connectAt'[c] = "waiting" /\ deserted' = deserted /\ file' = file
    BY <1>3 DEF S!StartSupervisor, S!Goes
  <2> QED
    BY <2>1, <2>2, <2>3 DEF S!Spawns, BootIsAwaited, SavedIsNamed, S!OneSupervisor
<1>4. CASE S!StartAnother(c)
  BY <1>4 DEF S!StartAnother, BootIsAwaited, SavedIsNamed, S!OneSupervisor
<1>5. CASE S!Ready(c)
  BY <1>5 DEF S!Ready, S!Goes, S!Leaves, BootIsAwaited, SavedIsNamed, S!OneSupervisor, S!Answers
<1>6. CASE S!GiveUp(c)
  BY <1>6 DEF S!GiveUp, S!Goes, S!Leaves, BootIsAwaited, SavedIsNamed, S!OneSupervisor
<1> QED
  BY <1>1, <1>2, <1>3, <1>4, <1>5, <1>6

\* Every step of a supervisor keeps at most one (SupervisorServer.run).
LEMMA SupervisorStep ==
  ASSUME ConnectInv, NEW p \in S!Servers, S!SavesState(p) \/ S!Binds(p) \/ S!Serves(p) \/ S!Dies(p)
  PROVE  BootIsAwaited' /\ SavedIsNamed' /\ S!OneSupervisor'
<1> USE DEF ConnectInv, S!TypeOK, S!Booting, S!Live, BootIsAwaited, SavedIsNamed, S!OneSupervisor
<1>1. CASE S!SavesState(p)
  BY <1>1 DEF S!SavesState
<1>2. CASE S!Binds(p)
  BY <1>2 DEF S!Binds
<1>3. CASE S!Serves(p)
  BY <1>3 DEF S!Serves
<1>4. CASE S!Dies(p)
  BY <1>4 DEF S!Dies
<1> QED
  BY <1>1, <1>2, <1>3, <1>4

\* Every step keeps the invariant.
LEMMA ConnectStep ==
  ASSUME None \notin Clients, ConnectInv, [S!Next]_connectVars
  PROVE  ConnectInv'
<1>1. BootIsAwaited' /\ SavedIsNamed' /\ S!OneSupervisor'
  <2>1. CASE UNCHANGED connectVars
    BY <2>1 DEF connectVars, ConnectInv, BootIsAwaited, SavedIsNamed, S!OneSupervisor, S!Booting, S!Live
  <2> QED
    BY <2>1, ClientStep, SupervisorStep DEF S!Next
<1> QED
  BY <1>1, HolderStep DEF ConnectInv

LEMMA ConnectInit == S!Init => ConnectInv
BY DEF S!Init, ConnectInv, S!TypeOK, HolderLooks, BootIsAwaited, SavedIsNamed, S!OneSupervisor,
       S!Booting, S!Live

-----------------------------------------------------------------------------
(* The composition.                                                        *)

partVars == <<part, vars, serverVars, connectVars>>

PartsInv == part \in {"view", "live", "server", "connect"} /\ Types /\ ServerInv /\ ConnectInv

LEMMA PartsInit == PartInit => PartsInv
<1> SUFFICES ASSUME PartInit PROVE PartsInv
  OBVIOUS
<1>1. ServerInv /\ ConnectInv
  BY ServerInit, ConnectInit, SessionAssumption DEF PartInit
<1>2. Types
  BY InitTypes DEF PartInit
<1> QED
  BY <1>1, <1>2 DEF PartInit, PartsInv

\* The parts that do not run keep what they have.
LEMMA PartsFrame ==
  /\ ServerInv /\ UNCHANGED serverVars => ServerInv'
  /\ ConnectInv /\ UNCHANGED connectVars => ConnectInv'
  /\ Types /\ UNCHANGED vars => Types'
<1>1. ServerInv /\ UNCHANGED serverVars => ServerInv'
  BY DEF serverVars, ServerInv, O!TypeOK, LockHeld, CatalogHeld, ClosesClose, CloseIsKnown,
     SlotIsClear, O!NoStrayServer, O!Untold
<1>2. ConnectInv /\ UNCHANGED connectVars => ConnectInv'
  BY DEF connectVars, ConnectInv, S!TypeOK, HolderLooks, BootIsAwaited, SavedIsNamed,
     S!OneSupervisor, S!Booting, S!Live
<1>3. Types /\ UNCHANGED vars => Types'
  BY NextTypes
<1> QED
  BY <1>1, <1>2, <1>3

LEMMA PartsStep ==
  ASSUME PartsInv, [PartNext]_partVars
  PROVE  PartsInv'
<1>1. CASE UNCHANGED partVars
  BY <1>1, PartsFrame DEF PartsInv, partVars
<1>2. CASE part \in {"view", "live"} /\ Next /\ UNCHANGED <<part, serverVars, connectVars>>
  BY <1>2, PartsFrame, NextTypes DEF PartsInv
<1>3. CASE part = "server" /\ O!Next /\ UNCHANGED <<part, vars, connectVars>>
  BY <1>3, PartsFrame, ServerStep, SessionAssumption DEF PartsInv
<1>4. CASE part = "connect" /\ S!Next /\ UNCHANGED <<part, vars, serverVars>>
  BY <1>4, PartsFrame, ConnectStep, SessionAssumption DEF PartsInv
<1> QED
  BY <1>1, <1>2, <1>3, <1>4 DEF PartNext

-----------------------------------------------------------------------------
(* The theorems.                                                           *)

LEMMA PartsInvariant == PartSpec => []PartsInv
BY PartsInit, PartsStep, PTL DEF PartSpec, partVars

\* The state of a view, of its OpenCode server and of its connection to the
\* supervisor has its type.
THEOREM PartsHaveTypes == PartSpec => []PartsTypeOK
<1>1. PartsInv => PartsTypeOK
  BY DEF PartsInv, PartsTypeOK, Types, ServerInv, ConnectInv
<1> QED
  BY <1>1, PartsInvariant, PTL

(***************************************************************************)
(* Whichever tasks are cancelled and whatever the children do, an OpenCode *)
(* child that was not told to stop is the one the manager holds, and a     *)
(* cached catalog is not loaded again; and at most one supervisor is up or *)
(* coming up and the state file names it, as long as no client left one    *)
(* that was booting (OpenCodeServerManager, SupervisorClient.connect).     *)
(***************************************************************************)
THEOREM ServersStayOwned == PartSpec => []ServersAreOwned
<1>1. ServerInv => O!NoStrayServer /\ O!LoadedOnce
  BY DEF ServerInv, CatalogHeld, O!LoadedOnce
<1>2. PartsInv => ServersAreOwned
  BY <1>1 DEF PartsInv, ConnectInv, ServersAreOwned
<1> QED
  BY <1>2, PartsInvariant, PTL
=============================================================================
