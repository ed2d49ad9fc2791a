------------------------------- MODULE Session -------------------------------
(***************************************************************************)
(* A Band view and the servers that it uses, side by side: "view" is a     *)
(* view over several sessions, up to the first late effect, after which    *)
(* its properties claim nothing; "live" is one under the fairness of its   *)
(* event loop over at most LiveSessions, "server" its OpenCode server and  *)
(* "connect" its connection to the supervisor.  A behaviour is a behaviour *)
(* of one part, and the variables of the others keep their initial values. *)
(***************************************************************************)
EXTENDS ControlSession

CONSTANTS
  LiveSessions,                                                  \* bound of "live"
  Loads, Closes, MaxChildren,                                    \* OpenCodeServer
  Clients, MaxSupervisors,                                       \* SupervisorConnect
  None

\* Loading a catalog and closing the server are different tasks; None is no
\* task, no client and no process.
ASSUME SessionAssumption ==
  /\ Loads \cap Closes = {}
  /\ None \notin Loads \cup Closes \cup Clients \cup Nat

VARIABLES part
VARIABLES at, locked, child, slot, endpoint, closing, loading, catalog
VARIABLES connectAt, lock, supervisor, file, deserted

serverVars == <<at, locked, child, slot, endpoint, closing, loading, catalog>>
connectVars == <<connectAt, lock, supervisor, file, deserted>>

O == INSTANCE OpenCodeServer WITH MaxServers <- MaxChildren
S == INSTANCE SupervisorConnect WITH
       at <- connectAt, server <- supervisor, MaxServers <- MaxSupervisors

\* A view that does not run has not been signed in to.
PartInit ==
  /\ O!Init /\ S!Init
  /\ \/ part = "view" /\ Init
     \/ part = "live" /\ Init /\ ~room
     \/ part \in {"server", "connect"} /\ Init /\ tokens = 0 /\ ~room /\ accepted = {}

PartNext ==
  \/ /\ part = "view" /\ ~late /\ Next
     /\ UNCHANGED <<part, serverVars, connectVars>>
  \/ /\ part = "live" /\ Next /\ sessions' <= LiveSessions
     /\ UNCHANGED <<part, serverVars, connectVars>>
  \/ part = "server" /\ O!Next /\ UNCHANGED <<part, vars, connectVars>>
  \/ part = "connect" /\ S!Next /\ UNCHANGED <<part, vars, serverVars>>

PartSpec == PartInit /\ [][PartNext]_<<part, vars, serverVars, connectVars>>

-----------------------------------------------------------------------------
\* The state of every part has its type.
PartsTypeOK == TypeOK /\ O!TypeOK /\ S!TypeOK

IsLive == part = "live"

\* Fairness of the part that is "live", as ControlSession states it.
LiveFairness ==
  /\ \A s \in Slots : WF_vars(IsLive /\ EnterStep(s))
  /\ WF_vars(IsLive /\ RejectionMessage) /\ WF_vars(IsLive /\ RejectionWorker)
  /\ WF_vars(IsLive /\ EndStep)
  /\ \A r \in Requests : /\ WF_vars(IsLive /\ Top = "rooms" /\ Ask(r))
                         /\ WF_vars(IsLive /\ CallStep(r))
                         /\ SF_vars(IsLive /\ Rejected(r))

\* Entering the surface ends, once the thread that waits for the browser's
\* callback does: the gate and the warm-up are not left busy.
EnteringAlwaysEnds ==
  IsLive /\ LiveFairness /\ WF_vars(IsLive /\ CleanedUp) => EnteringEnds

\* A sign-out, or the end of a rejected session, ends.
EndingAlwaysEnds == IsLive /\ LiveFairness => EndingEnds

\* The rooms are left once the platform has ended their session.
EndedSessionsLeave == IsLive /\ LiveFairness => EndedSessionLeaves

\* At most one OpenCode server and one supervisor run, and their owners know
\* them; a cached catalog is not loaded again.
ServersAreOwned == O!NoStrayServer /\ O!LoadedOnce /\ S!OneSupervisor

\* Closing the OpenCode server returns, and connecting to the supervisor ends.
WaitsEnd ==
  /\ part = "server" /\ O!Fairness => O!CloseReturns
  /\ part = "connect" /\ S!Fairness => S!ConnectEnds
=============================================================================
