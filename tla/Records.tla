------------------------------- MODULE Records -------------------------------
(***************************************************************************)
(* What is kept in several places: the timeline of a room, its rows and    *)
(* its roster, the registrations, the WezTerm configuration, the plugin's  *)
(* repository and the worktrees of Codex agents.  They share no state and  *)
(* are checked side by side: a behaviour is a behaviour of one part, and   *)
(* the variables of the others keep their initial values.                  *)
(***************************************************************************)
EXTENDS RoomTimeline, FiniteSets

CONSTANTS
  Agents,                                                     \* managed agents, on the platform
  Rooms, People, Visits, Initially, MaxChanges,               \* RoomRoster
  Panes, Tunings, Old, MaxTasks,                              \* Registration
  Files, Typed, Setups, MaxEdits,                             \* WeztermConfig
  Runs, Paths,                                                \* PluginRepo
  TypeOf, Categories, Verbose, Expanded, Stored, MaxUpdates,  \* ChatView
  WorkRooms,                                                  \* CodexWorktrees
  None

\* Rooms are opened one after another and rosters are of people; Old is not in
\* the present vocabulary; None is no process, no agent, no file, no answer.
ASSUME RecordsAssumption ==
  /\ Visits \in Seq(Rooms) /\ Initially \subseteq [Rooms -> SUBSET People] /\ MaxChanges \in Nat
  /\ Tunings # {} /\ Old \notin Tunings \cup {None} /\ MaxTasks \in Nat
  /\ None \notin Agents \cup Tunings \cup [Agents -> Tunings \cup {None}]
  /\ None \notin Runs
  /\ None # "own"

VARIABLES part
VARIABLES people, screen, participants, load, mutation, busy, event, failed, mixed, changes
VARIABLES agents, retired, keys, file, memory, task, tasks, keyed, broken, diverged
VARIABLES config, setup, edits
VARIABLES at, lock, work, git, index, head, handed
VARIABLES held, updated, expanded, allowed, saved, previous, rendered, list, drawing, dirty
VARIABLES launch, declined, worker, resolving, answer, dir, registered, branches, gone, lost

P == INSTANCE RoomRoster
R == INSTANCE Registration WITH Ids <- Agents
F == INSTANCE WeztermConfig WITH file <- config
G == INSTANCE PluginRepo
V == INSTANCE ChatView
T == INSTANCE CodexWorktrees WITH repo <- launch, room <- resolving, Rooms <- WorkRooms

\* A room's messages are numbered, and None is no timeline.
ASSUME ChatAssumption ==
  /\ TypeOf \in Seq(Range(TypeOf))
  /\ None \notin Seq(V!Entries) \cup V!Drawings

rosterVars == <<people, screen, participants, load, mutation, busy, event, failed, mixed,
                changes>>
registrationVars == <<agents, retired, keys, file, memory, task, tasks, keyed, broken, diverged>>
configVars == <<config, setup, edits>>
repoVars == <<at, lock, work, git, index, head, handed>>
chatVars == <<held, updated, expanded, allowed, saved, previous, rendered, list, drawing, dirty>>
worktreeVars == <<launch, declined, worker, resolving, answer, dir, registered, branches, gone,
                  lost>>
partVars == <<part, vars, rosterVars, registrationVars, configVars, repoVars, chatVars,
              worktreeVars>>

PartInit ==
  /\ part \in {"timeline", "roster", "registration", "config", "repo", "chat", "worktrees"}
  /\ Init /\ P!Init
  /\ R!Init /\ (part # "registration" => agents = {})
  /\ F!Init /\ (part # "config" => config = None)
  /\ G!Init /\ (part # "repo" => \A p \in Paths : work[p] = None)
  /\ V!Init
  /\ T!Init /\ (part # "worktrees" => launch = "commits")

PartNext ==
  \/ /\ part = "timeline" /\ Next
     /\ UNCHANGED <<part, rosterVars, registrationVars, configVars, repoVars, chatVars,
                    worktreeVars>>
  \/ /\ part = "roster" /\ P!Next
     /\ UNCHANGED <<part, vars, registrationVars, configVars, repoVars, chatVars, worktreeVars>>
  \/ /\ part = "registration" /\ R!Next
     /\ UNCHANGED <<part, vars, rosterVars, configVars, repoVars, chatVars, worktreeVars>>
  \/ /\ part = "config" /\ F!Next
     /\ UNCHANGED <<part, vars, rosterVars, registrationVars, repoVars, chatVars, worktreeVars>>
  \/ /\ part = "repo" /\ G!Next
     /\ UNCHANGED <<part, vars, rosterVars, registrationVars, configVars, chatVars, worktreeVars>>
  \/ /\ part = "chat" /\ V!Next
     /\ UNCHANGED <<part, vars, rosterVars, registrationVars, configVars, repoVars, worktreeVars>>
  \/ /\ part = "worktrees" /\ T!Next
     /\ UNCHANGED <<part, vars, rosterVars, registrationVars, configVars, repoVars, chatVars>>

PartSpec == PartInit /\ [][PartNext]_partVars

-----------------------------------------------------------------------------
(* The properties are those of the parts, each asked of its own part.      *)
(* TimelineIsComplete and LoadingHasWorker are RoomTimeline's.             *)

\* The state of every part has its type; for the configuration see SetupIsSound.
PartsTypeOK ==
  /\ part = "timeline" => TypeOK
  /\ part = "roster" => P!TypeOK
  /\ part = "registration" => R!TypeOK
  /\ part = "repo" => G!TypeOK
  /\ part = "chat" => V!TypeOK
  /\ part = "worktrees" => T!TypeOK

\* When nothing is under way the room shows the platform's roster, and a
\* change of the roster is refused only while another is under way; the list
\* shows the messages that the filter allows, and leaving the verbose view
\* gives the chosen filter back.  A plugin repository that is handed out is
\* committed; git never refuses a Codex worktree, and none disappears while
\* it is in use.
RecordsAgree ==
  /\ part = "roster" => P!RosterSettles
  /\ part = "chat" => V!ChatIsDrawn
  /\ part = "repo" => G!HandedOutIsCommitted
  /\ part = "worktrees" => T!WorkspacesAreSound

\* Platform, keyring, profiles file and snapshots agree about every agent no
\* operation on which was broken off, whatever failed for the others; a stored
\* key is kept as long as its agent in any case.
RegistrationIsWhole == R!RegistrationIsWhole

\* Setting WezTerm up leaves one managed block and the user's own lines,
\* whatever edits, crashes and other setups made of the file, and the block
\* runs in a file that Lua accepts and that has no return in a long comment.
SetupIsSound == part = "config" => F!TypeOK /\ F!UpsertIsSound
=============================================================================
