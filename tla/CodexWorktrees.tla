---------------------------- MODULE CodexWorktrees ----------------------------
(***************************************************************************)
(* The workspaces of Codex agents (harnesses/codex_worktrees.py): every    *)
(* agent has a git worktree of its launch directory for every room, with a *)
(* branch of its own.  Workers of several agents share the repository;     *)
(* they are killed at any step and the user deletes directories.           *)
(***************************************************************************)
CONSTANTS Agents, Rooms, None

VARIABLES repo,       \* the launch directory: "none", "unborn" (no commit) or "commits"
          declined,   \* agents whose profile says that the user declined `git init`
          worker,     \* a worker's adapter: "off", "idle", or the step of the resolver
          room,       \* the room that it resolves
          answer,     \* the SDK's cache: where a worker works in a room
          dir,        \* the directory of a worktree: "none", "partial" or "tree"
          registered, \* worktrees that the repository's metadata lists
          branches,   \* worktrees whose branch exists
          gone,       \* deleted agents
          lost        \* history: worktrees that the user deleted since they were resolved

git == <<dir, registered, branches>>
worktreeVars == <<repo, declined, worker, room, answer, git, gone, lost>>

Trees == Agents \X Rooms
Exists(t) == dir[t] # "none"

Init ==
  /\ repo \in {"none", "unborn", "commits"} /\ declined = {}
  /\ worker = [a \in Agents |-> "off"] /\ room = [a \in Agents |-> None]
  /\ answer = [t \in Trees |-> None] /\ dir = [t \in Trees |-> "none"]
  /\ registered = {} /\ branches = {} /\ gone = {} /\ lost = {}

\* needs_git_init_consent.
NeedsConsent(a) == repo = "none" /\ a \notin declined

Goes(a, at) == worker' = [worker EXCEPT ![a] = at]

\* init_git_repo: git init, add and commit.  Where one of the last two fails
\* the agent is not started, and nobody is asked again.
GitInit(a) ==
  \/ repo' = "commits" /\ Goes(a, "idle")
  \/ repo' = "unborn" /\ UNCHANGED worker

\* apply_codex_git_init_consent, then START.
Start(a) ==
  /\ worker[a] = "off" /\ a \notin gone
  /\ \/ ~NeedsConsent(a) /\ Goes(a, "idle") /\ UNCHANGED <<repo, declined>>
     \/ NeedsConsent(a) /\ Goes(a, "idle") /\ declined' = declined \cup {a} /\ UNCHANGED repo
     \/ NeedsConsent(a) /\ GitInit(a) /\ UNCHANGED declined
  /\ answer' = [t \in Trees |-> IF t[1] = a THEN None ELSE answer[t]]
  /\ UNCHANGED <<room, git, gone, lost>>

\* The resolver's answer, which the SDK keeps.
Answers(a, r, where) ==
  /\ answer' = [answer EXCEPT ![<<a, r>>] = where] /\ lost' = lost \ {<<a, r>>}
  /\ Goes(a, "idle") /\ room' = [room EXCEPT ![a] = None]

\* is_git_repo and a HEAD.
HasCommit == repo = "commits"

\* resolver: the launch directory itself unless it has a commit to branch
\* from; a directory that is there is taken for the room's worktree.
Resolve(a, r) ==
  /\ worker[a] = "idle" /\ answer[<<a, r>>] = None
  /\ \/ ~HasCommit /\ Answers(a, r, "shared")
     \/ HasCommit /\ Exists(<<a, r>>) /\ Answers(a, r, "own")
     \/ /\ HasCommit /\ ~Exists(<<a, r>>)
        /\ Goes(a, "prune") /\ room' = [room EXCEPT ![a] = r]
        /\ UNCHANGED <<answer, lost>>
  /\ UNCHANGED <<repo, declined, git, gone>>

BugPrune(a) ==
  /\ worker[a] = "prune" /\ Goes(a, "add")
  /\ UNCHANGED <<repo, declined, room, answer, git, gone, lost>>

\* git worktree prune, of every agent's worktrees.
Prune(a) ==
  /\ worker[a] = "prune" /\ Goes(a, "add")
  /\ registered' = {t \in registered : Exists(t)}
  /\ UNCHANGED <<repo, declined, room, answer, dir, branches, gone, lost>>

\* git worktree add, of the branch where there is one.  Git refuses a worktree
\* that is listed; a command that fails may have made the branch, and the
\* SDK asks again with the room's next message.
Add(a) ==
  LET t == <<a, room[a]>> IN
  /\ worker[a] = "add"
  /\ \/ /\ t \notin registered
        /\ dir' = [dir EXCEPT ![t] = "tree"]
        /\ registered' = registered \cup {t} /\ branches' = branches \cup {t}
        /\ Answers(a, room[a], "own")
     \/ /\ branches' \in {branches, branches \cup {t}}
        /\ Goes(a, "idle") /\ room' = [room EXCEPT ![a] = None]
        /\ UNCHANGED <<dir, registered, answer, lost>>
  /\ UNCHANGED <<repo, declined, gone>>

\* The worker ends; git may be killed while it checks the worktree out.
Stop(a) ==
  LET t == <<a, room[a]>> IN
  /\ worker[a] # "off" /\ Goes(a, "off") /\ room' = [room EXCEPT ![a] = None]
  /\ answer' = [s \in Trees |-> IF s[1] = a THEN None ELSE answer[s]]
  /\ \/ UNCHANGED git
     \/ /\ worker[a] = "add" /\ t \notin registered
        /\ dir' = [dir EXCEPT ![t] = "partial"]
        /\ registered' = registered \cup {t} /\ branches' = branches \cup {t}
  /\ UNCHANGED <<repo, declined, gone, lost>>

\* remove_codex_worktrees, the end of ManagedAgentOperations.delete: git may
\* refuse to remove a worktree, its directory is removed in any case.
Remove(a) ==
  /\ worker[a] = "off" /\ a \notin gone /\ gone' = gone \cup {a}
  /\ dir' = [t \in Trees |-> IF t[1] = a THEN "none" ELSE dir[t]]
  /\ \E refused \in SUBSET {t \in registered : t[1] = a} :
       registered' = {t \in registered : t[1] = a /\ Exists(t) => t \in refused}
  /\ UNCHANGED <<repo, declined, worker, room, answer, branches, lost>>

\* The user deletes a worktree's directory, or makes a first commit.
DeletedByUser(t) ==
  /\ Exists(t) /\ dir' = [dir EXCEPT ![t] = "none"] /\ lost' = lost \cup {t}
  /\ UNCHANGED <<repo, declined, worker, room, answer, registered, branches, gone>>

Commit ==
  /\ repo = "unborn" /\ repo' = "commits"
  /\ UNCHANGED <<declined, worker, room, answer, git, gone, lost>>

Next ==
  \/ Commit
  \/ \E t \in Trees : DeletedByUser(t)
  \/ \E a \in Agents :
       \/ Start(a) \/ Prune(a) \/ Add(a) \/ Stop(a) \/ Remove(a)
       \/ \E r \in Rooms : Resolve(a, r)

-----------------------------------------------------------------------------
TypeOK ==
  /\ repo \in {"none", "unborn", "commits"} /\ declined \subseteq Agents /\ gone \subseteq Agents
  /\ worker \in [Agents -> {"off", "idle", "prune", "add"}]
  /\ room \in [Agents -> Rooms \cup {None}]
  /\ answer \in [Trees -> {None, "shared", "own"}]
  /\ dir \in [Trees -> {"none", "partial", "tree"}]
  /\ registered \subseteq Trees /\ branches \subseteq Trees /\ lost \subseteq Trees

\* Whatever was killed or deleted, git is never asked for a worktree that it
\* still lists, which it would refuse for ever.
NeverRefused == \A a \in Agents : worker[a] = "add" => <<a, room[a]>> \notin registered

\* A worktree is listed, with its branch, as long as its directory exists:
\* what one agent prunes or removes is not another's.
TreesAreListed ==
  \A t \in Trees : (Exists(t) => t \in registered) /\ (t \in registered => t \in branches)

\* The directory that a worker keeps for a room exists until the user deletes it.
AnswersExist == \A t \in Trees : answer[t] = "own" /\ t \notin lost => Exists(t)

\* Workers, directories and the repository's metadata agree on the worktrees.
WorkspacesAreSound == NeverRefused /\ TreesAreListed /\ AnswersExist
=============================================================================
