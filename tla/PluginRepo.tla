------------------------------ MODULE PluginRepo ------------------------------
(***************************************************************************)
(* The local git repository that WezTerm loads the packaged plugin from:   *)
(* setup_wezterm.py _materialize_plugin and the git commands it runs, one  *)
(* at a time under a lock file.  A run may be killed between two steps;    *)
(* the user may damage the repository between two runs.  One revision: its *)
(* content names its directory.                                            *)
(***************************************************************************)
CONSTANTS Runs,    \* processes that set WezTerm up
          Paths,   \* PLUGIN_REPO_PATHS
          None     \* no process, no file, no commit

VARIABLES at,      \* where every run is
          lock,    \* the run that holds the lock file
          work,    \* the files: None, "packaged" or something else
          git,     \* .git is a directory
          index, head, \* what is staged and what HEAD holds
          handed   \* history: the last run that ended handed the repository's URL out

repoVars == <<at, lock, work, git, index, head, handed>>
repo == <<work, git, index, head>>

Packaged == [p \in Paths |-> "packaged"]
Nothing == [p \in Paths |-> None]

Init ==
  /\ at = [r \in Runs |-> "idle"] /\ lock = None
  /\ work \in [Paths -> {None, "other"}] /\ git = FALSE /\ index = Nothing /\ head = Nothing
  /\ handed = FALSE

Goes(r, from, to) == at[r] = from /\ at' = [at EXCEPT ![r] = to]

Acquire(r) ==
  /\ Goes(r, "idle", "locked")
  /\ lock = None /\ lock' = r /\ handed' = FALSE
  /\ UNCHANGED repo

\* _atomic_write of a file that is missing or differs.
WriteFile(r, p) ==
  /\ at[r] = "locked" /\ work[p] # "packaged"
  /\ work' = [work EXCEPT ![p] = "packaged"]
  /\ UNCHANGED <<at, lock, git, index, head, handed>>

\* _plugin_repo_needs_commit: the files, the index and HEAD differ.
NeedsCommit == ~git \/ \E p \in Paths : head[p] = None \/ index[p] # head[p] \/ work[p] # index[p]

Decide(r) ==
  /\ work = Packaged
  /\ Goes(r, "locked", IF NeedsCommit THEN "init" ELSE "done")
  /\ UNCHANGED <<lock, repo, handed>>

\* _git_commit_plugin_repo.
GitInit(r) ==
  /\ Goes(r, "init", "add")
  /\ git' = TRUE
  /\ UNCHANGED <<lock, work, index, head, handed>>

GitAdd(r) ==
  /\ Goes(r, "add", "diff")
  /\ index' = work
  /\ UNCHANGED <<lock, work, git, head, handed>>

GitDiff(r) ==
  /\ Goes(r, "diff", IF index = head THEN "done" ELSE "commit")
  /\ UNCHANGED <<lock, repo, handed>>

GitCommit(r) ==
  /\ Goes(r, "commit", "done")
  /\ head' = work /\ index' = work
  /\ UNCHANGED <<lock, work, git, handed>>

Release(r) ==
  /\ Goes(r, "done", "idle")
  /\ lock' = None /\ handed' = TRUE
  /\ UNCHANGED repo

\* The process is killed, git fails, or the lock is not had in time.
Dies(r) ==
  /\ at' = [at EXCEPT ![r] = "idle"]
  /\ lock' = IF lock = r THEN None ELSE lock
  /\ UNCHANGED <<repo, handed>>

\* The user removes or changes a file, unstages one, commits, or deletes .git.
Damage ==
  /\ lock = None /\ handed' = FALSE
  /\ \/ \E p \in Paths, x \in {None, "other"} :
          work' = [work EXCEPT ![p] = x] /\ UNCHANGED <<git, index, head>>
     \/ git /\ \E p \in Paths : index' = [index EXCEPT ![p] = None] /\ UNCHANGED <<work, git, head>>
     \/ git /\ index' = work /\ head' = work /\ UNCHANGED <<work, git>>
     \/ git' = FALSE /\ index' = Nothing /\ head' = Nothing /\ UNCHANGED work
  /\ UNCHANGED <<at, lock>>

Next ==
  \/ Damage
  \/ \E r \in Runs :
       \/ Acquire(r) \/ Decide(r) \/ GitInit(r) \/ GitAdd(r) \/ GitDiff(r) \/ GitCommit(r)
       \/ Release(r) \/ Dies(r)
       \/ \E p \in Paths : WriteFile(r, p)

-----------------------------------------------------------------------------
Contents == [Paths -> {None, "other", "packaged"}]
TypeOK ==
  /\ at \in [Runs -> {"idle", "locked", "init", "add", "diff", "commit", "done"}]
  /\ lock \in Runs \cup {None} /\ git \in BOOLEAN /\ handed \in BOOLEAN
  /\ work \in Contents /\ index \in Contents /\ head \in Contents

(***************************************************************************)
(* "Always recover git state": whatever a killed run or the user left, the *)
(* repository that a run hands out has the packaged files in HEAD, which   *)
(* is what WezTerm clones, and a clean working tree.                       *)
(***************************************************************************)
HandedOutIsCommitted == handed => git /\ head = Packaged /\ index = head /\ work = head
=============================================================================
