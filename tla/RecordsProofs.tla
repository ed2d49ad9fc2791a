----------------------------- MODULE RecordsProofs -----------------------------
(***************************************************************************)
(* The records agree, for any number of agents, rooms, files and processes.*)
(* The parts share no variable, so each part has an inductive invariant of *)
(* its own that the steps of the others leave alone.                       *)
(***************************************************************************)
EXTENDS Records, RoomTimelineProofs, FiniteSetTheorems, SequenceTheorems, TLAPS

-----------------------------------------------------------------------------
(* PluginRepo: what a run of the setup hands out is committed.             *)

Committed == git /\ head = G!Packaged /\ index = head /\ work = head

\* What a run has done at each step, and no other run undoes it, as only the
\* holder of the lock file is past "idle".
StepsDone ==
  \A r \in Runs :
    /\ at[r] # "idle" => lock = r /\ ~handed
    /\ at[r] \in {"init", "add", "diff", "commit", "done"} => work = G!Packaged
    /\ at[r] \in {"add", "diff", "commit", "done"} => git
    /\ at[r] \in {"diff", "commit"} => index = work
    /\ at[r] = "done" => Committed

RepoInv == G!TypeOK /\ StepsDone /\ G!HandedOutIsCommitted

\* A repository that needs no commit is committed (_plugin_repo_needs_commit).
LEMMA CleanIsCommitted ==
  ASSUME G!TypeOK, work = G!Packaged, ~G!NeedsCommit
  PROVE  Committed
<1>1. index = work
  BY DEF G!TypeOK, G!Contents, G!NeedsCommit
<1>2. head = index
  BY DEF G!TypeOK, G!Contents, G!NeedsCommit
<1> QED
  BY <1>1, <1>2 DEF G!NeedsCommit, Committed

\* Every step of a run keeps the invariant (_materialize_plugin).
LEMMA RunStep ==
  ASSUME RepoInv, NEW r \in Runs,
         \/ G!Acquire(r) \/ G!Decide(r) \/ G!GitInit(r)
         \/ G!GitAdd(r) \/ G!GitDiff(r) \/ G!GitCommit(r)
         \/ G!Release(r) \/ G!Dies(r)
         \/ \E p \in Paths : G!WriteFile(r, p)
  PROVE  RepoInv'
<1>1. G!TypeOK'
  BY DEF RepoInv, G!TypeOK, G!Contents, G!Acquire, G!Decide, G!GitInit, G!GitAdd, G!GitDiff,
     G!GitCommit,
         G!Release, G!Dies, G!WriteFile, G!Goes, G!repo
<1> USE DEF RepoInv, G!TypeOK, StepsDone, G!HandedOutIsCommitted, G!Goes, G!repo
<1>2. CASE G!Acquire(r)
  BY <1>1, <1>2, RecordsAssumption DEF G!Acquire
<1>3. CASE G!Decide(r)
  BY <1>1, <1>3, CleanIsCommitted DEF G!Decide, Committed
<1>4. CASE G!GitInit(r)
  BY <1>1, <1>4 DEF G!GitInit, Committed
<1>5. CASE G!GitAdd(r)
  BY <1>1, <1>5 DEF G!GitAdd, Committed
<1>6. CASE G!GitDiff(r)
  BY <1>1, <1>6 DEF G!GitDiff, Committed
<1>7. CASE G!GitCommit(r)
  BY <1>1, <1>7 DEF G!GitCommit, Committed
<1>8. CASE G!Release(r)
  BY <1>1, <1>8 DEF G!Release, Committed
<1>9. CASE G!Dies(r)
  BY <1>1, <1>9 DEF G!Dies, Committed
<1>10. ASSUME NEW p \in Paths, G!WriteFile(r, p)
       PROVE  RepoInv'
  BY <1>1, <1>10 DEF G!WriteFile, Committed
<1> QED
  BY <1>2, <1>3, <1>4, <1>5, <1>6, <1>7, <1>8, <1>9, <1>10

\* The user damages the repository between two runs only.
LEMMA DamageStep ==
  ASSUME RepoInv, G!Damage
  PROVE  RepoInv'
<1>1. \A r \in Runs : at[r] = "idle"
  BY RecordsAssumption DEF RepoInv, StepsDone, G!TypeOK, G!Damage
<1>2. G!TypeOK'
  BY DEF RepoInv, G!TypeOK, G!Contents, G!Damage, G!Nothing
<1> QED
  BY <1>1, <1>2 DEF RepoInv, StepsDone, G!HandedOutIsCommitted, G!Damage

\* Every step of the repository's part keeps its invariant.
LEMMA RepoSteps == RepoInv /\ [G!Next]_repoVars => RepoInv'
<1>1. ASSUME RepoInv, UNCHANGED repoVars
      PROVE  RepoInv'
  BY <1>1 DEF repoVars, G!repo, RepoInv, G!TypeOK, StepsDone, G!HandedOutIsCommitted, Committed
<1> QED
  BY <1>1, RunStep, DamageStep DEF G!Next

LEMMA RepoStarts == G!Init => RepoInv
BY DEF G!Init, RepoInv, G!TypeOK, G!Contents, G!Nothing, StepsDone, G!HandedOutIsCommitted

-----------------------------------------------------------------------------
(* CodexWorktrees: git never refuses a worktree and none disappears.       *)

\* A worker that makes a worktree knows its room and found no directory, and
\* nobody else makes that one.
MakesWhatIsMissing ==
  \A a \in Agents :
    worker[a] \in {"prune", "add"} => resolving[a] \in WorkRooms /\ ~T!Exists(<<a, resolving[a]>>)

\* A worker that is not running keeps no answers: the cache is the SDK's.
OffKeepsNothing == \A t \in T!Trees : worker[t[1]] = "off" => answer[t] = None

WorktreeInv == T!TypeOK /\ MakesWhatIsMissing /\ OffKeepsNothing /\ T!WorkspacesAreSound

\* The steps that touch no worktree.
LEMMA QuietStep ==
  ASSUME WorktreeInv,
         \/ UNCHANGED worktreeVars
         \/ T!Commit
         \/ \E t \in T!Trees : T!DeletedByUser(t)
  PROVE  WorktreeInv'
<1> USE DEF WorktreeInv, T!TypeOK, MakesWhatIsMissing, OffKeepsNothing, T!WorkspacesAreSound,
            T!NeverRefused, T!TreesAreListed, T!AnswersExist, T!Exists, T!git
<1>1. CASE UNCHANGED worktreeVars
  BY <1>1 DEF worktreeVars
<1>2. CASE T!Commit
  BY <1>2 DEF T!Commit
<1>3. ASSUME NEW t \in T!Trees, T!DeletedByUser(t)
      PROVE  WorktreeInv'
  BY <1>3 DEF T!DeletedByUser, T!Trees
<1> QED
  BY <1>1, <1>2, <1>3

\* The start of a worker (apply_codex_git_init_consent, START).
LEMMA StartStep ==
  ASSUME WorktreeInv, NEW a \in Agents, T!Start(a)
  PROVE  WorktreeInv'
<1> USE DEF WorktreeInv, T!TypeOK, T!Exists, T!git, T!Goes
<1>1. /\ UNCHANGED <<resolving, T!git, gone, lost>>
      /\ worker' = worker \/ worker' = [worker EXCEPT ![a] = "idle"]
      /\ launch' \in {"none", "unborn", "commits"} /\ declined' \subseteq Agents
      /\ answer' = [t \in T!Trees |-> IF t[1] = a THEN None ELSE answer[t]]
  BY DEF T!Start, T!GitInit
<1>2. T!TypeOK'
  BY <1>1
<1>3. MakesWhatIsMissing' /\ T!NeverRefused' /\ T!TreesAreListed'
  BY <1>1 DEF MakesWhatIsMissing, T!WorkspacesAreSound, T!NeverRefused, T!TreesAreListed
<1>4. OffKeepsNothing' /\ T!AnswersExist'
  BY <1>1, RecordsAssumption DEF OffKeepsNothing, T!WorkspacesAreSound, T!AnswersExist, T!Trees
<1> QED
  BY <1>2, <1>3, <1>4 DEF T!WorkspacesAreSound

\* The resolver answers at once or starts to make a worktree.
LEMMA ResolveStep ==
  ASSUME WorktreeInv, NEW a \in Agents, NEW r \in WorkRooms, T!Resolve(a, r)
  PROVE  WorktreeInv'
<1> USE DEF WorktreeInv, T!TypeOK, T!Exists, T!git, T!Goes
<1> DEFINE t == <<a, r>>
<1>1. t \in T!Trees /\ worker[a] = "idle"
  BY DEF T!Trees, T!Resolve
<1>2. ASSUME NEW where \in {"shared", "own"}, T!Answers(a, r, where),
             where = "own" => T!Exists(t)
      PROVE  WorktreeInv'
  <2>1. /\ UNCHANGED <<launch, declined, T!git, gone>>
        /\ answer' = [answer EXCEPT ![t] = where] /\ lost' = lost \ {t}
        /\ worker' = [worker EXCEPT ![a] = "idle"] /\ resolving' = [resolving EXCEPT ![a] = None]
    BY <1>2 DEF T!Resolve, T!Answers
  <2>2. T!TypeOK'
    BY <2>1
  <2>3. MakesWhatIsMissing' /\ T!NeverRefused' /\ T!TreesAreListed'
    BY <2>1 DEF MakesWhatIsMissing, T!WorkspacesAreSound, T!NeverRefused, T!TreesAreListed
  <2>4. OffKeepsNothing'
    BY <1>1, <2>1 DEF OffKeepsNothing, T!Trees
  <2>5. T!AnswersExist'
    BY <1>1, <1>2, <2>1 DEF T!WorkspacesAreSound, T!AnswersExist
  <2> QED
    BY <2>2, <2>3, <2>4, <2>5 DEF T!WorkspacesAreSound
<1>4. CASE ~T!Exists(t) /\ T!Goes(a, "prune") /\ resolving' = [resolving EXCEPT ![a] = r]
           /\ UNCHANGED <<answer, lost>>
  BY <1>1, <1>4 DEF T!Resolve, MakesWhatIsMissing, OffKeepsNothing, T!WorkspacesAreSound,
                    T!NeverRefused, T!TreesAreListed, T!AnswersExist, T!Trees
<1> QED
  BY <1>2, <1>4 DEF T!Resolve

\* git worktree prune unlists the missing worktrees, of all agents.
LEMMA PruneStep ==
  ASSUME WorktreeInv, NEW a \in Agents, T!Prune(a)
  PROVE  WorktreeInv'
<1> USE DEF WorktreeInv, T!TypeOK, T!Exists, T!git, T!Goes, T!Prune
<1>1. T!TypeOK' /\ MakesWhatIsMissing' /\ OffKeepsNothing'
  BY DEF MakesWhatIsMissing, OffKeepsNothing, T!Trees
<1>2. T!NeverRefused' /\ T!TreesAreListed' /\ T!AnswersExist'
  BY DEF MakesWhatIsMissing, T!WorkspacesAreSound, T!NeverRefused, T!TreesAreListed, T!AnswersExist
<1> QED
  BY <1>1, <1>2 DEF T!WorkspacesAreSound

\* A worktree is made, by git worktree add or by one that is killed: only the
\* worker's own is.
LEMMA MadeStep ==
  ASSUME WorktreeInv, NEW a \in Agents, worker[a] = "add", NEW d \in {"partial", "tree"},
         LET t == <<a, resolving[a]>> IN
           /\ dir' = [dir EXCEPT ![t] = d]
           /\ registered' = registered \cup {t} /\ branches' = branches \cup {t},
         resolving' = [resolving EXCEPT ![a] = None],
         \E w \in {"off", "idle"} : worker' = [worker EXCEPT ![a] = w]
  PROVE  MakesWhatIsMissing' /\ T!NeverRefused' /\ T!TreesAreListed'
<1> DEFINE t == <<a, resolving[a]>>
<1>1. t \in T!Trees
  BY DEF WorktreeInv, MakesWhatIsMissing, T!Trees
<1>2. ASSUME NEW b \in Agents, worker'[b] \in {"prune", "add"}
      PROVE  /\ b # a /\ worker[b] = worker'[b]
             /\ resolving'[b] = resolving[b] /\ resolving[b] \in WorkRooms
             /\ <<b, resolving[b]>> \in T!Trees /\ <<b, resolving[b]>> # t
  BY <1>2 DEF WorktreeInv, T!TypeOK, MakesWhatIsMissing, T!Trees
<1>3. MakesWhatIsMissing'
  BY <1>1, <1>2 DEF WorktreeInv, T!TypeOK, MakesWhatIsMissing, T!Exists
<1>4. T!NeverRefused'
  BY <1>1, <1>2 DEF WorktreeInv, T!WorkspacesAreSound, T!NeverRefused
<1>5. T!TreesAreListed'
  BY <1>1 DEF WorktreeInv, T!TypeOK, T!WorkspacesAreSound, T!TreesAreListed, T!Exists
<1> QED
  BY <1>3, <1>4, <1>5

\* git worktree add ends or fails.
LEMMA AddStep ==
  ASSUME WorktreeInv, NEW a \in Agents, T!Add(a)
  PROVE  WorktreeInv'
<1> DEFINE t == <<a, resolving[a]>>
<1>1. /\ t \in T!Trees /\ resolving[a] \in WorkRooms /\ worker[a] = "add"
      /\ answer[t] \in {None, "shared", "own"}
  BY DEF T!Add, WorktreeInv, T!TypeOK, MakesWhatIsMissing, T!Trees
<1>2. CASE /\ t \notin registered
           /\ dir' = [dir EXCEPT ![t] = "tree"]
           /\ registered' = registered \cup {t} /\ branches' = branches \cup {t}
           /\ T!Answers(a, resolving[a], "own")
  <2>1. MakesWhatIsMissing' /\ T!NeverRefused' /\ T!TreesAreListed'
    BY <1>1, <1>2, MadeStep DEF T!Answers, T!Goes
  <2>2. T!TypeOK'
    BY <1>1, <1>2 DEF T!Add, T!Answers, T!Goes, WorktreeInv, T!TypeOK
  <2>3. OffKeepsNothing'
    BY <1>1, <1>2 DEF T!Add, T!Answers, T!Goes, WorktreeInv, T!TypeOK, OffKeepsNothing, T!Trees
  <2>4. T!AnswersExist'
    BY <1>1, <1>2 DEF T!Add, T!Answers, WorktreeInv, T!TypeOK, T!WorkspacesAreSound,
       T!AnswersExist, T!Exists
  <2> QED
    BY <2>1, <2>2, <2>3, <2>4 DEF WorktreeInv, T!WorkspacesAreSound
<1>3. CASE /\ branches' \in {branches, branches \cup {t}}
           /\ T!Goes(a, "idle") /\ resolving' = [resolving EXCEPT ![a] = None]
           /\ UNCHANGED <<dir, registered, answer, lost>>
  BY <1>1, <1>3 DEF T!Add, T!Goes, WorktreeInv, T!TypeOK, MakesWhatIsMissing, OffKeepsNothing,
                    T!WorkspacesAreSound, T!NeverRefused, T!TreesAreListed, T!AnswersExist,
                    T!Exists, T!Trees
<1> QED
  BY <1>2, <1>3 DEF T!Add

\* A worker ends, at any step.
LEMMA StopStep ==
  ASSUME WorktreeInv, NEW a \in Agents, T!Stop(a)
  PROVE  WorktreeInv'
<1> DEFINE t == <<a, resolving[a]>>
<1>1. /\ worker' = [worker EXCEPT ![a] = "off"] /\ resolving' = [resolving EXCEPT ![a] = None]
      /\ answer' = [s \in T!Trees |-> IF s[1] = a THEN None ELSE answer[s]]
      /\ UNCHANGED <<launch, declined, gone, lost>>
  BY DEF T!Stop, T!Goes
<1>2. OffKeepsNothing'
  BY <1>1 DEF WorktreeInv, T!TypeOK, OffKeepsNothing, T!Trees
<1>3. CASE UNCHANGED T!git
  BY <1>1, <1>2, <1>3, RecordsAssumption DEF T!git, WorktreeInv, T!TypeOK, MakesWhatIsMissing,
     T!WorkspacesAreSound,
                          T!NeverRefused, T!TreesAreListed, T!AnswersExist, T!Exists, T!Trees
<1>4. CASE /\ worker[a] = "add" /\ t \notin registered
           /\ dir' = [dir EXCEPT ![t] = "partial"]
           /\ registered' = registered \cup {t} /\ branches' = branches \cup {t}
  <2>1. MakesWhatIsMissing' /\ T!NeverRefused' /\ T!TreesAreListed'
    BY <1>1, <1>4, MadeStep
  <2>2. t \in T!Trees
    BY <1>4 DEF WorktreeInv, MakesWhatIsMissing, T!Trees
  <2>3. T!TypeOK'
    BY <1>1, <1>4, <2>2 DEF WorktreeInv, T!TypeOK
  <2>4. T!AnswersExist'
    BY <1>1, <1>4, <2>2, RecordsAssumption DEF WorktreeInv, T!TypeOK, T!WorkspacesAreSound,
                              T!AnswersExist, T!Exists
  <2> QED
    BY <1>2, <2>1, <2>3, <2>4 DEF WorktreeInv, T!WorkspacesAreSound
<1> QED
  BY <1>3, <1>4 DEF T!Stop

\* An agent is deleted, and its worktrees with it (remove_codex_worktrees).
LEMMA RemoveStep ==
  ASSUME WorktreeInv, NEW a \in Agents, T!Remove(a)
  PROVE  WorktreeInv'
<1>1. PICK refused \in SUBSET {t \in registered : t[1] = a} :
        registered' = {t \in registered : t[1] = a /\ T!Exists(t) => t \in refused}
  BY DEF T!Remove
<1>2. /\ worker[a] = "off"
      /\ UNCHANGED <<launch, declined, worker, resolving, answer, branches, lost>>
      /\ dir' = [t \in T!Trees |-> IF t[1] = a THEN "none" ELSE dir[t]] /\ gone' = gone \cup {a}
  BY DEF T!Remove
<1>3. T!TypeOK'
  BY <1>1, <1>2 DEF WorktreeInv, T!TypeOK
<1>4. MakesWhatIsMissing' /\ OffKeepsNothing'
  BY <1>2 DEF WorktreeInv, T!TypeOK, MakesWhatIsMissing, OffKeepsNothing, T!Exists, T!Trees
<1>5. T!NeverRefused' /\ T!TreesAreListed'
  BY <1>1, <1>2 DEF WorktreeInv, T!WorkspacesAreSound, T!NeverRefused, T!TreesAreListed, T!Exists
<1>6. T!AnswersExist'
  BY <1>2, RecordsAssumption DEF WorktreeInv, T!TypeOK, OffKeepsNothing, T!WorkspacesAreSound,
                            T!AnswersExist, T!Exists
<1> QED
  BY <1>3, <1>4, <1>5, <1>6 DEF WorktreeInv, T!WorkspacesAreSound

\* Every step of the worktrees' part keeps their invariant.
LEMMA WorktreeSteps == WorktreeInv /\ [T!Next]_worktreeVars => WorktreeInv'
BY QuietStep, StartStep, ResolveStep, PruneStep, AddStep, StopStep, RemoveStep DEF T!Next

LEMMA WorktreesStart == T!Init => WorktreeInv
BY RecordsAssumption DEF T!Init, WorktreeInv, T!TypeOK, MakesWhatIsMissing, OffKeepsNothing,
   T!WorkspacesAreSound,
       T!NeverRefused, T!TreesAreListed, T!AnswersExist, T!Exists, T!Trees
-----------------------------------------------------------------------------
(* RoomRoster: once nothing is under way the room shows its roster.        *)

Phases == {"none", "asked", "answered"}
Loads == [at : Phases, answer : SUBSET People]

Asking == [at |-> "asked", answer |-> {}]
Mutations == [op : {"none", "add", "remove"}, at : Phases, who : People \cup {None}]

RosterTypes ==
  /\ P!TypeOK
  /\ load \in [P!Screens -> Loads] /\ mutation \in [P!Screens -> Mutations]
  /\ busy \in [P!Screens -> BOOLEAN] /\ event \in [P!Screens -> BOOLEAN]
  /\ failed \in [P!Screens -> BOOLEAN] /\ mixed \in BOOLEAN

\* One screen is open, and only a screen that is mounted loads or mutates.
OneScreen ==
  /\ \A s, t \in P!Screens : screen[s] = "open" /\ screen[t] = "open" => s = t
  /\ \A s \in P!Screens : load[s].at # "none" => P!Alive(s)
  /\ \A s \in P!Screens : mutation[s].at # "none" => P!Alive(s) /\ mutation[s].who \in People
  /\ \A s \in P!Screens : load[s].at = "none" => load[s] = P!NoLoad

\* An answer from before a change is still to be followed by the event that
\* announces the change.
AnswersAreCurrent ==
  \A s \in P!Screens :
    load[s].at = "answered" /\ ~event[s] => load[s].answer = people[Visits[s]]

RosterInv == RosterTypes /\ OneScreen /\ AnswersAreCurrent /\ P!RosterSettles

\* The rooms of the screens are the platform's.
LEMMA RoomOf == ASSUME NEW s \in P!Screens PROVE Visits[s] \in Rooms
BY RecordsAssumption DEF P!Screens

LEMMA LoadFields ==
  /\ P!NoLoad \in Loads /\ P!NoLoad.at = "none"
  /\ Asking \in Loads /\ Asking.at = "asked"
  /\ P!NoMutation \in Mutations /\ P!NoMutation.at = "none"
BY DEF P!NoLoad, Asking, Loads, Phases, Mutations, P!NoMutation

LEMMA Fields ==
  ASSUME NEW l \in [P!Screens -> Loads], NEW m \in [P!Screens -> Mutations], NEW s \in P!Screens
  PROVE  /\ l[s].at \in {"none", "asked", "answered"} /\ l[s].answer \subseteq People
         /\ m[s].at \in {"none", "asked", "answered"}
BY DEF Loads, Mutations, Phases

LEMMA RosterStarts == P!Init => RosterInv
<1> SUFFICES ASSUME P!Init PROVE RosterInv
  OBVIOUS
<1>1. RosterTypes
  <2>1. people \in [Rooms -> SUBSET People] /\ changes \in 0..MaxChanges
    BY RecordsAssumption DEF P!Init
  <2>2. load \in [P!Screens -> Loads] /\ mutation \in [P!Screens -> Mutations]
    BY LoadFields DEF P!Init
  <2>3. /\ busy \in [P!Screens -> BOOLEAN] /\ event \in [P!Screens -> BOOLEAN]
        /\ failed \in [P!Screens -> BOOLEAN] /\ mixed \in BOOLEAN
    BY Zenon DEF P!Init
  <2>4. /\ screen \in [P!Screens -> {"new", "open", "closing", "gone"}]
        /\ participants \subseteq People
    BY DEF P!Init
  <2> QED
    BY <2>1, <2>2, <2>3, <2>4, Fields DEF RosterTypes, P!TypeOK
<1>2. OneScreen /\ AnswersAreCurrent
  BY LoadFields DEF P!Init, OneScreen, AnswersAreCurrent
<1>3. P!RosterSettles
  BY DEF P!Init, P!RosterSettles, P!RosterIsCurrent, P!BusyHasMutation, P!Settled
<1> QED
  BY <1>1, <1>2, <1>3 DEF RosterInv

\* What the platform announces to the mounted screens of a room.
LEMMA Announced ==
  ASSUME RosterTypes, NEW r \in Rooms, NEW whom \in SUBSET People, P!Becomes(r, whom)
  PROVE  /\ people' \in [Rooms -> SUBSET People] /\ event' \in [P!Screens -> BOOLEAN]
         /\ \A s \in P!Screens :
              P!Alive(s) /\ ~event'[s] => ~event[s] /\ people'[Visits[s]] = people[Visits[s]]
<1>1. people' \in [Rooms -> SUBSET People]
  BY DEF P!Becomes, RosterTypes, P!TypeOK
<1>2. event' = [s \in P!Screens |-> event[s] \/ (P!Alive(s) /\ Visits[s] = r /\ people[r] # whom)]
  BY DEF P!Becomes, P!room
<1>3. event' \in [P!Screens -> BOOLEAN]
  BY <1>2, Zenon DEF RosterTypes
<1>4. ASSUME NEW s \in P!Screens, P!Alive(s), ~event'[s]
      PROVE  ~event[s] /\ people'[Visits[s]] = people[Visits[s]]
  <2>1. ~event[s] /\ ~(Visits[s] = r /\ people[r] # whom)
    BY <1>2, <1>4
  <2>2. people' = [people EXCEPT ![r] = whom]
    BY DEF P!Becomes
  <2> QED
    BY <2>1, <2>2, RoomOf DEF RosterTypes, P!TypeOK
<1> QED
  BY <1>1, <1>3, <1>4

\* Opening, leaving and unmounting a screen.
LEMMA ScreenStep ==
  ASSUME RosterInv, NEW s \in P!Screens,
         P!Open(s) \/ P!Back(s) \/ P!Gone(s)
  PROVE  RosterInv'
<1>1. CASE P!Open(s)
  <2>1. load' = [load EXCEPT ![s] = Asking] /\ Asking \in Loads
    BY <1>1, LoadFields, RoomOf DEF RosterInv, RosterTypes, P!TypeOK, P!Open, P!Asks, Asking
  <2>2. /\ load' \in [P!Screens -> Loads] /\ load'[s] = Asking
        /\ \A t \in P!Screens : t # s => load'[t] = load[t]
    BY <2>1 DEF RosterInv, RosterTypes
  <2>3. mutation' \in [P!Screens -> Mutations] /\ UNCHANGED mutation
    BY <1>1 DEF RosterInv, RosterTypes, P!Open
  <2>4. RosterTypes'
    BY <1>1, <2>2, <2>3, Fields, RoomOf, RecordsAssumption DEF RosterInv, RosterTypes, P!TypeOK,
       P!room, P!history, P!Open
  <2>5. OneScreen'
    BY <1>1, <2>2, <2>3, LoadFields, <2>4 DEF RosterInv, RosterTypes, P!TypeOK, P!history,
       OneScreen, P!Alive, P!Open
  <2>6. AnswersAreCurrent'
    BY <1>1, <2>2, <2>3, LoadFields, <2>4, RoomOf DEF RosterInv, RosterTypes, P!TypeOK,
       P!history, OneScreen, AnswersAreCurrent, P!Alive, P!room, P!Open
  <2>7. P!BusyHasMutation'
    BY <1>1, LoadFields, <2>3, <2>4 DEF RosterInv, RosterTypes, P!TypeOK, P!history,
       P!RosterSettles, P!BusyHasMutation, P!Open
  <2>8. P!RosterIsCurrent'
    BY <1>1, <2>2, <2>3, LoadFields, <2>4, RoomOf DEF RosterInv, RosterTypes, P!TypeOK,
       P!history, OneScreen, AnswersAreCurrent, P!Alive,
         P!RosterSettles, P!RosterIsCurrent, P!Settled, P!room, P!Open
  <2> QED
    BY <2>4, <2>5, <2>6, <2>7, <2>8 DEF RosterInv, P!RosterSettles
<1>2. CASE P!Back(s)
  <2>1. UNCHANGED load
    BY <1>2 DEF P!history, P!Back
  <2>2. load' \in [P!Screens -> Loads]
    BY <2>1 DEF RosterInv, RosterTypes
  <2>3. mutation' \in [P!Screens -> Mutations] /\ UNCHANGED mutation
    BY <1>2 DEF RosterInv, RosterTypes, P!Back
  <2>4. RosterTypes'
    BY <1>2, <2>1, <2>2, <2>3, Fields, RoomOf, RecordsAssumption DEF RosterInv, RosterTypes,
       P!TypeOK, P!room, P!history, P!Back
  <2>5. OneScreen'
    BY <1>2, <2>1, <2>2, <2>3, <2>4 DEF RosterInv, RosterTypes, P!TypeOK, P!history, OneScreen,
       P!Alive, P!Back
  <2>6. AnswersAreCurrent'
    BY <1>2, <2>1, <2>2, <2>3, <2>4, RoomOf DEF RosterInv, RosterTypes, P!TypeOK, P!history,
       OneScreen, AnswersAreCurrent, P!Alive, P!room, P!Back
  <2>7. P!BusyHasMutation'
    BY <1>2, LoadFields, <2>3, <2>4 DEF RosterInv, RosterTypes, P!TypeOK, P!history,
       P!RosterSettles, P!BusyHasMutation, P!Back
  <2>8. P!RosterIsCurrent'
    BY <1>2, <2>1, <2>2, <2>3, LoadFields, <2>4, RoomOf DEF RosterInv, RosterTypes, P!TypeOK,
       P!history, OneScreen, AnswersAreCurrent, P!Alive,
         P!RosterSettles, P!RosterIsCurrent, P!Settled, P!room, P!Back
  <2> QED
    BY <2>4, <2>5, <2>6, <2>7, <2>8 DEF RosterInv, P!RosterSettles
<1>3. CASE P!Gone(s)
  <2>1. load' = [load EXCEPT ![s] = P!NoLoad] /\ P!NoLoad \in Loads
    BY <1>3, LoadFields, RoomOf DEF RosterInv, RosterTypes, P!TypeOK, P!Gone
  <2>2. /\ load' \in [P!Screens -> Loads] /\ load'[s] = P!NoLoad
        /\ \A t \in P!Screens : t # s => load'[t] = load[t]
    BY <2>1 DEF RosterInv, RosterTypes
  <2>0. mutation' \in [P!Screens -> Mutations]
    BY <1>3, LoadFields DEF RosterInv, RosterTypes, P!TypeOK, Mutations, Phases, P!Gone
  <2>3. /\ mutation' \in [P!Screens -> Mutations]
        /\ mutation'[s] = P!NoMutation /\ \A t \in P!Screens : t # s => mutation'[t] = mutation[t]
    BY <1>3, <2>0 DEF RosterInv, RosterTypes, P!Gone
  <2>4. RosterTypes'
    BY <1>3, <2>2, <2>3, Fields, RoomOf, RecordsAssumption DEF RosterInv, RosterTypes, P!TypeOK,
       P!room, P!history, P!Gone
  <2>5. OneScreen'
    BY <1>3, <2>2, <2>3, LoadFields, <2>4 DEF RosterInv, RosterTypes, P!TypeOK, P!history,
       OneScreen, P!Alive, P!Gone
  <2>6. AnswersAreCurrent'
    BY <1>3, <2>2, <2>3, LoadFields, <2>4, RoomOf DEF RosterInv, RosterTypes, P!TypeOK,
       P!history, OneScreen, AnswersAreCurrent, P!Alive, P!room, P!Gone
  <2>7. P!BusyHasMutation'
    BY <1>3, LoadFields, <2>3, <2>4 DEF RosterInv, RosterTypes, P!TypeOK, P!history,
       P!RosterSettles, P!BusyHasMutation, P!Gone
  <2>8. P!RosterIsCurrent'
    BY <1>3, <2>2, <2>3, LoadFields, <2>4, RoomOf DEF RosterInv, RosterTypes, P!TypeOK,
       P!history, OneScreen, AnswersAreCurrent, P!Alive,
         P!RosterSettles, P!RosterIsCurrent, P!Settled, P!room, P!Gone
  <2> QED
    BY <2>4, <2>5, <2>6, <2>7, <2>8 DEF RosterInv, P!RosterSettles
<1> QED
  BY <1>1, <1>2, <1>3

\* Loading the roster (_load_roster, action_reload, a roster event).
LEMMA LoadStep ==
  ASSUME RosterInv, NEW s \in P!Screens,
         P!Answered(s) \/ P!Applied(s) \/ P!Fails(s) \/ P!Reload(s) \/ P!Incoming(s)
  PROVE  RosterInv'
<1>1. CASE P!Answered(s)
  <2>1. /\ load' = [load EXCEPT ![s] = [at |-> "answered", answer |-> people[Visits[s]]]]
        /\ [at |-> "answered", answer |-> people[Visits[s]]] \in Loads
    BY <1>1, LoadFields, RoomOf DEF RosterInv, RosterTypes, P!TypeOK, P!Answered, P!room, Loads,
       Phases
  <2>2. /\ load' \in [P!Screens -> Loads]
        /\ load'[s] = [at |-> "answered", answer |-> people[Visits[s]]]
        /\ \A t \in P!Screens : t # s => load'[t] = load[t]
    BY <2>1 DEF RosterInv, RosterTypes
  <2>3. mutation' \in [P!Screens -> Mutations] /\ UNCHANGED mutation
    BY <1>1 DEF RosterInv, RosterTypes, P!Answered
  <2>4. RosterTypes'
    BY <1>1, <2>2, <2>3, Fields, RoomOf, RecordsAssumption DEF RosterInv, RosterTypes, P!TypeOK,
       P!room, P!history, P!Answered
  <2>5. OneScreen'
    BY <1>1, <2>2, <2>3, LoadFields, <2>4 DEF RosterInv, RosterTypes, P!TypeOK, P!history,
       OneScreen, P!Alive, P!Answered
  <2>6. AnswersAreCurrent'
    BY <1>1, <2>2, <2>3, LoadFields, <2>4, RoomOf DEF RosterInv, RosterTypes, P!TypeOK,
       P!history, OneScreen, AnswersAreCurrent, P!Alive, P!room, P!Answered
  <2>7. P!BusyHasMutation'
    BY <1>1, LoadFields, <2>3, <2>4 DEF RosterInv, RosterTypes, P!TypeOK, P!history,
       P!RosterSettles, P!BusyHasMutation, P!Answered
  <2>8. P!RosterIsCurrent'
    BY <1>1, <2>2, <2>3, LoadFields, <2>4, RoomOf DEF RosterInv, RosterTypes, P!TypeOK,
       P!history, OneScreen, AnswersAreCurrent, P!Alive,
         P!RosterSettles, P!RosterIsCurrent, P!Settled, P!room, P!Answered
  <2> QED
    BY <2>4, <2>5, <2>6, <2>7, <2>8 DEF RosterInv, P!RosterSettles
<1>2. CASE P!Applied(s)
  <2>1. load' = [load EXCEPT ![s] = P!NoLoad] /\ P!NoLoad \in Loads
    BY <1>2, LoadFields, RoomOf DEF RosterInv, RosterTypes, P!TypeOK, P!Applied
  <2>2. /\ load' \in [P!Screens -> Loads] /\ load'[s] = P!NoLoad
        /\ \A t \in P!Screens : t # s => load'[t] = load[t]
    BY <2>1 DEF RosterInv, RosterTypes
  <2>3. mutation' \in [P!Screens -> Mutations] /\ UNCHANGED mutation
    BY <1>2 DEF RosterInv, RosterTypes, P!Applied
  <2>4. RosterTypes'
    BY <1>2, <2>2, <2>3, Fields, RoomOf, RecordsAssumption DEF RosterInv, RosterTypes, P!TypeOK,
       P!room, P!history, P!Applied
  <2>5. OneScreen'
    BY <1>2, <2>2, <2>3, LoadFields, <2>4 DEF RosterInv, RosterTypes, P!TypeOK, P!history,
       OneScreen, P!Alive, P!Applied
  <2>6. AnswersAreCurrent'
    BY <1>2, <2>2, <2>3, LoadFields, <2>4, RoomOf DEF RosterInv, RosterTypes, P!TypeOK,
       P!history, OneScreen, AnswersAreCurrent, P!Alive, P!room, P!Applied
  <2>7. P!BusyHasMutation'
    BY <1>2, LoadFields, <2>3, <2>4 DEF RosterInv, RosterTypes, P!TypeOK, P!history,
       P!RosterSettles, P!BusyHasMutation, P!Applied
  <2>8. P!RosterIsCurrent'
    <3>1. SUFFICES ASSUME NEW t \in P!Screens, P!Settled(t)', ~mixed'
                   PROVE  participants' = people'[Visits[t]]
      BY DEF P!RosterIsCurrent, P!room
    <3>2. screen[t] = "open" /\ screen[s] # "closing"
      BY <1>2, <3>1 DEF P!Settled, P!Applied
    <3>3. P!Alive(s)
      BY <1>2 DEF P!Applied, RosterInv, OneScreen
    <3>4. t = s
      BY <3>2, <3>3 DEF RosterInv, OneScreen, P!Alive
    <3>5. ~event[s]
      BY <1>2, <3>1, <3>4 DEF P!Settled, P!Applied
    <3> QED
      BY <1>2, <3>4, <3>5 DEF P!Applied, RosterInv, AnswersAreCurrent
  <2> QED
    BY <2>4, <2>5, <2>6, <2>7, <2>8 DEF RosterInv, P!RosterSettles
<1>3. CASE P!Fails(s)
  <2>1. load' = [load EXCEPT ![s] = P!NoLoad] /\ P!NoLoad \in Loads
    BY <1>3, LoadFields, RoomOf DEF RosterInv, RosterTypes, P!TypeOK, P!Fails
  <2>2. /\ load' \in [P!Screens -> Loads] /\ load'[s] = P!NoLoad
        /\ \A t \in P!Screens : t # s => load'[t] = load[t]
    BY <2>1 DEF RosterInv, RosterTypes
  <2>3. mutation' \in [P!Screens -> Mutations] /\ UNCHANGED mutation
    BY <1>3 DEF RosterInv, RosterTypes, P!Fails
  <2>4. RosterTypes'
    BY <1>3, <2>2, <2>3, Fields, RoomOf, RecordsAssumption DEF RosterInv, RosterTypes, P!TypeOK,
       P!room, P!history, P!Fails
  <2>5. OneScreen'
    BY <1>3, <2>2, <2>3, LoadFields, <2>4 DEF RosterInv, RosterTypes, P!TypeOK, P!history,
       OneScreen, P!Alive, P!Fails
  <2>6. AnswersAreCurrent'
    BY <1>3, <2>2, <2>3, LoadFields, <2>4, RoomOf DEF RosterInv, RosterTypes, P!TypeOK,
       P!history, OneScreen, AnswersAreCurrent, P!Alive, P!room, P!Fails
  <2>7. P!BusyHasMutation'
    BY <1>3, LoadFields, <2>3, <2>4 DEF RosterInv, RosterTypes, P!TypeOK, P!history,
       P!RosterSettles, P!BusyHasMutation, P!Fails
  <2>8. P!RosterIsCurrent'
    BY <1>3, <2>2, <2>3, LoadFields, <2>4, RoomOf DEF RosterInv, RosterTypes, P!TypeOK,
       P!history, OneScreen, AnswersAreCurrent, P!Alive,
         P!RosterSettles, P!RosterIsCurrent, P!Settled, P!room, P!Fails
  <2> QED
    BY <2>4, <2>5, <2>6, <2>7, <2>8 DEF RosterInv, P!RosterSettles
<1>4. CASE P!Reload(s)
  <2>1. load' = [load EXCEPT ![s] = Asking] /\ Asking \in Loads
    BY <1>4, LoadFields, RoomOf DEF RosterInv, RosterTypes, P!TypeOK, P!Reload, P!Asks, Asking
  <2>2. /\ load' \in [P!Screens -> Loads] /\ load'[s] = Asking
        /\ \A t \in P!Screens : t # s => load'[t] = load[t]
    BY <2>1 DEF RosterInv, RosterTypes
  <2>3. mutation' \in [P!Screens -> Mutations] /\ UNCHANGED mutation
    BY <1>4 DEF RosterInv, RosterTypes, P!Reload
  <2>4. RosterTypes'
    <3>1. UNCHANGED <<people, screen, participants, mutation, busy, event, failed, mixed, changes>>
      BY <1>4 DEF P!Reload, P!history
    <3>2. P!TypeOK'
      BY <2>2, <3>1, Fields DEF RosterInv, RosterTypes, P!TypeOK
    <3>3. /\ load' \in [P!Screens -> Loads] /\ mutation' \in [P!Screens -> Mutations]
          /\ busy' = busy /\ event' = event /\ failed' = failed /\ mixed' = mixed
      BY <2>2, <2>3, <3>1
    <3> QED
      BY <3>2, <3>3, Zenon DEF RosterInv, RosterTypes
  <2>5. OneScreen'
    <3>1. P!Alive(s) /\ UNCHANGED <<screen, mutation>>
      BY <1>4 DEF P!Reload, P!history, P!Alive
    <3> QED
      BY <2>2, <3>1, LoadFields DEF RosterInv, OneScreen, P!Alive
  <2>6. AnswersAreCurrent'
    BY <1>4, <2>2, <2>3, LoadFields, <2>4, RoomOf DEF RosterInv, RosterTypes, P!TypeOK,
       P!history, OneScreen, AnswersAreCurrent, P!Alive, P!room, P!Reload
  <2>7. P!BusyHasMutation'
    BY <1>4, LoadFields, <2>3, <2>4 DEF RosterInv, RosterTypes, P!TypeOK, P!history,
       P!RosterSettles, P!BusyHasMutation, P!Reload
  <2>8. P!RosterIsCurrent'
    BY <1>4, <2>2, <2>3, LoadFields, <2>4, RoomOf DEF RosterInv, RosterTypes, P!TypeOK,
       P!history, OneScreen, AnswersAreCurrent, P!Alive,
         P!RosterSettles, P!RosterIsCurrent, P!Settled, P!room, P!Reload
  <2> QED
    BY <2>4, <2>5, <2>6, <2>7, <2>8 DEF RosterInv, P!RosterSettles
<1>5. CASE P!Incoming(s)
  <2>1. load' = [load EXCEPT ![s] = Asking] /\ Asking \in Loads
    BY <1>5, LoadFields, RoomOf DEF RosterInv, RosterTypes, P!TypeOK, P!Incoming, P!Asks, Asking
  <2>2. /\ load' \in [P!Screens -> Loads] /\ load'[s] = Asking
        /\ \A t \in P!Screens : t # s => load'[t] = load[t]
    BY <2>1 DEF RosterInv, RosterTypes
  <2>3. mutation' \in [P!Screens -> Mutations] /\ UNCHANGED mutation
    BY <1>5 DEF RosterInv, RosterTypes, P!Incoming
  <2>4. RosterTypes'
    BY <1>5, <2>2, <2>3, Fields, RoomOf, RecordsAssumption DEF RosterInv, RosterTypes, P!TypeOK,
       P!room, P!history, P!Incoming
  <2>5. OneScreen'
    <3>1. P!Alive(s) /\ UNCHANGED <<screen, mutation>>
      BY <1>5 DEF P!Incoming
    <3> QED
      BY <2>2, <3>1, LoadFields DEF RosterInv, OneScreen, P!Alive
  <2>6. AnswersAreCurrent'
    BY <1>5, <2>2, <2>3, LoadFields, <2>4, RoomOf DEF RosterInv, RosterTypes, P!TypeOK,
       P!history, OneScreen, AnswersAreCurrent, P!Alive, P!room, P!Incoming
  <2>7. P!BusyHasMutation'
    BY <1>5, LoadFields, <2>3, <2>4 DEF RosterInv, RosterTypes, P!TypeOK, P!history,
       P!RosterSettles, P!BusyHasMutation, P!Incoming
  <2>8. P!RosterIsCurrent'
    BY <1>5, <2>2, <2>3, LoadFields, <2>4, RoomOf DEF RosterInv, RosterTypes, P!TypeOK,
       P!history, OneScreen, AnswersAreCurrent, P!Alive,
         P!RosterSettles, P!RosterIsCurrent, P!Settled, P!room, P!Incoming
  <2> QED
    BY <2>4, <2>5, <2>6, <2>7, <2>8 DEF RosterInv, P!RosterSettles
<1> QED
  BY <1>1, <1>2, <1>3, <1>4, <1>5

\* Adding and removing participants.
LEMMA MutationStep ==
  ASSUME RosterInv, NEW s \in P!Screens, NEW p \in People,
         P!Remove(s, p) \/ P!Add(s, p)
  PROVE  RosterInv'
<1>1. CASE P!Remove(s, p)
  <2>1. UNCHANGED load
    BY <1>1 DEF P!history, P!Remove
  <2>2. load' \in [P!Screens -> Loads]
    BY <2>1 DEF RosterInv, RosterTypes
  <2>0. mutation' \in [P!Screens -> Mutations]
    BY <1>1, LoadFields DEF RosterInv, RosterTypes, P!TypeOK, Mutations, Phases, P!Remove
  <2>3. /\ mutation' \in [P!Screens -> Mutations]
        /\ mutation'[s].at = "asked" /\ \A t \in P!Screens : t # s => mutation'[t] = mutation[t]
    BY <1>1, <2>0 DEF RosterInv, RosterTypes, P!Remove
  <2>4. RosterTypes'
    BY <1>1, <2>1, <2>2, <2>3, Fields, RoomOf, RecordsAssumption DEF RosterInv, RosterTypes,
       P!TypeOK, P!room, P!history, P!Remove
  <2>5. OneScreen'
    BY <1>1, <2>1, <2>2, <2>3, LoadFields, <2>4 DEF RosterInv, RosterTypes, P!TypeOK, P!history,
       OneScreen, P!Alive, P!Remove
  <2>6. AnswersAreCurrent'
    BY <1>1, <2>1, <2>2, <2>3, LoadFields, <2>4, RoomOf DEF RosterInv, RosterTypes, P!TypeOK,
       P!history, OneScreen, AnswersAreCurrent, P!Alive, P!room, P!Remove
  <2>7. P!BusyHasMutation'
    BY <1>1, LoadFields, <2>3, <2>4 DEF RosterInv, RosterTypes, P!TypeOK, P!history,
       P!RosterSettles, P!BusyHasMutation, P!Remove
  <2>8. P!RosterIsCurrent'
    BY <1>1, <2>1, <2>2, <2>3, LoadFields, <2>4, RoomOf DEF RosterInv, RosterTypes, P!TypeOK,
       P!history, OneScreen, AnswersAreCurrent, P!Alive,
         P!RosterSettles, P!RosterIsCurrent, P!Settled, P!room, P!Remove
  <2> QED
    BY <2>4, <2>5, <2>6, <2>7, <2>8 DEF RosterInv, P!RosterSettles
<1>2. CASE P!Add(s, p)
  <2>1. UNCHANGED load
    BY <1>2 DEF P!history, P!Add
  <2>2. load' \in [P!Screens -> Loads]
    BY <2>1 DEF RosterInv, RosterTypes
  <2>0. mutation' \in [P!Screens -> Mutations]
    BY <1>2, LoadFields DEF RosterInv, RosterTypes, P!TypeOK, Mutations, Phases, P!Add
  <2>3. /\ mutation' \in [P!Screens -> Mutations]
        /\ mutation'[s].at = "asked" /\ \A t \in P!Screens : t # s => mutation'[t] = mutation[t]
    BY <1>2, <2>0 DEF RosterInv, RosterTypes, P!Add
  <2>4. RosterTypes'
    BY <1>2, <2>1, <2>2, <2>3, Fields, RoomOf, RecordsAssumption DEF RosterInv, RosterTypes,
       P!TypeOK, P!room, P!history, P!Add
  <2>5. OneScreen'
    BY <1>2, <2>1, <2>2, <2>3, LoadFields, <2>4 DEF RosterInv, RosterTypes, P!TypeOK, P!history,
       OneScreen, P!Alive, P!Add
  <2>6. AnswersAreCurrent'
    BY <1>2, <2>1, <2>2, <2>3, LoadFields, <2>4, RoomOf DEF RosterInv, RosterTypes, P!TypeOK,
       P!history, OneScreen, AnswersAreCurrent, P!Alive, P!room, P!Add
  <2>7. P!BusyHasMutation'
    BY <1>2, LoadFields, <2>3, <2>4 DEF RosterInv, RosterTypes, P!TypeOK, P!history,
       P!RosterSettles, P!BusyHasMutation, P!Add
  <2>8. P!RosterIsCurrent'
    BY <1>2, <2>1, <2>2, <2>3, LoadFields, <2>4, RoomOf DEF RosterInv, RosterTypes, P!TypeOK,
       P!history, OneScreen, AnswersAreCurrent, P!Alive,
         P!RosterSettles, P!RosterIsCurrent, P!Settled, P!room, P!Add
  <2> QED
    BY <2>4, <2>5, <2>6, <2>7, <2>8 DEF RosterInv, P!RosterSettles
<1> QED
  BY <1>1, <1>2

\* The request is handled, and the screen reloads.
LEMMA HandledStep ==
  ASSUME RosterInv, NEW s \in P!Screens, P!Handled(s) \/ P!Finished(s)
  PROVE  RosterInv'
<1>1. CASE P!Handled(s)
  <2>1. UNCHANGED load
    BY <1>1 DEF P!history, P!Handled
  <2>2. load' \in [P!Screens -> Loads]
    BY <2>1 DEF RosterInv, RosterTypes
  <2>0. mutation' \in [P!Screens -> Mutations]
    BY <1>1, LoadFields DEF RosterInv, RosterTypes, P!TypeOK, Mutations, Phases, P!Handled
  <2>3. /\ mutation' \in [P!Screens -> Mutations]
        /\ mutation'[s].at = "answered" /\ \A t \in P!Screens : t # s => mutation'[t] = mutation[t]
    BY <1>1, <2>0 DEF RosterInv, RosterTypes, P!Handled
  <2>a. /\ people' \in [Rooms -> SUBSET People] /\ event' \in [P!Screens -> BOOLEAN]
        /\ \A t \in P!Screens :
             P!Alive(t) /\ ~event'[t] => ~event[t] /\ people'[Visits[t]] = people[Visits[t]]
    <3>1. CASE UNCHANGED <<people, event>>
      BY <3>1 DEF RosterInv, RosterTypes, P!TypeOK
    <3>2. CASE P!Becomes(Visits[s], IF mutation[s].op = "add"
                                    THEN people[Visits[s]] \cup {mutation[s].who}
                                    ELSE people[Visits[s]] \ {mutation[s].who})
      <4>1. mutation[s].who \in People /\ people[Visits[s]] \subseteq People
        BY <1>1, RoomOf DEF P!Handled, RosterInv, RosterTypes, P!TypeOK, OneScreen
      <4>2. (IF mutation[s].op = "add" THEN people[Visits[s]] \cup {mutation[s].who}
                                       ELSE people[Visits[s]] \ {mutation[s].who}) \in SUBSET People
        BY <4>1
      <4> QED
        BY <3>2, <4>2, Announced, RoomOf, Zenon DEF RosterInv
    <3> QED
      BY <1>1, <3>1, <3>2 DEF P!Handled, P!room
  <2>4. RosterTypes'
    BY <1>1, <2>1, <2>2, <2>3, <2>a, Fields, RoomOf, RecordsAssumption DEF RosterInv,
       RosterTypes, P!TypeOK, P!room, P!history, P!Handled
  <2>5. OneScreen'
    BY <1>1, <2>1, <2>2, <2>3, <2>a, LoadFields, <2>4 DEF RosterInv, RosterTypes, P!TypeOK,
       P!history, OneScreen, P!Alive, P!Handled
  <2>6. AnswersAreCurrent'
    BY <1>1, <2>1, <2>2, <2>3, <2>a, LoadFields, <2>4, RoomOf DEF RosterInv, RosterTypes,
       P!TypeOK, P!history, OneScreen, AnswersAreCurrent, P!Alive, P!room, P!Handled
  <2>7. P!BusyHasMutation'
    BY <1>1, LoadFields, <2>3, <2>4 DEF RosterInv, RosterTypes, P!TypeOK, P!history,
       P!RosterSettles, P!BusyHasMutation, P!Handled
  <2>8. P!RosterIsCurrent'
    <3>1. SUFFICES ASSUME NEW t \in P!Screens, P!Settled(t)', ~failed'[t], ~mixed'
                   PROVE  participants' = people'[Visits[t]]
      BY DEF P!RosterIsCurrent, P!room
    <3>2. UNCHANGED <<screen, participants, load, failed, mixed>>
      BY <1>1 DEF P!Handled, P!history
    <3>3. t # s
      BY <2>3, <3>1, LoadFields DEF P!Settled
    <3>4. screen[t] = "open" /\ load[t] = P!NoLoad /\ mutation[t] = P!NoMutation /\ ~event'[t]
      BY <2>3, <3>1, <3>2, <3>3 DEF P!Settled
    <3>5. ~event[t] /\ people'[Visits[t]] = people[Visits[t]]
      BY <2>a, <3>4 DEF P!Alive
    <3>6. participants = people[Visits[t]]
      BY <3>1, <3>2, <3>4, <3>5 DEF RosterInv, P!RosterSettles, P!RosterIsCurrent, P!Settled, P!room
    <3> QED
      BY <3>2, <3>5, <3>6
  <2> QED
    BY <2>4, <2>5, <2>6, <2>7, <2>8 DEF RosterInv, P!RosterSettles
<1>2. CASE P!Finished(s)
  <2>1. load' = [load EXCEPT ![s] = Asking] /\ Asking \in Loads
    BY <1>2, LoadFields, RoomOf DEF RosterInv, RosterTypes, P!TypeOK, P!Finished, P!Asks, Asking
  <2>2. /\ load' \in [P!Screens -> Loads] /\ load'[s] = Asking
        /\ \A t \in P!Screens : t # s => load'[t] = load[t]
    BY <2>1 DEF RosterInv, RosterTypes
  <2>0. mutation' \in [P!Screens -> Mutations]
    BY <1>2, LoadFields DEF RosterInv, RosterTypes, P!TypeOK, Mutations, Phases, P!Finished
  <2>3. /\ mutation' \in [P!Screens -> Mutations]
        /\ mutation'[s] = P!NoMutation /\ \A t \in P!Screens : t # s => mutation'[t] = mutation[t]
    BY <1>2, <2>0 DEF RosterInv, RosterTypes, P!Finished
  <2>4. RosterTypes'
    BY <1>2, <2>2, <2>3, Fields, RoomOf, RecordsAssumption DEF RosterInv, RosterTypes, P!TypeOK,
       P!room, P!history, P!Finished
  <2>5. OneScreen'
    BY <1>2, <2>2, <2>3, LoadFields, <2>4 DEF RosterInv, RosterTypes, P!TypeOK, P!history,
       OneScreen, P!Alive, P!Finished
  <2>6. AnswersAreCurrent'
    BY <1>2, <2>2, <2>3, LoadFields, <2>4, RoomOf DEF RosterInv, RosterTypes, P!TypeOK,
       P!history, OneScreen, AnswersAreCurrent, P!Alive, P!room, P!Finished
  <2>7. P!BusyHasMutation'
    BY <1>2, LoadFields, <2>3, <2>4 DEF RosterInv, RosterTypes, P!TypeOK, P!history,
       P!RosterSettles, P!BusyHasMutation, P!Finished
  <2>8. P!RosterIsCurrent'
    BY <1>2, <2>2, <2>3, LoadFields, <2>4, RoomOf DEF RosterInv, RosterTypes, P!TypeOK,
       P!history, OneScreen, AnswersAreCurrent, P!Alive,
         P!RosterSettles, P!RosterIsCurrent, P!Settled, P!room, P!Finished
  <2> QED
    BY <2>4, <2>5, <2>6, <2>7, <2>8 DEF RosterInv, P!RosterSettles
<1> QED
  BY <1>1, <1>2

\* Another participant adds or removes somebody.
LEMMA ElsewhereStep ==
  ASSUME RosterInv, NEW r \in Rooms, NEW p \in People,
         P!Elsewhere(r, p)
  PROVE  RosterInv'
<1>1. CASE P!Elsewhere(r, p)
  <2>1. UNCHANGED load
    BY <1>1 DEF P!history, P!Elsewhere
  <2>2. load' \in [P!Screens -> Loads]
    BY <2>1 DEF RosterInv, RosterTypes
  <2>3. mutation' \in [P!Screens -> Mutations] /\ UNCHANGED mutation
    BY <1>1 DEF RosterInv, RosterTypes, P!Elsewhere
  <2>a. /\ people' \in [Rooms -> SUBSET People] /\ event' \in [P!Screens -> BOOLEAN]
        /\ \A t \in P!Screens :
             P!Alive(t) /\ ~event'[t] => ~event[t] /\ people'[Visits[t]] = people[Visits[t]]
    BY <1>1, Announced DEF RosterInv, RosterTypes, P!TypeOK, P!Elsewhere
  <2>4. RosterTypes'
    BY <1>1, <2>1, <2>2, <2>3, <2>a, Fields, RoomOf, RecordsAssumption DEF RosterInv,
       RosterTypes, P!TypeOK, P!room, P!history, P!Elsewhere
  <2>5. OneScreen'
    BY <1>1, <2>1, <2>2, <2>3, <2>a, <2>4 DEF RosterInv, RosterTypes, P!TypeOK, P!history,
       OneScreen, P!Alive, P!Elsewhere
  <2>6. AnswersAreCurrent'
    BY <1>1, <2>1, <2>2, <2>3, <2>a, <2>4, RoomOf DEF RosterInv, RosterTypes, P!TypeOK,
       P!history, OneScreen, AnswersAreCurrent, P!Alive, P!room, P!Elsewhere
  <2>7. P!BusyHasMutation'
    BY <1>1, LoadFields, <2>3, <2>4 DEF RosterInv, RosterTypes, P!TypeOK, P!history,
       P!RosterSettles, P!BusyHasMutation, P!Elsewhere
  <2>8. P!RosterIsCurrent'
    BY <1>1, <2>1, <2>2, <2>3, <2>a, LoadFields, <2>4, RoomOf DEF RosterInv, RosterTypes,
       P!TypeOK, P!history, OneScreen, AnswersAreCurrent, P!Alive,
         P!RosterSettles, P!RosterIsCurrent, P!Settled, P!room, P!Elsewhere
  <2> QED
    BY <2>4, <2>5, <2>6, <2>7, <2>8 DEF RosterInv, P!RosterSettles
<1> QED
  BY <1>1

\* Every step of the screens and of the platform keeps the invariant.
LEMMA RosterSteps ==
  ASSUME RosterInv, [P!Next]_rosterVars
  PROVE  RosterInv'
<1>1. CASE UNCHANGED rosterVars
  BY <1>1 DEF rosterVars, RosterInv, RosterTypes, P!TypeOK, OneScreen, AnswersAreCurrent, P!Alive,
              P!room, P!RosterSettles, P!BusyHasMutation, P!RosterIsCurrent, P!Settled
<1>2. CASE P!Next
  BY <1>2, ScreenStep, LoadStep, MutationStep, HandledStep, ElsewhereStep DEF P!Next
<1> QED
  BY <1>1, <1>2

-----------------------------------------------------------------------------
(* Registration: nothing is half registered.                               *)

Tasks == [op : {"none", "register", "reconfigure", "delete"}, at : R!Steps \cup {"idle"},
          id : Agents \cup {None}, value : Tunings \cup {None}]

RegistrationTypes == R!TypeOK /\ task \in [Panes -> Tasks]

\* What a step of an operation knows: its agent and, while a profile is to be
\* recorded, the profile.
TaskShape(p) ==
  LET t == task[p] IN
  /\ t.at = "idle" => t = R!Idle
  /\ t.at # "idle" => R!IsOpen(p)
  /\ t.at = "create" => t.id = None /\ t.op = "register" /\ t.value \in Tunings
  /\ t.at \notin {"idle", "create"} => t.id \in agents \cup retired
  /\ t.at \in {"key", "rollback", "cleanup"} => t.op = "register"
  /\ t.at = "key" => t.value \in Tunings
  /\ t.at = "record" => t.op \in {"register", "reconfigure"} /\ t.value \in Tunings
  /\ t.at = "drop" => t.op \in {"register", "delete"} /\ t.id \in retired
  /\ t.at \in {"delete", "forget"} => t.op = "delete"

TaskShapes == \A p \in Panes : TaskShape(p)

\* As long as nothing diverged one pane at most is open.
OnePane == ~diverged => \A p, q \in Panes : R!IsOpen(p) /\ R!IsOpen(q) => p = q

Consistent(i) ==
  i \notin broken => (i \in keys <=> i \in agents) /\ (file[i] # None <=> i \in agents)

\* How far the operation on an agent is, if none on it was broken off.
TaskFits(p) ==
  LET t == task[p] IN
  t.id \notin broken =>
  /\ t.at \in {"key", "rollback"} => t.id \in agents \ keys /\ file[t.id] = None
  /\ t.at \in {"record", "cleanup"} =>
       t.id \in agents \cap keys /\ (t.op = "register" <=> file[t.id] = None)
  /\ t.at = "delete" => Consistent(t.id)
  /\ t.at = "drop" => t.id \in keys \ agents /\ (t.op = "register" => file[t.id] = None)
  /\ t.at = "forget" => t.id \notin agents \cup keys

Halfway ==
  ~diverged =>
    /\ \A p \in Panes : TaskFits(p)
    /\ \A i \in Agents : (\A p \in Panes : task[p].id # i) => Consistent(i)

RegistrationInv ==
  /\ RegistrationTypes /\ TaskShapes /\ OnePane /\ Halfway
  /\ R!KeyLastsAsItsAgent /\ keyed \subseteq agents \cup retired /\ R!SnapshotIsFile

\* What a profile means in the present vocabulary (normalize_tuning).
LEMMA NormalizedFacts ==
  ASSUME NEW v \in R!Values
  PROVE  /\ R!Normalized(v) \in Tunings \cup {None}
         /\ R!Normalized(v) = None <=> v = None
         /\ v \in Tunings \cup {None} => R!Normalized(v) = v
<1>1. (CHOOSE t \in Tunings : TRUE) \in Tunings
  BY RecordsAssumption
<1> QED
  BY <1>1, RecordsAssumption DEF R!Normalized, R!Values

Others(p) == \A q \in Panes : q # p => task'[q] = task[q]

\* The next step of an operation, and its end.
LEMMA Goes ==
  ASSUME RegistrationTypes, NEW p \in Panes, NEW s \in R!Steps, R!Goes(p, s)
  PROVE  /\ task' \in [Panes -> Tasks] /\ Others(p) /\ task'[p].at = s
         /\ task'[p].op = task[p].op /\ task'[p].id = task[p].id
         /\ task'[p].value = task[p].value
<1> DEFINE t == [op |-> task[p].op, at |-> s, id |-> task[p].id, value |-> task[p].value]
<1>1. task[p] \in Tasks
  BY DEF RegistrationTypes
<1>2. t \in Tasks /\ [task[p] EXCEPT !.at = s] = t
  BY <1>1 DEF Tasks
<1>3. task' = [task EXCEPT ![p] = t]
  BY <1>2 DEF R!Goes
<1>4. t.at = s /\ t.op = task[p].op /\ t.id = task[p].id /\ t.value = task[p].value
  OBVIOUS
<1> HIDE DEF t
<1> QED
  BY <1>2, <1>3, <1>4 DEF RegistrationTypes, Others

LEMMA Ends ==
  ASSUME RegistrationTypes, NEW p \in Panes, R!Ends(p)
  PROVE  task' \in [Panes -> Tasks] /\ Others(p) /\ task'[p] = R!Idle
<1>1. R!Idle \in Tasks
  BY DEF R!Idle, Tasks
<1> QED
  BY <1>1 DEF RegistrationTypes, Others, R!Ends

LEMMA Begun ==
  ASSUME RegistrationTypes, NEW p \in Panes, NEW op \in {"register", "reconfigure", "delete"},
         NEW s \in R!Steps, NEW i \in Agents \cup {None}, NEW v \in Tunings \cup {None},
         R!Begins(p, op, s, i, v)
  PROVE  /\ task' \in [Panes -> Tasks] /\ Others(p) /\ R!IsOpen(p) /\ task[p] = R!Idle
         /\ task'[p].op = op /\ task'[p].at = s /\ task'[p].id = i /\ task'[p].value = v
         /\ tasks' \in 0..MaxTasks
<1> DEFINE t == [op |-> op, at |-> s, id |-> i, value |-> v]
<1>1. t \in Tasks /\ t.op = op /\ t.at = s /\ t.id = i /\ t.value = v
  BY DEF Tasks
<1>2. task' = [task EXCEPT ![p] = t] /\ R!IsOpen(p) /\ task[p] = R!Idle
  BY DEF R!Begins
<1>3. tasks' \in 0..MaxTasks
  BY RecordsAssumption DEF R!Begins, RegistrationTypes, R!TypeOK
<1> HIDE DEF t
<1> QED
  BY <1>1, <1>2, <1>3 DEF RegistrationTypes, Others

\* While nothing diverged an open pane is alone: the others are idle.
LEMMA Alone ==
  ASSUME RegistrationInv, ~diverged, NEW p \in Panes, R!IsOpen(p),
         NEW q \in Panes, q # p
  PROVE  task[q] = R!Idle /\ ~R!IsOpen(q)
BY DEF RegistrationInv, TaskShapes, TaskShape, OnePane

\* What is known of the agents while one pane is at work.
LEMMA Known ==
  ASSUME RegistrationInv, ~diverged, NEW p \in Panes, R!IsOpen(p)
  PROVE  /\ TaskFits(p)
         /\ \A i \in Agents : i # task[p].id => Consistent(i)
<1>1. \A i \in Agents : i # R!Idle.id
  BY RecordsAssumption DEF R!Idle
<1>2. \A q \in Panes : q # p => task[q] = R!Idle
  BY Alone
<1> QED
  BY <1>1, <1>2 DEF RegistrationInv, Halfway

\* It is enough to look at the operation that took a step.
LEMMA HalfwayStep ==
  ASSUME RegistrationInv, NEW p \in Panes, R!IsOpen(p), Others(p),
         ~diverged' =>
           ~diverged /\ TaskFits(p)' /\ \A i \in Agents : i # task'[p].id => Consistent(i)'
  PROVE  Halfway'
<1> SUFFICES ASSUME ~diverged'
             PROVE  /\ \A q \in Panes : TaskFits(q)'
                    /\ \A i \in Agents : (\A q \in Panes : task'[q].id # i) => Consistent(i)'
  BY DEF Halfway
<1>1. ASSUME NEW q \in Panes, q # p
      PROVE  TaskFits(q)'
  <2>1. task'[q] = R!Idle
    BY <1>1, Alone DEF Others
  <2>2. R!Idle.at = "idle"
    BY DEF R!Idle
  <2> QED
    BY <2>1, <2>2 DEF TaskFits
<1> QED
  BY <1>1
LEMMA TaskFields ==
  ASSUME NEW t \in [Panes -> Tasks], NEW p \in Panes
  PROVE  t[p].at \in R!Steps \cup {"idle"} /\ t[p].id \in Agents \cup {None}
BY DEF Tasks

\* A step that leaves the file and the snapshots alone keeps the invariant if
\* its own operation and the agents, the keys and the retired ids fit.
LEMMA RemoteStep ==
  ASSUME RegistrationInv, NEW p \in Panes, R!IsOpen(p),
         UNCHANGED <<file, memory, diverged>>,
         task' \in [Panes -> Tasks], Others(p), tasks' \in 0..MaxTasks, broken' \subseteq Agents,
         agents' \subseteq Agents, keys' \subseteq Agents, retired' \subseteq Agents,
         retired \subseteq retired', agents \cup retired \subseteq agents' \cup retired',
         agents' \cap retired' = {},
         keyed' \subseteq agents' \cup retired', keyed' \cap agents' \subseteq keys',
         TaskShape(p)',
         ~diverged =>
           TaskFits(p)' /\ \A i \in Agents : i # task'[p].id => Consistent(i)'
  PROVE  RegistrationInv'
<1>1. RegistrationTypes'
  BY TaskFields DEF RegistrationInv, RegistrationTypes, R!TypeOK
<1>2. \A q \in Panes : R!IsOpen(q)' <=> R!IsOpen(q)
  BY DEF R!IsOpen
<1>3. ASSUME NEW q \in Panes, q # p
      PROVE  TaskShape(q)'
  BY <1>2, <1>3 DEF RegistrationInv, TaskShapes, TaskShape, Others
<1>4. TaskShapes'
  BY <1>3 DEF TaskShapes
<1>5. OnePane' /\ R!SnapshotIsFile'
  BY <1>2 DEF RegistrationInv, OnePane, R!SnapshotIsFile, R!IsOpen
<1>6. Halfway'
  BY HalfwayStep
<1>7. R!KeyLastsAsItsAgent'
  BY DEF R!KeyLastsAsItsAgent
<1> QED
  BY <1>1, <1>4, <1>5, <1>6, <1>7 DEF RegistrationInv

\* A registration is begun (RegisterAgentScreen._submit).
LEMMA RegisterStep ==
  ASSUME RegistrationInv, NEW p \in Panes, R!Register(p)
  PROVE  RegistrationInv'
<1> USE DEF R!remote
<1>1. UNCHANGED <<agents, retired, keys, keyed, file, memory, broken, diverged>>
  BY DEF R!Register
<1>2. /\ agents \subseteq Agents /\ keys \subseteq Agents /\ retired \subseteq Agents
      /\ agents \cap retired = {} /\ broken \subseteq Agents
      /\ keyed \cap agents \subseteq keys /\ keyed \subseteq agents \cup retired
  BY DEF RegistrationInv, RegistrationTypes, R!TypeOK, R!KeyLastsAsItsAgent
<1>3. ASSUME R!IsOpen(p), task[p] = R!Idle, ~diverged
      PROVE  \A j \in Agents : Consistent(j)
  BY <1>3, Known, RecordsAssumption DEF R!Idle
<1>4. PICK v \in Tunings : R!Begins(p, "register", "create", None, v)
  BY DEF R!Register
<1>5. /\ task' \in [Panes -> Tasks] /\ Others(p) /\ R!IsOpen(p) /\ task[p] = R!Idle
      /\ task'[p].op = "register" /\ task'[p].at = "create" /\ task'[p].id = None
      /\ task'[p].value = v /\ tasks' \in 0..MaxTasks
  BY <1>4, Begun DEF RegistrationInv, R!Steps
<1>6. TaskShape(p)' /\ TaskFits(p)'
  BY <1>1, <1>5 DEF TaskShape, TaskFits, R!IsOpen
<1> QED
  BY <1>1, <1>2, <1>3, <1>5, <1>6, RemoteStep DEF Consistent

\* An operation is begun (_submit_reconfigure, delete).
LEMMA BeginStep ==
  ASSUME RegistrationInv, NEW p \in Panes, NEW i \in Agents,
         R!Reconfigure(p, i) \/ R!Delete(p, i)
  PROVE  RegistrationInv'
<1> USE DEF R!remote
<1>1. UNCHANGED <<agents, retired, keys, keyed, file, memory, broken, diverged>>
  BY DEF R!Reconfigure, R!Delete
<1>2. /\ agents \subseteq Agents /\ keys \subseteq Agents /\ retired \subseteq Agents
      /\ agents \cap retired = {} /\ broken \subseteq Agents
      /\ keyed \cap agents \subseteq keys /\ keyed \subseteq agents \cup retired
  BY DEF RegistrationInv, RegistrationTypes, R!TypeOK, R!KeyLastsAsItsAgent
<1>3. ASSUME R!IsOpen(p), task[p] = R!Idle, ~diverged
      PROVE  \A j \in Agents : Consistent(j)
  BY <1>3, Known, RecordsAssumption DEF R!Idle
<1>4. CASE R!Reconfigure(p, i)
  <2>1. PICK v \in Tunings : R!Begins(p, "reconfigure", "record", i, v)
    BY <1>4 DEF R!Reconfigure
  <2>2. /\ task' \in [Panes -> Tasks] /\ Others(p) /\ R!IsOpen(p) /\ task[p] = R!Idle
        /\ task'[p].op = "reconfigure" /\ task'[p].at = "record" /\ task'[p].id = i
        /\ task'[p].value = v /\ tasks' \in 0..MaxTasks
    BY <2>1, Begun DEF RegistrationInv, R!Steps
  <2>3. TaskShape(p)' /\ i \in agents
    BY <1>1, <1>4, <2>2 DEF TaskShape, R!IsOpen, R!Reconfigure
  <2>4. ~diverged => TaskFits(p)'
    BY <1>1, <1>3, <2>2, <2>3 DEF TaskFits, Consistent
  <2> QED
    BY <1>1, <1>2, <1>3, <2>2, <2>3, <2>4, RemoteStep DEF Consistent
<1>5. CASE R!Delete(p, i)
  <2>1. R!Begins(p, "delete", "delete", i, None)
    BY <1>5 DEF R!Delete
  <2>2. /\ task' \in [Panes -> Tasks] /\ Others(p) /\ R!IsOpen(p) /\ task[p] = R!Idle
        /\ task'[p].op = "delete" /\ task'[p].at = "delete" /\ task'[p].id = i
        /\ task'[p].value = None /\ tasks' \in 0..MaxTasks
    BY <2>1, Begun DEF RegistrationInv, R!Steps
  <2>3. TaskShape(p)'
    BY <1>1, <1>5, <2>2 DEF TaskShape, R!IsOpen, R!Delete
  <2>4. ~diverged => TaskFits(p)'
    BY <1>1, <1>3, <2>2, <2>3 DEF TaskFits, Consistent
  <2> QED
    BY <1>1, <1>2, <1>3, <2>2, <2>3, <2>4, RemoteStep DEF Consistent
<1> QED
  BY <1>4, <1>5

\* What the invariant says of an operation that is under way.
LEMMA AtWork ==
  ASSUME RegistrationInv, NEW p \in Panes, task[p].at # "idle"
  PROVE  /\ R!IsOpen(p) /\ TaskShape(p) /\ task \in [Panes -> Tasks] /\ tasks \in 0..MaxTasks
         /\ agents \subseteq Agents /\ keys \subseteq Agents /\ retired \subseteq Agents
         /\ agents \cap retired = {} /\ broken \subseteq Agents /\ RegistrationTypes
         /\ keyed \cap agents \subseteq keys /\ keyed \subseteq agents \cup retired
         /\ ~diverged => /\ TaskFits(p)
                                    /\ \A i \in Agents : i # task[p].id => Consistent(i)
BY Known DEF RegistrationInv, RegistrationTypes, R!TypeOK, R!KeyLastsAsItsAgent, TaskShapes,
   TaskShape

\* The platform registers the agent or refuses (create_agent).
LEMMA CreatedStep ==
  ASSUME RegistrationInv, NEW p \in Panes, R!Created(p)
  PROVE  RegistrationInv'
<1>1. /\ UNCHANGED <<retired, keys, keyed, file, memory, tasks, diverged>>
      /\ task[p].at = "create" /\ task[p].id = None /\ task[p].op = "register"
      /\ task[p].value \in Tunings
  BY AtWork DEF R!Created, TaskShape
<1>2. ASSUME ~diverged
      PROVE  \A j \in Agents : Consistent(j)
  BY <1>1, <1>2, AtWork, RecordsAssumption
<1>3. CASE R!Ends(p) /\ UNCHANGED <<agents, broken>>
  <2>1. task' \in [Panes -> Tasks] /\ Others(p) /\ task'[p] = R!Idle
    BY <1>1, <1>3, AtWork, Ends
  <2>2. TaskShape(p)' /\ TaskFits(p)'
    BY <2>1 DEF TaskShape, TaskFits, R!Idle
  <2> QED
    BY <1>1, <1>2, <1>3, <2>1, <2>2, AtWork, RemoteStep DEF Consistent
<1>4. ASSUME NEW i \in Agents \ (agents \cup retired), agents' = agents \cup {i},
             \/ R!KeyMade(p, i) /\ UNCHANGED broken
             \/ R!Ends(p) /\ R!Breaks(i)
      PROVE  RegistrationInv'
  <2>1. /\ agents' \subseteq Agents /\ agents' \cap retired' = {}
        /\ keyed' \subseteq agents' \cup retired' /\ keyed' \cap agents' \subseteq keys'
    BY <1>1, <1>4, AtWork
  <2>2. CASE R!Ends(p) /\ R!Breaks(i)
    <3>1. task' \in [Panes -> Tasks] /\ Others(p) /\ task'[p] = R!Idle
      BY <1>1, <2>2, AtWork, Ends
    <3>2. TaskShape(p)' /\ TaskFits(p)'
      BY <3>1 DEF TaskShape, TaskFits, R!Idle
    <3>3. broken' = broken \cup {i} /\ broken' \subseteq Agents
      BY <1>1, <1>4, <2>2, AtWork DEF R!Breaks
    <3>4. ~diverged' => \A j \in Agents : Consistent(j)'
      BY <1>1, <1>2, <1>4, <3>3 DEF Consistent
    <3> QED
      BY <1>1, <1>4, <2>1, <3>1, <3>2, <3>3, <3>4, AtWork, RemoteStep
  <2>3. CASE R!KeyMade(p, i) /\ UNCHANGED broken
    <3> DEFINE t == [op |-> "register", at |-> "key", id |-> i, value |-> task[p].value]
    <3>1. t \in Tasks
      BY <1>1, AtWork DEF Tasks, R!Steps
    <3>2. task' = [task EXCEPT ![p] = t]
      BY <2>3 DEF R!KeyMade
    <3>3. t.op = "register" /\ t.at = "key" /\ t.id = i /\ t.value \in Tunings
      BY <1>1
    <3> HIDE DEF t
    <3>4. task' \in [Panes -> Tasks] /\ Others(p) /\ task'[p] = t
      BY <1>1, <3>1, <3>2, AtWork DEF Others
    <3>5. TaskShape(p)'
      BY <1>1, <1>4, <3>3, <3>4, AtWork DEF TaskShape, R!IsOpen
    <3>6. ~diverged' => TaskFits(p)' /\ \A j \in Agents : j # i => Consistent(j)'
      BY <1>1, <1>2, <1>4, <2>3, <3>3, <3>4 DEF TaskFits, Consistent
    <3> QED
      BY <1>1, <1>4, <2>1, <2>3, <3>3, <3>4, <3>5, <3>6, AtWork, RemoteStep
  <2> QED
    BY <1>4, <2>2, <2>3
<1> QED
  BY <1>3, <1>4 DEF R!Created

\* The key is stored or the registration rolled back.
LEMMA KeyStoredStep ==
  ASSUME RegistrationInv, NEW p \in Panes, R!KeyStored(p)
  PROVE  RegistrationInv'
<1> DEFINE i == task[p].id
<1>1. /\ UNCHANGED <<agents, retired, file, memory, tasks, broken, diverged>>
      /\ task[p].at = "key" /\ task[p].op = "register" /\ task[p].value \in Tunings
      /\ i \in agents \cup retired
  BY AtWork DEF R!KeyStored, TaskShape
<1>2. CASE keys' = keys \cup {i} /\ keyed' = keyed \cup {i} /\ R!Goes(p, "record")
  <2>1. /\ task' \in [Panes -> Tasks] /\ Others(p) /\ task'[p].at = "record"
        /\ task'[p].op = "register" /\ task'[p].id = i /\ task'[p].value = task[p].value
    BY <1>1, <1>2, AtWork, Goes DEF R!Steps
  <2>2. TaskShape(p)'
    BY <1>1, <2>1, AtWork DEF TaskShape, R!IsOpen
  <2>3. ~diverged' => TaskFits(p)' /\ \A j \in Agents : j # i => Consistent(j)'
    BY <1>1, <1>2, <2>1, AtWork DEF TaskFits, Consistent
  <2> QED
    BY <1>1, <1>2, <2>1, <2>2, <2>3, AtWork, RemoteStep
<1>3. CASE R!Goes(p, "rollback") /\ UNCHANGED <<keys, keyed>>
  <2>1. /\ task' \in [Panes -> Tasks] /\ Others(p) /\ task'[p].at = "rollback"
        /\ task'[p].op = "register" /\ task'[p].id = i
    BY <1>1, <1>3, AtWork, Goes DEF R!Steps
  <2>2. TaskShape(p)'
    BY <1>1, <2>1, AtWork DEF TaskShape, R!IsOpen
  <2>3. ~diverged' => TaskFits(p)' /\ \A j \in Agents : j # i => Consistent(j)'
    BY <1>1, <1>3, <2>1, AtWork DEF TaskFits, Consistent
  <2> QED
    BY <1>1, <1>3, <2>1, <2>2, <2>3, AtWork, RemoteStep
<1> QED
  BY <1>2, <1>3 DEF R!KeyStored

\* The platform's agent is withdrawn (_rollback_agent_registration, clean-up).
LEMMA WithdrawnStep ==
  ASSUME RegistrationInv, NEW p \in Panes, R!Withdrawn(p)
  PROVE  RegistrationInv'
<1> DEFINE i == task[p].id
<1>1. /\ UNCHANGED <<keys, keyed, file, memory, tasks, diverged>>
      /\ task[p].at \in {"rollback", "cleanup"} /\ task[p].op = "register"
      /\ i \in agents \cup retired
  BY AtWork DEF R!Withdrawn, TaskShape
<1>2. CASE /\ R!Ends(p) /\ R!Breaks(i)
           /\ \/ agents' = agents \ {i} /\ retired' = retired \cup {i}
              \/ UNCHANGED <<agents, retired>>
  <2>1. task' \in [Panes -> Tasks] /\ Others(p) /\ task'[p] = R!Idle
    BY <1>1, <1>2, AtWork, Ends
  <2>2. TaskShape(p)' /\ TaskFits(p)'
    BY <2>1 DEF TaskShape, TaskFits, R!Idle
  <2>3. broken' = broken \cup {i} /\ broken' \subseteq Agents /\ i \in Agents
    BY <1>1, <1>2, AtWork DEF R!Breaks
  <2>4. ~diverged' => \A j \in Agents : Consistent(j)'
    BY <1>1, <1>2, <2>3, AtWork DEF Consistent
  <2> QED
    BY <1>1, <1>2, <2>1, <2>2, <2>3, <2>4, AtWork, RemoteStep
<1>3. CASE /\ agents' = agents \ {i} /\ retired' = retired \cup {i} /\ UNCHANGED broken
           /\ task[p].at = "cleanup" /\ R!Goes(p, "drop")
  <2>1. /\ task' \in [Panes -> Tasks] /\ Others(p) /\ task'[p].at = "drop"
        /\ task'[p].op = "register" /\ task'[p].id = i
    BY <1>1, <1>3, AtWork, Goes DEF R!Steps
  <2>2. TaskShape(p)'
    BY <1>1, <1>3, <2>1, AtWork DEF TaskShape, R!IsOpen
  <2>3. ~diverged' => TaskFits(p)' /\ \A j \in Agents : j # i => Consistent(j)'
    BY <1>1, <1>3, <2>1, AtWork DEF TaskFits, Consistent
  <2> QED
    BY <1>1, <1>3, <2>1, <2>2, <2>3, AtWork, RemoteStep
<1>4. CASE /\ agents' = agents \ {i} /\ retired' = retired \cup {i} /\ UNCHANGED broken
           /\ task[p].at = "rollback" /\ R!Ends(p)
  <2>1. task' \in [Panes -> Tasks] /\ Others(p) /\ task'[p] = R!Idle
    BY <1>1, <1>4, AtWork, Ends
  <2>2. TaskShape(p)' /\ TaskFits(p)'
    BY <2>1 DEF TaskShape, TaskFits, R!Idle
  <2>3. ~diverged' => \A j \in Agents : Consistent(j)'
    BY <1>1, <1>4, <2>1, AtWork DEF TaskFits, Consistent
  <2> QED
    BY <1>1, <1>4, <2>1, <2>2, <2>3, AtWork, RemoteStep
<1> QED
  BY <1>1, <1>2, <1>3, <1>4 DEF R!Withdrawn

\* The platform's agent is deleted, or was missing (delete).
LEMMA DeletedStep ==
  ASSUME RegistrationInv, NEW p \in Panes, R!Deleted(p)
  PROVE  RegistrationInv'
<1> DEFINE i == task[p].id
<1>1. /\ UNCHANGED <<keys, keyed, file, memory, tasks, diverged>>
      /\ task[p].at = "delete" /\ task[p].op = "delete" /\ i \in agents \cup retired
  BY AtWork DEF R!Deleted, TaskShape
<1>2. CASE /\ i \in agents /\ agents' = agents \ {i} /\ retired' = retired \cup {i}
           /\ R!Goes(p, "drop") /\ UNCHANGED broken
  <2>1. /\ task' \in [Panes -> Tasks] /\ Others(p) /\ task'[p].at = "drop"
        /\ task'[p].op = "delete" /\ task'[p].id = i
    BY <1>1, <1>2, AtWork, Goes DEF R!Steps
  <2>2. TaskShape(p)'
    BY <1>1, <1>2, <2>1, AtWork DEF TaskShape, R!IsOpen
  <2>3. ~diverged' => TaskFits(p)' /\ \A j \in Agents : j # i => Consistent(j)'
    BY <1>1, <1>2, <2>1, AtWork DEF TaskFits, Consistent
  <2> QED
    BY <1>1, <1>2, <2>1, <2>2, <2>3, AtWork, RemoteStep
<1>3. CASE i \notin agents /\ R!Goes(p, "forget") /\ UNCHANGED <<agents, retired, broken>>
  <2>1. /\ task' \in [Panes -> Tasks] /\ Others(p) /\ task'[p].at = "forget"
        /\ task'[p].op = "delete" /\ task'[p].id = i
    BY <1>1, <1>3, AtWork, Goes DEF R!Steps
  <2>2. TaskShape(p)'
    BY <1>1, <1>3, <2>1, AtWork DEF TaskShape, R!IsOpen
  <2>3. ~diverged' => TaskFits(p)' /\ \A j \in Agents : j # i => Consistent(j)'
    BY <1>1, <1>3, <2>1, AtWork DEF TaskFits, Consistent
  <2> QED
    BY <1>1, <1>3, <2>1, <2>2, <2>3, AtWork, RemoteStep
<1>4. CASE R!Ends(p) /\ UNCHANGED <<agents, retired, broken>>
  <2>1. task' \in [Panes -> Tasks] /\ Others(p) /\ task'[p] = R!Idle
    BY <1>1, <1>4, AtWork, Ends
  <2>2. TaskShape(p)' /\ TaskFits(p)'
    BY <2>1 DEF TaskShape, TaskFits, R!Idle
  <2>3. ~diverged' => \A j \in Agents : Consistent(j)'
    BY <1>1, <1>4, <2>1, AtWork DEF TaskFits, Consistent
  <2> QED
    BY <1>1, <1>4, <2>1, <2>2, <2>3, AtWork, RemoteStep
<1>5. CASE /\ i \in agents /\ agents' = agents \ {i} /\ retired' = retired \cup {i}
           /\ R!Ends(p) /\ R!Breaks(i)
  <2>1. task' \in [Panes -> Tasks] /\ Others(p) /\ task'[p] = R!Idle
    BY <1>1, <1>5, AtWork, Ends
  <2>2. TaskShape(p)' /\ TaskFits(p)'
    BY <2>1 DEF TaskShape, TaskFits, R!Idle
  <2>3. broken' = broken \cup {i} /\ broken' \subseteq Agents
    BY <1>1, <1>5, AtWork DEF R!Breaks
  <2>4. ~diverged' => \A j \in Agents : Consistent(j)'
    BY <1>1, <1>5, <2>3, AtWork DEF Consistent
  <2> QED
    BY <1>1, <1>5, <2>1, <2>2, <2>3, <2>4, AtWork, RemoteStep
<1> QED
  BY <1>2, <1>3, <1>4, <1>5 DEF R!Deleted

\* The key is deleted behind its agent (ManagedAgentKeyStore).
LEMMA KeyDroppedStep ==
  ASSUME RegistrationInv, NEW p \in Panes, R!KeyDropped(p)
  PROVE  RegistrationInv'
<1> DEFINE i == task[p].id
<1>1. /\ UNCHANGED <<agents, retired, keyed, file, memory, tasks, diverged>>
      /\ task[p].at = "drop" /\ task[p].op \in {"register", "delete"} /\ i \in retired
  BY AtWork DEF R!KeyDropped, TaskShape
<1>2. CASE UNCHANGED keys /\ R!Breaks(i) /\ R!Ends(p)
  <2>1. task' \in [Panes -> Tasks] /\ Others(p) /\ task'[p] = R!Idle
    BY <1>1, <1>2, AtWork, Ends
  <2>2. TaskShape(p)' /\ TaskFits(p)'
    BY <2>1 DEF TaskShape, TaskFits, R!Idle
  <2>3. broken' = broken \cup {i} /\ broken' \subseteq Agents
    BY <1>1, <1>2, AtWork DEF R!Breaks
  <2>4. ~diverged' => \A j \in Agents : Consistent(j)'
    BY <1>1, <1>2, <2>3, AtWork DEF Consistent
  <2> QED
    BY <1>1, <1>2, <2>1, <2>2, <2>3, <2>4, AtWork, RemoteStep
<1>5. CASE UNCHANGED keys /\ R!Breaks(i) /\ task[p].op = "delete" /\ R!Goes(p, "forget")
  <2>1. /\ task' \in [Panes -> Tasks] /\ Others(p) /\ task'[p].at = "forget"
        /\ task'[p].op = "delete" /\ task'[p].id = i
    BY <1>1, <1>5, AtWork, Goes DEF R!Steps
  <2>2. TaskShape(p)'
    BY <1>1, <1>5, <2>1, AtWork DEF TaskShape, R!IsOpen
  <2>3. broken' = broken \cup {i} /\ broken' \subseteq Agents
    BY <1>1, <1>5, AtWork DEF R!Breaks
  <2>4. ~diverged' => TaskFits(p)' /\ \A j \in Agents : j # i => Consistent(j)'
    BY <1>1, <1>5, <2>1, <2>3, AtWork DEF TaskFits, Consistent
  <2> QED
    BY <1>1, <1>5, <2>1, <2>2, <2>3, <2>4, AtWork, RemoteStep
<1>3. CASE keys' = keys \ {i} /\ UNCHANGED broken /\ task[p].op = "delete" /\ R!Goes(p, "forget")
  <2>1. /\ task' \in [Panes -> Tasks] /\ Others(p) /\ task'[p].at = "forget"
        /\ task'[p].op = "delete" /\ task'[p].id = i
    BY <1>1, <1>3, AtWork, Goes DEF R!Steps
  <2>2. TaskShape(p)'
    BY <1>1, <1>3, <2>1, AtWork DEF TaskShape, R!IsOpen
  <2>3. ~diverged' => TaskFits(p)' /\ \A j \in Agents : j # i => Consistent(j)'
    BY <1>1, <1>3, <2>1, AtWork DEF TaskFits, Consistent
  <2> QED
    BY <1>1, <1>3, <2>1, <2>2, <2>3, AtWork, RemoteStep
<1>4. CASE keys' = keys \ {i} /\ UNCHANGED broken /\ task[p].op # "delete" /\ R!Ends(p)
  <2>1. task' \in [Panes -> Tasks] /\ Others(p) /\ task'[p] = R!Idle
    BY <1>1, <1>4, AtWork, Ends
  <2>2. TaskShape(p)' /\ TaskFits(p)'
    BY <2>1 DEF TaskShape, TaskFits, R!Idle
  <2>3. ~diverged' => \A j \in Agents : Consistent(j)'
    BY <1>1, <1>4, <2>1, AtWork DEF TaskFits, Consistent
  <2> QED
    BY <1>1, <1>4, <2>1, <2>2, <2>3, AtWork, RemoteStep
<1> QED
  BY <1>1, <1>2, <1>3, <1>4, <1>5 DEF R!KeyDropped

\* The user deletes the agent with another program.
LEMMA ElsewhereDeletedStep ==
  ASSUME RegistrationInv, NEW i \in Agents, R!DeletedElsewhere(i)
  PROVE  RegistrationInv'
<1>1. /\ UNCHANGED <<keys, keyed, file, memory, task, tasks, diverged>>
      /\ agents' = agents \ {i} /\ retired' = retired \cup {i} /\ broken' = broken \cup {i}
  BY DEF R!DeletedElsewhere, R!Breaks
<1>2. RegistrationTypes'
  BY <1>1 DEF RegistrationInv, RegistrationTypes, R!TypeOK
<1>3. TaskShapes'
  BY <1>1 DEF RegistrationInv, TaskShapes, TaskShape, R!IsOpen
<1>4. OnePane' /\ R!SnapshotIsFile'
  BY <1>1 DEF RegistrationInv, OnePane, R!SnapshotIsFile, R!IsOpen
<1>6. Halfway'
  <2>1. \A p \in Panes : TaskFits(p) => TaskFits(p)'
    BY <1>1 DEF TaskFits, Consistent
  <2>2. \A j \in Agents : Consistent(j) => Consistent(j)'
    BY <1>1 DEF Consistent
  <2> QED
    BY <1>1, <2>1, <2>2 DEF RegistrationInv, Halfway
<1>5. R!KeyLastsAsItsAgent' /\ keyed' \subseteq agents' \cup retired'
  BY <1>1 DEF RegistrationInv, R!KeyLastsAsItsAgent
<1> QED
  BY <1>2, <1>3, <1>4, <1>5, <1>6 DEF RegistrationInv

\* The snapshot replaces the file (_commit): the profile of one agent changes.
LEMMA CommitFacts ==
  ASSUME RegistrationInv, NEW p \in Panes, R!IsOpen(p), NEW i \in Agents,
         NEW v \in Tunings \cup {None}, R!Commits(p, i, v)
  PROVE  /\ memory' \in [Panes -> {None} \cup [Agents -> Tunings \cup {None}]]
         /\ file' \in [Agents -> Tunings \cup {None}]
         /\ memory'[p] = file' /\ file' # None
         /\ \A q \in Panes : q # p => memory'[q] = memory[q]
         /\ file'[i] = v /\ \A j \in Agents : j # i => file'[j] = memory[p][j]
<1>1. memory[p] \in [Agents -> Tunings \cup {None}] /\ memory[p] # None
  BY DEF RegistrationInv, RegistrationTypes, R!TypeOK, R!IsOpen
<1> DEFINE g == [memory[p] EXCEPT ![i] = v]
<1>2. g \in [Agents -> Tunings \cup {None}] /\ g[i] = v
      /\ \A j \in Agents : j # i => g[j] = memory[p][j]
  BY <1>1
<1>3. memory' = [memory EXCEPT ![p] = g] /\ file' = memory'[p]
  BY DEF R!Commits
<1>4. g # None
  BY <1>2, RecordsAssumption
<1> HIDE DEF g
<1>5. memory \in [Panes -> {None} \cup [Agents -> Tunings \cup {None}]]
  BY DEF RegistrationInv, RegistrationTypes, R!TypeOK
<1>6. memory'[p] = g /\ \A q \in Panes : q # p => memory'[q] = memory[q]
  BY <1>3, <1>5
<1> QED
  BY <1>2, <1>3, <1>4, <1>5, <1>6

\* What an open pane knows of the profiles, as long as nothing diverged.
LEMMA SnapshotFacts ==
  ASSUME RegistrationInv, ~diverged, NEW p \in Panes, R!IsOpen(p), NEW j \in Agents
  PROVE  memory[p][j] = R!Normalized(file[j]) /\ (memory[p][j] # None <=> file[j] # None)
<1>1. memory[p] = [k \in Agents |-> R!Normalized(file[k])]
  BY DEF RegistrationInv, R!SnapshotIsFile
<1>2. file[j] \in R!Values
  BY DEF RegistrationInv, RegistrationTypes, R!TypeOK
<1> QED
  BY <1>1, <1>2, NormalizedFacts

\* An operation ends as the profile is saved, or could not be.
LEMMA ProfileStep ==
  ASSUME RegistrationInv, NEW p \in Panes, NEW i, i = task[p].id, task[p].at # "idle", R!Ends(p),
         UNCHANGED <<agents, retired, keys, keyed, tasks, diverged>>, broken \subseteq broken', broken' \subseteq Agents,
         \/ UNCHANGED <<file, memory>>
         \/ \E v \in Tunings \cup {None} : i \in Agents /\ R!Commits(p, i, v),
         ~diverged => Consistent(i)'
  PROVE  RegistrationInv'
<1>1. R!IsOpen(p) /\ task' \in [Panes -> Tasks] /\ Others(p) /\ task'[p] = R!Idle
  BY AtWork, Ends
<1>2. /\ memory' \in [Panes -> {None} \cup [Agents -> Tunings \cup {None}]]
      /\ file' \in [Agents -> R!Values]
      /\ \A q \in Panes : R!IsOpen(q)' <=> R!IsOpen(q)
      /\ \A j \in Agents : j # i /\ ~diverged => (file'[j] # None <=> file[j] # None)
      /\ R!SnapshotIsFile'
  <2>1. CASE UNCHANGED <<file, memory>>
    BY <2>1 DEF RegistrationInv, RegistrationTypes, R!TypeOK, R!IsOpen, R!SnapshotIsFile
  <2>2. CASE \E v \in Tunings \cup {None} : i \in Agents /\ R!Commits(p, i, v)
    <3>1. PICK v \in Tunings \cup {None} : i \in Agents /\ R!Commits(p, i, v)
      BY <2>2
    <3>2. /\ memory' \in [Panes -> {None} \cup [Agents -> Tunings \cup {None}]]
          /\ file' \in [Agents -> Tunings \cup {None}]
          /\ memory'[p] = file' /\ file' # None
          /\ \A q \in Panes : q # p => memory'[q] = memory[q]
          /\ \A j \in Agents : j # i => file'[j] = memory[p][j]
      BY <1>1, <3>1, CommitFacts
    <3>3. file' \in [Agents -> R!Values]
      BY <3>2 DEF R!Values
    <3>4. \A q \in Panes : R!IsOpen(q)' <=> R!IsOpen(q)
      BY <1>1, <3>2 DEF R!IsOpen
    <3>5. \A j \in Agents : j # i /\ ~diverged => (file'[j] # None <=> file[j] # None)
      BY <1>1, <3>2, SnapshotFacts
    <3>6. R!SnapshotIsFile'
      <4> SUFFICES ASSUME NEW q \in Panes, ~diverged, R!IsOpen(q)'
                   PROVE  memory'[q] = [j \in Agents |-> R!Normalized(file'[j])]
        BY DEF R!SnapshotIsFile, R!Normalized
      <4>1. q = p
        BY <1>1, <3>4, Alone
      <4>2. \A j \in Agents : R!Normalized(file'[j]) = file'[j]
        BY <3>2, <3>3, NormalizedFacts
      <4>3. [j \in Agents |-> R!Normalized(file'[j])] = file'
        BY <3>2, <4>2
      <4> QED
        BY <3>2, <4>1, <4>3
    <3> QED
      BY <3>2, <3>3, <3>4, <3>5, <3>6
  <2> QED
    BY <2>1, <2>2
<1>3. RegistrationTypes'
  BY <1>1, <1>2, TaskFields DEF RegistrationInv, RegistrationTypes, R!TypeOK
<1>4. TaskShapes'
  <2>1. TaskShape(p)'
    BY <1>1 DEF TaskShape, R!Idle
  <2>2. ASSUME NEW q \in Panes, q # p
        PROVE  TaskShape(q)'
    BY <1>1, <1>2, <2>2 DEF RegistrationInv, TaskShapes, TaskShape, Others
  <2> QED
    BY <2>1, <2>2 DEF TaskShapes
<1>5. OnePane'
  BY <1>2 DEF RegistrationInv, OnePane
<1>6. Halfway'
  <2>1. TaskFits(p)'
    BY <1>1 DEF TaskFits, R!Idle
  <2>2. ASSUME ~diverged'
        PROVE  \A j \in Agents : Consistent(j)'
    <3>1. \A j \in Agents : j # i => Consistent(j)
      BY <2>2, AtWork
    <3> QED
      BY <1>2, <2>2, <3>1 DEF Consistent
  <2> QED
    BY <1>1, <2>1, <2>2, HalfwayStep
<1>7. R!KeyLastsAsItsAgent' /\ keyed' \subseteq agents' \cup retired'
  BY DEF RegistrationInv, R!KeyLastsAsItsAgent
<1> QED
  BY <1>2, <1>3, <1>4, <1>5, <1>6, <1>7 DEF RegistrationInv

\* A new agent's profile is recorded, or the registration cleaned up (record).
LEMMA RecordedStep ==
  ASSUME RegistrationInv, NEW p \in Panes, R!Recorded(p)
  PROVE  RegistrationInv'
<1>1. PICK i : i = task[p].id
  OBVIOUS
<1>2. /\ UNCHANGED <<agents, retired, keys, keyed, tasks, broken, diverged>>
      /\ task[p].at = "record" /\ task[p].op = "register" /\ task[p].value \in Tunings
      /\ i \in agents \cup retired /\ i \in Agents
  BY <1>1, AtWork DEF R!Recorded, R!remote, TaskShape
<1>3. CASE R!Commits(p, i, task[p].value) /\ R!Ends(p)
  <2>1. file'[i] = task[p].value /\ task[p].value # None
    BY <1>1, <1>2, <1>3, AtWork, CommitFacts, RecordsAssumption
  <2>2. ~diverged => Consistent(i)'
    BY <1>1, <1>2, <2>1, AtWork DEF TaskFits, Consistent
  <2> QED
    BY <1>1, <1>2, <1>3, <2>2, AtWork, ProfileStep
<1>4. CASE UNCHANGED <<memory, file>> /\ R!Goes(p, "cleanup")
  <2>1. /\ task' \in [Panes -> Tasks] /\ Others(p) /\ task'[p].at = "cleanup"
        /\ task'[p].op = "register" /\ task'[p].id = i
    BY <1>1, <1>2, <1>4, AtWork, Goes DEF R!Steps
  <2>2. TaskShape(p)'
    BY <1>1, <1>2, <1>4, <2>1, AtWork DEF TaskShape, R!IsOpen
  <2>3. ~diverged' => TaskFits(p)' /\ \A j \in Agents : j # i => Consistent(j)'
    BY <1>1, <1>2, <1>4, <2>1, AtWork DEF TaskFits, Consistent
  <2> QED
    BY <1>1, <1>2, <1>4, <2>1, <2>2, <2>3, AtWork, RemoteStep
<1> QED
  BY <1>1, <1>3, <1>4 DEF R!Recorded, R!Fails

\* An agent is reconfigured, or keeps its profile (_submit_reconfigure).
LEMMA ReconfiguredStep ==
  ASSUME RegistrationInv, NEW p \in Panes, R!Reconfigured(p)
  PROVE  RegistrationInv'
<1>1. PICK i : i = task[p].id
  OBVIOUS
<1>2. /\ UNCHANGED <<agents, retired, keys, keyed, tasks, broken, diverged>> /\ R!Ends(p)
      /\ task[p].at = "record" /\ task[p].op = "reconfigure" /\ task[p].value \in Tunings
      /\ i \in agents \cup retired /\ i \in Agents
  BY <1>1, AtWork DEF R!Reconfigured, R!remote, TaskShape
<1>3. CASE R!Commits(p, i, task[p].value)
  <2>1. file'[i] = task[p].value /\ task[p].value # None
    BY <1>1, <1>2, <1>3, AtWork, CommitFacts, RecordsAssumption
  <2>2. ~diverged => Consistent(i)'
    BY <1>1, <1>2, <2>1, AtWork DEF TaskFits, Consistent
  <2> QED
    BY <1>1, <1>2, <1>3, <2>2, AtWork, ProfileStep
<1>4. CASE UNCHANGED <<memory, file>>
  <2>2. ~diverged => Consistent(i)'
    BY <1>1, <1>2, <1>4, AtWork DEF TaskFits, Consistent
  <2> QED
    BY <1>1, <1>2, <1>4, <2>2, AtWork, ProfileStep
<1> QED
  BY <1>1, <1>3, <1>4 DEF R!Reconfigured, R!Fails

\* A deleted agent is forgotten, or the file could not be saved (remove).
LEMMA ForgottenStep ==
  ASSUME RegistrationInv, NEW p \in Panes, R!Forgotten(p)
  PROVE  RegistrationInv'
<1>1. PICK i : i = task[p].id
  OBVIOUS
<1>2. /\ UNCHANGED <<agents, retired, keys, keyed, tasks, diverged>> /\ R!Ends(p)
      /\ task[p].at = "forget" /\ i \in agents \cup retired /\ i \in Agents
  BY <1>1, AtWork DEF R!Forgotten, R!remote, TaskShape
<1>3. CASE R!Commits(p, i, None) /\ UNCHANGED broken
  <2>1. file'[i] = None
    BY <1>1, <1>2, <1>3, AtWork, CommitFacts
  <2>2. ~diverged => Consistent(i)'
    BY <1>1, <1>2, <1>3, <2>1, AtWork DEF TaskFits, Consistent
  <2> QED
    BY <1>1, <1>2, <1>3, <2>2, AtWork, ProfileStep
<1>4. CASE memory[p][i] = None /\ UNCHANGED <<memory, file, broken>>
  <2>1. ~diverged => file[i] = None
    BY <1>1, <1>2, <1>4, AtWork, SnapshotFacts
  <2>2. ~diverged => Consistent(i)'
    BY <1>1, <1>2, <1>4, <2>1, AtWork DEF TaskFits, Consistent
  <2> QED
    BY <1>1, <1>2, <1>4, <2>2, AtWork, ProfileStep
<1>5. CASE UNCHANGED <<memory, file>> /\ R!Breaks(i)
  <2>1. broken' = broken \cup {i} /\ broken' \subseteq Agents
    BY <1>1, <1>2, <1>5, AtWork DEF R!Breaks
  <2> QED
    BY <1>1, <1>2, <1>5, <2>1, AtWork, ProfileStep DEF Consistent
<1> QED
  BY <1>1, <1>3, <1>4, <1>5 DEF R!Forgotten, R!Fails

\* A pane is opened and reads the file, or takes it for empty (_load).
LEMMA OpensStep ==
  ASSUME RegistrationInv, NEW p \in Panes, R!Opens(p)
  PROVE  RegistrationInv'
<1> DEFINE loaded == [i \in Agents |-> R!Normalized(file[i])]
<1>1. UNCHANGED <<agents, retired, keys, keyed, task, tasks, broken>> /\ ~R!IsOpen(p)
  BY DEF R!Opens, R!remote
<1>2. /\ file \in [Agents -> R!Values] /\ diverged \in BOOLEAN
      /\ memory \in [Panes -> {None} \cup [Agents -> Tunings \cup {None}]]
  BY DEF RegistrationInv, RegistrationTypes, R!TypeOK
<1>3. loaded \in [Agents -> Tunings \cup {None}]
  BY <1>2, NormalizedFacts
<1>4. /\ loaded \in [Agents -> R!Values]
      /\ R!Nobody \in [Agents -> Tunings \cup {None}]
  BY <1>3 DEF R!Nobody, R!Values
<1>5. \A i \in Agents : loaded[i] # None <=> file[i] # None
  BY <1>2, NormalizedFacts
<1>6. [i \in Agents |-> R!Normalized(loaded[i])] = loaded
  BY <1>3, <1>4, NormalizedFacts
<1>7. /\ file' \in {file, loaded}
      /\ \/ /\ memory' = [memory EXCEPT ![p] = loaded]
            /\ diverged' = (diverged \/ \E q \in Panes : R!IsOpen(q))
         \/ memory' = [memory EXCEPT ![p] = R!Nobody] /\ diverged' = TRUE
  BY DEF R!Opens
<1>8. [i \in Agents |-> R!Normalized(file'[i])] = loaded
  BY <1>6, <1>7
<1> HIDE DEF loaded
<1>9. /\ memory' \in [Panes -> {None} \cup [Agents -> Tunings \cup {None}]]
      /\ file' \in [Agents -> R!Values] /\ diverged' \in BOOLEAN
      /\ \A q \in Panes : q # p => memory'[q] = memory[q]
      /\ ~diverged' => ~diverged /\ memory'[p] = loaded /\ \A q \in Panes : ~R!IsOpen(q)
  BY <1>2, <1>3, <1>4, <1>7
<1>10. \A i \in Agents : file'[i] # None <=> file[i] # None
  BY <1>5, <1>7
<1>11. RegistrationTypes'
  BY <1>1, <1>9 DEF RegistrationInv, RegistrationTypes, R!TypeOK
<1>12. TaskShapes'
  <2>1. task[p].at = "idle"
    BY <1>1 DEF RegistrationInv, TaskShapes, TaskShape
  <2>2. \A q \in Panes : q # p => (R!IsOpen(q)' <=> R!IsOpen(q))
    BY <1>9 DEF R!IsOpen
  <2> QED
    BY <1>1, <2>1, <2>2 DEF RegistrationInv, TaskShapes, TaskShape
<1>13. OnePane'
  BY <1>9 DEF OnePane, R!IsOpen
<1>14. Halfway'
  <2> SUFFICES ASSUME ~diverged'
               PROVE  /\ \A q \in Panes : TaskFits(q)'
                      /\ \A i \in Agents : (\A q \in Panes : task'[q].id # i) => Consistent(i)'
    BY DEF Halfway
  <2>1. \A q \in Panes : task'[q].at = "idle"
    BY <1>1, <1>9 DEF RegistrationInv, TaskShapes, TaskShape
  <2>2. \A q \in Panes : TaskFits(q)'
    BY <2>1 DEF TaskFits
  <2>3. \A i \in Agents : (\A q \in Panes : task'[q].id # i) => Consistent(i)'
    BY <1>1, <1>9, <1>10 DEF RegistrationInv, Halfway, Consistent
  <2> QED
    BY <2>2, <2>3
<1>15. R!SnapshotIsFile'
  BY <1>8, <1>9 DEF R!SnapshotIsFile, R!IsOpen
<1>16. R!KeyLastsAsItsAgent' /\ keyed' \subseteq agents' \cup retired'
  BY <1>1 DEF RegistrationInv, R!KeyLastsAsItsAgent
<1> QED
  BY <1>11, <1>12, <1>13, <1>14, <1>15, <1>16 DEF RegistrationInv

\* A pane is closed or dies.
LEMMA ClosesStep ==
  ASSUME RegistrationInv, NEW p \in Panes, R!Closes(p)
  PROVE  RegistrationInv'
<1>1. /\ UNCHANGED <<agents, retired, keys, keyed, file, tasks, diverged>>
      /\ broken' = broken \cup ({task[p].id} \ {None}) /\ R!IsOpen(p)
      /\ memory' = [memory EXCEPT ![p] = None]
  BY DEF R!Closes, R!remote
<1>2. task' \in [Panes -> Tasks] /\ Others(p) /\ task'[p] = R!Idle
  BY Ends DEF RegistrationInv, R!Closes
<1>3. /\ memory' \in [Panes -> {None} \cup [Agents -> Tunings \cup {None}]]
      /\ memory'[p] = None /\ \A q \in Panes : q # p => memory'[q] = memory[q]
      /\ broken' \subseteq Agents
  BY <1>1, TaskFields DEF RegistrationInv, RegistrationTypes, R!TypeOK
<1>4. RegistrationTypes'
  BY <1>1, <1>2, <1>3, TaskFields DEF RegistrationInv, RegistrationTypes, R!TypeOK
<1>5. \A q \in Panes : R!IsOpen(q)' <=> q # p /\ R!IsOpen(q)
  BY <1>3 DEF R!IsOpen
<1>6. TaskShapes'
  <2>1. TaskShape(p)'
    BY <1>2 DEF TaskShape, R!Idle
  <2>2. ASSUME NEW q \in Panes, q # p
        PROVE  TaskShape(q)'
    BY <1>1, <1>2, <1>5, <2>2 DEF RegistrationInv, TaskShapes, TaskShape, Others
  <2> QED
    BY <2>1, <2>2 DEF TaskShapes
<1>7. OnePane' /\ R!SnapshotIsFile'
  BY <1>1, <1>3, <1>5 DEF RegistrationInv, OnePane, R!SnapshotIsFile
<1>8. Halfway'
  <2>1. ASSUME ~diverged'
        PROVE  ~diverged /\ TaskFits(p)' /\ \A i \in Agents : Consistent(i)'
    <3>1. \A i \in Agents : i # task[p].id => Consistent(i)
      BY <1>1, <2>1, Known
    <3>2. \A i \in Agents : i = task[p].id => i \in broken'
      BY <1>1, RecordsAssumption
    <3> QED
      BY <1>1, <1>2, <2>1, <3>1, <3>2 DEF Consistent, TaskFits, R!Idle
  <2> QED
    BY <1>1, <1>2, <2>1, HalfwayStep
<1>9. R!KeyLastsAsItsAgent' /\ keyed' \subseteq agents' \cup retired'
  BY <1>1 DEF RegistrationInv, R!KeyLastsAsItsAgent
<1> QED
  BY <1>4, <1>6, <1>7, <1>8, <1>9 DEF RegistrationInv

\* Every step of the panes and of the platform keeps the invariant.
LEMMA RegistrationSteps ==
  ASSUME RegistrationInv, [R!Next]_registrationVars
  PROVE  RegistrationInv'
<1>1. CASE UNCHANGED registrationVars
  BY <1>1 DEF registrationVars, RegistrationInv, RegistrationTypes, R!TypeOK, TaskShapes, TaskShape,
              OnePane, Halfway, TaskFits, Consistent, R!IsOpen, R!KeyLastsAsItsAgent,
              R!SnapshotIsFile
<1>2. CASE R!Next
  <2>1. CASE \E i \in Agents : R!DeletedElsewhere(i)
    BY <2>1, ElsewhereDeletedStep
  <2>2. ASSUME NEW p \in Panes, R!Opens(p) \/ R!Closes(p)
        PROVE  RegistrationInv'
    BY <2>2, OpensStep, ClosesStep
  <2>3. ASSUME NEW p \in Panes, R!Created(p) \/ R!KeyStored(p) \/ R!Withdrawn(p)
        PROVE  RegistrationInv'
    BY <2>3, CreatedStep, KeyStoredStep, WithdrawnStep
  <2>4. ASSUME NEW p \in Panes, R!Recorded(p) \/ R!Reconfigured(p) \/ R!Forgotten(p)
        PROVE  RegistrationInv'
    BY <2>4, RecordedStep, ReconfiguredStep, ForgottenStep
  <2>5. ASSUME NEW p \in Panes, R!Deleted(p) \/ R!KeyDropped(p)
        PROVE  RegistrationInv'
    BY <2>5, DeletedStep, KeyDroppedStep
  <2>6. ASSUME NEW p \in Panes, NEW i \in Agents, R!Reconfigure(p, i) \/ R!Delete(p, i)
        PROVE  RegistrationInv'
    BY <2>6, BeginStep
  <2>7. ASSUME NEW p \in Panes, R!Register(p)
        PROVE  RegistrationInv'
    BY <2>7, RegisterStep
  <2> QED
    BY <1>2, <2>1, <2>2, <2>3, <2>4, <2>5, <2>6, <2>7 DEF R!Next
<1> QED
  BY <1>1, <1>2

LEMMA RegistrationStarts == R!Init => RegistrationInv
<1> SUFFICES ASSUME R!Init PROVE RegistrationInv
  OBVIOUS
<1>1. R!Idle \in Tasks
  BY DEF R!Idle, Tasks
<1>2. \A p \in Panes : task[p] = R!Idle /\ ~R!IsOpen(p)
  BY DEF R!Init, R!IsOpen
<1>3. RegistrationTypes
  <2>1. /\ task \in [Panes -> Tasks]
        /\ memory \in [Panes -> {None} \cup [Agents -> Tunings \cup {None}]]
    BY <1>1 DEF R!Init
  <2>2. \A p \in Panes : task[p].at \in R!Steps \cup {"idle"} /\ task[p].id \in Agents \cup {None}
    BY <2>1, TaskFields
  <2>3. file \in [Agents -> R!Values] /\ broken \subseteq Agents /\ diverged \in BOOLEAN
    BY DEF R!Init
  <2>4. agents \subseteq Agents /\ retired = {} /\ keys \subseteq Agents
    BY DEF R!Init
  <2>5. tasks \in 0..MaxTasks
    BY RecordsAssumption DEF R!Init
  <2> QED
    BY <2>1, <2>2, <2>3, <2>4, <2>5 DEF RegistrationTypes, R!TypeOK
<1>4. TaskShapes /\ OnePane /\ R!SnapshotIsFile
  BY <1>2 DEF TaskShapes, TaskShape, OnePane, R!SnapshotIsFile, R!Idle
<1>5. Halfway
  BY <1>2 DEF Halfway, TaskFits, Consistent, R!Idle, R!Init
<1>6. R!KeyLastsAsItsAgent /\ keyed \subseteq agents \cup retired
  BY DEF R!Init, R!KeyLastsAsItsAgent
<1> QED
  BY <1>3, <1>4, <1>5, <1>6 DEF RegistrationInv

\* The invariant says what is asked of the states.
LEMMA NothingHalf ==
  ASSUME RegistrationInv
  PROVE  R!NothingHalfRegistered
BY DEF RegistrationInv, Halfway, Consistent, R!NothingHalfRegistered

\* A step changes in the file the profile of the agent it is about, and no
\* other, as the snapshot it saves agreed with the file.
LEMMA ProfilesKept ==
  ASSUME RegistrationInv, R!Next, NEW i \in Agents, ~diverged',
         file'[i] # R!Normalized(file[i]), file'[i] # file[i]
  PROVE  \E p \in Panes : task[p].id = i /\ task'[p] = R!Idle
<1>1. ASSUME NEW p \in Panes, R!Opens(p)
      PROVE  FALSE
  BY <1>1 DEF R!Opens
<1>2. ASSUME NEW p \in Panes, R!IsOpen(p), NEW j \in Agents, NEW v \in Tunings \cup {None},
             R!Commits(p, j, v), UNCHANGED diverged
      PROVE  i = j
  BY <1>2, CommitFacts, SnapshotFacts
<1>3. ASSUME NEW p \in Panes, R!Recorded(p) \/ R!Reconfigured(p) \/ R!Forgotten(p)
      PROVE  task[p].id = i /\ task'[p] = R!Idle
  <2>1. /\ R!IsOpen(p) /\ task[p].id \in Agents /\ UNCHANGED diverged
        /\ task[p].at = "record" => task[p].value \in Tunings
    BY <1>3, AtWork DEF R!Recorded, R!Reconfigured, R!Forgotten, TaskShape
  <2>2. R!Ends(p) /\ \E v \in Tunings \cup {None} : R!Commits(p, task[p].id, v)
    BY <1>3, <2>1 DEF R!Recorded, R!Reconfigured, R!Forgotten, R!Fails
  <2>3. task'[p] = R!Idle
    BY <2>2, Ends DEF RegistrationInv
  <2> QED
    BY <1>2, <2>1, <2>2, <2>3
<1>4. ASSUME UNCHANGED file
      PROVE  FALSE
  BY <1>4
<1>5. ASSUME NEW p \in Panes,
             \/ R!Closes(p) \/ R!Register(p) \/ R!Created(p) \/ R!KeyStored(p) \/ R!Withdrawn(p)
             \/ \E j \in Agents : R!Reconfigure(p, j) \/ R!Delete(p, j)
             \/ R!Deleted(p) \/ R!KeyDropped(p)
      PROVE  UNCHANGED file
  BY <1>5 DEF R!Closes, R!Register, R!Created, R!KeyStored, R!Withdrawn, R!Reconfigure, R!Delete,
              R!Deleted, R!KeyDropped
<1>6. ASSUME NEW j \in Agents, R!DeletedElsewhere(j)
      PROVE  UNCHANGED file
  BY <1>6 DEF R!DeletedElsewhere
<1> QED
  BY <1>1, <1>3, <1>4, <1>5, <1>6 DEF R!Next

-----------------------------------------------------------------------------
(* ChatView: the rows are the timeline.                                    *)

LEMMA Numbered == Len(TypeOf) \in Nat /\ V!Ids = 1..Len(TypeOf)
BY ChatAssumption DEF V!Ids

\* Counting is the same in the part.
LEMMA Counting == ASSUME NEW S PROVE V!Cardinality(S) = Cardinality(S)
BY DEF V!Cardinality, Cardinality

\* The n-th of some messages is one of them, and a different one for every n.
LEMMA NthFacts ==
  ASSUME NEW S \in SUBSET V!Ids
  PROVE  /\ Cardinality(S) \in Nat
         /\ \A n \in 1..Cardinality(S) :
              V!Nth(S, n) \in S /\ Cardinality({j \in S : j <= V!Nth(S, n)}) = n
<1>1. IsFiniteSet(S) /\ Cardinality(S) \in Nat
  <2>1. IsFiniteSet(V!Ids)
    BY Numbered, FS_Interval
  <2>2. IsFiniteSet(S)
    BY <2>1, FS_Subset
  <2> QED
    BY <2>2, FS_CardinalityType
<1> DEFINE Upto(i) == {j \in S : j <= i}
           c == Cardinality(S)
           rank == [i \in S |-> Cardinality(Upto(i))]
<1>2. ASSUME NEW i \in S
      PROVE  /\ IsFiniteSet(Upto(i)) /\ Cardinality(Upto(i)) \in 1..c
  <2>1. IsFiniteSet(Upto(i)) /\ Cardinality(Upto(i)) <= c
    BY <1>1, FS_Subset
  <2>2. i \in Upto(i)
    BY Numbered
  <2>3. Cardinality(Upto(i)) # 0
    BY <2>1, <2>2, FS_EmptySet
  <2> QED
    BY <1>1, <2>1, <2>3, FS_CardinalityType
<1>3. ASSUME NEW i \in S, NEW k \in S, i < k
      PROVE  rank[i] # rank[k]
  <2>1. S \subseteq Int
    BY Numbered
  <2>2. Upto(i) \subseteq Upto(k) /\ k \in Upto(k) /\ k \notin Upto(i)
    <3>1. i \in Int /\ k \in Int /\ i < k
      BY <1>3, <2>1
    <3>2. ASSUME NEW j \in S, j <= i
          PROVE  j <= k
      BY <2>1, <3>1, <3>2
    <3>3. k <= k /\ ~(k <= i)
      BY <3>1
    <3> QED
      BY <3>2, <3>3
  <2>3. IsFiniteSet(Upto(k)) /\ Upto(i) \in SUBSET Upto(k) /\ Upto(i) # Upto(k)
    BY <1>2, <2>2
  <2>4. Cardinality(Upto(i)) # Cardinality(Upto(k))
    BY <2>3, FS_Subset
  <2> QED
    BY <2>4
<1>4. rank \in Injection(S, 1..c)
  <2>1. rank \in [S -> 1..c]
    BY <1>2
  <2>2. \A i, k \in S : i # k => i < k \/ k < i
    BY Numbered
  <2> QED
    BY <1>3, <2>1, <2>2 DEF Injection, IsInjective
<1>5. rank \in Surjection(S, 1..c)
  <2>1. IsFiniteSet(1..c) /\ Cardinality(1..c) = c
    BY <1>1, FS_Interval
  <2> QED
    BY <1>1, <1>4, <2>1, FS_Injection
<1>6. ASSUME NEW n \in 1..c
      PROVE  \E i \in S : Cardinality(Upto(i)) = n
  BY <1>5 DEF Surjection
<1>7. ASSUME NEW n \in 1..c
      PROVE  V!Nth(S, n) \in S /\ Cardinality(Upto(V!Nth(S, n))) = n
  <2>1. \E i \in S : V!Cardinality({j \in S : j <= i}) = n
    BY <1>6, Counting
  <2>2. V!Nth(S, n) \in S /\ V!Cardinality({j \in S : j <= V!Nth(S, n)}) = n
    BY <2>1 DEF V!Nth
  <2> QED
    BY <2>2, Counting
<1> QED
  BY <1>1, <1>7

\* No two rows show the same message.
Distinct(t) == \A k, l \in 1..Len(t) : t[k].id = t[l].id => k = l

LEMMA TimelineFacts ==
  ASSUME V!TypeOK
  PROVE  V!Timeline \in Seq(V!Entries) /\ Distinct(V!Timeline)
<1> DEFINE S == {i \in held : V!IsVisible(i)}
<1>1. S \in SUBSET V!Ids
  BY DEF V!TypeOK
<1> DEFINE row(n) == [id |-> V!Nth(S, n), new |-> V!Nth(S, n) \in updated,
                      open |-> V!Nth(S, n) \in expanded]
<1>2. V!Timeline = [n \in 1..Cardinality(S) |-> row(n)]
  <2>1. V!Timeline = [n \in 1..V!Cardinality(S) |-> row(n)]
    BY DEF V!Timeline
  <2> QED
    BY <2>1, Counting
<1>4. /\ Cardinality(S) \in Nat
      /\ \A n \in 1..Cardinality(S) :
           V!Nth(S, n) \in S /\ Cardinality({j \in S : j <= V!Nth(S, n)}) = n
  BY <1>1, NthFacts
<1> HIDE DEF S
<1>5. \A n \in 1..Cardinality(S) : row(n) \in V!Entries /\ row(n).id = V!Nth(S, n)
  <2> TAKE n \in 1..Cardinality(S)
  <2>1. V!Nth(S, n) \in V!Ids
    BY <1>1, <1>4
  <2> QED
    BY <2>1 DEF V!Entries
<1> HIDE DEF row
<1>6. V!Timeline \in Seq(V!Entries) /\ Len(V!Timeline) = Cardinality(S)
  BY <1>2, <1>4, <1>5
<1>7. Distinct(V!Timeline)
  <2>1. \A n \in 1..Cardinality(S) : V!Timeline[n].id = V!Nth(S, n)
    BY <1>2, <1>5
  <2> SUFFICES ASSUME NEW k \in 1..Cardinality(S), NEW l \in 1..Cardinality(S),
                      V!Timeline[k].id = V!Timeline[l].id
               PROVE  k = l
    BY <1>6 DEF Distinct
  <2>2. V!Nth(S, k) = V!Nth(S, l)
    BY <2>1
  <2> QED
    BY <1>4, <2>2
<1> QED
  BY <1>6, <1>7

\* How many messages are new when rows are added at one end.
LEMMA NewAtEnd ==
  ASSUME NEW now \in Seq(V!Entries), Distinct(now),
         NEW m \in Nat, NEW n \in Nat, m <= n, n <= Len(now)
  PROVE  V!Cardinality({now[k].id : k \in (m + 1)..n}) = n - m
<1> DEFINE added == {now[k].id : k \in (m + 1)..n}
           f == [k \in (m + 1)..n |-> now[k].id]
<1>1. f \in Bijection((m + 1)..n, added)
  <2>1. f \in [(m + 1)..n -> added]
    OBVIOUS
  <2>2. \A k, l \in (m + 1)..n : f[k] = f[l] => k = l
    BY DEF Distinct
  <2>3. \A x \in added : \E k \in (m + 1)..n : f[k] = x
    OBVIOUS
  <2> HIDE DEF f, added
  <2> QED
    BY <2>1, <2>2, <2>3 DEF Bijection, Injection, Surjection, IsInjective
<1>2. IsFiniteSet((m + 1)..n) /\ Cardinality((m + 1)..n) = n - m
  <2>1. m + 1 \in Int /\ n \in Int
    OBVIOUS
  <2>2. /\ IsFiniteSet((m + 1)..n)
        /\ Cardinality((m + 1)..n) = IF m + 1 > n THEN 0 ELSE n - (m + 1) + 1
    BY <2>1, FS_Interval
  <2> QED
    BY <2>2
<1>3. Cardinality(added) = n - m
  BY <1>1, <1>2, FS_Bijection DEF ExistsBijection
<1> QED
  BY <1>3, Counting

LEMMA IdsFacts ==
  ASSUME NEW t \in Seq(V!Entries)
  PROVE  V!IdsOf(t) = {t[k].id : k \in 1..Len(t)}
BY DEF V!IdsOf, V!Range

\* _render_chat appends exactly the rows that are missing at the end.
LEMMA Extends ==
  ASSUME NEW before \in Seq(V!Entries), NEW now \in Seq(V!Entries), Distinct(now),
         V!IsPrefix(before, now)
  PROVE  LET new == V!Cardinality(V!IdsOf(now) \ V!IdsOf(before)) IN
         /\ SubSeq(now, Len(now) - new + 1, Len(now)) \in Seq(V!Entries)
         /\ before \o SubSeq(now, Len(now) - new + 1, Len(now)) = now
<1>1. Len(before) <= Len(now) /\ \A k \in 1..Len(before) : before[k] = now[k]
  BY DEF V!IsPrefix
<1>2. V!IdsOf(now) \ V!IdsOf(before) = {now[k].id : k \in (Len(before) + 1)..Len(now)}
  <2>1. V!IdsOf(before) = {now[k].id : k \in 1..Len(before)}
    <3>1. V!IdsOf(before) = {before[k].id : k \in 1..Len(before)}
      BY IdsFacts
    <3> QED
      BY <1>1, <3>1
  <2>2. V!IdsOf(now) = {now[k].id : k \in 1..Len(now)}
    BY IdsFacts
  <2>3. Len(before) \in Nat /\ Len(now) \in Nat
    BY LenProperties
  <2> DEFINE m == Len(before)
  <2>4. \A k \in 1..Len(now) : k \in 1..m \/ k \in (m + 1)..Len(now)
    BY <2>3
  <2>5. /\ \A k \in 1..m : k \in 1..Len(now) /\ \A l \in (m + 1)..Len(now) : k # l
        /\ \A l \in (m + 1)..Len(now) : l \in 1..Len(now)
    BY <1>1, <2>3
  <2> HIDE DEF m
  <2> QED
    BY <2>1, <2>2, <2>4, <2>5 DEF Distinct
<1>3. V!Cardinality(V!IdsOf(now) \ V!IdsOf(before)) = Len(now) - Len(before)
  <2>1. /\ Len(before) \in Nat /\ Len(now) \in Nat
        /\ Len(before) <= Len(now) /\ Len(now) <= Len(now)
    BY <1>1, LenProperties
  <2>2. V!Cardinality({now[k].id : k \in (Len(before) + 1)..Len(now)}) = Len(now) - Len(before)
    BY <2>1, NewAtEnd
  <2> QED
    BY <1>2, <2>2
<1>4. /\ SubSeq(now, Len(before) + 1, Len(now)) \in Seq(V!Entries)
      /\ before \o SubSeq(now, Len(before) + 1, Len(now)) = now
  <2>1. /\ SubSeq(now, Len(before) + 1, Len(now)) \in Seq(V!Entries)
        /\ Len(SubSeq(now, Len(before) + 1, Len(now))) = Len(now) - Len(before)
        /\ \A k \in 1..(Len(now) - Len(before)) :
             SubSeq(now, Len(before) + 1, Len(now))[k] = now[Len(before) + k]
    BY <1>1, SubSeqProperties
  <2> QED
    BY <1>1, <2>1, ConcatProperties, SeqEqual
<1>5. Len(now) - (Len(now) - Len(before)) + 1 = Len(before) + 1
  BY LenProperties
<1> QED
  BY <1>3, <1>4, <1>5

\* _render_chat prepends exactly the rows that are missing at the beginning.
LEMMA Inserts ==
  ASSUME NEW before \in Seq(V!Entries), NEW now \in Seq(V!Entries), Distinct(now),
         V!IsSuffix(before, now)
  PROVE  LET new == V!Cardinality(V!IdsOf(now) \ V!IdsOf(before)) IN
         SubSeq(now, 1, new) \in Seq(V!Entries) /\ SubSeq(now, 1, new) \o before = now
<1> DEFINE d == Len(now) - Len(before)
<1>1. Len(before) <= Len(now) /\ \A k \in 1..Len(before) : before[k] = now[d + k]
  <2>1. Len(before) \in Nat /\ Len(now) \in Nat
    BY LenProperties
  <2> DEFINE b == [k \in 1..Len(before) |-> before[Len(before) - k + 1]]
             r == [k \in 1..Len(now) |-> now[Len(now) - k + 1]]
  <2>2. b = V!Reverse(before) /\ r = V!Reverse(now)
    BY DEF V!Reverse
  <2>3. b \in Seq(V!Entries) /\ Len(b) = Len(before) /\ r \in Seq(V!Entries) /\ Len(r) = Len(now)
    <3>1. /\ \A k \in 1..Len(before) : before[Len(before) - k + 1] \in V!Entries
          /\ \A k \in 1..Len(now) : now[Len(now) - k + 1] \in V!Entries
      BY <2>1, ElementOfSeq
    <3> QED
      BY <2>1, <3>1
  <2>4. Len(b) <= Len(r) /\ \A k \in 1..Len(b) : b[k] = r[k]
    <3> HIDE DEF b, r
    <3> QED
      BY <2>2, <2>3 DEF V!IsSuffix, V!IsPrefix
  <2>5. ASSUME NEW k \in 1..Len(before)
        PROVE  before[k] = now[d + k]
    <3>1. Len(before) - k + 1 \in 1..Len(before)
      BY <2>1
    <3>2. b[Len(before) - k + 1] = r[Len(before) - k + 1]
      BY <2>3, <2>4, <3>1
    <3>3. b[Len(before) - k + 1] = before[k]
      BY <2>1, <3>1
    <3>4. Len(before) - k + 1 \in 1..Len(now) /\ Len(now) - (Len(before) - k + 1) + 1 = d + k
      BY <2>1, <2>3, <2>4, <3>1
    <3>5. r[Len(before) - k + 1] = now[d + k]
      BY <3>4
    <3> QED
      BY <3>2, <3>3, <3>5
  <2> QED
    BY <2>3, <2>4, <2>5
<1>2. V!IdsOf(now) \ V!IdsOf(before) = {now[k].id : k \in 1..d}
  <2>0. Len(before) \in Nat /\ Len(now) \in Nat
    BY LenProperties
  <2>1. V!IdsOf(before) = {now[k].id : k \in (d + 1)..Len(now)}
    <3>1. \A k \in 1..Len(before) : d + k \in (d + 1)..Len(now)
      BY <1>1, <2>0
    <3>2. \A k \in (d + 1)..Len(now) : k - d \in 1..Len(before) /\ d + (k - d) = k
      BY <1>1, <2>0
    <3>3. V!IdsOf(before) = {before[k].id : k \in 1..Len(before)}
      BY IdsFacts
    <3> HIDE DEF d
    <3>4. \A k \in 1..Len(before) : before[k].id \in {now[j].id : j \in (d + 1)..Len(now)}
      BY <1>1, <3>1
    <3>5. \A k \in (d + 1)..Len(now) : now[k].id \in {before[j].id : j \in 1..Len(before)}
      BY <1>1, <3>2
    <3> QED
      BY <3>3, <3>4, <3>5
  <2>2. V!IdsOf(now) = {now[k].id : k \in 1..Len(now)}
    BY IdsFacts
  <2>3. \A k \in 1..Len(now) : k \in 1..d \/ k \in (d + 1)..Len(now)
    BY <2>0
  <2>4. \A k \in 1..d : k \in 1..Len(now) /\ \A l \in (d + 1)..Len(now) : l \in 1..Len(now) /\ k # l
    BY <1>1, <2>0
  <2> HIDE DEF d
  <2> QED
    BY <2>1, <2>2, <2>3, <2>4 DEF Distinct
<1>3. V!Cardinality(V!IdsOf(now) \ V!IdsOf(before)) = d
  <2>1. d \in Nat /\ d <= Len(now) /\ 0 <= d /\ 0 \in Nat /\ (0 + 1)..d = 1..d /\ d - 0 = d
    BY <1>1, LenProperties
  <2> HIDE DEF d
  <2>2. V!Cardinality({now[k].id : k \in (0 + 1)..d}) = d - 0
    BY <2>1, NewAtEnd
  <2>3. {now[k].id : k \in (0 + 1)..d} = {now[k].id : k \in 1..d}
    BY <2>1
  <2> QED
    BY <1>2, <2>1, <2>2, <2>3
<1>4. SubSeq(now, 1, d) \in Seq(V!Entries) /\ SubSeq(now, 1, d) \o before = now
  <2>1. /\ SubSeq(now, 1, d) \in Seq(V!Entries)
        /\ Len(SubSeq(now, 1, d)) = d
        /\ \A k \in 1..d : SubSeq(now, 1, d)[k] = now[k]
    BY <1>1, SubSeqProperties
  <2>2. /\ d \in Nat /\ Len(before) \in Nat /\ Len(now) = d + Len(before)
        /\ \A k \in 1..Len(now) :
             k \in 1..d \/ (k > d /\ k - d \in 1..Len(before) /\ d + (k - d) = k)
    BY <1>1, LenProperties
  <2> HIDE DEF d
  <2> DEFINE whole == SubSeq(now, 1, d) \o before
  <2>3. whole \in Seq(V!Entries) /\ Len(whole) = Len(now)
    BY <2>1, <2>2, ConcatProperties
  <2>4. \A k \in 1..Len(now) : whole[k] = now[k]
    BY <1>1, <2>1, <2>2, ConcatProperties
  <2> HIDE DEF whole
  <2>5. whole = now
    BY <2>3, <2>4, SeqEqual
  <2> QED
    BY <2>1, <2>5 DEF whole
<1> QED
  BY <1>3, <1>4

\* What the list shows of a timeline, and what a step of drawing makes of it.
Shown(t) == IF t = <<>> THEN <<None>> ELSE t
After(d, l) ==
  CASE d.how = "extend" -> l \o d.rows
    [] d.how = "insert" -> d.rows \o l
    [] d.how = "refill" -> d.rows

\* What is drawn is what was rendered last, or will be once the list is done.
RowsFollow ==
  /\ ~dirty => rendered = V!Timeline
  /\ drawing = None => \/ rendered = None /\ list = <<>> /\ dirty
                       \/ rendered # None /\ list = Shown(rendered)
  /\ drawing # None => rendered # None /\ After(drawing, list) = Shown(rendered)

ChatInv == V!TypeOK /\ RowsFollow /\ V!VerboseKeepsFilter

LEMMA ChatStarts == V!Init => ChatInv
BY DEF V!Init, ChatInv, V!TypeOK, RowsFollow, V!VerboseKeepsFilter, V!Lines

LEMMA RowsAreLines == Seq(V!Entries) \subseteq V!Lines
BY SeqMonotonic DEF V!Lines

\* The chosen rows are added, or the list is filled again.
LEMMA DrawingFacts ==
  ASSUME NEW before \in Seq(V!Entries), NEW now \in Seq(V!Entries), Distinct(now),
         NEW l \in V!Lines, before # <<>> => l = before
  PROVE  V!Drawing(before, now) \in V!Drawings /\ After(V!Drawing(before, now), l) = Shown(now)
<1> DEFINE new == V!Cardinality(V!IdsOf(now) \ V!IdsOf(before))
<1>1. CASE before # <<>> /\ V!IsPrefix(before, now)
  <2> DEFINE rows == SubSeq(now, Len(now) - new + 1, Len(now))
  <2>1. V!Drawing(before, now) = [how |-> "extend", rows |-> rows]
    BY <1>1 DEF V!Drawing
  <2>2. rows \in Seq(V!Entries) /\ before \o rows = now
    BY <1>1, Extends
  <2>3. now # <<>> /\ l = before
    BY <1>1, <2>2, ConcatProperties, EmptySeq
  <2> HIDE DEF rows
  <2> QED
    BY <2>1, <2>2, <2>3, RowsAreLines DEF After, Shown, V!Drawings
<1>2. CASE before # <<>> /\ ~V!IsPrefix(before, now) /\ V!IsSuffix(before, now)
  <2> DEFINE rows == SubSeq(now, 1, new)
  <2>1. V!Drawing(before, now) = [how |-> "insert", rows |-> rows]
    BY <1>2 DEF V!Drawing
  <2>2. rows \in Seq(V!Entries) /\ rows \o before = now
    BY <1>2, Inserts
  <2>3. now # <<>> /\ l = before
    BY <1>2, <2>2, ConcatProperties, EmptySeq
  <2> HIDE DEF rows
  <2> QED
    BY <2>1, <2>2, <2>3, RowsAreLines DEF After, Shown, V!Drawings
<1>3. CASE ~(before # <<>> /\ V!IsPrefix(before, now))
           /\ ~(before # <<>> /\ ~V!IsPrefix(before, now) /\ V!IsSuffix(before, now))
  <2>1. V!Drawing(before, now) = [how |-> "refill", rows |-> Shown(now)]
    BY <1>3 DEF V!Drawing, Shown
  <2>2. Shown(now) \in V!Lines
    <3>1. <<None>> \in V!Lines
      BY DEF V!Lines
    <3> QED
      BY <3>1, RowsAreLines DEF Shown
  <2> QED
    BY <2>1, <2>2 DEF After, V!Drawings
<1> QED
  BY <1>1, <1>2, <1>3

\* Messages arrive and change, and are drawn later.
LEMMA StoreStep ==
  ASSUME ChatInv, NEW i \in V!Ids,
         V!Arrive(i) \/ V!Prepend(i) \/ V!Replace \/ V!Update(i) \/ V!ToggleExpand(i)
  PROVE  ChatInv'
<1>1. /\ UNCHANGED <<allowed, saved, previous, rendered, list, drawing>> /\ dirty' = TRUE
  BY DEF V!Arrive, V!Prepend, V!Replace, V!Receive, V!Update, V!ToggleExpand, V!filter, V!drawn,
         V!store
<1>2. held' \subseteq V!Ids /\ expanded' \subseteq V!Ids /\ updated' \subseteq V!Ids
  <2>1. \A a, b \in V!Ids : a..b \subseteq V!Ids
    BY Numbered
  <2> QED
    BY <2>1 DEF V!Arrive, V!Prepend, V!Replace, V!Receive, V!Update, V!ToggleExpand, ChatInv,
                V!TypeOK
<1> QED
  BY <1>1, <1>2 DEF ChatInv, V!TypeOK, RowsFollow, V!VerboseKeepsFilter

\* The filter is chosen or the verbose view switched, and drawn later.
LEMMA FilterStep ==
  ASSUME ChatInv, V!Filter \/ V!ToggleVerbose
  PROVE  ChatInv'
<1>1. /\ UNCHANGED <<held, updated, expanded, rendered, list, drawing>> /\ dirty' = TRUE
  BY DEF V!Filter, V!Chooses, V!ToggleVerbose, V!drawn, V!store
<1>2. V!TypeOK' /\ RowsFollow'
  BY <1>1 DEF ChatInv, V!TypeOK, RowsFollow
<1>3. V!VerboseKeepsFilter'
  BY DEF V!Filter, V!Chooses, V!ToggleVerbose, V!Prefers, V!Applied, ChatInv, V!VerboseKeepsFilter
<1> QED
  BY <1>2, <1>3 DEF ChatInv

\* The room is opened again (enter_room).
LEMMA ReopenStep ==
  ASSUME ChatInv, V!Reopen
  PROVE  ChatInv'
BY EmptySeq DEF V!Reopen, ChatInv, V!TypeOK, RowsFollow, V!VerboseKeepsFilter, V!Lines

\* What is new is handed to the list (_render_chat).
LEMMA RenderStep ==
  ASSUME ChatInv, V!Render
  PROVE  ChatInv'
<1>1. /\ UNCHANGED <<held, updated, expanded, allowed, saved, previous, list>>
      /\ dirty /\ drawing = None /\ dirty' = FALSE /\ rendered' = V!Timeline
  BY DEF V!Render, V!store, V!filter
<1>2. V!Timeline' = V!Timeline
  BY <1>1 DEF V!Timeline, V!IsVisible, V!Nth
<1>3. V!Timeline \in Seq(V!Entries) /\ Distinct(V!Timeline)
  BY TimelineFacts DEF ChatInv
<1>4. V!Timeline # None /\ \A d \in V!Drawings : d # None
  BY <1>3, ChatAssumption
<1> DEFINE before == IF rendered = None THEN <<>> ELSE rendered
<1>5. before \in Seq(V!Entries) /\ list \in V!Lines /\ (before # <<>> => list = before)
  BY <1>1, EmptySeq DEF ChatInv, V!TypeOK, RowsFollow, Shown
<1>6. CASE rendered = V!Timeline
  <2>1. drawing' = None /\ list = Shown(V!Timeline)
    BY <1>1, <1>4, <1>6 DEF V!Render, ChatInv, RowsFollow
  <2> QED
    BY <1>1, <1>2, <1>3, <1>4, <2>1 DEF ChatInv, V!TypeOK, RowsFollow, V!VerboseKeepsFilter
<1>7. CASE rendered # V!Timeline
  <2>1. drawing' = V!Drawing(before, V!Timeline)
    BY <1>7 DEF V!Render
  <2>2. drawing' \in V!Drawings /\ After(drawing', list) = Shown(V!Timeline)
    BY <1>3, <1>5, <2>1, DrawingFacts
  <2> QED
    BY <1>1, <1>2, <1>3, <1>4, <2>2 DEF ChatInv, V!TypeOK, RowsFollow, V!VerboseKeepsFilter
<1> QED
  BY <1>6, <1>7

\* The list has done what it was given.
LEMMA DrawnStep ==
  ASSUME ChatInv, V!Drawn
  PROVE  ChatInv'
<1>1. /\ UNCHANGED <<held, updated, expanded, allowed, saved, previous, rendered, dirty>>
      /\ drawing # None /\ drawing' = None /\ list' = After(drawing, list)
  BY DEF V!Drawn, V!store, V!filter, After
<1>2. rendered # None /\ list' = Shown(rendered) /\ rendered \in Seq(V!Entries)
  BY <1>1 DEF ChatInv, V!TypeOK, RowsFollow
<1>3. list' \in V!Lines
  <2>1. <<None>> \in V!Lines
    BY DEF V!Lines
  <2> QED
    BY <1>2, <2>1, RowsAreLines DEF Shown
<1>4. V!Timeline' = V!Timeline
  BY <1>1 DEF V!Timeline, V!IsVisible, V!Nth
<1> QED
  BY <1>1, <1>2, <1>3, <1>4 DEF ChatInv, V!TypeOK, RowsFollow, V!VerboseKeepsFilter

\* Every step of the screen keeps the invariant.
LEMMA ChatSteps ==
  ASSUME ChatInv, [V!Next]_chatVars
  PROVE  ChatInv'
<1>1. CASE UNCHANGED chatVars
  <2>1. V!Timeline' = V!Timeline
    BY <1>1 DEF chatVars, V!Timeline, V!IsVisible, V!Nth
  <2> QED
    BY <1>1, <2>1 DEF chatVars, ChatInv, V!TypeOK, RowsFollow, V!VerboseKeepsFilter
<1>2. CASE V!Next
  <2>1. CASE \E i \in V!Ids :
               V!Arrive(i) \/ V!Prepend(i) \/ V!Update(i) \/ V!ToggleExpand(i)
    BY <2>1, StoreStep
  <2>2. CASE V!Replace
    BY <2>2, StoreStep DEF V!Replace
  <2> QED
    BY <1>2, <2>1, <2>2, FilterStep, ReopenStep, RenderStep, DrawnStep DEF V!Next
<1> QED
  BY <1>1, <1>2

\* When nothing is left to draw the list shows the timeline.
LEMMA ChatDrawn == ChatInv => V!ChatIsDrawn
<1> SUFFICES ASSUME ChatInv PROVE V!RowsAreTimeline
  BY DEF ChatInv, V!ChatIsDrawn
<1> QED
  BY DEF ChatInv, RowsFollow, Shown, V!RowsAreTimeline

-----------------------------------------------------------------------------
(* The parts together.                                                     *)

PartsInv ==
  Inductive /\ RosterInv /\ RegistrationInv /\ RepoInv /\ ChatInv /\ WorktreeInv

LEMMA PartsStart == PartInit => PartsInv
BY InitInductive, RosterStarts, RegistrationStarts, RepoStarts, ChatStarts, WorktreesStart
   DEF PartInit, PartsInv

\* A step of one part leaves the others alone.
LEMMA PartsStep ==
  ASSUME [PartNext]_partVars
  PROVE  /\ [Next]_vars /\ [P!Next]_rosterVars /\ [R!Next]_registrationVars
         /\ [G!Next]_repoVars /\ [V!Next]_chatVars /\ [T!Next]_worktreeVars
BY DEF PartNext, partVars

LEMMA PartsKeep == PartsInv /\ [PartNext]_partVars => PartsInv'
<1> SUFFICES ASSUME PartsInv, [PartNext]_partVars PROVE PartsInv'
  OBVIOUS
<1>1. Inductive' /\ RosterInv'
  BY PartsStep, StepInductive, RosterSteps DEF PartsInv
<1>2. RegistrationInv' /\ RepoInv'
  BY PartsStep, RegistrationSteps, RepoSteps DEF PartsInv
<1>3. ChatInv' /\ WorktreeInv'
  BY PartsStep, ChatSteps, WorktreeSteps DEF PartsInv
<1> QED
  BY <1>1, <1>2, <1>3 DEF PartsInv

LEMMA PartsAlways == PartSpec => []PartsInv
BY PartsStart, PartsKeep, PTL DEF PartSpec

\* The variables of every part keep their types.
THEOREM PartsHaveTypes == PartSpec => []PartsTypeOK
<1>1. PartsInv => PartsTypeOK
  BY DEF PartsInv, PartsTypeOK, Inductive, RosterInv, RosterTypes, RegistrationInv,
         RegistrationTypes, RepoInv, ChatInv, WorktreeInv
<1> QED
  BY <1>1, PartsAlways, PTL

\* A settled screen shows the platform's roster and can change it, a list with
\* nothing left to draw shows the timeline that the filter allows, the plugin
\* is handed out committed, and git never refuses a worktree (RoomDetailScreen,
\* _render_chat, _materialize_plugin, codex_worktrees).
THEOREM RecordsStayAgreed == PartSpec => []RecordsAgree
<1>1. PartsInv => RecordsAgree
  BY ChatDrawn DEF PartsInv, RecordsAgree, RosterInv, RepoInv, WorktreeInv
<1> QED
  BY <1>1, PartsAlways, PTL

\* A key lasts as long as its agent, a snapshot is the file, nothing stays
\* half registered, and no profile is dropped by the save of another one,
\* whatever step failed (ManagedAgentStore, create_agent, delete_agent).
THEOREM RegistrationStaysWhole == PartSpec => RegistrationIsWhole
<1>1. PartsInv => R!KeyLastsAsItsAgent /\ R!SnapshotIsFile /\ R!NothingHalfRegistered
  BY NothingHalf DEF PartsInv, RegistrationInv
<1>2. PartsInv /\ [PartNext]_partVars
        => [\A i \in Agents : ~diverged' /\ file'[i] # R!Normalized(file[i]) /\ file'[i] # file[i]
              => \E p \in Panes : task[p].id = i /\ task'[p] = R!Idle]_(R!registrationVars)
  BY PartsStep, ProfilesKept DEF PartsInv, registrationVars, R!registrationVars
<1> QED
  BY <1>1, <1>2, PartsAlways, PTL DEF PartSpec, RegistrationIsWhole, R!RegistrationIsWhole,
     R!ProfilesAreKept
=============================================================================
