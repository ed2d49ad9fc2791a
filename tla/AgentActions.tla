----------------------------- MODULE AgentActions -----------------------------
(***************************************************************************)
(* Starting, stopping and deleting local agents from one Band pane:        *)
(* tui/managed_agent_actions.py (mixed into the agents and room screens),  *)
(* ManagedAgentOperations, the run state of AgentsStore, AgentsScreen's    *)
(* delete and the poll of ControlApp.  The supervisor is reduced to what   *)
(* its START, STOP and LIST answers do (module Supervisor has the rest).   *)
(* What a row displays of an agent's harness is left out.                  *)
(***************************************************************************)
EXTENDS Naturals, FiniteSets

CONSTANTS Agents, Harnesses,
          Attempts,      \* PREFLIGHT_HARNESS_STABILITY_ATTEMPTS
          MaxChanges,    \* bound: profiles changed, workers that die by themselves
          Modes,         \* which of the following may happen in a behaviour:
                         \* "lossy": requests fail and flows are cancelled;
                         \* "eager": the user starts an agent that is being deleted
          None

VARIABLES worker,   \* the supervisor's worker: "none", "up", "stopping"
          profile,  \* the durable harness of every agent, None without a profile
          listed,   \* AgentsStore.agents
          shown,    \* AgentsStore.running_ids
          wanted,   \* AgentsStore.stop_after_start_ids
          begun,    \* AgentsStore.starting_ids
          deleting, \* AgentsStore.deleting_ids
          start,    \* _start_managed_agent of every agent
          stop,     \* _stop_managed_agent, one exclusive worker
          delete,   \* _delete_agent, one exclusive worker
          confirm,  \* AgentsScreen._pending_delete_id
          poll,     \* _reconcile_workers: the running ids that LIST answered
          changes,
          mode,
          rash      \* history: agents whose start began while they were being deleted

actionVars == <<worker, profile, listed, shown, wanted, begun, deleting,
                start, stop, delete, confirm, poll, changes, mode, rash>>
store == <<listed, shown, wanted, begun, deleting>>
world == <<worker, profile, changes, mode, rash>>

Flow == [at : {"idle", "preflight", "consent", "start", "started", "stop", "stopped"},
         harness : Harnesses \cup {None}, left : 0..Attempts, answer : BOOLEAN]
NoFlow == [at |-> "idle", harness |-> None, left |-> 0, answer |-> FALSE]
Request == [agent : Agents \cup {None}, at : {"idle", "stop", "stopped", "platform"},
            answer : BOOLEAN]
NoRequest == [agent |-> None, at |-> "idle", answer |-> FALSE]

Init ==
  /\ worker = [a \in Agents |-> "none"]
  /\ profile \in [Agents -> Harnesses]
  /\ listed = Agents /\ shown = {} /\ wanted = {} /\ begun = {} /\ deleting = {}
  /\ start = [a \in Agents |-> NoFlow]
  /\ stop = NoRequest /\ delete = NoRequest /\ confirm = None
  /\ poll = None /\ changes = 0 /\ mode \in Modes /\ rash = {}

Marks(a, running) == shown' = IF running THEN shown \cup {a} ELSE shown \ {a}

-----------------------------------------------------------------------------
(* start_managed_agent and its worker.                                     *)

PressStart(a) ==
  /\ a \in listed /\ a \notin shown \cup begun
  /\ "eager" \in mode \/ a \notin deleting
  /\ begun' = begun \cup {a}
  /\ start' = [start EXCEPT ![a] =
       [at |-> "preflight", harness |-> profile[a], left |-> Attempts, answer |-> FALSE]]
  /\ rash' = rash \cup ({a} \cap deleting)
  /\ UNCHANGED <<listed, shown, wanted, deleting, stop, delete, confirm, poll, worker, profile,
                 changes, mode>>

\* The worker's finally clause.
FinishStart(a) ==
  /\ start' = [start EXCEPT ![a] = NoFlow]
  /\ begun' = begun \ {a} /\ wanted' = wanted \ {a}

GivesUp(a) == FinishStart(a) /\ UNCHANGED <<listed, shown, deleting>>

(***************************************************************************)
(* The preflight of start[a].harness ends.  The profile is read again and  *)
(* must still name that harness, or the next attempt is made; a worker     *)
(* that meanwhile appeared ends the start.                                 *)
(***************************************************************************)
Preflighted(a) ==
  LET fresh == profile[a] IN
  /\ start[a].at = "preflight"
  /\ \/ /\ fresh = start[a].harness /\ fresh # None /\ a \notin shown
        /\ start' = [start EXCEPT ![a].at = "consent"]
        /\ UNCHANGED store
     \/ /\ fresh \notin {None, start[a].harness} /\ start[a].left > 1
        /\ start' = [start EXCEPT ![a] =
             [at |-> "preflight", harness |-> fresh, left |-> start[a].left - 1, answer |-> FALSE]]
        /\ UNCHANGED store
     \/ \* no profile, HarnessUnavailableError, running, or unstable
        GivesUp(a)
  /\ UNCHANGED <<stop, delete, confirm, poll, world>>

(***************************************************************************)
(* _apply_git_init_consent: nothing to ask, or the answer of a screen that *)
(* may stay open for long; a decline is recorded in the profile, a failed  *)
(* git init ends the start.  Then START is sent.                           *)
(***************************************************************************)
Consented(a) ==
  /\ start[a].at = "consent"
  /\ \/ /\ start' = [start EXCEPT ![a].at = "start"]
        /\ UNCHANGED store
     \/ GivesUp(a)
  /\ UNCHANGED <<stop, delete, confirm, poll, world>>

\* SupervisorServer._start_worker, which reads the profile from its file.
StartHandled(a) ==
  /\ start[a].at = "start"
  /\ \/ /\ worker[a] = "none" /\ profile[a] # None
        /\ worker' = [worker EXCEPT ![a] = "up"]
     \/ worker[a] # "none" /\ UNCHANGED worker
  /\ start' = [start EXCEPT ![a].at = "started"]
  /\ UNCHANGED <<store, stop, delete, confirm, poll, profile, changes, mode, rash>>

StartRefused(a) ==
  /\ start[a].at = "start" /\ worker[a] = "none" /\ profile[a] = None
  /\ GivesUp(a)
  /\ UNCHANGED <<stop, delete, confirm, poll, world>>

\* The answer of START meets a stop that was asked for meanwhile, or not.
Started(a) ==
  /\ start[a].at = "started"
  /\ IF a \in wanted
     THEN /\ start' = [start EXCEPT ![a].at = "stop"]
          /\ UNCHANGED store
     ELSE Marks(a, TRUE) /\ FinishStart(a) /\ UNCHANGED <<listed, deleting>>
  /\ UNCHANGED <<stop, delete, confirm, poll, world>>

\* SupervisorServer._stop_worker, and the record that it answers, if any.
Told(a) == worker' = [worker EXCEPT ![a] = IF @ = "up" THEN "stopping" ELSE @]

StopAfterStartHandled(a) ==
  /\ start[a].at = "stop"
  /\ Told(a)
  /\ start' = [start EXCEPT ![a] = [at |-> "stopped", harness |-> start[a].harness,
                                    left |-> start[a].left, answer |-> worker[a] # "none"]]
  /\ UNCHANGED <<store, stop, delete, confirm, poll, profile, changes, mode, rash>>

StoppedAfterStart(a) ==
  /\ start[a].at = "stopped"
  /\ Marks(a, start[a].answer) /\ FinishStart(a) /\ UNCHANGED <<listed, deleting>>
  /\ UNCHANGED <<stop, delete, confirm, poll, world>>

\* The connection or the supervisor fails, or the screen is gone: a request
\* under way has been handled or never will be.
StartFails(a) ==
  /\ "lossy" \in mode /\ start[a].at # "idle"
  /\ \/ /\ start[a].at = "start" /\ worker[a] = "none" /\ profile[a] # None
        /\ worker' = [worker EXCEPT ![a] = "up"]
     \/ start[a].at = "stop" /\ Told(a)
     \/ UNCHANGED worker
  /\ GivesUp(a)
  /\ UNCHANGED <<stop, delete, confirm, poll, profile, changes, mode, rash>>

-----------------------------------------------------------------------------
(* stop_managed_agent and its worker.                                      *)

PressStop(a) ==
  /\ a \in listed
  /\ \/ /\ a \in begun
        /\ wanted' = wanted \cup {a}
        /\ UNCHANGED <<worker, stop>>
     \/ /\ a \in shown \ begun
        \* The exclusive worker cancels the one before, whose request was
        \* handled or never will be.
        /\ (stop.at = "stop" /\ Told(stop.agent)) \/ UNCHANGED worker
        /\ stop' = [agent |-> a, at |-> "stop", answer |-> FALSE]
        /\ UNCHANGED wanted
  /\ UNCHANGED <<listed, shown, begun, deleting, start, delete, confirm, poll, profile, changes, mode, rash>>

StopHandled ==
  /\ stop.at = "stop"
  /\ Told(stop.agent)
  /\ stop' = [agent |-> stop.agent, at |-> "stopped", answer |-> worker[stop.agent] # "none"]
  /\ UNCHANGED <<store, start, delete, confirm, poll, profile, changes, mode, rash>>

Stopped ==
  /\ stop.at = "stopped"
  /\ Marks(stop.agent, stop.answer) /\ stop' = NoRequest
  /\ UNCHANGED <<listed, wanted, begun, deleting, start, delete, confirm, poll, world>>

StopFails ==
  /\ "lossy" \in mode /\ stop.at = "stop"
  /\ Told(stop.agent) \/ UNCHANGED worker
  /\ stop' = NoRequest
  /\ UNCHANGED <<store, start, delete, confirm, poll, profile, changes, mode, rash>>

-----------------------------------------------------------------------------
(* action_delete_agent and _delete_agent.                                  *)

BugPressDelete(a) ==
  /\ a \in listed /\ deleting = {}
  /\ IF confirm # a
     THEN confirm' = a /\ UNCHANGED <<deleting, delete>>
     ELSE /\ confirm' = None
          /\ deleting' = {a}
          /\ delete' = [agent |-> a, at |-> "stop", answer |-> FALSE]
  /\ UNCHANGED <<listed, shown, wanted, begun, start, stop, poll, world>>

\* The first press asks, the second on the same row deletes.
PressDelete(a) ==
  /\ a \in listed /\ a \notin begun /\ deleting = {}
  /\ IF confirm # a
     THEN confirm' = a /\ UNCHANGED <<deleting, delete>>
     ELSE /\ confirm' = None
          /\ deleting' = {a}
          /\ delete' = [agent |-> a, at |-> "stop", answer |-> FALSE]
  /\ UNCHANGED <<listed, shown, wanted, begun, start, stop, poll, world>>

\* ManagedAgentOperations.delete stops the worker first.
DeleteStops ==
  /\ delete.at = "stop"
  /\ Told(delete.agent)
  /\ delete' = [agent |-> delete.agent, at |-> "platform",
              answer |-> worker[delete.agent] # "none"]
  /\ UNCHANGED <<store, start, stop, confirm, poll, profile, changes, mode, rash>>

\* The platform deleted the agent, or knows none: the profile goes, the row
\* and its run state too.
Deleted ==
  /\ delete.at = "platform"
  /\ profile' = [profile EXCEPT ![delete.agent] = None]
  /\ listed' = listed \ {delete.agent}
  /\ Marks(delete.agent, FALSE)
  /\ deleting' = {} /\ delete' = NoRequest
  /\ UNCHANGED <<wanted, begun, worker, start, stop, confirm, poll, changes, mode, rash>>

DeleteFails ==
  /\ "lossy" \in mode /\ delete.at # "idle"
  /\ deleting' = {} /\ delete' = NoRequest /\ rash' = rash \ {delete.agent}
  /\ UNCHANGED <<listed, shown, wanted, begun, start, stop, confirm, poll, worker, profile,
                 changes, mode>>

-----------------------------------------------------------------------------
(* The poll, the workers and the other screens.                            *)

Running == {a \in Agents : worker[a] # "none"}

PollAnswered ==
  /\ poll = None
  /\ poll' = Running
  /\ UNCHANGED <<store, start, stop, delete, confirm, world>>

BugPollApplied ==
  /\ poll # None
  /\ shown' = shown \cup poll /\ poll' = None
  /\ UNCHANGED <<listed, wanted, begun, deleting, start, stop, delete, confirm, world>>

\* replace_workers: whatever the answer, it may be older than the marks.
PollApplied ==
  /\ poll # None
  /\ shown' = poll /\ poll' = None
  /\ UNCHANGED <<listed, wanted, begun, deleting, start, stop, delete, confirm, world>>

WorkerExits(a) ==
  /\ worker[a] = "stopping" \/ (worker[a] = "up" /\ changes < MaxChanges)
  /\ changes' = IF worker[a] = "up" THEN changes + 1 ELSE changes
  /\ worker' = [worker EXCEPT ![a] = "none"]
  /\ UNCHANGED <<store, start, stop, delete, confirm, poll, profile, mode, rash>>

\* The wizard gives the agent another harness.
Reconfigure(a, h) ==
  /\ changes < MaxChanges /\ profile[a] \notin {None, h}
  /\ profile' = [profile EXCEPT ![a] = h] /\ changes' = changes + 1
  /\ UNCHANGED <<store, start, stop, delete, confirm, poll, worker, mode, rash>>

-----------------------------------------------------------------------------
StartStep(a) ==
  \/ Preflighted(a) \/ StartHandled(a) \/ StartRefused(a) \/ Started(a)
  \/ StopAfterStartHandled(a) \/ StoppedAfterStart(a)

Next ==
  \/ \E a \in Agents : PressStart(a) \/ PressStop(a) \/ PressDelete(a)
  \/ \E a \in Agents : StartStep(a) \/ Consented(a) \/ StartFails(a) \/ WorkerExits(a)
  \/ \E a \in Agents, h \in Harnesses : Reconfigure(a, h)
  \/ StopHandled \/ Stopped \/ StopFails
  \/ DeleteStops \/ Deleted \/ DeleteFails
  \/ PollAnswered \/ PollApplied

\* Workers of the event loop proceed, the supervisor answers, the interval
\* polls and a worker that was told to stop exits; no user must answer.
Fairness ==
  /\ \A a \in Agents : /\ WF_actionVars(StartStep(a))
                       /\ WF_actionVars(worker[a] = "stopping" /\ WorkerExits(a))
  /\ WF_actionVars(StopHandled \/ Stopped)
  /\ WF_actionVars(DeleteStops \/ Deleted)
  /\ WF_actionVars(PollAnswered \/ PollApplied)

-----------------------------------------------------------------------------
TypeOK ==
  /\ worker \in [Agents -> {"none", "up", "stopping"}]
  /\ profile \in [Agents -> Harnesses \cup {None}]
  /\ listed \subseteq Agents /\ shown \subseteq Agents /\ wanted \subseteq Agents
  /\ begun \subseteq Agents /\ deleting \subseteq Agents
  /\ start \in [Agents -> Flow]
  /\ stop \in Request /\ delete \in Request
  /\ confirm \in Agents \cup {None}
  /\ poll \in (SUBSET Agents) \cup {None} /\ changes \in 0..MaxChanges
  /\ rash \subseteq Agents

(***************************************************************************)
(* A stop that was asked for during a start belongs to that start: none is *)
(* left behind that would stop the agent after a later start, and an agent *)
(* that may be neither started nor deleted because it is starting has a    *)
(* start under way (finish_start).                                         *)
(***************************************************************************)
StopBelongsToStart ==
  /\ wanted \subseteq begun
  /\ begun = {a \in Agents : start[a].at # "idle"}

\* The pane stops showing an agent as running when its worker is gone.
ShownFollowsWorker == \A a \in Agents : worker[a] = "none" ~> (a \notin shown \/ worker[a] # "none")

\* A start ends or waits for the user's consent.
StartEnds == \A a \in Agents : a \in begun ~> (a \notin begun \/ start[a].at = "consent")

(***************************************************************************)
(* A deleted agent has no worker that was not told to stop, unless the     *)
(* user started it while it was being deleted: action_delete_agent waits   *)
(* for a start under way, and delete stops the worker first.               *)
(***************************************************************************)
DeletedIsStopped == \A a \in Agents : a \notin listed \cup rash => worker[a] # "up"

\* Deleting an agent stops it, whatever the user presses meanwhile; but
\* start_managed_agent does not look whether the agent is being deleted.
DeletingStops == \A a \in Agents : a \notin listed => worker[a] # "up"

(***************************************************************************)
(* A start that was answered does not end with the worker running when the *)
(* user has asked for a stop meanwhile, whenever that was; unless the      *)
(* answer of START or of the stop behind it was lost.                      *)
(***************************************************************************)
StopIsHonoured ==
  [][\A a \in wanted : a \notin wanted' /\ start[a].at \in {"started", "stop", "stopped"}
        => StartFails(a) \/ worker'[a] # "up"]_actionVars

\* What is wanted of an agent is done to it.
RunStateIsTrue == [](StopBelongsToStart /\ DeletedIsStopped) /\ StopIsHonoured

\* The pane's view of an agent catches up, and its starts end.
RunStateSettles == ShownFollowsWorker /\ StartEnds
=============================================================================
