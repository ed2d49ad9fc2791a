----------------------------- MODULE FlowsProofs -----------------------------
(***************************************************************************)
(* The flows of module Flows for any values of its constants.  What a user *)
(* wants of an agent is done to it, what the wizard submits fits together  *)
(* and is submitted once, and every part's state has its type.             *)
(***************************************************************************)
EXTENDS Flows, FiniteSetTheorems, SequenceTheorems, TLAPS

-----------------------------------------------------------------------------
(* AgentActions: the inductive invariant.                                  *)

\* A request under way is about an agent (stop_managed_agent, _delete_agent).
RequestsAreNamed ==
  /\ stop.at # "idle" => stop.agent \in Agents
  /\ delete.at # "idle" => delete.agent \in Agents

\* What is deleted is listed until it is gone, is not being started unless the
\* user begins to while it is deleted, and was told to stop before the platform
\* is asked (ManagedAgentOperations.delete).  A start that stops its worker has
\* told it when the answer arrives.
TellsAreOrderly ==
  /\ delete.at # "idle" => delete.agent \in deleting /\ delete.agent \in listed
  /\ \A a \in begun \ rash : a \in listed /\ a \notin deleting
  /\ delete.at = "platform" => delete.agent \in rash \/ worker[delete.agent] # "up"
  /\ \A a \in Agents : start[a].at = "stopped" => worker[a] # "up"

Inductive ==
  /\ A!TypeOK /\ RequestsAreNamed /\ TellsAreOrderly
  /\ A!StopBelongsToStart /\ A!DeletedIsStopped

-----------------------------------------------------------------------------
(* Types.                                                                  *)

\* No start and no request is under way (AgentActions.Init).
LEMMA Nothing ==
  ASSUME FlowsAssumption
  PROVE  /\ A!NoFlow \in A!Flow /\ A!NoFlow.at = "idle"
         /\ A!NoRequest \in A!Request /\ A!NoRequest.at = "idle"
<1>1. 0 \in 0..Attempts
  BY DEF FlowsAssumption
<1>2. A!NoFlow \in A!Flow /\ A!NoFlow.at = "idle"
  BY <1>1 DEF A!NoFlow, A!Flow
<1>3. A!NoRequest \in A!Request /\ A!NoRequest.at = "idle"
  BY DEF A!NoRequest, A!Request
<1> QED
  BY <1>2, <1>3

\* The fields of a start under way.
LEMMA FlowFields ==
  ASSUME NEW f \in A!Flow
  PROVE  /\ f.at \in {"idle", "preflight", "consent", "start", "started", "stop", "stopped"}
         /\ f.harness \in Harnesses \cup {None} /\ f.left \in 0..Attempts
         /\ f.answer \in BOOLEAN
BY DEF A!Flow

\* Where a start is changes (_start_managed_agent).
LEMMA Moves ==
  ASSUME start \in [Agents -> A!Flow], NEW a \in Agents,
         NEW place \in {"preflight", "consent", "start", "started", "stop", "stopped"},
         start' = [start EXCEPT ![a].at = place]
  PROVE  /\ start' \in [Agents -> A!Flow] /\ start'[a].at = place
         /\ \A b \in Agents \ {a} : start'[b] = start[b]
BY DEF A!Flow

\* A worker that is told to stop no longer counts as up
\* (SupervisorServer._stop_worker).
LEMMA Tells ==
  ASSUME A!TypeOK, NEW a \in Agents, A!Told(a)
  PROVE  /\ worker' \in [Agents -> {"none", "up", "stopping"}]
         /\ worker'[a] # "up"
         /\ \A b \in Agents : worker'[b] = "up" => worker[b] = "up"
BY DEF A!TypeOK, A!Told

-----------------------------------------------------------------------------
(* The flow that starts an agent.                                          *)

\* A start ends in its finally clause: nothing that was wanted of it is left.
LEMMA Finishes ==
  ASSUME FlowsAssumption, Inductive, NEW a \in Agents, A!FinishStart(a)
  PROVE  /\ start' \in [Agents -> A!Flow] /\ begun' \subseteq begun /\ wanted' \subseteq wanted
         /\ wanted' \subseteq begun' /\ begun' = {b \in Agents : start'[b].at # "idle"}
         /\ start'[a].at = "idle" /\ \A b \in Agents \ {a} : start'[b] = start[b]
<1> USE DEF Inductive, A!TypeOK, A!StopBelongsToStart, A!FinishStart
<1>1. start' \in [Agents -> A!Flow] /\ start'[a].at = "idle"
      /\ \A b \in Agents \ {a} : start'[b] = start[b]
  BY Nothing
<1> QED
  BY <1>1

\* A start goes on and its flags stay.
LEMMA GoesOn ==
  ASSUME Inductive, NEW a \in Agents, start' \in [Agents -> A!Flow], start'[a].at # "idle",
         start[a].at # "idle", \A b \in Agents \ {a} : start'[b] = start[b],
         UNCHANGED <<begun, wanted>>
  PROVE  A!StopBelongsToStart'
BY DEF Inductive, A!TypeOK, A!StopBelongsToStart

\* Every step of a start: the press, the preflight, the consent, START and
\* the answers.
LEMMA StartKeeps ==
  ASSUME FlowsAssumption, Inductive, NEW a \in Agents,
         \/ A!PressStart(a) \/ A!StartStep(a) \/ A!Consented(a) \/ A!StartFails(a)
  PROVE  Inductive'
<1> USE DEF Inductive, A!TypeOK, A!store, A!world
<1>a. profile[a] \in Harnesses \cup {None} /\ start[a] \in A!Flow /\ start[a].left \in 0..Attempts
      /\ start[a].answer \in BOOLEAN /\ start[a].harness \in Harnesses \cup {None}
  BY FlowFields
<1>b. a \in begun <=> start[a].at # "idle"
  BY DEF A!StopBelongsToStart
<1>1. ASSUME A!FinishStart(a), start[a].at # "idle", UNCHANGED <<listed, deleting>>,
             shown' \subseteq Agents, UNCHANGED <<stop, delete, confirm, poll, profile, changes, mode, rash>>,
             worker' \in [Agents -> {"none", "up", "stopping"}],
             \A b \in Agents \ {a} : worker'[b] = worker[b],
             worker'[a] = "up" => worker[a] = "up" \/ start[a].at = "start"
      PROVE  Inductive'
  <2>1. A!TypeOK' /\ A!StopBelongsToStart'
    BY <1>1, Finishes DEF A!StopBelongsToStart
  <2>2. RequestsAreNamed'
    BY <1>1 DEF RequestsAreNamed
  <2>3. TellsAreOrderly'
    BY <1>1, <1>b, Finishes DEF TellsAreOrderly, RequestsAreNamed
  <2>4. A!DeletedIsStopped'
    BY <1>1, <1>b DEF A!DeletedIsStopped, TellsAreOrderly
  <2> QED
    BY <2>1, <2>2, <2>3, <2>4
<1>2. ASSUME start' \in [Agents -> A!Flow], start'[a].at # "idle", start[a].at # "idle",
             \A b \in Agents \ {a} : start'[b] = start[b],
             UNCHANGED <<listed, shown, wanted, begun, deleting>>,
             UNCHANGED <<stop, delete, confirm, poll, profile, changes, mode, rash>>,
             worker' \in [Agents -> {"none", "up", "stopping"}],
             \A b \in Agents \ {a} : worker'[b] = worker[b],
             worker'[a] = "up" => worker[a] = "up" \/ start[a].at = "start",
             start'[a].at = "stopped" => worker'[a] # "up"
      PROVE  Inductive'
  <2>1. A!TypeOK' /\ A!StopBelongsToStart'
    BY <1>2, GoesOn
  <2>2. RequestsAreNamed'
    BY <1>2 DEF RequestsAreNamed
  <2>3. TellsAreOrderly'
    BY <1>2, <1>b DEF TellsAreOrderly, RequestsAreNamed
  <2>4. A!DeletedIsStopped'
    BY <1>2, <1>b DEF A!DeletedIsStopped, TellsAreOrderly
  <2> QED
    BY <2>1, <2>2, <2>3, <2>4
<1>3. CASE A!PressStart(a)
  <2> DEFINE f == [at |-> "preflight", harness |-> profile[a], left |-> Attempts, answer |-> FALSE]
  <2>1. f \in A!Flow /\ f.at = "preflight"
    BY <1>a, FlowsAssumption DEF FlowsAssumption, A!Flow
  <2>2. start' = [start EXCEPT ![a] = f] /\ begun' = begun \cup {a} /\ a \in listed
        /\ rash' = rash \cup ({a} \cap deleting)
        /\ UNCHANGED <<listed, shown, wanted, deleting, stop, delete, confirm, poll, worker, profile, changes, mode>>
    BY <1>3 DEF A!PressStart
  <2> HIDE DEF f
  <2>3. start' \in [Agents -> A!Flow] /\ start'[a] = f
        /\ \A b \in Agents \ {a} : start'[b] = start[b]
    BY <2>1, <2>2
  <2>4. A!TypeOK' /\ A!StopBelongsToStart'
    BY <2>1, <2>2, <2>3 DEF A!StopBelongsToStart
  <2>5. RequestsAreNamed' /\ TellsAreOrderly' /\ A!DeletedIsStopped'
    BY <2>1, <2>2, <2>3 DEF RequestsAreNamed, TellsAreOrderly, A!DeletedIsStopped
  <2> QED
    BY <2>4, <2>5
<1>4. CASE A!Preflighted(a)
  <2>1. CASE A!GivesUp(a)
    BY <1>4, <2>1, <1>1 DEF A!Preflighted, A!GivesUp
  <2>2. ASSUME start' = [start EXCEPT ![a].at = "consent"], UNCHANGED A!store
        PROVE  Inductive'
    <3>1. start' \in [Agents -> A!Flow] /\ start'[a].at = "consent"
          /\ \A b \in Agents \ {a} : start'[b] = start[b]
      BY <2>2, Moves
    <3> QED
      BY <1>4, <2>2, <3>1, <1>2 DEF A!Preflighted
  <2>3. ASSUME start' = [start EXCEPT ![a] = [at |-> "preflight", harness |-> profile[a],
                                              left |-> start[a].left - 1, answer |-> FALSE]],
               start[a].left > 1, UNCHANGED A!store
        PROVE  Inductive'
    <3> DEFINE f == [at |-> "preflight", harness |-> profile[a], left |-> start[a].left - 1,
                     answer |-> FALSE]
    <3>1. start[a].left - 1 \in 0..Attempts
      BY <1>a, <2>3, FlowsAssumption DEF FlowsAssumption
    <3>2. f \in A!Flow /\ f.at = "preflight"
      BY <1>a, <3>1 DEF A!Flow
    <3>3. start' = [start EXCEPT ![a] = f]
      BY <2>3
    <3> HIDE DEF f
    <3>4. start' \in [Agents -> A!Flow] /\ start'[a].at = "preflight"
          /\ \A b \in Agents \ {a} : start'[b] = start[b]
      BY <3>2, <3>3
    <3> QED
      BY <1>4, <2>3, <3>4, <1>2 DEF A!Preflighted
  <2> QED
    BY <1>4, <2>1, <2>2, <2>3 DEF A!Preflighted
<1>5. CASE A!Consented(a)
  <2>1. CASE A!GivesUp(a)
    BY <1>5, <2>1, <1>1 DEF A!Consented, A!GivesUp
  <2>2. ASSUME start' = [start EXCEPT ![a].at = "start"], UNCHANGED A!store
        PROVE  Inductive'
    <3>1. start' \in [Agents -> A!Flow] /\ start'[a].at = "start"
          /\ \A b \in Agents \ {a} : start'[b] = start[b]
      BY <2>2, Moves
    <3> QED
      BY <1>5, <2>2, <3>1, <1>2 DEF A!Consented
  <2> QED
    BY <1>5, <2>1, <2>2 DEF A!Consented
<1>6. CASE A!StartHandled(a)
  <2>1. start' \in [Agents -> A!Flow] /\ start'[a].at = "started"
        /\ \A b \in Agents \ {a} : start'[b] = start[b]
    BY <1>6, Moves DEF A!StartHandled
  <2> QED
    BY <1>6, <2>1, <1>2 DEF A!StartHandled
<1>7. CASE A!StartRefused(a)
  BY <1>7, <1>1 DEF A!StartRefused, A!GivesUp
<1>8. CASE A!Started(a)
  <2>1. CASE a \in wanted
    <3>1. start' \in [Agents -> A!Flow] /\ start'[a].at = "stop"
          /\ \A b \in Agents \ {a} : start'[b] = start[b]
      BY <1>8, <2>1, Moves DEF A!Started
    <3> QED
      BY <1>8, <2>1, <3>1, <1>2 DEF A!Started
  <2>2. CASE a \notin wanted
    BY <1>8, <2>2, <1>1 DEF A!Started, A!Marks
  <2> QED
    BY <2>1, <2>2
<1>9. CASE A!StopAfterStartHandled(a)
  <2> DEFINE f == [at |-> "stopped", harness |-> start[a].harness, left |-> start[a].left,
                   answer |-> worker[a] # "none"]
  <2>1. (worker[a] # "none") \in BOOLEAN
    OBVIOUS
  <2>2. f \in A!Flow /\ f.at = "stopped"
    BY <1>a, <2>1 DEF A!Flow
  <2>3. start' = [start EXCEPT ![a] = f]
    BY <1>9 DEF A!StopAfterStartHandled
  <2> HIDE DEF f
  <2>4. start' \in [Agents -> A!Flow] /\ start'[a].at = "stopped"
        /\ \A b \in Agents \ {a} : start'[b] = start[b]
    BY <2>2, <2>3
  <2>5. A!Told(a) /\ \A b \in Agents \ {a} : worker'[b] = worker[b]
    BY <1>9 DEF A!StopAfterStartHandled, A!Told
  <2> QED
    BY <1>9, <2>4, <2>5, <1>2, Tells DEF A!StopAfterStartHandled
<1>10. CASE A!StoppedAfterStart(a)
  BY <1>10, <1>1 DEF A!StoppedAfterStart, A!Marks
<1>11. CASE A!StartFails(a)
  <2>1. /\ worker' \in [Agents -> {"none", "up", "stopping"}]
        /\ \A b \in Agents \ {a} : worker'[b] = worker[b]
        /\ worker'[a] = "up" => worker[a] = "up" \/ start[a].at = "start"
    <3>1. CASE A!Told(a)
      BY <3>1, Tells DEF A!Told
    <3> QED
      BY <1>11, <3>1 DEF A!StartFails
  <2> QED
    BY <1>11, <2>1, <1>1 DEF A!StartFails, A!GivesUp
<1> QED
  BY <1>3, <1>4, <1>5, <1>6, <1>7, <1>8, <1>9, <1>10, <1>11 DEF A!StartStep

-----------------------------------------------------------------------------
(* Stopping, deleting, polling.                                            *)

\* Steps that tell a worker to stop, or leave the workers alone.
LEMMA StopKeeps ==
  ASSUME FlowsAssumption, Inductive,
         (\E a \in Agents : A!PressStop(a)) \/ A!StopHandled \/ A!Stopped \/ A!StopFails
  PROVE  Inductive'
<1> USE DEF Inductive, A!TypeOK
<1>1. ASSUME stop.at = "stop", A!Told(stop.agent)
      PROVE  /\ worker' \in [Agents -> {"none", "up", "stopping"}]
             /\ \A b \in Agents : worker'[b] = "up" => worker[b] = "up"
  BY <1>1, Tells DEF RequestsAreNamed
<1>2. ASSUME worker' \in [Agents -> {"none", "up", "stopping"}],
             \A b \in Agents : worker'[b] = "up" => worker[b] = "up",
             UNCHANGED <<listed, begun, deleting, start, delete, mode, rash>>
      PROVE  TellsAreOrderly' /\ A!DeletedIsStopped'
  BY <1>2 DEF TellsAreOrderly, A!DeletedIsStopped, RequestsAreNamed
<1>3. ASSUME NEW a \in Agents, A!PressStop(a)
      PROVE  Inductive'
  <2>1. stop' \in A!Request /\ (stop'.at # "idle" => stop'.agent \in Agents)
    <3>1. CASE a \in begun
      BY <1>3, <3>1 DEF A!PressStop, RequestsAreNamed
    <3>2. CASE a \notin begun
      <4> DEFINE r == [agent |-> a, at |-> "stop", answer |-> FALSE]
      <4>1. r \in A!Request /\ r.agent = a
        BY DEF A!Request
      <4>2. stop' = r
        BY <1>3, <3>2 DEF A!PressStop
      <4> HIDE DEF r
      <4> QED
        BY <4>1, <4>2
    <3> QED
      BY <3>1, <3>2
  <2>2. worker' \in [Agents -> {"none", "up", "stopping"}]
        /\ \A b \in Agents : worker'[b] = "up" => worker[b] = "up"
    BY <1>1, <1>3 DEF A!PressStop
  <2>3. TellsAreOrderly' /\ A!DeletedIsStopped'
    BY <1>2, <1>3, <2>2 DEF A!PressStop
  <2> QED
    BY <1>3, <2>1, <2>2, <2>3 DEF A!PressStop, A!StopBelongsToStart, RequestsAreNamed
<1>4. CASE A!StopHandled
  <2>1. stop' \in A!Request /\ stop'.agent = stop.agent
    <3> DEFINE r == [agent |-> stop.agent, at |-> "stopped", answer |-> worker[stop.agent] # "none"]
    <3>1. (worker[stop.agent] # "none") \in BOOLEAN
      OBVIOUS
    <3>2. r \in A!Request /\ r.agent = stop.agent
      BY <3>1 DEF A!Request
    <3>3. stop' = r
      BY <1>4 DEF A!StopHandled
    <3> HIDE DEF r
    <3> QED
      BY <3>2, <3>3
  <2>2. TellsAreOrderly' /\ A!DeletedIsStopped'
    BY <1>1, <1>2, <1>4 DEF A!StopHandled, A!store
  <2> QED
    BY <1>1, <1>4, <2>1, <2>2 DEF A!StopHandled, A!StopBelongsToStart, RequestsAreNamed, A!store
<1>5. CASE A!Stopped
  BY <1>5, <1>2, Nothing DEF A!Stopped, A!Marks, A!StopBelongsToStart, RequestsAreNamed, A!world
<1>6. CASE A!StopFails
  <2>1. worker' \in [Agents -> {"none", "up", "stopping"}]
        /\ \A b \in Agents : worker'[b] = "up" => worker[b] = "up"
    BY <1>1, <1>6 DEF A!StopFails
  <2> QED
    BY <1>2, <1>6, <2>1, Nothing DEF A!StopFails, A!StopBelongsToStart, RequestsAreNamed, A!store
<1> QED
  BY <1>3, <1>4, <1>5, <1>6

\* action_delete_agent and _delete_agent.
LEMMA DeleteKeeps ==
  ASSUME FlowsAssumption, Inductive,
         (\E a \in Agents : A!PressDelete(a)) \/ A!DeleteStops \/ A!Deleted \/ A!DeleteFails
  PROVE  Inductive'
<1> USE DEF Inductive, A!TypeOK
<1>1. ASSUME NEW a \in Agents, A!PressDelete(a)
      PROVE  Inductive'
  <2>1. CASE confirm # a
    BY <1>1, <2>1 DEF A!PressDelete, A!StopBelongsToStart, RequestsAreNamed, TellsAreOrderly,
                      A!DeletedIsStopped, A!world
  <2>2. CASE confirm = a
    <3> DEFINE r == [agent |-> a, at |-> "stop", answer |-> FALSE]
    <3>1. r \in A!Request /\ r.at = "stop" /\ r.agent = a /\ delete' = r
      BY <1>1, <2>2 DEF A!PressDelete, A!Request
    <3>2. deleting' = {a} /\ a \in listed /\ a \notin begun /\ confirm' = None
          /\ UNCHANGED <<listed, shown, wanted, begun, start, stop, poll, worker, profile, changes, mode, rash>>
      BY <1>1, <2>2 DEF A!PressDelete, A!world
    <3> HIDE DEF r
    <3>3. A!TypeOK'
      BY <3>1, <3>2
    <3>4. RequestsAreNamed' /\ TellsAreOrderly'
      BY <3>1, <3>2 DEF RequestsAreNamed, TellsAreOrderly
    <3>5. A!StopBelongsToStart' /\ A!DeletedIsStopped'
      BY <3>2 DEF A!StopBelongsToStart, A!DeletedIsStopped
    <3> QED
      BY <3>3, <3>4, <3>5
  <2> QED
    BY <2>1, <2>2
<1>2. CASE A!DeleteStops
  <2>1. delete.agent \in Agents /\ A!Told(delete.agent)
    BY <1>2 DEF A!DeleteStops, RequestsAreNamed
  <2>2. /\ worker' \in [Agents -> {"none", "up", "stopping"}]
        /\ worker'[delete.agent] # "up"
        /\ \A b \in Agents : worker'[b] = "up" => worker[b] = "up"
    BY <2>1, Tells
  <2>3. delete' \in A!Request /\ delete'.agent = delete.agent /\ delete'.at = "platform"
    <3> DEFINE r == [agent |-> delete.agent, at |-> "platform", answer |-> worker[delete.agent] # "none"]
    <3>1. (worker[delete.agent] # "none") \in BOOLEAN
      OBVIOUS
    <3>2. r \in A!Request /\ r.agent = delete.agent /\ r.at = "platform"
      BY <3>1 DEF A!Request
    <3>3. delete' = r
      BY <1>2 DEF A!DeleteStops
    <3> HIDE DEF r
    <3> QED
      BY <3>2, <3>3
  <2> QED
    BY <1>2, <2>1, <2>2, <2>3 DEF A!DeleteStops, A!StopBelongsToStart, RequestsAreNamed,
                                  TellsAreOrderly, A!DeletedIsStopped, A!store
<1>3. CASE A!Deleted
  <2>1. delete.agent \in Agents
    BY <1>3 DEF A!Deleted, RequestsAreNamed
  <2>2. A!TypeOK' /\ RequestsAreNamed' /\ A!StopBelongsToStart'
    BY <1>3, <2>1, Nothing DEF A!Deleted, A!Marks, A!StopBelongsToStart, RequestsAreNamed
  <2>3. TellsAreOrderly' /\ A!DeletedIsStopped'
    BY <1>3, <2>1, Nothing DEF A!Deleted, TellsAreOrderly, A!DeletedIsStopped
  <2> QED
    BY <2>2, <2>3
<1>4. CASE A!DeleteFails
  BY <1>4, Nothing DEF A!DeleteFails, A!StopBelongsToStart, RequestsAreNamed, TellsAreOrderly,
                        A!DeletedIsStopped, A!world
<1> QED
  BY <1>1, <1>2, <1>3, <1>4

\* The poll, the end of a worker and a changed profile.
LEMMA WorldKeeps ==
  ASSUME FlowsAssumption, Inductive,
         \/ A!PollAnswered \/ A!PollApplied
         \/ \E a \in Agents : A!WorkerExits(a) \/ \E h \in Harnesses : A!Reconfigure(a, h)
  PROVE  Inductive'
<1> USE DEF Inductive, A!TypeOK, A!StopBelongsToStart, RequestsAreNamed, TellsAreOrderly,
            A!DeletedIsStopped, A!store, A!world
<1>1. CASE A!PollAnswered
  BY <1>1 DEF A!PollAnswered, A!Running
<1>2. CASE A!PollApplied
  BY <1>2 DEF A!PollApplied
<1>3. ASSUME NEW a \in Agents, A!WorkerExits(a)
      PROVE  Inductive'
  <2>1. changes' \in 0..MaxChanges
    BY <1>3 DEF A!WorkerExits, FlowsAssumption
  <2>2. worker' \in [Agents -> {"none", "up", "stopping"}]
        /\ \A b \in Agents : worker'[b] = "up" => worker[b] = "up"
    BY <1>3 DEF A!WorkerExits
  <2> QED
    BY <1>3, <2>1, <2>2 DEF A!WorkerExits
<1>4. ASSUME NEW a \in Agents, NEW h \in Harnesses, A!Reconfigure(a, h)
      PROVE  Inductive'
  <2>1. changes' \in 0..MaxChanges
    BY <1>4 DEF A!Reconfigure, FlowsAssumption
  <2> QED
    BY <1>4, <2>1 DEF A!Reconfigure
<1> QED
  BY <1>1, <1>2, <1>3, <1>4

LEMMA ActionsStart == A!Init => Inductive
<1> SUFFICES ASSUME A!Init
             PROVE  Inductive
  OBVIOUS
<1>1. start \in [Agents -> A!Flow] /\ \A a \in Agents : start[a].at = "idle"
  BY FlowsAssumption, Nothing DEF A!Init
<1>2. stop \in A!Request /\ delete \in A!Request /\ stop.at = "idle" /\ delete.at = "idle"
  BY FlowsAssumption, Nothing DEF A!Init
<1>3. worker \in [Agents -> {"none", "up", "stopping"}]
      /\ profile \in [Agents -> Harnesses \cup {None}]
  BY DEF A!Init
<1>4. A!TypeOK
  BY <1>1, <1>2, <1>3, FlowsAssumption DEF A!Init, A!TypeOK
<1>5. RequestsAreNamed /\ TellsAreOrderly /\ A!StopBelongsToStart /\ A!DeletedIsStopped
  BY <1>1, <1>2
     DEF A!Init, RequestsAreNamed, TellsAreOrderly, A!StopBelongsToStart, A!DeletedIsStopped
<1> QED
  BY <1>4, <1>5 DEF Inductive

LEMMA ActionsKeep == Inductive /\ (A!Next \/ UNCHANGED actionVars) => Inductive'
<1>1. CASE UNCHANGED actionVars
  BY <1>1 DEF actionVars, Inductive, A!TypeOK, RequestsAreNamed, TellsAreOrderly,
              A!StopBelongsToStart, A!DeletedIsStopped
<1> QED
  BY <1>1, FlowsAssumption, StartKeeps, StopKeeps, DeleteKeeps, WorldKeeps DEF A!Next

-----------------------------------------------------------------------------
(* AgentsCatalog: types.                                                   *)

\* The loads' places, and what an answer holds (_load_agents, _load_directory).
LEMMA LoadTypes ==
  /\ C!NoLoad \in C!Load /\ C!NoLoad.at = "none"
  /\ \A p \in {"sleep", "asked"} : [C!NoLoad EXCEPT !.at = p] \in C!Load
  /\ \A b \in BOOLEAN, s \in SUBSET Listed :
       /\ [at |-> "asked", search |-> b, answer |-> s] \in C!Load
       /\ [at |-> "answered", search |-> b, answer |-> s] \in C!Load
  /\ \A l \in C!Load : l.search \in BOOLEAN /\ l.answer \in SUBSET Listed
<1>1. C!NoLoad \in C!Load /\ C!NoLoad.at = "none"
  BY DEF C!NoLoad, C!Load
<1>2. ASSUME NEW p \in {"sleep", "asked"}
      PROVE  [C!NoLoad EXCEPT !.at = p] \in C!Load
  BY DEF C!NoLoad, C!Load
<1>3. ASSUME NEW b \in BOOLEAN, NEW s \in SUBSET Listed
      PROVE  /\ [at |-> "asked", search |-> b, answer |-> s] \in C!Load
             /\ [at |-> "answered", search |-> b, answer |-> s] \in C!Load
  BY DEF C!Load
<1>4. ASSUME NEW l \in C!Load
      PROVE  l.search \in BOOLEAN /\ l.answer \in SUBSET Listed
  BY DEF C!Load
<1> QED
  BY <1>1, <1>2, <1>3, <1>4

LEMMA CatalogStart == C!Init => C!TypeOK
BY LoadTypes DEF C!Init, C!TypeOK

\* What a text leaves of some agents is some of them.
LEMMA Matches ==
  /\ \A s \in SUBSET Listed, t \in BOOLEAN : C!Matching(s, t) \in SUBSET Listed
  /\ C!TypeOK => C!Visible \in SUBSET Listed /\ C!Catalog \in SUBSET Listed
BY DEF C!Matching, C!TypeOK, C!Visible, C!Catalog

\* A new load begins, in a state of the screen (_refresh_catalog).
LEMMA LoadsBegin ==
  ASSUME C!TypeOK, C!BeginList \/ C!BeginDirectory
  PROVE  listLoad' \in C!Load /\ dirLoad' \in C!Load /\ dirty' \in BOOLEAN
<1> USE LoadTypes DEF C!TypeOK
<1>1. CASE C!BeginList
  <2>1. listLoad' \in C!Load /\ dirLoad' \in C!Load
    BY <1>1 DEF C!BeginList
  <2> QED
    BY <1>1, <2>1 DEF C!BeginList
<1>2. CASE C!BeginDirectory
  <2>1. listLoad' \in C!Load /\ dirLoad' \in C!Load
    BY <1>2 DEF C!BeginDirectory
  <2> QED
    BY <1>2, <2>1 DEF C!BeginDirectory
<1> QED
  BY <1>1, <1>2

\* _reconcile_selection selects a visible row or none.
LEMMA Reconciles ==
  ASSUME C!TypeOK, NEW s \in SUBSET Listed, C!Reconcile(s)
  PROVE  selected' \in Listed \cup {None}
BY DEF C!TypeOK, C!Reconcile

LEMMA CatalogKeeps == C!TypeOK /\ (C!Next \/ UNCHANGED catalogVars) => C!TypeOK'
<1> SUFFICES ASSUME C!TypeOK, C!Next \/ UNCHANGED catalogVars
             PROVE  C!TypeOK'
  OBVIOUS
<1>1. CASE UNCHANGED catalogVars
  BY <1>1 DEF catalogVars, C!TypeOK
<1>2. CASE C!Render
  BY <1>2, Matches DEF C!Render, C!TypeOK
<1>3. CASE C!MoveCursor
  BY <1>3 DEF C!MoveCursor, C!TypeOK
<1>4. CASE C!Refresh
  <2>1. listLoad' \in C!Load /\ dirLoad' \in C!Load /\ dirty' \in BOOLEAN
    BY <1>4, LoadsBegin DEF C!Refresh
  <2> QED
    BY <1>4, <2>1 DEF C!Refresh, C!TypeOK, C!view
<1>5. CASE C!ListAsked
  <2>1. listLoad' \in C!Load /\ dirty' \in BOOLEAN
    BY <1>5, LoadTypes DEF C!ListAsked, C!TypeOK
  <2> QED
    BY <1>5, <2>1 DEF C!ListAsked, C!TypeOK, C!view
<1>6. CASE C!ListAnswered
  <2>1. listLoad' \in C!Load
    BY <1>6, LoadTypes, Matches DEF C!ListAnswered, C!TypeOK
  <2> QED
    BY <1>6, <2>1 DEF C!ListAnswered, C!TypeOK, C!view
<1>7. CASE C!ListApplied
  <2>1. agents' \in SUBSET Listed /\ listLoad' \in C!Load /\ dirty' = TRUE
    BY <1>7, LoadTypes DEF C!ListApplied, C!ListEnds, C!TypeOK
  <2>2. (IF source = "mine" THEN C!Matching(agents', search) ELSE C!Visible) \in SUBSET Listed
    BY <2>1, Matches DEF C!TypeOK
  <2>3. selected' \in Listed \cup {None}
    BY <1>7, <2>2, Reconciles DEF C!ListApplied
  <2> QED
    BY <1>7, <2>1, <2>3 DEF C!ListApplied, C!TypeOK, C!view
<1>8. CASE C!ListFails
  BY <1>8, LoadTypes DEF C!ListFails, C!ListEnds, C!TypeOK, C!view
<1>9. CASE C!DirectoryAnswered
  <2>1. dirLoad' \in C!Load
    BY <1>9, LoadTypes DEF C!DirectoryAnswered
  <2> QED
    BY <1>9, <2>1 DEF C!DirectoryAnswered, C!TypeOK, C!view
<1>10. CASE C!DirectoryApplied
  <2>1. directory' \in SUBSET Listed /\ dirLoad' \in C!Load /\ dirty' = TRUE
    BY <1>10, LoadTypes DEF C!DirectoryApplied, C!TypeOK
  <2>2. (IF source = "directory" THEN C!Matching(directory', search) ELSE C!Visible) \in SUBSET Listed
    BY <2>1, Matches DEF C!TypeOK
  <2>3. selected' \in Listed \cup {None}
    BY <1>10, <2>2, Reconciles DEF C!DirectoryApplied, C!TypeOK
  <2> QED
    BY <1>10, <2>1, <2>3 DEF C!DirectoryApplied, C!TypeOK, C!view
<1>11. CASE C!Type
  <2>1. listLoad' \in C!Load /\ dirLoad' \in C!Load /\ dirty' \in BOOLEAN
    BY <1>11, LoadsBegin DEF C!Type
  <2>2. search' \in BOOLEAN
    BY <1>11 DEF C!Type, C!TypeOK
  <2>3. C!Matching(C!Catalog, search') \in SUBSET Listed
    BY <2>2, Matches
  <2>4. selected' \in Listed \cup {None}
    BY <1>11, <2>3, Reconciles DEF C!Type
  <2> QED
    BY <1>11, <2>1, <2>2, <2>4 DEF C!Type, C!TypeOK, C!view
<1>12. CASE C!ToggleDiscover
  <2>1. source' \in {"mine", "directory"} /\ dirty' = TRUE
    BY <1>12 DEF C!ToggleDiscover
  <2>2. listLoad' \in C!Load /\ dirLoad' \in C!Load
    BY <1>12, LoadTypes DEF C!ToggleDiscover, C!TypeOK
  <2>3. C!Matching(IF source' = "mine" THEN agents ELSE directory, search) \in SUBSET Listed
    BY Matches DEF C!TypeOK
  <2>4. selected' \in Listed \cup {None}
    BY <1>12, <2>3, Reconciles DEF C!ToggleDiscover
  <2> QED
    BY <1>12, <2>1, <2>2, <2>4 DEF C!ToggleDiscover, C!TypeOK, C!view
<1>13. ASSUME NEW a \in Listed, C!Register(a)
       PROVE  C!TypeOK'
  <2>1. listLoad' \in C!Load /\ dirLoad' \in C!Load /\ dirty' \in BOOLEAN
    BY <1>13, LoadsBegin DEF C!Register
  <2> QED
    BY <1>13, <2>1 DEF C!Register, C!TypeOK, C!view
<1>14. ASSUME NEW a \in Listed, C!Removed(a)
       PROVE  C!TypeOK'
  <2>1. mine' \in SUBSET Listed /\ agents' \in SUBSET Listed /\ dirty' = TRUE
    BY <1>14 DEF C!Removed, C!TypeOK
  <2>2. (IF source = "mine" THEN C!Matching(agents', search) ELSE C!Matching(directory, search))
          \in SUBSET Listed
    BY <2>1, Matches DEF C!TypeOK
  <2>3. selected' \in Listed \cup {None}
    BY <1>14, <2>2, Reconciles DEF C!Removed
  <2> QED
    BY <1>14, <2>1, <2>3 DEF C!Removed, C!TypeOK, C!view
<1> QED
  BY <1>1, <1>2, <1>3, <1>4, <1>5, <1>6, <1>7, <1>8, <1>9, <1>10, <1>11, <1>12, <1>13, <1>14
     DEF C!Next

-----------------------------------------------------------------------------
(* AgentWizard: its steps.                                                 *)

\* The last step, which starts a submission (_steps_for_draft).
LastOf(h) == IF h \in Full THEN "reasoning" ELSE "model"
LastStep(d) == LastOf(d.harness)

\* Every wizard has the steps of the harness and of the role and its own last
\* one, and each once.
IsStepList(steps, k, h) ==
  /\ steps \in Seq({"harness", "role", "name", "description", "model", "reasoning"})
  /\ Len(steps) > 0
  /\ \A i \in 1..Len(steps) : steps[i] = LastOf(h) <=> i = Len(steps)
  /\ \A i \in 1..Len(steps) : steps[i] = "reasoning" => h \in Full
  /\ \E i \in 1..Len(steps) : steps[i] = "role"
  /\ \E i \in 1..Len(steps) : steps[i] = "harness"
  /\ k = "register" => /\ \E i \in 1..Len(steps) : steps[i] = "name"
                       /\ \E i \in 1..Len(steps) : steps[i] = "description"

LEMMA StepLists ==
  ASSUME NEW k, NEW h
  PROVE  IsStepList((IF k = "register" THEN <<"harness", "role", "name", "description">>
                                       ELSE <<"harness", "role">>)
                      \o (IF h \in Full THEN <<"model", "reasoning">> ELSE <<"model">>), k, h)
<1> DEFINE S == {"harness", "role", "name", "description", "model", "reasoning"}
           p == IF k = "register" THEN <<"harness", "role", "name", "description">>
                                     ELSE <<"harness", "role">>
           q == IF h \in Full THEN <<"model", "reasoning">> ELSE <<"model">>
           m == IF k = "register" THEN 4 ELSE 2
           n == IF h \in Full THEN 2 ELSE 1
<1>2. /\ p \in Seq(S) /\ Len(p) = m /\ p[1] = "harness" /\ p[2] = "role"
      /\ k = "register" => p[3] = "name" /\ p[4] = "description"
      /\ \A i \in 1..m : p[i] \notin {"model", "reasoning"}
  <2>1. CASE k = "register"
    BY <2>1
  <2>2. CASE k # "register"
    BY <2>2
  <2> QED
    BY <2>1, <2>2
<1>3. /\ q \in Seq(S) /\ Len(q) = n /\ q[1] = "model" /\ q[n] = LastOf(h)
      /\ \A i \in 1..n : q[i] = LastOf(h) => i = n
      /\ \A i \in 1..n : q[i] = "reasoning" => h \in Full
  <2>1. CASE h \in Full
    BY <2>1 DEF LastOf
  <2>2. CASE h \notin Full
    BY <2>2 DEF LastOf
  <2> QED
    BY <2>1, <2>2
<1>4. m \in {2, 4} /\ n \in {1, 2} /\ (k = "register" => m = 4)
      /\ LastOf(h) \in {"model", "reasoning"}
  BY DEF LastOf
<1> HIDE DEF S, p, q, m, n
<1>5. p \in Seq(S) /\ q \in Seq(S) /\ m \in Nat /\ n \in Nat /\ Len(p) = m /\ Len(q) = n
  BY <1>2, <1>3, <1>4
<1>6. /\ p \o q \in Seq(S) /\ Len(p \o q) = m + n
      /\ \A i \in 1..m : (p \o q)[i] = p[i]
      /\ \A i \in (m + 1)..(m + n) : i - m \in 1..n /\ (p \o q)[i] = q[i - m]
  <2>1. p \in Seq(S) /\ q \in Seq(S)
    BY <1>5
  <2>2. /\ p \o q \in Seq(S) /\ Len(p \o q) = Len(p) + Len(q)
        /\ \A i \in 1..(Len(p) + Len(q)) :
             (p \o q)[i] = IF i <= Len(p) THEN p[i] ELSE q[i - Len(p)]
    BY <2>1, ConcatProperties
  <2>3. /\ p \o q \in Seq(S) /\ Len(p \o q) = m + n
        /\ \A i \in 1..(m + n) : (p \o q)[i] = IF i <= m THEN p[i] ELSE q[i - m]
    BY <1>5, <2>2
  <2>4. \A i \in 1..m : i \in 1..(m + n) /\ i <= m
    BY <1>4
  <2>5. \A i \in (m + 1)..(m + n) : i \in 1..(m + n) /\ ~(i <= m) /\ i - m \in 1..n
    BY <1>4
  <2> QED
    BY <2>3, <2>4, <2>5
<1>7. \A i \in 1..(m + n) : i \in 1..m \/ i \in (m + 1)..(m + n)
  BY <1>4
<1>8. \A i \in 1..(m + n) : (p \o q)[i] = LastOf(h) <=> i = m + n
  <2> TAKE i \in 1..(m + n)
  <2>1. CASE i \in 1..m
    <3>1. (p \o q)[i] # LastOf(h)
      BY <2>1, <1>2, <1>4, <1>6
    <3>2. i # m + n
      BY <2>1, <1>4
    <3> QED
      BY <3>1, <3>2
  <2>2. CASE i \in (m + 1)..(m + n)
    <3>1. PICK j \in 1..n : j = i - m /\ (p \o q)[i] = q[j]
      BY <2>2, <1>6
    <3>2. (p \o q)[i] = LastOf(h) <=> j = n
      BY <1>3, <3>1
    <3>3. j = n <=> i = m + n
      BY <1>4, <2>2, <3>1
    <3> QED
      BY <3>2, <3>3
  <2> QED
    BY <2>1, <2>2, <1>7
<1>9. \A i \in 1..(m + n) : (p \o q)[i] = "reasoning" => h \in Full
  BY <1>2, <1>3, <1>6, <1>7
<1>10. /\ 1 \in 1..m /\ 2 \in 1..m /\ 1 \in 1..(m + n) /\ 2 \in 1..(m + n)
       /\ k = "register" => 3 \in 1..m /\ 4 \in 1..m /\ 3 \in 1..(m + n) /\ 4 \in 1..(m + n)
  BY <1>4
<1>11. /\ (p \o q)[1] = "harness" /\ (p \o q)[2] = "role"
       /\ k = "register" => (p \o q)[3] = "name" /\ (p \o q)[4] = "description"
  BY <1>2, <1>6, <1>10
<1>12. p \o q \in Seq({"harness", "role", "name", "description", "model", "reasoning"})
  BY <1>6 DEF S
<1>13. m + n > 0
  BY <1>4
<1>14. IsStepList(p \o q, k, h)
  BY <1>6, <1>8, <1>9, <1>10, <1>11, <1>12, <1>13 DEF IsStepList
<1> QED
  BY <1>14 DEF p, q

LEMMA StepsFacts == IsStepList(W!Steps, kind, draft.harness)
BY StepLists DEF W!Steps

LEMMA NextStepsFacts == IsStepList(W!Steps', kind', draft'.harness)
BY StepLists DEF W!Steps

-----------------------------------------------------------------------------
(* AgentWizard: the inductive invariant.                                   *)

\* The shape of a draft, and of what waits to be accepted: a harness that is
\* accepted is one of the vocabulary (_accept_option).
WizardTypes ==
  /\ W!TypeOK /\ swift \in Nat
  /\ \E h, m, r : draft = [harness |-> h, model |-> m, reasoning |-> r]
  /\ \E S : accepts \in Seq(S)
  /\ \A i \in 1..Len(accepts) :
       accepts[i].by = "option" /\ accepts[i].value[1] = "harness"
         => accepts[i].value[2] \in Full \cup Plain

\* The step is one of the draft's, and a submission, which keeps the screen,
\* is under way at the last one only (_advance).
WizardSteps ==
  /\ \E i \in 1..Len(W!Steps) : W!Steps[i] = step
  /\ submitting <=> flow # "none"
  /\ flow # "none" => step = LastStep(draft) /\ open
  /\ flow \in {"create", "record"} => kind = "register"

\* A wizard that made an agent is recording it or closed (_submit).
OneSubmission ==
  /\ flow \in {"starting", "preflight", "create"} => made = 0
  /\ flow = "record" => made = 1
  /\ flow = "none" /\ open => made = 0
  /\ made <= 1

\* What a press left to be accepted is still what the step offers, or is of a
\* kind that a text step ignores.
Pending(x) ==
  /\ x.by = "option" => step \in W!TextSteps \/ (custom = "none" /\ x.value \in W!Offered(draft, step))
  /\ x.by \in W!TextSteps => step \in W!TextSteps /\ custom = "none"

\* The draft fits while no press was swifter than the screen: a model is one
\* of the harness, and a submission starts behind the effort of that model.
WizardOffers ==
  swift = 0 =>
    /\ Len(accepts) <= 1 /\ (Len(accepts) = 1 => Pending(accepts[1]))
    /\ custom \in {"none", step}
    /\ W!FitsModel(draft)
    /\ draft.harness \notin Full => draft.reasoning \in {W!Default, W!Custom}
    /\ flow = "starting" => W!FitsEffort(draft)
    /\ sent # W!NoDraft => W!FitsModel(sent) /\ W!FitsEffort(sent)

Wizard == WizardTypes /\ WizardSteps /\ OneSubmission /\ WizardOffers

-----------------------------------------------------------------------------
(* AgentWizard: what its helpers do.                                       *)

\* The place of the step, and where the last one is.
LEMMA PositionFacts ==
  ASSUME Wizard
  PROVE  /\ W!Position \in 1..Len(W!Steps) /\ W!Steps[W!Position] = step
         /\ Len(W!Steps) \in Nat
         /\ W!Position < Len(W!Steps) <=> step # LastStep(draft)
<1>1. W!Position \in 1..Len(W!Steps) /\ W!Steps[W!Position] = step
  BY DEF Wizard, WizardSteps, W!Position
<1>2. Len(W!Steps) \in Nat
  BY StepsFacts DEF IsStepList, LastStep
<1>3. W!Position < Len(W!Steps) <=> W!Position # Len(W!Steps)
  BY <1>1, <1>2
<1> QED
  BY <1>1, <1>2, <1>3, StepsFacts DEF IsStepList, LastStep

\* The steps depend on the kind and the harness only.
LEMMA StepsStay ==
  ASSUME UNCHANGED kind, draft'.harness = draft.harness
  PROVE  W!Steps' = W!Steps /\ LastStep(draft)' = LastStep(draft)
BY DEF W!Steps, LastStep, LastOf

\* _advance goes to another step, starts a submission or does nothing.
LEMMA Advances ==
  ASSUME Wizard, W!Advance
  PROVE  /\ \E i \in 1..Len(W!Steps) : W!Steps[i] = step'
         /\ sent' = sent /\ made' = made
         /\ \/ /\ step # LastStep(draft) /\ flow = "none" /\ flow' = flow /\ submitting' = submitting
            \/ /\ step = LastStep(draft) /\ step' = step
               /\ \/ submitting /\ submitting' = submitting /\ flow' = flow
                  \/ ~submitting /\ submitting' = TRUE /\ flow' = "starting"
<1> USE DEF W!Advance, W!submission
<1>1. CASE W!Position < Len(W!Steps)
  <2>1. W!Position + 1 \in 1..Len(W!Steps) /\ step # LastStep(draft)
    BY <1>1, PositionFacts
  <2>2. step' = W!Steps[W!Position + 1] /\ UNCHANGED <<submitting, flow, sent, made>>
    BY <1>1
  <2>3. flow = "none"
    BY <2>1 DEF Wizard, WizardSteps
  <2> QED
    BY <2>1, <2>2, <2>3
<1>2. CASE ~(W!Position < Len(W!Steps))
  <2>1. step = LastStep(draft)
    BY <1>2, PositionFacts
  <2>2. step' = step
    BY <1>2
  <2> QED
    BY <1>2, <2>1, <2>2 DEF Wizard, WizardSteps
<1> QED
  BY <1>1, <1>2

\* All steps are those that the type allows.
LEMMA StepsTyped ==
  ASSUME NEW s, \E i \in 1..Len(W!Steps) : W!Steps[i] = s
  PROVE  /\ s \in {"harness", "role"} \cup W!TextSteps \cup W!TuningSteps
         /\ s = "reasoning" => draft.harness \in Full
<1>1. PICK i \in 1..Len(W!Steps) : W!Steps[i] = s
  OBVIOUS
<1>2. W!Steps[i] \in {"harness", "role", "name", "description", "model", "reasoning"}
  BY StepsFacts DEF IsStepList, LastStep
<1> QED
  BY <1>1, <1>2, StepsFacts DEF IsStepList, LastStep, W!TextSteps, W!TuningSteps

\* Presses queue up, and are accepted in their order.
LEMMA QueueGrows ==
  ASSUME NEW S, NEW q \in Seq(S), NEW x
  PROVE  /\ \E T : Append(q, x) \in Seq(T)
         /\ Len(Append(q, x)) = Len(q) + 1
         /\ \A i \in 1..(Len(q) + 1) : Append(q, x)[i] = IF i = Len(q) + 1 THEN x ELSE q[i]
<1>1. q \in Seq(S \cup {x}) /\ x \in S \cup {x}
  OBVIOUS
<1>2. Append(q, x) \in Seq(S \cup {x})
  BY <1>1
<1> QED
  BY <1>1, <1>2

LEMMA QueueShrinks ==
  ASSUME NEW S, NEW q \in Seq(S), q # <<>>
  PROVE  /\ \E T : Tail(q) \in Seq(T)
         /\ Len(Tail(q)) = Len(q) - 1 /\ Head(q) = q[1]
         /\ \A i \in 1..(Len(q) - 1) : Tail(q)[i] = q[i + 1]
<1>1. Tail(q) \in Seq(S) /\ Len(Tail(q)) = Len(q) - 1
      /\ \A i \in 1..Len(Tail(q)) : Tail(q)[i] = q[i + 1]
  BY HeadTailProperties
<1>2. Head(q) = q[1]
  OBVIOUS
<1> QED
  BY <1>1, <1>2

\* A model or an effort is set in the draft (with_dimension).
LEMMA Tunes ==
  ASSUME Wizard, NEW s \in {"model", "reasoning"}, NEW v, draft' = W!Tuned(s, v)
  PROVE  /\ \E h, m, r : draft' = [harness |-> h, model |-> m, reasoning |-> r]
         /\ draft'.harness = draft.harness
         /\ draft'.model = IF s = "model" THEN v ELSE draft.model
         /\ draft'.reasoning = IF s = "model" THEN draft.reasoning ELSE v
<1>1. PICK h, m, r : draft = [harness |-> h, model |-> m, reasoning |-> r]
  BY DEF Wizard, WizardTypes
<1>2. CASE s = "model"
  <2>1. draft' = [draft EXCEPT !.model = v]
    BY <1>2 DEF W!Tuned
  <2>2. draft' = [harness |-> h, model |-> v, reasoning |-> r]
    BY <1>1, <2>1
  <2> QED
    BY <1>1, <1>2, <2>2
<1>3. CASE s = "reasoning"
  <2>1. draft' = [draft EXCEPT !.reasoning = v]
    BY <1>3 DEF W!Tuned
  <2>2. draft' = [harness |-> h, model |-> m, reasoning |-> v]
    BY <1>1, <2>1
  <2> QED
    BY <1>1, <1>3, <2>2
<1> QED
  BY <1>2, <1>3

\* The harness is chosen (apply_draft_patch).
LEMMA Patches ==
  ASSUME Wizard, NEW h \in Full \cup Plain, draft' = W!Patched(h)
  PROVE  /\ \E g, m, r : draft' = [harness |-> g, model |-> m, reasoning |-> r]
         /\ draft'.harness = h
         /\ draft' = draft \/ (draft'.model = W!Default /\ draft'.reasoning = W!Default)
<1>1. CASE h = draft.harness
  BY <1>1 DEF W!Patched, Wizard, WizardTypes
<1>2. CASE h # draft.harness
  <2>1. draft' = [harness |-> h, model |-> W!Default, reasoning |-> W!Default]
    BY <1>2 DEF W!Patched, W!NewDraft
  <2>2. /\ draft'.harness = h /\ draft'.model = W!Default /\ draft'.reasoning = W!Default
    BY <2>1
  <2>3. \E g, m, r : draft' = [harness |-> g, model |-> m, reasoning |-> r]
    BY <2>1
  <2> QED
    BY <2>2, <2>3
<1> QED
  BY <1>1, <1>2

\* A draft is not the empty submission.
LEMMA DraftIsSent ==
  ASSUME Wizard
  PROVE  draft # W!NoDraft
<1>1. PICK h, m, r : draft = [harness |-> h, model |-> m, reasoning |-> r]
  BY DEF Wizard, WizardTypes
<1>2. "model" \in DOMAIN draft
  BY <1>1
<1>3. "model" \notin DOMAIN W!NoDraft
  BY DEF W!NoDraft
<1> QED
  BY <1>2, <1>3

\* What is offered at a tuning step fits the draft that takes it
\* (_tuning_choices).
LEMMA OffersFit ==
  ASSUME NEW d, NEW v
  PROVE  /\ v \in W!Offered(d, "model") => \/ v \in {W!Default, W!Custom}
                                           \/ v[1] = "model" /\ v[2] = d.harness
         /\ v \in W!Offered(d, "reasoning") => v \in {W!Default, W!Custom, W!Effort(d)}
<1>1. ASSUME v \in W!Offered(d, "model")
      PROVE  v \in {W!Default, W!Custom} \/ (v[1] = "model" /\ v[2] = d.harness)
  BY <1>1 DEF W!Offered
<1>2. ASSUME v \in W!Offered(d, "reasoning")
      PROVE  v \in {W!Default, W!Custom, W!Effort(d)}
  BY <1>2 DEF W!Offered
<1> QED
  BY <1>1, <1>2

\* Only the step of the harness offers harnesses.
LEMMA OffersHarness ==
  ASSUME NEW d, NEW s, NEW v \in W!Offered(d, s), v[1] = "harness"
  PROVE  v[2] \in Full \cup Plain
<1>1. CASE s = "harness"
  BY <1>1 DEF W!Offered, W!Harness
<1>2. CASE s = "role"
  BY <1>2 DEF W!Offered
<1>3. CASE s = "model"
  BY <1>3 DEF W!Offered, W!Default, W!Custom
<1>4. CASE s = "reasoning"
  BY <1>4 DEF W!Offered, W!Default, W!Custom, W!Effort
<1> QED
  BY <1>1, <1>2, <1>3, <1>4 DEF W!Offered

-----------------------------------------------------------------------------
(* AgentWizard: the user's steps.                                          *)

\* Only the request whose answer is lost and the clean-up that fails leave an
\* agent behind, and within the bound (create_agent, _submit).
LEMMA LostKeeps ==
  ASSUME FlowsAssumption, lost \in 0..MaxLost, W!Next
  PROVE  lost' \in 0..MaxLost
<1>1. MaxLost \in Nat
  BY DEF FlowsAssumption
<1>2. CASE W!Select \/ W!Enter \/ W!Back
  BY <1>2 DEF W!Select, W!Enter, W!Back, W!submission
<1>3. W!Advance \/ W!Stays => lost' = lost
  BY DEF W!Advance, W!Stays, W!submission
<1>4. CASE W!AcceptOption \/ W!AcceptText
  BY <1>3, <1>4 DEF W!AcceptOption, W!AcceptText, W!submission
<1>5. CASE W!Submits \/ W!Preflighted \/ W!Rejected
  BY <1>5 DEF W!Submits, W!Preflighted, W!Rejected
<1>6. CASE W!Registers \/ W!Recorded
  BY <1>1, <1>6 DEF W!Registers, W!Recorded
<1> QED
  BY <1>2, <1>4, <1>5, <1>6 DEF W!Next

\* Select and Enter leave one thing more to be accepted.
LEMMA PressKeeps ==
  ASSUME FlowsAssumption, Wizard, W!Select \/ W!Enter
  PROVE  Wizard'
<1>1. PICK x : /\ accepts' = Append(accepts, x) /\ W!Press /\ (step \in W!TextSteps => custom # "none" \/ x.by = step)
               /\ \/ /\ x.by = "option" /\ custom = "none" /\ step \notin W!TextSteps
                     /\ x.value \in W!Offered(draft, step)
                  \/ x.by = "custom" /\ custom # "none"
                  \/ x.by = step /\ step \in W!TextSteps /\ custom = "none"
  <2>1. CASE W!Select
    <3>1. PICK v \in W!Offered(draft, step) : accepts' = Append(accepts, [by |-> "option", value |-> v])
      BY <2>1 DEF W!Select
    <3> DEFINE x == [by |-> "option", value |-> v]
    <3>2. x.by = "option" /\ x.value = v /\ accepts' = Append(accepts, x)
      BY <3>1
    <3>3. W!Press /\ custom = "none" /\ step \notin W!TextSteps
      BY <2>1 DEF W!Select
    <3> HIDE DEF x
    <3> QED
      BY <3>2, <3>3
  <2>2. CASE W!Enter
    <3>1. PICK v : accepts' = Append(accepts, [by |-> IF custom # "none" THEN "custom" ELSE step,
                                               value |-> v])
      BY <2>2 DEF W!Enter
    <3> DEFINE x == [by |-> IF custom # "none" THEN "custom" ELSE step, value |-> v]
    <3>2. x.by = (IF custom # "none" THEN "custom" ELSE step) /\ accepts' = Append(accepts, x)
      BY <3>1
    <3>3. W!Press /\ (custom # "none" \/ step \in W!TextSteps)
      BY <2>2 DEF W!Enter
    <3> HIDE DEF x
    <3> QED
      BY <3>2, <3>3
  <2> QED
    BY <2>1, <2>2
<1>2. UNCHANGED <<kind, step, custom, draft, submitting, flow, sent, made, open>>
  BY DEF W!Select, W!Enter, W!form, W!submission
<1>3. swift' \in Nat /\ (swift' = 0 => swift = 0 /\ accepts = <<>>)
  BY <1>1 DEF W!Press, Wizard, WizardTypes
<1>4. /\ \E S : accepts' \in Seq(S)
      /\ Len(accepts) \in Nat /\ (accepts = <<>> <=> Len(accepts) = 0)
      /\ Len(accepts') = Len(accepts) + 1
      /\ \A i \in 1..(Len(accepts) + 1) :
           accepts'[i] = IF i = Len(accepts) + 1 THEN x ELSE accepts[i]
  <2>1. PICK S : accepts \in Seq(S)
    BY DEF Wizard, WizardTypes
  <2>2. accepts' = Append(accepts, x)
    BY <1>1
  <2>3. Len(accepts) \in Nat /\ (accepts = <<>> <=> Len(accepts) = 0)
    BY <2>1
  <2>4. /\ \E T : Append(accepts, x) \in Seq(T)
        /\ Len(Append(accepts, x)) = Len(accepts) + 1
        /\ \A i \in 1..(Len(accepts) + 1) :
             Append(accepts, x)[i] = IF i = Len(accepts) + 1 THEN x ELSE accepts[i]
    BY <2>1, QueueGrows
  <2>5. \E T : accepts' \in Seq(T)
    BY <2>2, <2>4
  <2> QED
    BY <2>2, <2>3, <2>4, <2>5
<1>5. x.by = "option" /\ x.value[1] = "harness" => x.value[2] \in Full \cup Plain
  BY <1>1, OffersHarness DEF W!TextSteps
<1>6. WizardTypes'
  <2>0. lost' \in 0..MaxLost
    BY LostKeeps DEF Wizard, WizardTypes, W!TypeOK, W!Next
  <2>1. W!TypeOK'
    BY <1>2, <2>0 DEF Wizard, WizardTypes, W!TypeOK
  <2>2. ASSUME NEW i \in 1..Len(accepts'), accepts'[i].by = "option",
               accepts'[i].value[1] = "harness"
        PROVE  accepts'[i].value[2] \in Full \cup Plain
    <3>1. CASE i = Len(accepts) + 1
      BY <1>4, <1>5, <2>2, <3>1
    <3>2. CASE i # Len(accepts) + 1
      <4>1. i \in 1..Len(accepts) /\ accepts'[i] = accepts[i]
        BY <1>4, <3>2
      <4> QED
        BY <2>2, <4>1 DEF Wizard, WizardTypes
    <3> QED
      BY <3>1, <3>2
  <2> QED
    BY <1>2, <1>3, <1>4, <2>1, <2>2 DEF Wizard, WizardTypes
<1>7. WizardSteps' /\ OneSubmission'
  <2>1. W!Steps' = W!Steps /\ LastStep(draft)' = LastStep(draft)
    BY <1>2, StepsStay
  <2> QED
    BY <1>2, <2>1 DEF Wizard, WizardSteps, OneSubmission
<1>8. WizardOffers'
  <2> SUFFICES ASSUME swift' = 0
               PROVE  WizardOffers'
    BY DEF WizardOffers
  <2>1. swift = 0 /\ Len(accepts') = 1 /\ accepts'[1] = x
    BY <1>3, <1>4
  <2>2. Pending(x)'
    BY <1>1, <1>2 DEF Pending, W!Offered, W!Effort, W!TextSteps
  <2>3. (W!FitsModel(draft) <=> W!FitsModel(draft)') /\ (W!FitsEffort(draft) <=> W!FitsEffort(draft)')
        /\ (W!FitsModel(sent) <=> W!FitsModel(sent)') /\ (W!FitsEffort(sent) <=> W!FitsEffort(sent)')
    BY <1>2 DEF W!FitsModel, W!FitsEffort, W!Effort
  <2>4. Pending(accepts[1])'
    BY <2>1, <2>2 DEF Pending
  <2> QED
    BY <1>2, <2>1, <2>3, <2>4 DEF Wizard, WizardOffers
<1> QED
  BY <1>6, <1>7, <1>8 DEF Wizard
-----------------------------------------------------------------------------
(* AgentWizard: the callbacks.                                             *)

\* A callback takes the oldest press; without a swift one it is the only one.
LEMMA Accepted ==
  ASSUME Wizard, W!Accept
  PROVE  /\ UNCHANGED <<kind, swift>>
         /\ Head(accepts) = accepts[1]
         /\ accepts[1].by = "option" /\ accepts[1].value[1] = "harness"
              => accepts[1].value[2] \in Full \cup Plain
         /\ \E S : accepts' \in Seq(S)
         /\ \A i \in 1..Len(accepts') :
              accepts'[i].by = "option" /\ accepts'[i].value[1] = "harness"
                => accepts'[i].value[2] \in Full \cup Plain
         /\ swift = 0 => Len(accepts') = 0 /\ Pending(accepts[1])
<1>1. PICK S : accepts \in Seq(S)
  BY DEF Wizard, WizardTypes
<1>2. accepts # <<>> /\ accepts' = Tail(accepts) /\ UNCHANGED <<kind, swift>>
  BY DEF W!Accept
<1>3. Len(accepts) \in Nat /\ Len(accepts) > 0
  BY <1>1, <1>2
<1>4. /\ \E T : Tail(accepts) \in Seq(T)
      /\ Len(Tail(accepts)) = Len(accepts) - 1 /\ Head(accepts) = accepts[1]
      /\ \A i \in 1..(Len(accepts) - 1) : Tail(accepts)[i] = accepts[i + 1]
  BY <1>1, <1>2, QueueShrinks
<1>5. 1 \in 1..Len(accepts)
  BY <1>3
<1>6. accepts[1].by = "option" /\ accepts[1].value[1] = "harness"
        => accepts[1].value[2] \in Full \cup Plain
  BY <1>5 DEF Wizard, WizardTypes
<1>7. ASSUME NEW i \in 1..Len(accepts'), accepts'[i].by = "option",
             accepts'[i].value[1] = "harness"
      PROVE  accepts'[i].value[2] \in Full \cup Plain
  <2>1. i + 1 \in 1..Len(accepts) /\ accepts'[i] = accepts[i + 1]
    BY <1>2, <1>3, <1>4
  <2> QED
    BY <1>7, <2>1 DEF Wizard, WizardTypes
<1>8. ASSUME swift = 0
      PROVE  Len(accepts') = 0 /\ Pending(accepts[1])
  <2>1. Len(accepts) <= 1 /\ (Len(accepts) = 1 => Pending(accepts[1]))
    BY <1>8 DEF Wizard, WizardOffers
  <2>2. Len(accepts) = 1
    BY <1>3, <2>1
  <2> QED
    BY <1>2, <1>4, <2>1, <2>2
<1>9. \E T : accepts' \in Seq(T)
  BY <1>2, <1>4
<1> QED
  BY <1>2, <1>4, <1>6, <1>7, <1>8, <1>9

\* A step of the same draft, and the submission behind its last one.
LEMMA Follows ==
  ASSUME Wizard, UNCHANGED kind, draft'.harness = draft.harness, W!Advance \/ W!Stays
  PROVE  /\ \E i \in 1..Len(W!Steps') : W!Steps'[i] = step'
         /\ sent' = sent /\ made' = made
         /\ \/ /\ flow' = flow /\ submitting' = submitting
               /\ flow # "none" => step' = LastStep(draft)'
            \/ /\ flow = "none" /\ submitting' = TRUE /\ flow' = "starting"
               /\ step' = LastStep(draft)'
         /\ flow' = "starting" => step = LastStep(draft)
<1>1. W!Steps' = W!Steps /\ LastStep(draft)' = LastStep(draft)
  BY StepsStay
<1>2. (submitting <=> flow # "none") /\ (flow # "none" => step = LastStep(draft))
  BY DEF Wizard, WizardSteps
<1>3. CASE W!Stays
  BY <1>1, <1>2, <1>3 DEF W!Stays, W!submission, Wizard, WizardSteps
<1>4. CASE W!Advance
  BY <1>1, <1>2, <1>4, Advances
<1> QED
  BY <1>3, <1>4

\* What a callback leaves behind, put together.
LEMMA AcceptKeeps ==
  ASSUME Wizard, W!Accept, open,
         \E h, m, r : draft' = [harness |-> h, model |-> m, reasoning |-> r],
         draft'.harness \in Full \cup Plain,
         custom' \in {"none", "model", "reasoning"},
         sent' = sent, made' = made, lost' \in 0..MaxLost,
         \E i \in 1..Len(W!Steps') : W!Steps'[i] = step',
         open' = open \/ (open' = FALSE /\ flow' = "none"),
         \/ /\ flow' = flow /\ submitting' = submitting
            /\ flow # "none" => step' = LastStep(draft)'
         \/ /\ flow = "none" /\ submitting' = TRUE /\ flow' = "starting"
            /\ step' = LastStep(draft)',
         swift = 0 => /\ custom' \in {"none", step'}
                      /\ W!FitsModel(draft)'
                      /\ (draft'.harness \notin Full
                            => draft'.reasoning \in {W!Default, W!Custom})
                      /\ (flow' = "starting" => W!FitsEffort(draft)')
  PROVE  Wizard'
<1>1. WizardTypes'
  <2>1. step' \in {"harness", "role"} \cup W!TextSteps \cup W!TuningSteps
    <3>1. PICK i \in 1..Len(W!Steps') : W!Steps'[i] = step'
      OBVIOUS
    <3>2. W!Steps'[i] \in {"harness", "role", "name", "description", "model", "reasoning"}
      BY NextStepsFacts DEF IsStepList
    <3> QED
      BY <3>1, <3>2 DEF W!TextSteps, W!TuningSteps
  <2>2. flow' \in {"none", "starting"} <=> sent' = W!NoDraft
    BY DEF Wizard, WizardTypes, W!TypeOK
  <2>3. W!TypeOK'
    BY <2>1, <2>2, Accepted DEF Wizard, WizardTypes, W!TypeOK, W!Harness, W!TuningSteps, W!NoDraft
  <2> QED
    BY <2>3, Accepted DEF Wizard, WizardTypes
<1>2. WizardSteps'
  <2>1. /\ submitting <=> flow # "none"
        /\ flow \in {"create", "record"} => kind = "register"
    BY DEF Wizard, WizardSteps
  <2>2. submitting' <=> flow' # "none"
    BY <2>1
  <2>3. flow' # "none" => step' = LastStep(draft)'
    OBVIOUS
  <2>4. flow' # "none" => open'
    OBVIOUS
  <2>5. flow' \in {"create", "record"} => kind' = "register"
    BY <2>1, Accepted
  <2> QED
    BY <2>2, <2>3, <2>4, <2>5 DEF WizardSteps
<1>3. OneSubmission'
  BY DEF Wizard, OneSubmission
<1>4. WizardOffers'
  <2> SUFFICES ASSUME swift' = 0
               PROVE  WizardOffers'
    BY DEF WizardOffers
  <2>1. swift = 0 /\ Len(accepts') = 0
    BY Accepted
  <2>2. sent' # W!NoDraft => W!FitsModel(sent)' /\ W!FitsEffort(sent)'
    BY <2>1 DEF Wizard, WizardOffers, W!FitsModel, W!FitsEffort, W!Effort
  <2> QED
    BY <2>1, <2>2 DEF WizardOffers, W!NoDraft
<1> QED
  BY <1>1, <1>2, <1>3, <1>4 DEF Wizard
\* _accept_option.
LEMMA OptionKeeps ==
  ASSUME FlowsAssumption, Wizard, W!AcceptOption
  PROVE  Wizard'
<1> DEFINE x == accepts[1]
<1>0. lost' \in 0..MaxLost
  BY LostKeeps DEF Wizard, WizardTypes, W!TypeOK, W!Next
<1>1. /\ W!Accept /\ open /\ Head(accepts) = x /\ x.by = "option"
      /\ UNCHANGED <<kind, swift>> /\ (swift = 0 => Pending(x))
  BY Accepted DEF W!AcceptOption
<1>2. x.value[1] = "harness" => x.value[2] \in Full \cup Plain
  BY <1>1, Accepted
<1>3. /\ \E h, m, r : draft = [harness |-> h, model |-> m, reasoning |-> r]
      /\ draft.harness \in Full \cup Plain /\ custom \in {"none", "model", "reasoning"}
      /\ flow # "none" => step = LastStep(draft)
      /\ step = "reasoning" => draft.harness \in Full
  <2>1. \E i \in 1..Len(W!Steps) : W!Steps[i] = step
    BY DEF Wizard, WizardSteps
  <2>2. step = "reasoning" => draft.harness \in Full
    BY <2>1, StepsTyped
  <2> QED
    BY <2>2 DEF Wizard, WizardTypes, WizardSteps, W!TypeOK, W!Harness, W!TuningSteps
<1>4. swift = 0 => /\ custom \in {"none", step} /\ W!FitsModel(draft)
                   /\ draft.harness \notin Full => draft.reasoning \in {W!Default, W!Custom}
                   /\ flow = "starting" => W!FitsEffort(draft)
  BY DEF Wizard, WizardOffers
<1>5. LastStep(draft) \in {"model", "reasoning"}
  BY DEF LastStep, LastOf
<1> HIDE DEF x
<1>6. CASE /\ step = "harness" /\ x.value[1] = "harness"
           /\ draft' = W!Patched(x.value[2]) /\ step' = "role"
           /\ UNCHANGED <<custom, submitting, flow, sent, made, open>>
  <2>1. /\ \E g, m, r : draft' = [harness |-> g, model |-> m, reasoning |-> r]
        /\ draft'.harness = x.value[2]
        /\ draft' = draft \/ (draft'.model = W!Default /\ draft'.reasoning = W!Default)
    BY <1>2, <1>6, Patches
  <2>2. \E i \in 1..Len(W!Steps') : W!Steps'[i] = step'
    BY <1>6, NextStepsFacts DEF IsStepList
  <2>3. flow = "none"
    BY <1>3, <1>5, <1>6
  <2>4. ASSUME swift = 0
        PROVE  /\ custom' \in {"none", step'} /\ W!FitsModel(draft)'
               /\ draft'.harness \notin Full => draft'.reasoning \in {W!Default, W!Custom}
    BY <1>3, <1>4, <1>6, <2>1, <2>4 DEF W!FitsModel
  <2> QED
    BY <1>0, <1>1, <1>2, <1>3, <1>6, <2>1, <2>2, <2>3, <2>4, AcceptKeeps
<1>7. CASE W!Stays /\ UNCHANGED <<draft, custom>> /\ step \in {"harness", "role", "name", "description"}
           /\ open' \in {open, FALSE}
  <2>1. /\ \E i \in 1..Len(W!Steps') : W!Steps'[i] = step'
        /\ sent' = sent /\ made' = made
    BY <1>1, <1>7, Follows
  <2>2. flow = "none" /\ flow' = flow /\ submitting' = submitting /\ step' = step
    BY <1>3, <1>5, <1>7 DEF W!Stays, W!submission
  <2>3. swift = 0 => /\ W!FitsModel(draft)'
                     /\ draft'.harness \notin Full => draft'.reasoning \in {W!Default, W!Custom}
    BY <1>4, <1>7 DEF W!FitsModel
  <2> QED
    BY <1>0, <1>1, <1>3, <1>4, <1>7, <2>1, <2>2, <2>3, AcceptKeeps
<1>8. CASE step = "role" /\ W!Advance /\ UNCHANGED <<draft, custom, open>>
  <2>1. /\ \E i \in 1..Len(W!Steps') : W!Steps'[i] = step'
        /\ sent' = sent /\ made' = made
        /\ \/ flow' = flow /\ submitting' = submitting /\ (flow # "none" => step' = LastStep(draft)')
           \/ flow = "none" /\ submitting' = TRUE /\ flow' = "starting" /\ step' = LastStep(draft)'
        /\ flow' # "starting"
    BY <1>1, <1>5, <1>8, Follows
  <2>2. swift = 0 => /\ W!FitsModel(draft)' /\ custom' = "none"
                     /\ draft'.harness \notin Full => draft'.reasoning \in {W!Default, W!Custom}
    BY <1>3, <1>4, <1>8 DEF W!FitsModel
  <2> QED
    BY <1>0, <1>1, <1>3, <1>8, <2>1, <2>2, AcceptKeeps
<1>9. CASE step \in W!TuningSteps /\ custom' = step /\ W!Stays /\ UNCHANGED <<draft, open>>
  <2>1. /\ \E i \in 1..Len(W!Steps') : W!Steps'[i] = step'
        /\ sent' = sent /\ made' = made
        /\ \/ flow' = flow /\ submitting' = submitting /\ (flow # "none" => step' = LastStep(draft)')
           \/ flow = "none" /\ submitting' = TRUE /\ flow' = "starting" /\ step' = LastStep(draft)'
    BY <1>1, <1>9, Follows
  <2>2. flow' = flow /\ step' = step
    BY <1>9 DEF W!Stays, W!submission
  <2>3. swift = 0 => /\ W!FitsModel(draft)'
                     /\ draft'.harness \notin Full => draft'.reasoning \in {W!Default, W!Custom}
                     /\ flow' = "starting" => W!FitsEffort(draft)'
    BY <1>4, <1>9, <2>2 DEF W!FitsModel, W!FitsEffort, W!Effort
  <2>4. custom' \in {"none", "model", "reasoning"} /\ custom' \in {"none", step'}
    BY <1>9, <2>2 DEF W!TuningSteps
  <2> QED
    BY <1>0, <1>1, <1>3, <1>9, <2>1, <2>3, <2>4, AcceptKeeps
<1>10. CASE step \in W!TuningSteps /\ draft' = W!Tuned(step, x.value) /\ W!Advance
            /\ UNCHANGED <<custom, open>>
  <2>0. step \in {"model", "reasoning"} /\ step \notin W!TextSteps
    BY <1>10 DEF W!TuningSteps, W!TextSteps
  <2>1. /\ \E h, m, r : draft' = [harness |-> h, model |-> m, reasoning |-> r]
        /\ draft'.harness = draft.harness
        /\ draft'.model = IF step = "model" THEN x.value ELSE draft.model
        /\ draft'.reasoning = IF step = "model" THEN draft.reasoning ELSE x.value
    BY <1>10, <2>0, Tunes
  <2>2. /\ \E i \in 1..Len(W!Steps') : W!Steps'[i] = step'
        /\ sent' = sent /\ made' = made
        /\ \/ flow' = flow /\ submitting' = submitting /\ (flow # "none" => step' = LastStep(draft)')
           \/ flow = "none" /\ submitting' = TRUE /\ flow' = "starting" /\ step' = LastStep(draft)'
        /\ flow' = "starting" => step = LastStep(draft)
    BY <1>1, <1>10, <2>1, Follows
  <2>3. ASSUME swift = 0
        PROVE  /\ custom' = "none" /\ W!FitsModel(draft)'
               /\ draft'.harness \notin Full => draft'.reasoning \in {W!Default, W!Custom}
               /\ flow' = "starting" => W!FitsEffort(draft)'
    <3>1. custom = "none" /\ x.value \in W!Offered(draft, step)
      BY <1>1, <2>0, <2>3 DEF Pending
    <3>2. /\ step = "model" => \/ x.value \in {W!Default, W!Custom}
                               \/ x.value[1] = "model" /\ x.value[2] = draft.harness
          /\ step = "reasoning" => x.value \in {W!Default, W!Custom, W!Effort(draft)}
      BY <3>1, OffersFit
    <3>3. W!FitsModel(draft)'
      BY <1>4, <2>0, <2>1, <2>3, <3>2 DEF W!FitsModel
    <3>4. draft'.harness \notin Full => draft'.reasoning \in {W!Default, W!Custom}
      BY <1>3, <1>4, <2>0, <2>1, <2>3
    <3>5. step = "reasoning" => draft'.reasoning \in {W!Default, W!Custom, W!Effort(draft)'}
      BY <2>1, <3>2 DEF W!Effort
    <3>6. flow' = "starting" => W!FitsEffort(draft)'
      BY <2>1, <2>2, <3>4, <3>5 DEF W!FitsEffort, LastStep, LastOf
    <3> QED
      BY <1>10, <3>1, <3>3, <3>4, <3>6
  <2> QED
    BY <1>0, <1>1, <1>3, <1>10, <2>1, <2>2, <2>3, AcceptKeeps
<1> QED
  BY <1>1, <1>6, <1>7, <1>8, <1>9, <1>10
     DEF W!AcceptOption, W!TextSteps, W!submission, W!Stays
\* _accept_name, _accept_description and _accept_custom_tuning.
LEMMA TextKeeps ==
  ASSUME FlowsAssumption, Wizard, W!AcceptText
  PROVE  Wizard'
<1> DEFINE x == accepts[1]
<1>0. lost' \in 0..MaxLost
  BY LostKeeps DEF Wizard, WizardTypes, W!TypeOK, W!Next
<1>1. /\ W!Accept /\ open /\ open' = open /\ Head(accepts) = x
      /\ UNCHANGED <<kind, swift>> /\ (swift = 0 => Pending(x))
  BY Accepted DEF W!AcceptText
<1>3. /\ \E h, m, r : draft = [harness |-> h, model |-> m, reasoning |-> r]
      /\ draft.harness \in Full \cup Plain /\ custom \in {"none", "model", "reasoning"}
      /\ flow # "none" => step = LastStep(draft)
      /\ step = "reasoning" => draft.harness \in Full
  <2>1. \E i \in 1..Len(W!Steps) : W!Steps[i] = step
    BY DEF Wizard, WizardSteps
  <2>2. step = "reasoning" => draft.harness \in Full
    BY <2>1, StepsTyped
  <2> QED
    BY <2>2 DEF Wizard, WizardTypes, WizardSteps, W!TypeOK, W!Harness, W!TuningSteps
<1>4. swift = 0 => /\ custom \in {"none", step} /\ W!FitsModel(draft)
                   /\ draft.harness \notin Full => draft.reasoning \in {W!Default, W!Custom}
                   /\ flow = "starting" => W!FitsEffort(draft)
  BY DEF Wizard, WizardOffers
<1>5. LastStep(draft) \in {"model", "reasoning"}
  BY DEF LastStep, LastOf
<1> HIDE DEF x
<1>6. CASE W!Stays /\ UNCHANGED <<draft, custom>>
  <2>1. /\ \E i \in 1..Len(W!Steps') : W!Steps'[i] = step'
        /\ sent' = sent /\ made' = made
        /\ \/ flow' = flow /\ submitting' = submitting /\ (flow # "none" => step' = LastStep(draft)')
           \/ flow = "none" /\ submitting' = TRUE /\ flow' = "starting" /\ step' = LastStep(draft)'
    BY <1>1, <1>6, Follows
  <2>2. flow' = flow /\ step' = step
    BY <1>6 DEF W!Stays, W!submission
  <2>3. swift = 0 => /\ W!FitsModel(draft)' /\ custom' \in {"none", step'}
                     /\ draft'.harness \notin Full => draft'.reasoning \in {W!Default, W!Custom}
                     /\ flow' = "starting" => W!FitsEffort(draft)'
    BY <1>4, <1>6, <2>2 DEF W!FitsModel, W!FitsEffort, W!Effort
  <2> QED
    BY <1>0, <1>1, <1>3, <1>6, <2>1, <2>3, AcceptKeeps
<1>7. CASE x.by \in W!TextSteps /\ W!Advance /\ UNCHANGED <<draft, custom>>
  <2>1. /\ \E i \in 1..Len(W!Steps') : W!Steps'[i] = step'
        /\ sent' = sent /\ made' = made
        /\ \/ flow' = flow /\ submitting' = submitting /\ (flow # "none" => step' = LastStep(draft)')
           \/ flow = "none" /\ submitting' = TRUE /\ flow' = "starting" /\ step' = LastStep(draft)'
        /\ flow' = "starting" => step = LastStep(draft)
    BY <1>1, <1>7, Follows
  <2>2. swift = 0 => custom = "none" /\ flow' # "starting"
    BY <1>1, <1>5, <1>7, <2>1 DEF Pending, W!TextSteps
  <2>3. swift = 0 => /\ W!FitsModel(draft)' /\ custom' = "none"
                     /\ draft'.harness \notin Full => draft'.reasoning \in {W!Default, W!Custom}
    BY <1>4, <1>7, <2>2 DEF W!FitsModel
  <2> QED
    BY <1>0, <1>1, <1>3, <1>7, <2>1, <2>2, <2>3, AcceptKeeps
<1>8. CASE custom # "none" /\ draft' = W!Tuned(custom, W!Custom) /\ custom' = "none" /\ W!Advance
  <2>0. custom \in {"model", "reasoning"}
    BY <1>3, <1>8
  <2>1. /\ \E h, m, r : draft' = [harness |-> h, model |-> m, reasoning |-> r]
        /\ draft'.harness = draft.harness
        /\ draft'.model = IF custom = "model" THEN W!Custom ELSE draft.model
        /\ draft'.reasoning = IF custom = "model" THEN draft.reasoning ELSE W!Custom
    BY <1>8, <2>0, Tunes
  <2>2. /\ \E i \in 1..Len(W!Steps') : W!Steps'[i] = step'
        /\ sent' = sent /\ made' = made
        /\ \/ flow' = flow /\ submitting' = submitting /\ (flow # "none" => step' = LastStep(draft)')
           \/ flow = "none" /\ submitting' = TRUE /\ flow' = "starting" /\ step' = LastStep(draft)'
        /\ flow' = "starting" => step = LastStep(draft)
    BY <1>1, <1>8, <2>1, Follows
  <2>3. ASSUME swift = 0
        PROVE  /\ W!FitsModel(draft)'
               /\ draft'.harness \notin Full => draft'.reasoning \in {W!Default, W!Custom}
               /\ flow' = "starting" => W!FitsEffort(draft)'
    <3>1. custom = step
      BY <1>4, <2>0, <2>3
    <3>3. W!FitsModel(draft)'
      BY <1>4, <2>1, <2>3 DEF W!FitsModel
    <3>4. draft'.harness \notin Full => draft'.reasoning \in {W!Default, W!Custom}
      BY <1>4, <2>1, <2>3
    <3>6. flow' = "starting" => W!FitsEffort(draft)'
      BY <2>0, <2>1, <2>2, <3>1, <3>4 DEF W!FitsEffort, LastStep, LastOf
    <3> QED
      BY <3>3, <3>4, <3>6
  <2> QED
    BY <1>0, <1>1, <1>3, <1>8, <2>1, <2>2, <2>3, AcceptKeeps
<1> QED
  BY <1>1, <1>6, <1>7, <1>8 DEF W!AcceptText

-----------------------------------------------------------------------------
(* AgentWizard: going back, and the workers of the submission.             *)

\* What a step keeps that accepts nothing and leaves the draft alone.
LEMMA FormStays ==
  ASSUME Wizard, UNCHANGED <<kind, draft, accepts>>,
         swift' \in Nat, swift' = 0 => swift = 0,
         \E i \in 1..Len(W!Steps) : W!Steps[i] = step',
         \/ step' = step /\ custom' = custom
         \/ step' \in W!TextSteps /\ custom' = "none"
         \/ custom' = "none" /\ (swift' = 0 => accepts = <<>>)
  PROVE  /\ step' \in {"harness", "role"} \cup W!TextSteps \cup W!TuningSteps
         /\ custom' \in {"none"} \cup W!TuningSteps
         /\ \E i \in 1..Len(W!Steps') : W!Steps'[i] = step'
         /\ LastStep(draft)' = LastStep(draft)
         /\ swift' = 0 => /\ Len(accepts') <= 1 /\ (Len(accepts') = 1 => Pending(accepts[1])')
                          /\ custom' \in {"none", step'} /\ W!FitsModel(draft)'
                          /\ draft'.harness \notin Full
                               => draft'.reasoning \in {W!Default, W!Custom}
<1>1. step' \in {"harness", "role"} \cup W!TextSteps \cup W!TuningSteps
  BY StepsTyped
<1>2. W!Steps' = W!Steps /\ LastStep(draft)' = LastStep(draft)
  BY StepsStay
<1>3. custom' \in {"none"} \cup W!TuningSteps
  BY DEF Wizard, WizardTypes, W!TypeOK
<1>4. ASSUME swift' = 0
      PROVE  /\ Len(accepts') <= 1 /\ (Len(accepts') = 1 => Pending(accepts[1])')
             /\ custom' \in {"none", step'} /\ W!FitsModel(draft)'
             /\ draft'.harness \notin Full => draft'.reasoning \in {W!Default, W!Custom}
  <2>1. /\ Len(accepts) <= 1 /\ (Len(accepts) = 1 => Pending(accepts[1]))
        /\ custom \in {"none", step} /\ W!FitsModel(draft)
        /\ draft.harness \notin Full => draft.reasoning \in {W!Default, W!Custom}
    BY <1>4 DEF Wizard, WizardOffers
  <2>2. accepts' = accepts /\ Len(<<>>) = 0
    OBVIOUS
  <2>3. ASSUME Len(accepts') = 1
        PROVE  Pending(accepts[1])'
    <3>1. Pending(accepts[1])
      BY <2>1, <2>2, <2>3
    <3>2. CASE step' = step /\ custom' = custom
      BY <2>2, <3>1, <3>2 DEF Pending, W!Offered, W!Effort
    <3>3. CASE step' \in W!TextSteps /\ custom' = "none"
      BY <3>3 DEF Pending
    <3>4. ~(swift' = 0 => accepts = <<>>) \/ accepts = <<>>
      BY <1>4
    <3>5. accepts # <<>>
      BY <2>2, <2>3
    <3> QED
      BY <3>2, <3>3, <3>4, <3>5
  <2>4. W!FitsModel(draft)'
    BY <2>1 DEF W!FitsModel
  <2> QED
    BY <2>1, <2>2, <2>3, <2>4
<1> QED
  BY <1>1, <1>2, <1>3, <1>4
\* action_back.
LEMMA BackKeeps ==
  ASSUME FlowsAssumption, Wizard, W!Back
  PROVE  Wizard'
<1>1. /\ UNCHANGED <<kind, draft, accepts, submitting, sent, made, flow>> /\ ~submitting
      /\ swift' \in Nat /\ (swift' = 0 => swift = 0 /\ accepts = <<>>)
  <2>1. W!Press /\ UNCHANGED <<kind, draft, accepts, submitting, sent, made, flow>> /\ ~submitting
    BY DEF W!Back
  <2>2. swift \in Nat
    BY DEF Wizard, WizardTypes
  <2>3. swift' \in Nat /\ (swift' = 0 => swift = 0 /\ accepts = <<>>)
    BY <2>1, <2>2 DEF W!Press
  <2> QED
    BY <2>1, <2>3
<1>2. flow = "none"
  BY <1>1 DEF Wizard, WizardSteps
<1>3. open /\ open' \in BOOLEAN
  BY DEF W!Back, W!Press, Wizard, WizardTypes, W!TypeOK
<1>4. /\ \E i \in 1..Len(W!Steps) : W!Steps[i] = step'
      /\ (step' = step /\ custom' = custom) \/ custom' = "none"
  <2>1. CASE custom' = "none" /\ step' = step
    BY <2>1 DEF Wizard, WizardSteps
  <2>2. CASE custom' = custom /\ step' = step
    BY <2>2 DEF Wizard, WizardSteps
  <2>3. CASE custom = "none" /\ W!Position > 1 /\ step' = W!Steps[W!Position - 1] /\ custom' = custom
    <3>1. W!Position - 1 \in 1..Len(W!Steps)
      BY <2>3, PositionFacts
    <3> QED
      BY <2>3, <3>1
  <2> QED
    BY <2>1, <2>2, <2>3 DEF W!Back
<1>5. /\ step' \in {"harness", "role"} \cup W!TextSteps \cup W!TuningSteps
      /\ custom' \in {"none"} \cup W!TuningSteps
      /\ \E i \in 1..Len(W!Steps') : W!Steps'[i] = step'
      /\ swift' = 0 => /\ Len(accepts') <= 1 /\ (Len(accepts') = 1 => Pending(accepts[1])')
                       /\ custom' \in {"none", step'} /\ W!FitsModel(draft)'
                       /\ draft'.harness \notin Full
                            => draft'.reasoning \in {W!Default, W!Custom}
  BY <1>1, <1>4, FormStays
<1>6. WizardTypes'
  <2>1. lost' \in 0..MaxLost
    BY LostKeeps DEF Wizard, WizardTypes, W!TypeOK, W!Next
  <2> QED
    BY <1>1, <1>3, <1>5, <2>1 DEF Wizard, WizardTypes, W!TypeOK
<1>7. WizardSteps' /\ OneSubmission'
  BY <1>1, <1>2, <1>3, <1>5 DEF Wizard, WizardSteps, OneSubmission
<1>8. WizardOffers'
  <2>1. swift' = 0 /\ sent' # W!NoDraft => W!FitsModel(sent)' /\ W!FitsEffort(sent)'
    BY <1>1 DEF Wizard, WizardOffers, W!FitsModel, W!FitsEffort, W!Effort
  <2> QED
    BY <1>1, <1>2, <1>5, <2>1 DEF WizardOffers, W!NoDraft
<1> QED
  BY <1>6, <1>7, <1>8 DEF Wizard

\* The workers: _submit and _submit_reconfigure.
LEMMA SubmissionKeeps ==
  ASSUME FlowsAssumption, Wizard, W!Submits \/ W!Preflighted \/ W!Registers \/ W!Rejected \/ W!Recorded
  PROVE  Wizard'
<1>1. UNCHANGED <<kind, draft, accepts, swift>> /\ flow # "none" /\ swift \in Nat
  BY DEF W!Submits, W!Preflighted, W!Registers, W!Rejected, W!Recorded, W!form, Wizard, WizardTypes
<1>2. /\ submitting = TRUE /\ open = TRUE /\ step = LastStep(draft) /\ made \in Nat
      /\ \E i \in 1..Len(W!Steps) : W!Steps[i] = step
      /\ flow \in {"create", "record"} => kind = "register"
      /\ flow \in {"starting", "preflight", "create"} => made = 0
      /\ flow = "record" => made = 1
      /\ flow \in {"starting", "preflight", "create", "record"}
      /\ flow = "starting" <=> sent = W!NoDraft
  BY <1>1 DEF Wizard, WizardSteps, OneSubmission, WizardTypes, W!TypeOK
<1>3. \/ step' = step /\ custom' = custom
      \/ step' \in W!TextSteps /\ custom' = "none" /\ kind = "register" /\ flow' = "none"
  BY <1>2 DEF W!Submits, W!Preflighted, W!Registers, W!Rejected, W!Recorded, W!form, W!TextSteps, W!Ends
<1>4. \E i \in 1..Len(W!Steps) : W!Steps[i] = step'
  BY <1>2, <1>3, StepsFacts DEF IsStepList, W!TextSteps
<1>5. /\ step' \in {"harness", "role"} \cup W!TextSteps \cup W!TuningSteps
      /\ custom' \in {"none"} \cup W!TuningSteps
      /\ \E i \in 1..Len(W!Steps') : W!Steps'[i] = step'
      /\ LastStep(draft)' = LastStep(draft)
      /\ swift' = 0 => /\ Len(accepts') <= 1 /\ (Len(accepts') = 1 => Pending(accepts[1])')
                       /\ custom' \in {"none", step'} /\ W!FitsModel(draft)'
                       /\ draft'.harness \notin Full
                            => draft'.reasoning \in {W!Default, W!Custom}
  BY <1>1, <1>3, <1>4, FormStays
<1>6. /\ \/ /\ flow' \in {"preflight", "create", "record"} /\ submitting' = submitting
            /\ sent' # W!NoDraft /\ open' = open /\ step' = step
         \/ flow' = "none" /\ submitting' = FALSE /\ sent' = W!NoDraft /\ open' \in BOOLEAN
      /\ made' \in {0, 1}
      /\ flow' \in {"preflight", "create"} => made' = 0
      /\ flow' = "record" => made' = 1
      /\ flow' = "none" /\ open' => made' = 0
      /\ flow' \in {"create", "record"} => kind = "register"
      /\ swift = 0 /\ sent' # W!NoDraft => W!FitsModel(sent)' /\ W!FitsEffort(sent)'
  <2>1. CASE W!Submits
    <3>1. ASSUME flow' = "preflight", sent' = draft, UNCHANGED <<submitting, step, custom, made, open>>
          PROVE  /\ sent' # W!NoDraft
                 /\ swift = 0 => W!FitsModel(sent)' /\ W!FitsEffort(sent)'
      <4>1. sent' # W!NoDraft
        BY <3>1, DraftIsSent
      <4>2. swift = 0 => W!FitsModel(draft) /\ W!FitsEffort(draft)
        BY <2>1 DEF Wizard, WizardOffers, W!Submits
      <4> QED
        BY <3>1, <4>1, <4>2 DEF W!FitsModel, W!FitsEffort, W!Effort
    <3> QED
      BY <1>2, <2>1, <3>1 DEF W!Submits, W!Ends
  <2>2. CASE W!Preflighted
    <3>1. swift = 0 /\ sent' = sent /\ sent # W!NoDraft => W!FitsModel(sent)' /\ W!FitsEffort(sent)'
      BY DEF Wizard, WizardOffers, W!FitsModel, W!FitsEffort, W!Effort
    <3>2. CASE kind = "register" /\ flow' = "create" /\ UNCHANGED <<submitting, sent, made, open>>
      BY <1>2, <2>2, <3>1, <3>2 DEF W!Preflighted, W!form
    <3>3. CASE made' = made + 1 /\ open' = FALSE /\ W!Ends
      <4>1. made = 0 /\ made' = 1
        BY <1>2, <2>2, <3>3 DEF W!Preflighted
      <4>2. open' \in BOOLEAN /\ ~open'
        BY <3>3
      <4>3. flow' = "none" /\ submitting' = FALSE /\ sent' = W!NoDraft
        BY <3>3 DEF W!Ends
      <4> QED
        BY <4>1, <4>2, <4>3
    <3>4. CASE W!Ends /\ UNCHANGED <<made, open>>
      BY <1>2, <2>2, <3>4 DEF W!Preflighted, W!Ends
    <3> QED
      BY <2>2, <3>2, <3>3, <3>4 DEF W!Preflighted
  <2>3. CASE W!Registers
    <3>1. swift = 0 /\ sent' = sent /\ sent # W!NoDraft => W!FitsModel(sent)' /\ W!FitsEffort(sent)'
      BY DEF Wizard, WizardOffers, W!FitsModel, W!FitsEffort, W!Effort
    <3>2. CASE made' = made + 1 /\ flow' = "record" /\ UNCHANGED <<submitting, sent>>
      BY <1>2, <2>3, <3>1, <3>2 DEF W!Registers, W!form
    <3>3. CASE W!Ends /\ UNCHANGED made
      BY <1>2, <2>3, <3>3 DEF W!Registers, W!Ends
    <3> QED
      BY <2>3, <3>2, <3>3 DEF W!Registers
  <2>4. CASE W!Rejected
    BY <1>2, <2>4 DEF W!Rejected, W!Ends
  <2>5. CASE W!Recorded
    <3>1. made = 1 /\ W!Ends /\ ((open' = FALSE /\ made' = made) \/ (made' = made - 1 /\ open' = open))
      BY <1>2, <2>5 DEF W!Recorded
    <3>2. CASE open' = FALSE /\ made' = made
      <4>1. open' \in BOOLEAN /\ ~open' /\ made' = 1
        BY <3>1, <3>2
      <4> QED
        BY <3>1, <4>1 DEF W!Ends
    <3>3. CASE made' = made - 1 /\ open' = open
      <4>1. made' = 0 /\ open' = TRUE
        BY <1>2, <3>1, <3>3
      <4>2. open' \in BOOLEAN
        BY <4>1
      <4> QED
        BY <3>1, <4>1, <4>2 DEF W!Ends
    <3> QED
      BY <3>1, <3>2, <3>3
  <2> QED
    BY <2>1, <2>2, <2>3, <2>4, <2>5
<1>7. WizardTypes'
  <2>0. submitting' \in BOOLEAN /\ open' \in BOOLEAN
    BY <1>2, <1>6, Zenon
  <2>1. submitting' \in BOOLEAN /\ open' \in BOOLEAN /\ made' \in Nat
    BY <1>6, <2>0
  <2>2. /\ flow' \in {"none", "starting", "preflight", "create", "record"}
        /\ flow' \in {"none", "starting"} <=> sent' = W!NoDraft
    BY <1>6
  <2>3. kind \in Kinds /\ draft.harness \in W!Harness
    BY DEF Wizard, WizardTypes, W!TypeOK
  <2>5. lost' \in 0..MaxLost
    BY LostKeeps DEF Wizard, WizardTypes, W!TypeOK, W!Next
  <2>4. W!TypeOK'
    BY <1>1, <1>5, <2>1, <2>2, <2>3, <2>5 DEF W!TypeOK, W!NoDraft, W!Harness
  <2> QED
    BY <1>1, <2>4 DEF Wizard, WizardTypes
<1>8. WizardSteps' /\ OneSubmission'
  <2>1. /\ submitting' <=> flow' # "none"
        /\ flow' # "none" => step' = LastStep(draft)' /\ open'
        /\ flow' \in {"create", "record"} => kind' = "register"
    BY <1>1, <1>2, <1>5, <1>6
  <2>2. WizardSteps'
    BY <1>5, <2>1 DEF WizardSteps
  <2>3. OneSubmission'
    BY <1>6 DEF OneSubmission
  <2> QED
    BY <2>2, <2>3
<1>9. WizardOffers'
  BY <1>1, <1>5, <1>6 DEF WizardOffers, W!NoDraft
<1> QED
  BY <1>7, <1>8, <1>9 DEF Wizard
-----------------------------------------------------------------------------
(* AgentWizard: its invariant.                                             *)

LEMMA WizardStart == FlowsAssumption /\ W!Init => Wizard
<1> SUFFICES ASSUME FlowsAssumption, W!Init
             PROVE  Wizard
  OBVIOUS
<1>1. PICK h \in Full \cup Plain : draft = [harness |-> h, model |-> W!Default, reasoning |-> W!Default]
  BY DEF W!Init, W!NewDraft, W!Harness
<1>2. draft.harness = h /\ draft.model = W!Default /\ draft.reasoning = W!Default
  BY <1>1
<1>3. accepts = <<>> /\ Len(accepts) = 0 /\ accepts \in Seq({})
  BY DEF W!Init
<1>4. WizardTypes
  <2>0. lost \in 0..MaxLost
    BY DEF W!Init, FlowsAssumption
  <2>1. W!TypeOK
    BY <1>2, <2>0 DEF W!Init, W!TypeOK, W!Harness
  <2>2. \E g, m, r : draft = [harness |-> g, model |-> m, reasoning |-> r]
    BY <1>1
  <2>3. \E S : accepts \in Seq(S)
    BY <1>3
  <2>4. \A i \in 1..Len(accepts) : FALSE
    BY <1>3
  <2>5. swift \in Nat
    BY DEF W!Init
  <2> QED
    BY <2>1, <2>2, <2>3, <2>4, <2>5 DEF WizardTypes
<1>5. WizardSteps /\ OneSubmission
  BY StepsFacts DEF W!Init, WizardSteps, OneSubmission, IsStepList
<1>6. WizardOffers
  BY <1>2, <1>3 DEF W!Init, WizardOffers, W!FitsModel
<1> QED
  BY <1>4, <1>5, <1>6 DEF Wizard

LEMMA WizardKeeps ==
  FlowsAssumption /\ Wizard /\ (W!Next \/ UNCHANGED wizardVars) => Wizard'
<1> SUFFICES ASSUME FlowsAssumption, Wizard, W!Next \/ UNCHANGED wizardVars
             PROVE  Wizard'
  OBVIOUS
<1>1. CASE UNCHANGED wizardVars
  <2>1. WizardTypes'
    BY <1>1 DEF Wizard, WizardTypes, W!TypeOK, wizardVars
  <2>2. W!Steps' = W!Steps /\ LastStep(draft)' = LastStep(draft)
    BY <1>1, StepsStay DEF wizardVars
  <2>3. WizardSteps' /\ OneSubmission'
    BY <1>1, <2>2 DEF Wizard, WizardSteps, OneSubmission, wizardVars
  <2>4. WizardOffers'
    BY <1>1 DEF Wizard, WizardOffers, Pending, W!FitsModel, W!FitsEffort, W!Effort, W!Offered, wizardVars
  <2> QED
    BY <2>1, <2>3, <2>4 DEF Wizard
<1> QED
  BY <1>1, PressKeeps, BackKeeps, OptionKeeps, TextKeeps, SubmissionKeeps DEF W!Next

\* What is submitted fits, once.
LEMMA WizardHolds == Wizard => W!TypeOK /\ W!SubmissionIsSound
BY DEF Wizard, WizardTypes, OneSubmission, WizardOffers, W!SubmissionIsSound, W!SubmissionFits,
       W!SettingsFit, W!OneRegistration
-----------------------------------------------------------------------------
(* RoomsCatalog: the inductive invariant.                                  *)

\* The lists hold rooms, and a cursor is missing in answers only.
RoomLists ==
  /\ server \in Seq(Rooms) /\ rooms \in Seq(Rooms)
  /\ more \in Nat \cup {None}
  /\ \E k, a, c, g : load = [kind |-> k, at |-> a, cursor |-> c, got |-> g]
  /\ load.got \in Seq(Rooms)
  /\ load.cursor \in Nat \cup {None} /\ (load.at # "answered" => load.cursor \in Nat)
  /\ load.at = "sleep" => load.kind = "search"

\* Requests are about rooms; what was deleted here is not listed by the
\* platform again.
RoomRequests ==
  /\ \E a, r : deletion = [at |-> a, room |-> r]
  /\ deletion.at \in {"idle", "asked", "deleted"}
  /\ deletion.at # "idle" => deletion.room \in Rooms
  /\ deletion.at = "deleted" => deletion.room \in used \ R!ToSet(server)
  /\ creation.at = "created" => creation.room \in Rooms

\* No answer that is under way or still to be applied has a forgotten room.
RoomsForgotten ==
  /\ forgotten \subseteq used
  /\ forgotten \cap R!ToSet(server) = {} /\ forgotten \cap R!ToSet(load.got) = {}

RoomsFit == R!TypeOK /\ RoomLists /\ RoomRequests /\ RoomsForgotten /\ R!FlagTellsTheLoad

-----------------------------------------------------------------------------
(* RoomsCatalog: what happens to its lists.                                *)

\* Counting is the same in the part, and so is what a list holds.
LEMMA Counting == ASSUME NEW S PROVE R!Cardinality(S) = Cardinality(S)
BY DEF R!Cardinality, Cardinality

LEMMA Held == ASSUME NEW list \in Seq(Rooms) PROVE R!ToSet(list) = {list[i] : i \in 1..Len(list)}
BY DEF R!ToSet

\* The n-th of some places is one of them.
LEMMA NthFacts ==
  ASSUME NEW m \in Nat, NEW S \in SUBSET (1..m)
  PROVE  /\ Cardinality(S) \in Nat
         /\ \A n \in 1..Cardinality(S) : R!Nth(S, n) \in S
<1>1. IsFiniteSet(S) /\ Cardinality(S) \in Nat
  <2>1. IsFiniteSet(1..m)
    BY FS_Interval
  <2>2. IsFiniteSet(S)
    BY <2>1, FS_Subset
  <2> QED
    BY <2>2, FS_CardinalityType
<1> DEFINE Upto(i) == {j \in S : j <= i}
           c == Cardinality(S)
           rank == [i \in S |-> Cardinality(Upto(i))]
<1>2. ASSUME NEW i \in S
      PROVE  IsFiniteSet(Upto(i)) /\ Cardinality(Upto(i)) \in 1..c
  <2>1. IsFiniteSet(Upto(i)) /\ Cardinality(Upto(i)) <= c
    BY <1>1, FS_Subset
  <2>2. i \in Upto(i)
    OBVIOUS
  <2>3. Cardinality(Upto(i)) # 0
    BY <2>1, <2>2, FS_EmptySet
  <2> QED
    BY <1>1, <2>1, <2>3, FS_CardinalityType
<1>3. ASSUME NEW i \in S, NEW k \in S, i < k
      PROVE  rank[i] # rank[k]
  <2>1. i \in Int /\ k \in Int /\ S \subseteq Int
    OBVIOUS
  <2>2. Upto(i) \subseteq Upto(k) /\ k \in Upto(k) /\ k \notin Upto(i)
    <3>1. ASSUME NEW j \in S, j <= i
          PROVE  j <= k
      BY <1>3, <2>1, <3>1
    <3>2. k <= k /\ ~(k <= i)
      BY <1>3, <2>1
    <3> QED
      BY <3>1, <3>2
  <2>3. IsFiniteSet(Upto(k)) /\ Upto(i) \in SUBSET Upto(k) /\ Upto(i) # Upto(k)
    BY <1>2, <2>2
  <2>4. Cardinality(Upto(i)) # Cardinality(Upto(k))
    BY <2>3, FS_Subset
  <2> QED
    BY <2>4
<1>4. rank \in Injection(S, 1..c)
  <2>1. rank \in [S -> 1..c]
    BY <1>2
  <2>2. \A i, k \in S : i # k => i < k \/ k < i
    OBVIOUS
  <2> QED
    BY <1>3, <2>1, <2>2 DEF Injection, IsInjective
<1>5. rank \in Surjection(S, 1..c)
  <2>1. IsFiniteSet(1..c) /\ Cardinality(1..c) = c
    BY <1>1, FS_Interval
  <2> QED
    BY <1>1, <1>4, <2>1, FS_Injection
<1>6. ASSUME NEW n \in 1..c
      PROVE  R!Nth(S, n) \in S
  <2>1. \E i \in S : Cardinality(Upto(i)) = n
    BY <1>5 DEF Surjection
  <2>2. \E i \in S : R!Cardinality({j \in S : j <= i}) = n
    BY <2>1, Counting
  <2> QED
    BY <2>2 DEF R!Nth
<1> QED
  BY <1>1, <1>6

\* The rooms of a list that are in a set (a filter and a removal).
LEMMA KeptFacts ==
  ASSUME NEW list \in Seq(Rooms), NEW ids
  PROVE  /\ R!Kept(list, ids) \in Seq(Rooms)
         /\ R!ToSet(R!Kept(list, ids)) \subseteq R!ToSet(list) \cap ids
<1> DEFINE places == {i \in DOMAIN list : list[i] \in ids}
           c == Cardinality(places)
<1>1. Len(list) \in Nat /\ DOMAIN list = 1..Len(list)
  OBVIOUS
<1>2. c \in Nat /\ \A n \in 1..c : R!Nth(places, n) \in places
  BY <1>1, NthFacts
<1>3. R!Kept(list, ids) = [n \in 1..c |-> list[R!Nth(places, n)]]
  BY Counting DEF R!Kept
<1>4. \A n \in 1..c : list[R!Nth(places, n)] \in Rooms \cap ids /\ R!Nth(places, n) \in 1..Len(list)
  BY <1>1, <1>2
<1> HIDE DEF places, c
<1>5. R!Kept(list, ids) \in Seq(Rooms) /\ Len(R!Kept(list, ids)) = c
  BY <1>2, <1>3, <1>4
<1>6. R!ToSet(R!Kept(list, ids)) = {R!Kept(list, ids)[n] : n \in 1..c}
  BY <1>5, Held
<1>7. \A n \in 1..c : R!Kept(list, ids)[n] = list[R!Nth(places, n)]
  BY <1>3
<1> QED
  BY <1>4, <1>5, <1>6, <1>7, Held

\* A list behind another.
LEMMA Joined ==
  ASSUME NEW p \in Seq(Rooms), NEW q \in Seq(Rooms)
  PROVE  p \o q \in Seq(Rooms) /\ R!ToSet(p \o q) \subseteq R!ToSet(p) \cup R!ToSet(q)
<1>1. /\ p \o q \in Seq(Rooms) /\ Len(p \o q) = Len(p) + Len(q)
      /\ \A i \in 1..(Len(p) + Len(q)) : (p \o q)[i] = IF i <= Len(p) THEN p[i] ELSE q[i - Len(p)]
  BY ConcatProperties
<1>2. ASSUME NEW i \in 1..Len(p \o q)
      PROVE  (p \o q)[i] \in R!ToSet(p) \cup R!ToSet(q)
  <2>1. Len(p) \in Nat /\ Len(q) \in Nat
    OBVIOUS
  <2>2. CASE i <= Len(p)
    <3>1. i \in 1..Len(p) /\ (p \o q)[i] = p[i]
      BY <1>1, <2>1, <2>2
    <3> QED
      BY <3>1, Held
  <2>3. CASE ~(i <= Len(p))
    <3>1. i - Len(p) \in 1..Len(q) /\ (p \o q)[i] = q[i - Len(p)]
      BY <1>1, <2>1, <2>3
    <3> QED
      BY <3>1, Held
  <2> QED
    BY <2>2, <2>3
<1>3. R!ToSet(p \o q) = {(p \o q)[i] : i \in 1..Len(p \o q)}
  BY <1>1, Held
<1> QED
  BY <1>1, <1>2, <1>3

\* A page of the platform's list (list_room_page).
LEMMA Pages ==
  ASSUME FlowsAssumption, server \in Seq(Rooms), NEW c \in Nat
  PROVE  /\ R!Page(c) \in Seq(Rooms) /\ R!ToSet(R!Page(c)) \subseteq R!ToSet(server)
         /\ R!NextCursor(c) \in Nat \cup {None}
<1> DEFINE n == R!SmallerOf(c + Limit, Len(server))
<1>1. Limit \in Nat /\ Len(server) \in Nat
  BY DEF FlowsAssumption
<1>2. n \in Nat /\ n <= Len(server)
  BY <1>1 DEF R!SmallerOf
<1>3. R!Page(c) = SubSeq(server, c + 1, n)
  BY DEF R!Page
<1> HIDE DEF n
<1>4. \A i \in (c + 1)..n : i \in 1..Len(server)
  BY <1>1, <1>2
<1>5. /\ SubSeq(server, c + 1, n) \in Seq(Rooms)
      /\ \A i \in 1..Len(SubSeq(server, c + 1, n)) :
           i + c \in (c + 1)..n /\ SubSeq(server, c + 1, n)[i] = server[i + c]
  BY <1>1, <1>2, <1>4
<1>6. R!ToSet(R!Page(c)) \subseteq R!ToSet(server)
  <2>1. R!ToSet(R!Page(c)) = {R!Page(c)[i] : i \in 1..Len(R!Page(c))}
    BY <1>3, <1>5, Held
  <2>2. R!ToSet(server) = {server[i] : i \in 1..Len(server)}
    BY Held
  <2> QED
    BY <1>3, <1>4, <1>5, <2>1, <2>2
<1>7. R!NextCursor(c) \in Nat \cup {None}
  BY <1>1 DEF R!NextCursor
<1> QED
  BY <1>3, <1>5, <1>6, <1>7
\* A room is created, first in the list (Registers).
LEMMA Created ==
  ASSUME NEW r \in Rooms, server \in Seq(Rooms), R!Registers(r)
  PROVE  /\ server' \in Seq(Rooms) /\ used' = used \cup {r}
         /\ R!ToSet(server)' \subseteq {r} \cup R!ToSet(server)
<1>1. <<r>> \in Seq(Rooms)
  OBVIOUS
<1>2. R!ToSet(<<r>>) = {r}
  <2>1. DOMAIN <<r>> = {1} /\ <<r>>[1] = r
    OBVIOUS
  <2> QED
    BY <2>1 DEF R!ToSet
<1>3. /\ <<r>> \o server \in Seq(Rooms)
      /\ R!ToSet(<<r>> \o server) \subseteq R!ToSet(<<r>>) \cup R!ToSet(server)
  BY <1>1, Joined
<1>4. R!ToSet(server)' = R!ToSet(server')
  BY DEF R!ToSet
<1> QED
  BY <1>2, <1>3, <1>4 DEF R!Registers

\* The highlighted room is one of the list, if any (_reconcile_selection).
LEMMA Highlights ==
  ASSUME NEW list \in Seq(Rooms), roomSelected \in Rooms \cup {None}, R!Reconcile(list)
  PROVE  roomSelected' \in Rooms \cup {None}
<1>1. R!Visible(list) \in Seq(Rooms)
  BY KeptFacts DEF R!Visible
<1>2. R!Visible(list) # <<>> => R!Visible(list)[1] \in Rooms
  BY <1>1
<1> QED
  BY <1>2 DEF R!Reconcile

-----------------------------------------------------------------------------
(* RoomsCatalog: its steps.                                                *)

\* What a load looks like that has not been answered.
Fresh(l) ==
  \E k \in {"none", "list", "search", "more"}, a \in {"idle", "sleep", "asked"}, c \in Nat :
     (a = "sleep" => k = "search") /\ l = [kind |-> k, at |-> a, cursor |-> c, got |-> <<>>]

LEMMA Freshness ==
  /\ Fresh(R!NoLoad) /\ Fresh(R!Sleeps)
  /\ \A k \in {"list", "more"}, c \in Nat : Fresh(R!Asked(k, c))
BY DEF Fresh, R!NoLoad, R!Sleeps, R!Asked

\* A fresh load replaces the one before.
LEMMA Loads ==
  ASSUME Fresh(load')
  PROVE  /\ load.kind' \in {"none", "list", "search", "more"}
         /\ load.at' \in {"idle", "sleep", "asked", "answered"}
         /\ \E k, a, c, g : load' = [kind |-> k, at |-> a, cursor |-> c, got |-> g]
         /\ load.got' \in Seq(Rooms) /\ R!ToSet(load.got)' = {}
         /\ load.cursor' \in Nat /\ (load.at' = "sleep" => load.kind' = "search")
<1>1. PICK k \in {"none", "list", "search", "more"}, a \in {"idle", "sleep", "asked"}, c \in Nat :
        (a = "sleep" => k = "search") /\ load' = [kind |-> k, at |-> a, cursor |-> c, got |-> <<>>]
  BY DEF Fresh
<1>2. load'.kind = k /\ load'.at = a /\ load'.cursor = c /\ load'.got = <<>>
  BY <1>1
<1>3. \E l, b, d, g : load' = [kind |-> l, at |-> b, cursor |-> d, got |-> g]
  BY <1>1
<1>4. R!ToSet(load.got)' = {}
  BY <1>2 DEF R!ToSet
<1>5. load.kind' = k /\ load.at' = a /\ load.cursor' = c /\ load.got' = <<>>
  BY <1>2
<1>6. <<>> \in Seq(Rooms)
  OBVIOUS
<1>7. a \in {"idle", "sleep", "asked", "answered"} /\ c \in Nat
      /\ k \in {"none", "list", "search", "more"} /\ (a = "sleep" => k = "search")
  BY <1>1
<1> QED
  BY <1>3, <1>4, <1>5, <1>6, <1>7

\* A reload begins (_reload_catalog, remove_room, add_room).
LEMMA Begun ==
  ASSUME RoomsFit, NEW k \in {"list", "search"}, R!Begins(k)
  PROVE  /\ Fresh(load') /\ load' # R!NoLoad /\ more' \in Nat \cup {None}
         /\ loadingMore' \in BOOLEAN /\ unwinding' \in BOOLEAN
         /\ R!FlagTellsTheLoad'
<1>1. loadingMore \in BOOLEAN /\ unwinding \in BOOLEAN
      /\ (loadingMore => load.kind = "more" \/ unwinding)
  BY DEF RoomsFit, R!TypeOK, R!FlagTellsTheLoad
<1>2. PICK late \in BOOLEAN : R!Replaces(late)
  BY DEF R!Begins
<1>3. /\ unwinding' = (unwinding \/ (late /\ load.kind = "more"))
      /\ loadingMore' = (loadingMore /\ (late \/ load.kind # "more"))
  BY <1>2 DEF R!Replaces, R!Stays
<1>4. loadingMore' \in BOOLEAN /\ unwinding' \in BOOLEAN /\ (loadingMore' => unwinding')
  BY <1>1, <1>3
<1>5. Fresh(load')
  BY Freshness DEF R!Begins
<1>6. load' # R!NoLoad
  <2>1. R!Sleeps.kind = "search" /\ R!Asked(k, 0).kind = k /\ R!NoLoad.kind = "none"
    BY DEF R!Sleeps, R!Asked, R!NoLoad
  <2> QED
    BY <2>1 DEF R!Begins
<1> QED
  BY <1>4, <1>5, <1>6 DEF R!Begins, R!FlagTellsTheLoad, RoomsFit, RoomLists

\* A load of the right shape without a forgotten room.
LoadFits ==
  /\ load.kind \in {"none", "list", "search", "more"}
  /\ load.at \in {"idle", "sleep", "asked", "answered"}
  /\ \E k, a, c, g : load = [kind |-> k, at |-> a, cursor |-> c, got |-> g]
  /\ load.got \in Seq(Rooms) /\ forgotten \cap R!ToSet(load.got) = {}
  /\ load.cursor \in Nat \cup {None} /\ (load.at # "answered" => load.cursor \in Nat)
  /\ load.at = "sleep" => load.kind = "search"

LEMMA FreshFits == ASSUME Fresh(load') PROVE LoadFits'
BY Loads DEF LoadFits

LEMMA RoomsFacts ==
  ASSUME RoomsFit
  PROVE  /\ LoadFits /\ RoomRequests /\ R!FlagTellsTheLoad
         /\ server \in Seq(Rooms) /\ R!ToSet(server) \subseteq used /\ used \subseteq Rooms
         /\ rooms \in Seq(Rooms) /\ more \in Nat \cup {None}
         /\ roomSearch \in BOOLEAN /\ roomSelected \in Rooms \cup {None}
         /\ loadingMore \in BOOLEAN /\ unwinding \in BOOLEAN
         /\ forgotten \subseteq used /\ forgotten \cap R!ToSet(server) = {}
BY DEF RoomsFit, R!TypeOK, RoomLists, RoomsForgotten, LoadFits

\* The invariant, put together.
LEMMA RoomsTogether ==
  ASSUME LoadFits', RoomRequests', R!FlagTellsTheLoad',
         server' \in Seq(Rooms), R!ToSet(server)' \subseteq used', used' \subseteq Rooms,
         rooms' \in Seq(Rooms), more' \in Nat \cup {None},
         roomSearch' \in BOOLEAN, roomSelected' \in Rooms \cup {None},
         loadingMore' \in BOOLEAN, unwinding' \in BOOLEAN,
         forgotten' \subseteq used', forgotten' \cap R!ToSet(server)' = {}
  PROVE  RoomsFit'
<1>1. R!ToSet(rooms)' \subseteq Rooms
  BY DEF R!ToSet
<1>2. R!TypeOK'
  BY <1>1 DEF R!TypeOK, LoadFits
<1> QED
  BY <1>2 DEF RoomsFit, RoomLists, RoomsForgotten, LoadFits

\* A step of the lists and of the worker that loads them.
LEMMA LoadsKeep ==
  ASSUME RoomsFit, UNCHANGED <<server, used, deletion, creation, forgotten>>,
         LoadFits', R!FlagTellsTheLoad',
         rooms' \in Seq(Rooms), more' \in Nat \cup {None},
         roomSearch' \in BOOLEAN, roomSelected' \in Rooms \cup {None},
         loadingMore' \in BOOLEAN, unwinding' \in BOOLEAN
  PROVE  RoomsFit'
<1>1. R!ToSet(server)' = R!ToSet(server)
  BY DEF R!ToSet
<1>2. RoomRequests'
  BY <1>1, RoomsFacts DEF RoomRequests
<1> QED
  BY <1>1, <1>2, RoomsFacts, RoomsTogether

\* A step of the platform and of the workers that ask it for changes.
LEMMA RequestsKeep ==
  ASSUME RoomsFit, UNCHANGED <<rooms, roomSearch, roomSelected, more, loadingMore, load,
                               unwinding, forgotten>>,
         RoomRequests', server' \in Seq(Rooms), R!ToSet(server)' \subseteq used',
         used \subseteq used', used' \subseteq Rooms,
         forgotten \cap R!ToSet(server)' = {}
  PROVE  RoomsFit'
<1>1. LoadFits' /\ R!FlagTellsTheLoad'
  BY RoomsFacts DEF LoadFits, R!FlagTellsTheLoad, R!ToSet
<1> QED
  BY <1>1, RoomsFacts, RoomsTogether

\* Reload, Type, SearchAsked, ReachEnd, Unwinds, Answered, Applied, LoadFails
\* and MoveCursor.
LEMMA LoadStepsKeep ==
  ASSUME RoomsFit, FlowsAssumption,
         \/ R!Reload \/ R!Type \/ R!SearchAsked \/ R!ReachEnd \/ R!Unwinds
         \/ R!Answered \/ R!Applied \/ R!LoadFails \/ R!MoveCursor
  PROVE  RoomsFit'
<1> USE DEF R!platform, R!paging, R!requests
<1>1. CASE R!Reload
  <2>1. /\ LoadFits' /\ more' \in Nat \cup {None} /\ R!FlagTellsTheLoad'
        /\ loadingMore' \in BOOLEAN /\ unwinding' \in BOOLEAN
    BY <1>1, Begun, FreshFits DEF R!Reload, R!Reloads
  <2> QED
    BY <1>1, <2>1, RoomsFacts, LoadsKeep DEF R!Reload
<1>2. CASE R!Type
  <2>1. R!Begins(IF roomSearch' THEN "search" ELSE "list")
    BY <1>2 DEF R!Type, R!Reloads
  <2>2. /\ LoadFits' /\ more' \in Nat \cup {None} /\ R!FlagTellsTheLoad'
        /\ loadingMore' \in BOOLEAN /\ unwinding' \in BOOLEAN
    BY <2>1, Begun, FreshFits
  <2>3. roomSelected' \in Rooms \cup {None} /\ roomSearch' \in BOOLEAN
    BY <1>2, Highlights, RoomsFacts DEF R!Type
  <2> QED
    BY <1>2, <2>2, <2>3, RoomsFacts, LoadsKeep DEF R!Type
<1>3. CASE R!SearchAsked
  <2>0. load.at = "sleep" /\ load.kind = "search" /\ load.got \in Seq(Rooms) /\ load.cursor \in Nat
        /\ forgotten \cap R!ToSet(load.got) = {}
    BY <1>3, RoomsFacts DEF R!SearchAsked, LoadFits
  <2>1. LoadFits' /\ load.kind' # "more" /\ more' \in Nat \cup {None}
    <3>1. CASE load' = R!NoLoad /\ more' = more
      <4>1. LoadFits'
        BY <3>1, Freshness, FreshFits
      <4> QED
        BY <3>1, <4>1, RoomsFacts DEF R!NoLoad
    <3>2. CASE load' = [load EXCEPT !.at = "asked"] /\ more' = None
      <4>1. PICK k, a, c, g : load = [kind |-> k, at |-> a, cursor |-> c, got |-> g]
        BY DEF RoomsFit, RoomLists
      <4>2. k = "search" /\ c = load.cursor /\ g = load.got
        BY <2>0, <4>1
      <4>3. load' = [kind |-> "search", at |-> "asked", cursor |-> load.cursor, got |-> load.got]
        BY <3>2, <4>1, <4>2
      <4>4. /\ load.kind' = "search" /\ load.at' = "asked" /\ load.cursor' = load.cursor
            /\ load.got' = load.got
            /\ \E l, b, d, h : load' = [kind |-> l, at |-> b, cursor |-> d, got |-> h]
        BY <4>3
      <4>5. R!ToSet(load.got)' = R!ToSet(load.got) /\ forgotten' = forgotten
        BY <1>3, <4>4 DEF R!ToSet, R!SearchAsked
      <4> QED
        BY <2>0, <3>2, <4>4, <4>5 DEF LoadFits
    <3> QED
      BY <1>3, <3>1, <3>2 DEF R!SearchAsked
  <2>2. R!FlagTellsTheLoad'
    BY <1>3, <2>0, RoomsFacts DEF R!FlagTellsTheLoad, R!SearchAsked
  <2> QED
    BY <1>3, <2>1, <2>2, RoomsFacts, LoadsKeep DEF R!SearchAsked
<1>4. CASE R!ReachEnd
  <2>1. PICK late \in BOOLEAN :
          IF more = None \/ R!Stays(late)
          THEN load' = R!NoLoad /\ R!Replaces(late)
          ELSE load' = R!Asked("more", more) /\ loadingMore' = TRUE /\ unwinding' = unwinding
    BY <1>4 DEF R!ReachEnd
  <2>2. CASE load' = R!NoLoad /\ R!Replaces(late)
    <3>1. LoadFits'
      BY <2>2, Freshness, FreshFits
    <3>2. loadingMore' \in BOOLEAN /\ unwinding' \in BOOLEAN /\ R!FlagTellsTheLoad'
      BY <2>2, RoomsFacts DEF R!Replaces, R!Stays, R!FlagTellsTheLoad
    <3> QED
      BY <1>4, <3>1, <3>2, RoomsFacts, LoadsKeep DEF R!ReachEnd
  <2>3. CASE load' = R!Asked("more", more) /\ loadingMore' = TRUE /\ unwinding' = unwinding /\ more # None
    <3>1. more \in Nat
      BY <2>3, RoomsFacts
    <3>2. LoadFits'
      BY <2>3, <3>1, Freshness, FreshFits
    <3>3. R!FlagTellsTheLoad'
      BY <2>3 DEF R!FlagTellsTheLoad, R!Asked
    <3> QED
      BY <1>4, <2>3, <3>2, <3>3, RoomsFacts, LoadsKeep DEF R!ReachEnd
  <2> QED
    BY <2>1, <2>2, <2>3
<1>5. CASE R!Unwinds
  <2>1. LoadFits' /\ R!FlagTellsTheLoad'
    BY <1>5, RoomsFacts DEF R!Unwinds, LoadFits, R!FlagTellsTheLoad, R!ToSet
  <2> QED
    BY <1>5, <2>1, RoomsFacts, LoadsKeep DEF R!Unwinds
<1>6. CASE R!Answered
  <2>0. load.at = "asked" /\ load.got \in Seq(Rooms) /\ load.cursor \in Nat
        /\ forgotten \cap R!ToSet(load.got) = {} /\ load.kind \in {"none", "list", "search", "more"}
    BY <1>6, RoomsFacts DEF R!Answered, LoadFits
  <2> DEFINE next == R!NextCursor(load.cursor)
             more_ == load.got \o R!Page(load.cursor)
  <2>1. /\ R!Page(load.cursor) \in Seq(Rooms)
        /\ R!ToSet(R!Page(load.cursor)) \subseteq R!ToSet(server)
        /\ next \in Nat \cup {None}
    BY <2>0, Pages, RoomsFacts
  <2>2. more_ \in Seq(Rooms) /\ forgotten \cap R!ToSet(more_) = {}
    <3>1. /\ more_ \in Seq(Rooms)
          /\ R!ToSet(more_) \subseteq R!ToSet(load.got) \cup R!ToSet(R!Page(load.cursor))
      BY <2>0, <2>1, Joined
    <3> HIDE DEF more_
    <3> QED
      BY <2>0, <2>1, <3>1, RoomsFacts
  <2>3. /\ load' = [kind |-> load.kind,
                    at |-> IF load.kind = "search" /\ next # None THEN "asked" ELSE "answered",
                    cursor |-> next, got |-> more_]
        /\ UNCHANGED <<server, used, rooms, roomSearch, roomSelected, more, loadingMore, unwinding,
                       pending, deletion, creation, forgotten>>
    BY <1>6 DEF R!Answered
  <2> HIDE DEF next, more_
  <2>4. PICK a \in {"asked", "answered"} :
          /\ load' = [kind |-> load.kind, at |-> a, cursor |-> next, got |-> more_]
          /\ a = "asked" => next # None
    BY <2>3
  <2>5. /\ load.kind' = load.kind /\ load.at' = a /\ load.cursor' = next /\ load.got' = more_
        /\ \E l, b, d, h : load' = [kind |-> l, at |-> b, cursor |-> d, got |-> h]
    BY <2>4
  <2>6. R!ToSet(load.got)' = R!ToSet(more_)
    BY <2>5 DEF R!ToSet
  <2>7. LoadFits'
    BY <2>0, <2>1, <2>2, <2>3, <2>4, <2>5, <2>6 DEF LoadFits
  <2>8. R!FlagTellsTheLoad'
    BY <2>3, <2>5, RoomsFacts DEF R!FlagTellsTheLoad
  <2> QED
    BY <2>3, <2>7, <2>8, RoomsFacts, LoadsKeep
<1>7. CASE R!LoadFails \/ R!Applied
  <2>1. load' = R!NoLoad /\ unwinding' = unwinding
        /\ loadingMore' = (loadingMore /\ load.kind # "more")
        /\ UNCHANGED <<server, used, deletion, creation, forgotten, roomSearch>>
    BY <1>7 DEF R!LoadFails, R!Applied, R!LoadEnds
  <2>2. LoadFits' /\ R!FlagTellsTheLoad' /\ loadingMore' \in BOOLEAN
    BY <2>1, Freshness, FreshFits, RoomsFacts DEF R!FlagTellsTheLoad
  <2>3. rooms' \in Seq(Rooms) /\ more' \in Nat \cup {None}
    <3>1. load.got \in Seq(Rooms) /\ load.cursor \in Nat \cup {None}
      BY RoomsFacts DEF LoadFits
    <3>2. R!Appended(rooms, load.got) \in Seq(Rooms)
      <4>1. R!Kept(load.got, Rooms \ R!ToSet(rooms)) \in Seq(Rooms)
        BY <3>1, KeptFacts
      <4> QED
        BY <4>1, Joined, RoomsFacts DEF R!Appended
    <3> QED
      BY <1>7, <3>1, <3>2, RoomsFacts DEF R!LoadFails, R!Applied
  <2>4. roomSelected' \in Rooms \cup {None}
    BY <1>7, <2>3, Highlights, RoomsFacts DEF R!LoadFails, R!Applied
  <2> QED
    BY <2>1, <2>2, <2>3, <2>4, RoomsFacts, LoadsKeep
<1>8. CASE R!MoveCursor
  <2>1. roomSelected' \in Rooms
    BY <1>8, Held, RoomsFacts DEF R!MoveCursor
  <2>2. LoadFits' /\ R!FlagTellsTheLoad'
    BY <1>8, RoomsFacts DEF R!MoveCursor, LoadFits, R!FlagTellsTheLoad, R!ToSet
  <2> QED
    BY <1>8, <2>1, <2>2, RoomsFacts, LoadsKeep DEF R!MoveCursor
<1> QED
  BY <1>1, <1>2, <1>3, <1>4, <1>5, <1>6, <1>7, <1>8
\* Requests of a shape, about rooms.
LEMMA Shapes ==
  /\ \E a, r : R!Idle = [at |-> a, room |-> r]
  /\ R!Idle.at = "idle"
BY DEF R!Idle

\* The platform's list shrinks.
LEMMA Shrinks ==
  ASSUME RoomsFit, NEW ids, server' = R!Kept(server, ids), used' = used
  PROVE  /\ server' \in Seq(Rooms) /\ R!ToSet(server)' \subseteq R!ToSet(server) \cap ids
         /\ R!ToSet(server)' \subseteq used' /\ used' \subseteq Rooms
         /\ forgotten \cap R!ToSet(server)' = {}
<1>1. R!ToSet(server)' = R!ToSet(server')
  BY DEF R!ToSet
<1> QED
  BY <1>1, KeptFacts, RoomsFacts

\* The platform's list grows by a room that is new (also to this screen).
LEMMA Grows ==
  ASSUME RoomsFit, NEW r \in Rooms \ used, R!Registers(r)
  PROVE  /\ server' \in Seq(Rooms) /\ R!ToSet(server)' \subseteq used'
         /\ R!ToSet(server)' \subseteq {r} \cup R!ToSet(server)
         /\ used \subseteq used' /\ used' \subseteq Rooms
         /\ forgotten \cap R!ToSet(server)' = {}
BY Created, RoomsFacts

\* PressDelete, DeletionAnswered, SubmitDraft, CreationAnswered and Elsewhere.
LEMMA RequestStepsKeep ==
  ASSUME RoomsFit, FlowsAssumption,
         \/ R!PressDelete \/ R!DeletionAnswered \/ R!SubmitDraft
         \/ R!CreationAnswered \/ R!Elsewhere
  PROVE  RoomsFit'
<1> USE DEF R!platform, R!paging, R!requests
<1>0. /\ \E a, r : deletion = [at |-> a, room |-> r]
      /\ deletion.at \in {"idle", "asked", "deleted"}
      /\ deletion.at # "idle" => deletion.room \in Rooms
      /\ deletion.at = "deleted" => deletion.room \in used \ R!ToSet(server)
      /\ creation.at = "created" => creation.room \in Rooms
  BY RoomsFacts DEF RoomRequests
<1>1. UNCHANGED <<rooms, roomSearch, roomSelected, more, loadingMore, load, unwinding, forgotten>>
  BY DEF R!PressDelete, R!DeletionAnswered, R!SubmitDraft, R!CreationAnswered, R!Elsewhere
<1>2. \/ UNCHANGED <<server, used>>
      \/ \E ids : server' = R!Kept(server, ids) /\ used' = used
      \/ \E r \in Rooms \ used : R!Registers(r)
  BY DEF R!PressDelete, R!DeletionAnswered, R!SubmitDraft, R!CreationAnswered, R!Elsewhere
<1>3. /\ server' \in Seq(Rooms) /\ R!ToSet(server)' \subseteq used'
      /\ used \subseteq used' /\ used' \subseteq Rooms
      /\ forgotten \cap R!ToSet(server)' = {}
      /\ R!ToSet(server)' \cap used \subseteq R!ToSet(server)
  <2>1. CASE UNCHANGED <<server, used>>
    <3>1. R!ToSet(server)' = R!ToSet(server)
      BY <2>1 DEF R!ToSet
    <3> QED
      BY <2>1, <3>1, RoomsFacts
  <2>2. CASE \E ids : server' = R!Kept(server, ids) /\ used' = used
    <3>1. PICK ids : server' = R!Kept(server, ids) /\ used' = used
      BY <2>2
    <3> QED
      BY <3>1, Shrinks
  <2>3. CASE \E r \in Rooms \ used : R!Registers(r)
    <3>1. PICK r \in Rooms \ used : R!Registers(r)
      BY <2>3
    <3> QED
      BY <3>1, Grows
  <2> QED
    BY <1>2, <2>1, <2>2, <2>3
<1>4. RoomRequests'
  <2>1. CASE UNCHANGED deletion /\ UNCHANGED creation
    BY <1>0, <1>3, <2>1 DEF RoomRequests
  <2>2. CASE R!PressDelete
    <3>1. CASE UNCHANGED deletion
      BY <1>0, <1>3, <2>2, <3>1 DEF RoomRequests, R!PressDelete
    <3>2. CASE deletion' = [at |-> "asked", room |-> roomSelected] /\ roomSelected # None
      <4>1. deletion.at' = "asked" /\ deletion.room' = roomSelected
            /\ \E a, r : deletion' = [at |-> a, room |-> r]
        BY <3>2
      <4>2. roomSelected \in Rooms
        BY <3>2, RoomsFacts
      <4>3. UNCHANGED creation
        BY <2>2 DEF R!PressDelete
      <4> QED
        BY <1>0, <4>1, <4>2, <4>3 DEF RoomRequests
    <3> QED
      BY <2>2, <3>1, <3>2 DEF R!PressDelete
  <2>3. CASE R!DeletionAnswered
    <3>0. deletion.at = "asked" /\ UNCHANGED <<used, creation>>
      BY <2>3 DEF R!DeletionAnswered
    <3>1. CASE deletion' = R!Idle
      BY <1>0, <3>0, <3>1, Shapes DEF RoomRequests
    <3>2. CASE /\ R!Contains(server, deletion.room) /\ server' = R!Kept(server, Rooms \ {deletion.room})
               /\ deletion' = [deletion EXCEPT !.at = "deleted"]
      <4>1. PICK a, r : deletion = [at |-> a, room |-> r]
        BY <1>0
      <4>2. deletion' = [at |-> "deleted", room |-> deletion.room]
        BY <3>2, <4>1
      <4>3. deletion.at' = "deleted" /\ deletion.room' = deletion.room
            /\ \E b, c : deletion' = [at |-> b, room |-> c]
        BY <4>2
      <4>4. deletion.room \in R!ToSet(server)
        BY <3>2 DEF R!Contains, R!ToSet
      <4>5. R!ToSet(server)' \subseteq R!ToSet(server) \cap (Rooms \ {deletion.room})
        BY <3>0, <3>2, Shrinks
      <4> QED
        BY <1>0, <3>0, <4>3, <4>4, <4>5, RoomsFacts DEF RoomRequests
    <3> QED
      BY <2>3, <3>1, <3>2 DEF R!DeletionAnswered
  <2>4. CASE R!SubmitDraft
    <3>1. creation.at' = "asked" /\ UNCHANGED deletion
      BY <2>4 DEF R!SubmitDraft
    <3> QED
      BY <1>0, <1>3, <3>1 DEF RoomRequests
  <2>5. CASE R!CreationAnswered
    <3>1. UNCHANGED deletion /\ (creation.at' = "created" => creation.room' \in Rooms)
      BY <2>5, Shapes DEF R!CreationAnswered
    <3> QED
      BY <1>0, <1>3, <3>1 DEF RoomRequests
  <2> QED
    BY <2>1, <2>2, <2>3, <2>4, <2>5 DEF R!Elsewhere
<1> QED
  BY <1>1, <1>3, <1>4, RequestsKeep

\* remove_room and add_room, and the first page again.
LEMMA StoreStepsKeep ==
  ASSUME RoomsFit, R!Forgets \/ R!Adds
  PROVE  RoomsFit'
<1> USE DEF R!platform, R!paging, R!requests
<1>1. R!Begins("list") /\ UNCHANGED <<server, used, roomSearch>>
  BY DEF R!Forgets, R!Adds
<1>2. /\ LoadFits' /\ more' \in Nat \cup {None} /\ R!FlagTellsTheLoad'
      /\ loadingMore' \in BOOLEAN /\ unwinding' \in BOOLEAN
  BY <1>1, Begun, FreshFits
<1>3. R!ToSet(server)' = R!ToSet(server)
  BY <1>1 DEF R!ToSet
<1>4. RoomRequests /\ \E a, r : deletion = [at |-> a, room |-> r]
  BY RoomsFacts DEF RoomRequests
<1>5. RoomRequests' /\ forgotten' \subseteq used' /\ forgotten' \cap R!ToSet(server)' = {}
  <2>1. CASE R!Forgets
    <3>1. deletion' = R!Idle /\ UNCHANGED creation /\ forgotten' = forgotten \cup {deletion.room}
          /\ deletion.room \in used \ R!ToSet(server)
      BY <1>4, <2>1 DEF R!Forgets, RoomRequests
    <3> QED
      BY <1>1, <1>3, <1>4, <3>1, Shapes, RoomsFacts DEF RoomRequests
  <2>2. CASE R!Adds
    <3>1. creation' = R!Idle /\ UNCHANGED <<deletion, forgotten>>
      BY <2>2 DEF R!Adds
    <3> QED
      BY <1>1, <1>3, <1>4, <3>1, Shapes, RoomsFacts DEF RoomRequests
  <2> QED
    BY <2>1, <2>2
<1>6. rooms' \in Seq(Rooms)
  <2>1. CASE R!Forgets
    BY <2>1, KeptFacts, RoomsFacts DEF R!Forgets
  <2>2. CASE R!Adds
    <3>1. creation.room \in Rooms
      BY <1>4, <2>2 DEF R!Adds, RoomRequests
    <3>2. <<creation.room>> \in Seq(Rooms)
      BY <3>1
    <3> QED
      BY <2>2, <3>2, Joined, RoomsFacts DEF R!Adds
  <2> QED
    BY <2>1, <2>2
<1>7. roomSelected' \in Rooms \cup {None}
  <2>1. CASE R!Forgets
    BY <1>6, <2>1, Highlights, RoomsFacts DEF R!Forgets
  <2>2. CASE R!Adds
    BY <1>4, <2>2 DEF R!Adds, RoomRequests
  <2> QED
    BY <2>1, <2>2
<1> QED
  BY <1>1, <1>2, <1>3, <1>5, <1>6, <1>7, RoomsFacts, RoomsTogether

LEMMA RoomsStart == FlowsAssumption /\ R!Init => RoomsFit
<1> SUFFICES ASSUME FlowsAssumption, R!Init
             PROVE  RoomsFit
  OBVIOUS
<1>1. server \in Seq(Rooms) /\ rooms = <<>> /\ used = R!ToSet(server)
  BY DEF FlowsAssumption, R!Init
<1>2. R!ToSet(server) \subseteq Rooms /\ R!ToSet(<<>>) = {}
  BY <1>1 DEF R!ToSet
<1>3. load = [kind |-> "list", at |-> "asked", cursor |-> 0, got |-> <<>>]
  BY DEF R!Init, R!Asked
<1>4. load.kind = "list" /\ load.at = "asked" /\ load.cursor = 0 /\ load.got = <<>>
      /\ \E k, a, c, g : load = [kind |-> k, at |-> a, cursor |-> c, got |-> g]
  BY <1>3
<1>5. R!TypeOK
  <2>1. R!ToSet(rooms) = {}
    BY <1>1, <1>2
  <2>2. R!ToSet(server) \subseteq used /\ used \subseteq Rooms
    BY <1>1, <1>2
  <2>3. roomSelected = None /\ more = None
    BY DEF R!Init
  <2>4. roomSearch \in BOOLEAN /\ loadingMore \in BOOLEAN /\ unwinding \in BOOLEAN
    BY DEF R!Init
  <2>5. R!ToSet(rooms) \subseteq Rooms
    BY <2>1
  <2> QED
    BY <1>4, <2>2, <2>3, <2>4, <2>5 DEF R!TypeOK
<1>6. RoomLists
  <2>1. more = None
    BY DEF R!Init
  <2>2. rooms \in Seq(Rooms) /\ load.got \in Seq(Rooms)
    BY <1>1, <1>4
  <2>3. load.cursor \in Nat /\ load.at # "answered" /\ load.at # "sleep"
    BY <1>4
  <2> QED
    BY <1>1, <1>4, <2>1, <2>2, <2>3 DEF RoomLists
<1>7. RoomRequests
  BY Shapes DEF R!Init, RoomRequests
<1>8. RoomsForgotten /\ R!FlagTellsTheLoad
  BY DEF R!Init, RoomsForgotten, R!FlagTellsTheLoad
<1> QED
  BY <1>5, <1>6, <1>7, <1>8 DEF RoomsFit

LEMMA RoomsKeep == FlowsAssumption /\ RoomsFit /\ (R!Next \/ UNCHANGED roomsVars) => RoomsFit'
<1> SUFFICES ASSUME FlowsAssumption, RoomsFit, R!Next \/ UNCHANGED roomsVars
             PROVE  RoomsFit'
  OBVIOUS
<1>1. CASE UNCHANGED roomsVars
  <2>1. R!TypeOK' /\ R!FlagTellsTheLoad'
    BY <1>1 DEF RoomsFit, R!TypeOK, R!FlagTellsTheLoad, R!ToSet, roomsVars
  <2>2. RoomLists' /\ RoomRequests'
    BY <1>1 DEF RoomsFit, RoomLists, RoomRequests, R!ToSet, roomsVars
  <2>3. RoomsForgotten'
    BY <1>1 DEF RoomsFit, RoomsForgotten, R!ToSet, roomsVars
  <2> QED
    BY <2>1, <2>2, <2>3 DEF RoomsFit
<1> QED
  BY <1>1, LoadStepsKeep, RequestStepsKeep, StoreStepsKeep DEF R!Next

\* What a load brings is not a room that this screen deleted.
LEMMA ForgottenStep ==
  ASSUME RoomsFit, R!Next \/ UNCHANGED roomsVars, load # R!NoLoad, load' = R!NoLoad
  PROVE  forgotten \cap R!ToSet(rooms') \subseteq R!ToSet(rooms)
<1> USE DEF R!platform, R!paging, R!requests
<1>1. CASE UNCHANGED rooms
  BY <1>1
<1>2. CASE R!Applied
  <2>1. load.got \in Seq(Rooms) /\ forgotten \cap R!ToSet(load.got) = {} /\ rooms \in Seq(Rooms)
    BY RoomsFacts DEF LoadFits
  <2>2. R!ToSet(R!Appended(rooms, load.got)) \subseteq R!ToSet(rooms) \cup R!ToSet(load.got)
    <3>1. /\ R!Kept(load.got, Rooms \ R!ToSet(rooms)) \in Seq(Rooms)
          /\ R!ToSet(R!Kept(load.got, Rooms \ R!ToSet(rooms))) \subseteq R!ToSet(load.got)
      BY <2>1, KeptFacts
    <3> QED
      BY <2>1, <3>1, Joined DEF R!Appended
  <2> QED
    BY <1>2, <2>1, <2>2 DEF R!Applied
<1>3. CASE R!Forgets \/ R!Adds
  <2>1. R!Begins("list")
    BY <1>3 DEF R!Forgets, R!Adds
  <2> QED
    BY <2>1, Begun
<1> QED
  BY <1>1, <1>2, <1>3
     DEF R!Next, R!Reload, R!Type, R!SearchAsked, R!ReachEnd, R!Unwinds, R!Answered, R!LoadFails,
         R!MoveCursor, R!PressDelete, R!DeletionAnswered, R!SubmitDraft, R!CreationAnswered,
         R!Elsewhere, roomsVars
-----------------------------------------------------------------------------
(* AgentActions: a stop that is wanted is carried out.                     *)

\* Only the end of its own start forgets a stop: after START was answered that
\* is the answer of the stop, or a loss.
LEMMA StopStep ==
  ASSUME Inductive, A!Next, NEW a \in wanted, a \notin wanted',
         start[a].at \in {"started", "stop", "stopped"}
  PROVE  A!StartFails(a) \/ worker'[a] # "up"
<1> USE DEF A!GivesUp, A!FinishStart, A!store, A!world
<1>1. a \in Agents
  BY DEF Inductive, A!TypeOK
<1>2. ASSUME NEW b \in Agents, A!Preflighted(b) \/ A!Consented(b) \/ A!StartRefused(b)
      PROVE  FALSE
  <2>1. start[b].at \in {"preflight", "consent", "start"}
    BY <1>2 DEF A!Preflighted, A!Consented, A!StartRefused
  <2>2. wanted' = wanted \/ wanted' = wanted \ {b}
    BY <1>2 DEF A!Preflighted, A!Consented, A!StartRefused
  <2> QED
    BY <2>1, <2>2
<1>3. ASSUME NEW b \in Agents, A!Started(b)
      PROVE  FALSE
  BY <1>3 DEF A!Started
<1>4. ASSUME NEW b \in Agents, A!StoppedAfterStart(b)
      PROVE  worker'[a] # "up"
  <2>1. b = a /\ start[a].at = "stopped" /\ worker' = worker
    BY <1>4 DEF A!StoppedAfterStart
  <2> QED
    BY <1>1, <2>1 DEF Inductive, TellsAreOrderly
<1>5. ASSUME NEW b \in Agents, A!StartFails(b)
      PROVE  A!StartFails(a)
  <2>1. wanted' = wanted \ {b}
    BY <1>5 DEF A!StartFails
  <2> QED
    BY <1>5, <2>1
<1>6. ASSUME NEW b \in Agents,
             \/ A!PressStart(b) \/ A!PressStop(b) \/ A!PressDelete(b) \/ A!StartHandled(b)
             \/ A!StopAfterStartHandled(b) \/ A!WorkerExits(b)
             \/ \E h \in Harnesses : A!Reconfigure(b, h)
      PROVE  FALSE
  BY <1>6 DEF A!PressStart, A!PressStop, A!PressDelete, A!StartHandled, A!StopAfterStartHandled,
              A!WorkerExits, A!Reconfigure
<1>7. CASE \/ A!StopHandled \/ A!Stopped \/ A!StopFails
           \/ A!DeleteStops \/ A!Deleted \/ A!DeleteFails
           \/ A!PollAnswered \/ A!PollApplied
  BY <1>7 DEF A!StopHandled, A!Stopped, A!StopFails, A!DeleteStops, A!Deleted, A!DeleteFails,
              A!PollAnswered, A!PollApplied
<1> QED
  BY <1>2, <1>3, <1>4, <1>5, <1>6, <1>7 DEF A!Next, A!StartStep

-----------------------------------------------------------------------------
(* The flows side by side.                                                 *)

\* The invariant of every part.
FlowsFit == Inductive /\ C!TypeOK /\ Wizard /\ RoomsFit

LEMMA FlowsStart == Init => FlowsFit
BY FlowsAssumption, ActionsStart, CatalogStart, WizardStart, RoomsStart DEF Init, FlowsFit

LEMMA FlowsKeep ==
  FlowsFit /\ [Next]_<<part, actionVars, catalogVars, wizardVars, roomsVars>> => FlowsFit'
<1> SUFFICES ASSUME FlowsFit, [Next]_<<part, actionVars, catalogVars, wizardVars, roomsVars>>
             PROVE  FlowsFit'
  OBVIOUS
<1>1. /\ A!Next \/ UNCHANGED actionVars
      /\ C!Next \/ UNCHANGED catalogVars
      /\ W!Next \/ UNCHANGED wizardVars
      /\ R!Next \/ UNCHANGED roomsVars
  BY DEF Next
<1>2. Inductive'
  BY <1>1, ActionsKeep DEF FlowsFit
<1>3. C!TypeOK'
  BY <1>1, CatalogKeeps DEF FlowsFit
<1>4. Wizard'
  BY <1>1, FlowsAssumption, WizardKeeps DEF FlowsFit
<1>5. RoomsFit'
  BY <1>1, FlowsAssumption, RoomsKeep DEF FlowsFit
<1> QED
  BY <1>2, <1>3, <1>4, <1>5 DEF FlowsFit

LEMMA FlowsAlways == Spec => []FlowsFit
<1>1. Init => FlowsFit
  BY FlowsStart
<1>2. FlowsFit /\ [Next]_<<part, actionVars, catalogVars, wizardVars, roomsVars>> => FlowsFit'
  BY FlowsKeep
<1> QED
  BY <1>1, <1>2, PTL DEF Spec

\* The state of every part has its type.
THEOREM FlowsHaveTypes == Spec => []TypeOK
<1>1. FlowsFit => TypeOK
  BY WizardHolds DEF FlowsFit, Inductive, RoomsFit, TypeOK
<1> QED
  BY <1>1, FlowsAlways, PTL

\* A stop that was asked for during a start belongs to it and is carried out
\* before it ends, and an agent that was deleted has no worker that was not told
\* to stop; unless an answer of that start was lost, or it began during the
\* deletion (start_managed_agent, finish_start, ManagedAgentOperations.delete).
THEOREM RunStateStaysTrue == Spec => RunStateIsTrue
<1>1. FlowsFit => A!StopBelongsToStart /\ A!DeletedIsStopped
  BY DEF FlowsFit, Inductive
<1>2. FlowsFit /\ [Next]_<<part, actionVars, catalogVars, wizardVars, roomsVars>>
        => [\A a \in wanted :
              a \notin wanted' /\ start[a].at \in {"started", "stop", "stopped"}
                => A!StartFails(a) \/ worker'[a] # "up"]_(A!actionVars)
  <2> SUFFICES ASSUME FlowsFit, [Next]_<<part, actionVars, catalogVars, wizardVars, roomsVars>>,
                      NEW a \in wanted, a \notin wanted',
                      start[a].at \in {"started", "stop", "stopped"}
               PROVE  A!StartFails(a) \/ worker'[a] # "up"
    OBVIOUS
  <2>1. A!Next
    BY DEF Next, actionVars
  <2> QED
    BY <2>1, StopStep DEF FlowsFit
<1> QED
  BY <1>1, <1>2, FlowsAlways, PTL DEF Spec, RunStateIsTrue, A!RunStateIsTrue, A!StopIsHonoured

\* What the wizard submits fits together, and it is submitted once (_submit,
\* apply_draft_patch).
THEOREM SubmissionsAreSound == Spec => []SubmissionIsSound
<1>1. FlowsFit => SubmissionIsSound
  BY WizardHolds DEF FlowsFit, SubmissionIsSound
<1> QED
  BY <1>1, FlowsAlways, PTL

\* The safety part of RoomsSettle: another page is refused only while a worker
\* is loading one, and a room that was deleted here does not come back with an
\* older answer (RoomsScreen._load_more, _forget_room).
THEOREM ForgottenRoomsStayAway ==
  Spec => [](part = "rooms" => R!FlagTellsTheLoad) /\ R!ForgottenStaysAway
<1>1. FlowsFit => (part = "rooms" => R!FlagTellsTheLoad)
  BY DEF FlowsFit, RoomsFit
<1>2. FlowsFit /\ [Next]_<<part, actionVars, catalogVars, wizardVars, roomsVars>>
        => [load # R!NoLoad /\ load' = R!NoLoad
              => forgotten \cap R!ToSet(rooms') \subseteq R!ToSet(rooms)]_(R!roomsVars)
  <2> SUFFICES ASSUME FlowsFit, [Next]_<<part, actionVars, catalogVars, wizardVars, roomsVars>>,
                      load # R!NoLoad, load' = R!NoLoad
               PROVE  forgotten \cap R!ToSet(rooms') \subseteq R!ToSet(rooms)
    OBVIOUS
  <2>1. R!Next \/ UNCHANGED roomsVars
    BY DEF Next
  <2> QED
    BY <2>1, ForgottenStep DEF FlowsFit
<1> QED
  BY <1>1, <1>2, FlowsAlways, PTL DEF Spec, R!ForgottenStaysAway

=============================================================================
