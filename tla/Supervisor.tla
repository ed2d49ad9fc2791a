----------------------------- MODULE Supervisor -----------------------------
(***************************************************************************)
(* The local supervisor (src/src/band_wezterm/supervisor/runtime.py): one  *)
(* user-private server that starts, stops and adopts detached workers, the *)
(* state file it keeps, and the worker processes it looks after.           *)
(*                                                                         *)
(* START, STOP, STOP_ALL and LIST run one at a time under the lifecycle    *)
(* lock, but each of them awaits IPC with the workers, so a worker may     *)
(* start, stop or die, and the supervisor may crash, between two steps of  *)
(* one request.  A probe the worker never answers, an answer that comes    *)
(* after the two second timeout and an endpoint that does not exist are    *)
(* the same thing to the supervisor: silence.                              *)
(*                                                                         *)
(* Time is kept as what the code asks of it: whether a record is still     *)
(* within its start grace (starting) and its stop grace (stopping).        *)
(***************************************************************************)
EXTENDS Naturals, FiniteSets

CONSTANTS
    Agents,      \* managed agent ids
    Pids,        \* process ids of the machine
    None,        \* no record, no agent, no process
    MaxCrashes,  \* bound on the number of supervisor crashes
    MaxFailures, \* bound on the saves of the state file that raise (disk full)
    ReusePids    \* whether a pid that a record still names may be reused

ASSUME SupervisorAssumption ==
    /\ MaxCrashes \in Nat
    /\ MaxFailures \in Nat
    /\ ReusePids \in BOOLEAN
    /\ None \notin Agents
    /\ None \notin Pids
    /\ None \notin [pid : Pids,
                    state : {"starting", "running", "stopping", "error"},
                    starting : BOOLEAN,
                    stopping : {"none", "fresh", "old"}]

VARIABLES
    up,       \* the supervisor process runs
    mem,      \* self._state.workers: the record of each agent, or None
    disk,     \* the workers of the state file
    op,       \* the request that holds the lifecycle lock, or "idle"
    target,   \* the agent of a START or of the STOP in progress
    step,     \* where the request is
    pending,  \* agents whose probe has not returned (asyncio.gather)
    probed,   \* the records the finished probes returned
    todo,     \* agents STOP_ALL has not reached
    newpid,   \* the worker START has spawned and not recorded
    proc,     \* the processes of the machine
    crashes,  \* supervisor crashes so far
    failures  \* failed saves so far

faults == <<crashes, failures>>
server == <<up, mem, disk, op, target, step, pending, probed, todo, newpid,
            faults>>
vars == <<server, proc>>

WorkerState == {"starting", "running", "stopping", "error"}
WorkerRecord == [pid : Pids, state : WorkerState, starting : BOOLEAN,
                 stopping : {"none", "fresh", "old"}]
Workers == [Agents -> WorkerRecord \cup {None}]
NoWorkers == [a \in Agents |-> None]

(***************************************************************************)
(* A process.  A worker boots without an endpoint, opens it, serves, and   *)
(* closes when told to stop; ctl is the state its controller    *)
(* reports and stop is its stop_requested event.  A dead child is a zombie *)
(* until its parent waits for it.  group is the leader of its process      *)
(* group, or None for a group whose leader's pid no record names.  acked,  *)
(* saved and displaced are history: a START was answered with it; the save *)
(* of the START that spawned it failed ("no"), and a crash found no record *)
(* of it in the state file ("lost"); a later START found its agent in      *)
(* error and gave the record to another worker.                            *)
(***************************************************************************)
Process ==
    [kind : {"free", "worker", "zombie", "other"}, agent : Agents \cup {None},
     phase : {"none", "boot", "open", "serving", "failing", "closing"},
     ctl : WorkerState, stop : BOOLEAN, child : BOOLEAN,
     group : Pids \cup {None}, signalled : BOOLEAN, acked : BOOLEAN,
     saved : {"yes", "no", "lost"}, displaced : BOOLEAN]

NoProcess(kind) ==
    [kind |-> kind, agent |-> None, phase |-> "none", ctl |-> "starting",
     stop |-> FALSE, child |-> FALSE, group |-> None, signalled |-> FALSE,
     acked |-> FALSE, saved |-> "yes", displaced |-> FALSE]

\* Popen with start_new_session: the worker leads a group of its own.
NewWorker(p, a) ==
    [NoProcess("worker") EXCEPT !.agent = a, !.phase = "boot", !.child = TRUE,
                                !.group = p]

\* Faulty variants (Bug...) precede the definitions they vary; only
\* PROJECT.json refers to them.
BugRecordPending(p) ==
    [pid |-> p, state |-> "pending", starting |-> TRUE, stopping |-> "none"]

NewRecord(p) ==
    [pid |-> p, state |-> "starting", starting |-> TRUE, stopping |-> "none"]

TypeOK ==
    /\ up \in BOOLEAN
    /\ mem \in Workers
    /\ disk \in Workers
    /\ op \in {"idle", "list", "start", "stop", "stop_all"}
    /\ target \in Agents \cup {None}
    /\ step \in {"none", "probe", "spawn", "record", "ask", "retry",
                 "answered"}
    /\ pending \in SUBSET Agents
    /\ probed \in Workers
    /\ todo \in SUBSET Agents
    /\ newpid \in Pids \cup {None}
    /\ proc \in [Pids -> Process]
    /\ crashes \in 0..MaxCrashes
    /\ failures \in 0..MaxFailures

Init ==
    /\ up = TRUE
    /\ mem = NoWorkers
    /\ disk = NoWorkers
    /\ op = "idle"
    /\ target = None
    /\ step = "none"
    /\ pending = {}
    /\ probed = NoWorkers
    /\ todo = {}
    /\ newpid = None
    /\ proc = [p \in Pids |-> NoProcess("free")]
    /\ crashes = 0
    /\ failures = 0

-----------------------------------------------------------------------------
(* What the supervisor can observe of a process, and do to it.             *)

BugPidAliveChildrenOnly(p) == proc[p].kind = "worker" /\ proc[p].child

Recorded == {a \in Agents : mem[a] # None}

IsWorkerOf(p, a) == proc[p].kind = "worker" /\ proc[p].agent = a

\* The worker a record names can answer its control socket.
Answers(a) ==
    LET p == mem[a].pid
    IN  IsWorkerOf(p, a) /\ proc[p].phase \in {"open", "serving", "failing"}

\* _pid_alive: signal 0 reaches whatever process has the pid now.
PidAlive(p) == proc[p].kind \in {"worker", "other"}

\* _pid_alive waits for a dead child, which frees its pid.
Reaped(p) ==
    IF proc[p].kind = "zombie"
    THEN [proc EXCEPT ![p] = NoProcess("free")]
    ELSE proc

\* _terminate_worker: the pid must lead a process group, and the whole group
\* is signalled.
MayTerminate(p) == proc[p].group = p
Terminated(p) ==
    [q \in Pids |-> IF proc[q].group = p
                    THEN [proc[q] EXCEPT !.signalled = TRUE] ELSE proc[q]]

\* START is answered with the worker that runs for its agent.
Acked(p) ==
    [q \in Pids |-> IF q = p /\ IsWorkerOf(p, target)
                    THEN [proc[q] EXCEPT !.acked = TRUE] ELSE proc[q]]

\* _save_state after self._state has been replaced by workers.
Save(workers, ok) ==
    /\ mem' = workers
    /\ \/ ok /\ disk' = workers /\ UNCHANGED failures
       \/ /\ ~ok
          /\ failures < MaxFailures
          /\ failures' = failures + 1
          /\ UNCHANGED disk

\* The request is answered or fails, and releases the lock.
Finish ==
    /\ op' = "idle"
    /\ step' = "none"
    /\ target' = None
    /\ pending' = {}
    /\ probed' = NoWorkers
    /\ todo' = {}
    /\ newpid' = None

-----------------------------------------------------------------------------
(* LIST and the refresh both LIST and START begin with.                    *)

BeginRefresh(kind, a) ==
    /\ up
    /\ op = "idle"
    /\ op' = kind
    /\ target' = a
    /\ step' = "probe"
    /\ pending' = Recorded
    /\ probed' = NoWorkers
    /\ UNCHANGED <<up, mem, disk, todo, newpid, faults, proc>>

BeginList == BeginRefresh("list", None)
BeginStart(a) == BeginRefresh("start", a)

ProbeReturns(a, record) ==
    /\ pending' = pending \ {a}
    /\ probed' = [probed EXCEPT ![a] = record]
    /\ UNCHANGED <<up, mem, disk, op, target, step, todo, newpid, faults>>

\* The worker answers STATUS in time.
ProbeAnswered(a) ==
    /\ step = "probe"
    /\ a \in pending
    /\ Answers(a)
    /\ LET state == proc[mem[a].pid].ctl
       IN  ProbeReturns(a, [mem[a] EXCEPT
               !.state = state,
               !.stopping = IF state = "stopping" THEN @ ELSE "none"])
    /\ UNCHANGED proc

\* A stopping worker is given all the time it wants.
BugWithinGraceForever(record) ==
    \/ record.state = "starting" /\ record.starting
    \/ record.state = "stopping"

WithinGrace(record) ==
    \/ record.state = "starting" /\ record.starting
    \/ record.state = "stopping" /\ record.stopping = "fresh"

\* No answer: the record survives, is given up, or becomes an error.
ProbeSilent(a) ==
    LET r == mem[a]
        p == r.pid
    IN  /\ step = "probe"
        /\ a \in pending
        /\ \/ /\ ~PidAlive(p)
              /\ ProbeReturns(a, None)
              /\ proc' = Reaped(p)
           \/ /\ PidAlive(p)
              /\ WithinGrace(r)
              /\ ProbeReturns(a, r)
              /\ UNCHANGED proc
           \/ /\ PidAlive(p)
              /\ ~WithinGrace(r)
              /\ r.state = "stopping"
              /\ MayTerminate(p)
              /\ ProbeReturns(a, None)
              /\ proc' = Terminated(p)
           \/ /\ PidAlive(p)
              /\ ~WithinGrace(r)
              /\ r.state = "stopping" => ~MayTerminate(p)
              /\ ProbeReturns(a, [r EXCEPT !.state = "error"])
              /\ UNCHANGED proc

\* START leaves an agent alone whose record is not in error.
NeedsWorker(r) == r = None \/ r.state = "error"

\* _refresh_workers commits once every probe is in, and saves only what has
\* changed; a START goes on unless its agent already has a worker, which is
\* the answer then.
EndRefresh(ok) ==
    /\ step = "probe"
    /\ pending = {}
    /\ IF probed = mem
       THEN ok /\ UNCHANGED <<mem, disk, failures>>
       ELSE Save(probed, ok)
    /\ IF ok /\ op = "start" /\ NeedsWorker(probed[target])
       THEN /\ step' = "spawn"
            /\ UNCHANGED <<op, target, pending, probed, todo, newpid>>
       ELSE Finish
    /\ IF ok /\ op = "start" /\ ~NeedsWorker(probed[target])
       THEN proc' = Acked(probed[target].pid)
       ELSE UNCHANGED proc
    /\ UNCHANGED <<up, crashes>>

-----------------------------------------------------------------------------
(* START: Popen in a thread, then the record, then the state file.         *)

Named(p) ==
    \E a \in Agents : \E r \in {mem[a], disk[a]} : r # None /\ r.pid = p

\* A pid the system can hand out: no process and no process group has it.
FreePid(p) == proc[p].kind = "free" /\ \A q \in Pids : proc[q].group # p

\* One that a new process of agent a may get.
Available(p, a) ==
    /\ FreePid(p)
    /\ IF ReusePids
       THEN \A r \in {mem[a], disk[a]} : r # None => r.pid # p
       ELSE ~Named(p)

Spawn ==
    /\ step = "spawn"
    /\ \E p \in Pids :
          /\ Available(p, target)
          /\ proc' = [proc EXCEPT ![p] = NewWorker(p, target)]
          /\ newpid' = p
    /\ step' = "record"
    /\ UNCHANGED <<up, mem, disk, op, target, pending, probed, todo, faults>>

\* The profile or the API key is missing, or Popen raises.
StartRefused ==
    /\ step = "spawn"
    /\ Finish
    /\ UNCHANGED <<up, mem, disk, faults, proc>>

RecordWorker(ok) ==
    LET old == mem[target]
    IN  /\ step = "record"
        /\ Save([mem EXCEPT ![target] = NewRecord(newpid)], ok)
        /\ proc' = [p \in Pids |->
               IF p = newpid
               THEN [proc[p] EXCEPT !.acked = ok /\ proc[p].kind = "worker",
                                    !.saved = IF ok THEN "yes" ELSE "no"]
               ELSE IF /\ old # None
                       /\ old.pid = p
                       /\ old.state = "error"
                       /\ IsWorkerOf(p, target)
               THEN [proc[p] EXCEPT !.displaced = TRUE]
               ELSE proc[p]]
        /\ Finish
        /\ UNCHANGED <<up, crashes>>

-----------------------------------------------------------------------------
(* STOP and STOP_ALL.                                                      *)

BeginStop(a) ==
    /\ up
    /\ op = "idle"
    /\ mem[a] # None
    /\ op' = "stop"
    /\ target' = a
    /\ step' = "ask"
    /\ UNCHANGED <<up, mem, disk, pending, probed, todo, newpid, faults, proc>>

\* STOP_ALL skips the workers that have not come up yet.
BugBeginStopAllRunning ==
    /\ up
    /\ op = "idle"
    /\ op' = "stop_all"
    /\ todo' = {a \in Recorded : mem[a].state = "running"}
    /\ step' = "none"
    /\ UNCHANGED <<up, mem, disk, target, pending, probed, newpid, faults,
                   proc>>

BeginStopAll ==
    /\ up
    /\ op = "idle"
    /\ op' = "stop_all"
    /\ todo' = Recorded
    /\ step' = "none"
    /\ UNCHANGED <<up, mem, disk, target, pending, probed, newpid, faults,
                   proc>>

StopAllNext(a) ==
    /\ op = "stop_all"
    /\ step = "none"
    /\ a \in todo
    /\ target' = a
    /\ todo' = todo \ {a}
    /\ step' = "ask"
    /\ UNCHANGED <<up, mem, disk, op, pending, probed, newpid, faults, proc>>

StopAllDone ==
    /\ op = "stop_all"
    /\ step = "none"
    /\ todo = {}
    /\ Finish
    /\ UNCHANGED <<up, mem, disk, faults, proc>>

GoTo(next) ==
    /\ step' = next
    /\ UNCHANGED <<up, mem, disk, op, target, pending, probed, todo, newpid,
                   faults>>

\* WorkerController handles STOP.
ToldToStop(p) ==
    [proc EXCEPT ![p] = [@ EXCEPT !.ctl = "stopping", !.stop = TRUE]]

\* The worker handles STOP, and its answer arrives.
StopAnswered ==
    /\ step \in {"ask", "retry"}
    /\ Answers(target)
    /\ proc' = ToldToStop(mem[target].pid)
    /\ GoTo("answered")

\* No answer, whether the worker got the request or not: a worker that is
\* still starting is asked again.
StopSilent ==
    /\ \/ step = "retry"
       \/ step = "ask" /\ mem[target].state = "starting"
    /\ GoTo("retry")
    /\ \/ UNCHANGED proc
       \/ Answers(target) /\ proc' = ToldToStop(mem[target].pid)

\* Commit the outcome of one stop; STOP_ALL goes on with the next worker.
EndStop(record, ok) ==
    /\ Save([mem EXCEPT ![target] = record], ok)
    /\ IF ok /\ op = "stop_all"
       THEN /\ step' = "none"
            /\ target' = None
            /\ UNCHANGED <<op, pending, probed, todo, newpid>>
       ELSE Finish
    /\ UNCHANGED <<up, crashes>>

StopAccepted(ok) ==
    /\ step = "answered"
    /\ EndStop([mem[target] EXCEPT !.state = "stopping",
                                   !.stopping = "fresh"], ok)
    /\ UNCHANGED proc

\* A worker that is starting is waited for until it is dead or the start
\* grace is over (_request_worker_stop).
BugNoDeadline ==
    \/ step = "ask" /\ mem[target].state # "starting"
    \/ step = "retry" /\ ~PidAlive(mem[target].pid)
NoAnswerToWaitFor ==
    \/ step = "ask" /\ mem[target].state # "starting"
    \/ step = "retry"

\* No answer to STOP: make sure that the worker is dead.
StopForced(ok) ==
    LET p == mem[target].pid
    IN  /\ NoAnswerToWaitFor
        /\ \/ /\ ~PidAlive(p)
              /\ EndStop(None, ok)
              /\ proc' = Reaped(p)
           \/ /\ PidAlive(p)
              /\ MayTerminate(p)
              /\ EndStop(None, ok)
              /\ proc' = Terminated(p)
           \/ /\ PidAlive(p)
              /\ ~MayTerminate(p)
              /\ EndStop([mem[target] EXCEPT !.state = "error",
                                             !.stopping = "none"], ok)
              /\ UNCHANGED proc

-----------------------------------------------------------------------------
(* Crash and restart of the supervisor.                                    *)

\* Some record of the state file names the worker.
OnDisk(p) ==
    proc[p].agent \in Agents
    /\ LET r == disk[proc[p].agent] IN r # None /\ r.pid = p

\* Its children are adopted by init, which reaps the dead ones; who is not in
\* the state file is on no record any more.
Crash ==
    /\ up
    /\ crashes < MaxCrashes
    /\ crashes' = crashes + 1
    /\ up' = FALSE
    /\ mem' = NoWorkers
    /\ Finish
    /\ proc' = [p \in Pids |->
           IF proc[p].kind = "zombie" THEN NoProcess("free")
           ELSE [proc[p] EXCEPT !.child = FALSE,
                                !.saved = IF @ = "no" /\ ~OnDisk(p)
                                          THEN "lost" ELSE @]]
    /\ UNCHANGED <<disk, failures>>

\* _load_or_create_state adopts the workers of the state file.
Restart ==
    /\ ~up
    /\ up' = TRUE
    /\ mem' = disk
    /\ UNCHANGED <<disk, op, target, step, pending, probed, todo, newpid,
                   faults, proc>>

-----------------------------------------------------------------------------
(* The worker processes (agent/runner.py) and the rest of the machine.     *)

WorkerMoves(p, from, to, ctl) ==
    /\ proc[p].kind = "worker"
    /\ proc[p].phase \in from
    /\ proc' = [proc EXCEPT ![p] = [@ EXCEPT !.phase = to, !.ctl = ctl]]
    /\ UNCHANGED server

\* controller.start opens the endpoint, then yields before mark_running.
OpenEndpoint(p) == WorkerMoves(p, {"boot"}, "open", proc[p].ctl)
MarkRunning(p) == WorkerMoves(p, {"open"}, "serving", "running")
\* The run loop watches its state instead of stop_requested.
BugCloseEndpointByState(p) ==
    /\ proc[p].ctl = "stopping"
    /\ WorkerMoves(p, {"serving"}, "closing", proc[p].ctl)

\* stop_requested wakes the run loop; the endpoint answers until the agent
\* has stopped and controller.close runs.
CloseEndpoint(p) ==
    proc[p].stop /\ WorkerMoves(p, {"serving"}, "closing", proc[p].ctl)

\* An exception anywhere in run; a connection accepted before may still be
\* answered.  Or the SDK's run_forever returns.
WorkerFails(p) ==
    WorkerMoves(p, {"boot", "open", "serving"}, "failing", "error")
WorkerFailed(p) == WorkerMoves(p, {"failing"}, "closing", proc[p].ctl)
AgentReturns(p) == WorkerMoves(p, {"serving"}, "closing", proc[p].ctl)

ProcessGone(p) ==
    /\ proc' = [proc EXCEPT ![p] =
           NoProcess(IF proc[p].child THEN "zombie" ELSE "free")]
    /\ UNCHANGED server

WorkerExits(p) == proc[p].phase = "closing" /\ ProcessGone(p)
SigtermArrives(p) == proc[p].signalled /\ ProcessGone(p)
WorkerKilled(p) == proc[p].kind = "worker" /\ ProcessGone(p)

\* Another program of the user gets a free pid, and ends.  It leads a group,
\* or joins that of another program.
OtherStarts(p, g) ==
    /\ FreePid(p)
    /\ ReusePids
    /\ Named(p)
    /\ \/ g \in {p, None}
       \/ g \in Pids /\ proc[g].kind = "other" /\ proc[g].group = g
    /\ proc' = [proc EXCEPT
           ![p] = [NoProcess("other") EXCEPT !.group = g]]
    /\ UNCHANGED server

OtherEnds(p) == proc[p].kind = "other" /\ ProcessGone(p)

\* Ten seconds since started_at, or since stopping_at.
StartAged(r, p) ==
    IF r # None /\ r.pid = p THEN [r EXCEPT !.starting = FALSE] ELSE r
StopAged(r, p) ==
    IF r # None /\ r.pid = p /\ r.stopping = "fresh"
    THEN [r EXCEPT !.stopping = "old"] ELSE r

StartGraceEnds(p) ==
    /\ \E a \in Agents : \E r \in {mem[a], disk[a]} : StartAged(r, p) # r
    /\ mem' = [a \in Agents |-> StartAged(mem[a], p)]
    /\ disk' = [a \in Agents |-> StartAged(disk[a], p)]
    /\ probed' = [a \in Agents |-> StartAged(probed[a], p)]
    /\ UNCHANGED <<up, op, target, step, pending, todo, newpid, faults, proc>>

StopGraceEnds(p) ==
    /\ \E a \in Agents : \E r \in {mem[a], disk[a]} : StopAged(r, p) # r
    /\ mem' = [a \in Agents |-> StopAged(mem[a], p)]
    /\ disk' = [a \in Agents |-> StopAged(disk[a], p)]
    /\ probed' = [a \in Agents |-> StopAged(probed[a], p)]
    /\ UNCHANGED <<up, op, target, step, pending, todo, newpid, faults, proc>>

-----------------------------------------------------------------------------
SupervisorStep ==
    \/ \E a \in Agents : ProbeAnswered(a) \/ ProbeSilent(a) \/ StopAllNext(a)
    \/ \E ok \in BOOLEAN : \/ EndRefresh(ok)
                           \/ RecordWorker(ok)
                           \/ StopAccepted(ok)
                           \/ StopForced(ok)
    \/ Spawn
    \/ StartRefused
    \/ StopAllDone
    \/ StopAnswered
    \/ StopSilent

Request ==
    \/ BeginList
    \/ BeginStopAll
    \/ \E a \in Agents : BeginStart(a) \/ BeginStop(a)

\* What a worker does by itself, whatever its agent does: the end of start,
\* the close after an error, and the end by SIGTERM.
WorkerStep(p) ==
    \/ MarkRunning(p)
    \/ WorkerFailed(p)
    \/ SigtermArrives(p)

Environment ==
    \E p \in Pids :
        \/ OpenEndpoint(p)
        \/ WorkerStep(p)
        \/ CloseEndpoint(p)
        \/ WorkerExits(p)
        \/ WorkerFails(p)
        \/ AgentReturns(p)
        \/ WorkerKilled(p)
        \/ \E g \in Pids \cup {None} : OtherStarts(p, g)
        \/ OtherEnds(p)
        \/ StartGraceEnds(p)
        \/ StopGraceEnds(p)

Next == Request \/ SupervisorStep \/ Crash \/ Restart \/ Environment

Spec == Init /\ [][Next]_vars

(***************************************************************************)
(* Fairness.  Every await of the supervisor is bounded by a timeout and    *)
(* the lock is released when a request ends; clocks advance, SIGTERM is    *)
(* delivered, and a worker that has an endpoint keeps running its event    *)
(* loop.  Views poll LIST every two seconds and asyncio.Lock is first      *)
(* come, first served, so a poll is not overtaken for ever.  Users,        *)
(* crashes, failures and the boot of a worker are not fair.  Nor is the    *)
(* end of a worker: agent.stop() and the gather after it have no timeout,  *)
(* and until they return the endpoint goes on answering.  What depends on  *)
(* them says so (AgentStops).                                              *)
(***************************************************************************)
Fairness ==
    /\ WF_vars(SupervisorStep)
    /\ WF_vars(Restart)
    /\ SF_vars(BeginList)
    /\ \A p \in Pids : /\ WF_vars(WorkerStep(p))
                       /\ WF_vars(StopGraceEnds(p))

FairSpec == Spec /\ Fairness

\* The SDK's agent.stop() returns in every worker that was told to stop.
AgentStops == \A p \in Pids : WF_vars(CloseEndpoint(p))

-----------------------------------------------------------------------------
(* Properties.                                                             *)

\* A worker that runs and has not been told to stop, by STOP or by SIGTERM.
Working(p) ==
    /\ proc[p].kind = "worker"
    /\ ~proc[p].stop
    /\ ~proc[p].signalled

\* A START was answered with it, and no later START took its record.
Answered(p) == Working(p) /\ proc[p].acked /\ ~proc[p].displaced

\* ... and no crash came while its record could not be saved.
Promised(p) == Answered(p) /\ proc[p].saved # "lost"

Names(workers, p) ==
    LET r == workers[proc[p].agent]
    IN  r # None /\ r.pid = p

\* A worker that a START was answered with, be it the START that spawned it or
\* one that found it, stays on record in memory and in the state file until it
\* has been told to stop or is dead: no probe that times out, no crash between
\* two steps of a request and no failed save makes the supervisor forget it.
\* Only a worker whose own save failed is in memory alone, and only a crash
\* then loses it (_reconcile_worker, _start_worker, _stop_worker,
\* _load_or_create_state).
AnsweredWorkersAreKept ==
    \A p \in Pids : Promised(p) =>
        /\ up => Names(mem, p)
        /\ Names(disk, p) \/ (up /\ proc[p].saved = "no")

\* The records are durable locators: a worker that a START was answered with
\* is in the state file (protocol.py:37, _start_worker).
AnsweredWorkersAreOnDisk ==
    \A p \in Pids : Answered(p) => Names(disk, p)

\* The strengthening that makes AnsweredWorkersAreKept inductive.  The request
\* in progress has the arguments its step needs ...
RequestOK ==
    /\ step = "none" /\ op # "stop_all" => op = "idle"
    /\ op = "idle" => step = "none" /\ target = None
    /\ ~up => op = "idle" /\ mem = NoWorkers
    /\ step = "probe" => op \in {"list", "start"} /\ pending \subseteq Recorded
    /\ step \in {"spawn", "record"} => op = "start" /\ NeedsWorker(mem[target])
    /\ op = "start" => target \in Agents
    /\ step \in {"ask", "retry", "answered"} =>
          op \in {"stop", "stop_all"} /\ target \in Recorded
    /\ step = "record" =>
          newpid \in Pids
          /\ (proc[newpid].kind = "worker" => proc[newpid].agent = target)
    /\ op = "stop_all" => todo \subseteq Recorded \ {target}

\* ... every worker has an agent and leads its own process group ...
WorkersOK ==
    \A p \in Pids : proc[p].kind = "worker" =>
        proc[p].agent \in Agents /\ proc[p].group = p

\* ... a worker in memory is in the state file unless its own save failed ...
MemoryIsSaved ==
    up => \A p \in Pids :
        proc[p].kind = "worker" /\ Names(mem, p) =>
            Names(disk, p) \/ proc[p].saved = "no"

\* ... a probe has only what it was given ...
ProbedIsKnown ==
    step = "probe" =>
        \A a \in Agents : probed[a] # None =>
            mem[a] # None /\ probed[a].pid = mem[a].pid

\* ... a finished probe has kept the workers that must be kept ...
ProbesKeep ==
    step = "probe" =>
        \A p \in Pids :
            Promised(p) /\ proc[p].agent \notin pending => Names(probed, p)

\* ... and STOP_ALL has told the workers it has been through.
StopAllProgress ==
    op = "stop_all" =>
        \A p \in Pids : Promised(p) =>
            \/ proc[p].agent \in todo
            \/ step \in {"ask", "retry"} /\ proc[p].agent = target

Inductive ==
    /\ TypeOK
    /\ RequestOK
    /\ WorkersOK
    /\ MemoryIsSaved
    /\ ProbedIsKnown
    /\ AnsweredWorkersAreKept
    /\ ProbesKeep
    /\ StopAllProgress

\* When STOP_ALL has been answered, every worker on record has been told to
\* stop: sign-out relies on it before it clears the user's access
\* (_stop_all_workers).
StopAllTellsEveryWorker ==
    [][StopAllDone => \A p \in Pids : ~Promised(p)]_vars

\* Terminating a worker risks no unrelated process, whatever took over the pid
\* of a dead one (the docstring of _terminate_worker).
UnrelatedAreSpared ==
    \A p \in Pids : proc[p].kind = "other" => ~proc[p].signalled

\* Starting an agent launches one worker: two workers never serve the same
\* agent's rooms (_start_worker).
OneWorkerPerAgent ==
    \A p, q \in Pids :
        /\ p # q
        /\ proc[p].phase = "serving" /\ proc[q].phase = "serving"
        => proc[p].agent # proc[q].agent

\* Whatever the workers do, the request that holds the lifecycle lock ends.
LockIsReleased == op # "idle" ~> op = "idle"

\* A worker told to stop goes away if its agent stops and its cleanup ends,
\* also when STOP reached it between opening its endpoint and mark_running,
\* which overwrites its state.
ToldWorkersExit ==
    AgentStops /\ (\A p \in Pids : WF_vars(WorkerExits(p))) =>
        \A p \in Pids :
            proc[p].kind = "worker" /\ (proc[p].stop \/ proc[p].signalled)
                ~> proc[p].kind # "worker"

\* An agent does not stay in "stopping" once its worker's agent has stopped,
\* even if the rest of the clean-up hangs or the worker was killed: the polls
\* of the views see it go, or terminate it after the grace
\* (_reconcile_worker).  A worker that hangs in agent.stop() keeps answering
\* that it is stopping, and nobody terminates it.
StoppingEnds ==
    AgentStops =>
        \A a \in Agents :
            mem[a] # None /\ mem[a].state = "stopping"
                ~> ~(mem[a] # None /\ mem[a].state = "stopping")
=============================================================================
