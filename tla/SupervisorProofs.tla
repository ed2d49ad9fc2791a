-------------------------- MODULE SupervisorProofs --------------------------
(* Theorems about Supervisor, for every set of agents and pids. *)
EXTENDS Supervisor, TLAPS

LEMMA NoRecord == None \notin WorkerRecord /\ NoWorkers \in Workers
BY SupervisorAssumption DEF WorkerRecord, WorkerState, Workers, NoWorkers

LEMMA RecordTypes ==
    /\ \A p \in Pids : NewRecord(p) \in WorkerRecord
    /\ \A r \in WorkerRecord, s \in WorkerState, g \in {"none", "fresh", "old"} :
          /\ [r EXCEPT !.state = "error"] \in WorkerRecord
          /\ [r EXCEPT !.state = "error"].pid = r.pid
          /\ [r EXCEPT !.state = s, !.stopping = g] \in WorkerRecord
          /\ [r EXCEPT !.starting = FALSE] \in WorkerRecord
          /\ [r EXCEPT !.stopping = "old"] \in WorkerRecord
BY DEF NewRecord, WorkerRecord, WorkerState

LEMMA ProcessTypes ==
    /\ \A kind \in {"free", "worker", "zombie", "other"}, g \in Pids \cup {None} :
          /\ NoProcess(kind) \in Process
          /\ [NoProcess(kind) EXCEPT !.group = g] \in Process
    /\ \A a \in Agents, p \in Pids : NewWorker(p, a) \in Process
    /\ \A q \in Process, c \in WorkerState, b \in BOOLEAN,
          f \in {"open", "serving", "failing", "closing"} :
          /\ [q EXCEPT !.phase = f, !.ctl = c] \in Process
          /\ [q EXCEPT !.ctl = "stopping", !.stop = TRUE] \in Process
          /\ [q EXCEPT !.signalled = TRUE] \in Process
          /\ [q EXCEPT !.acked = b] \in Process
          /\ \A v \in {"yes", "no", "lost"} :
                /\ [q EXCEPT !.acked = b, !.saved = v] \in Process
                /\ [q EXCEPT !.child = FALSE, !.saved = v] \in Process
          /\ [q EXCEPT !.displaced = TRUE] \in Process
          /\ q.ctl \in WorkerState
          /\ q.child \in BOOLEAN
<1>1. \A kind \in {"free", "worker", "zombie", "other"}, g \in Pids \cup {None} :
          /\ NoProcess(kind) \in Process
          /\ [NoProcess(kind) EXCEPT !.group = g] \in Process
  BY DEF NoProcess, Process, WorkerState
<1>2. \A a \in Agents, p \in Pids : NewWorker(p, a) \in Process
  BY DEF NewWorker, NoProcess, Process, WorkerState
<1>3. ASSUME NEW q \in Process, NEW c \in WorkerState, NEW b \in BOOLEAN,
             NEW f \in {"open", "serving", "failing", "closing"}
      PROVE  /\ [q EXCEPT !.phase = f, !.ctl = c] \in Process
             /\ [q EXCEPT !.ctl = "stopping", !.stop = TRUE] \in Process
             /\ [q EXCEPT !.signalled = TRUE] \in Process
             /\ [q EXCEPT !.acked = b] \in Process
             /\ \A v \in {"yes", "no", "lost"} :
                   /\ [q EXCEPT !.acked = b, !.saved = v] \in Process
                   /\ [q EXCEPT !.child = FALSE, !.saved = v] \in Process
             /\ [q EXCEPT !.displaced = TRUE] \in Process
             /\ q.ctl \in WorkerState
             /\ q.child \in BOOLEAN
  <2> USE DEF Process, WorkerState
  <2>1. [q EXCEPT !.phase = f, !.ctl = c] \in Process  OBVIOUS
  <2>2. [q EXCEPT !.ctl = "stopping", !.stop = TRUE] \in Process  OBVIOUS
  <2>3. [q EXCEPT !.signalled = TRUE] \in Process  OBVIOUS
  <2>4. [q EXCEPT !.acked = b] \in Process  OBVIOUS
  <2>5. [q EXCEPT !.displaced = TRUE] \in Process  OBVIOUS
  <2>6. \A v \in {"yes", "no", "lost"} :
           /\ [q EXCEPT !.acked = b, !.saved = v] \in Process
           /\ [q EXCEPT !.child = FALSE, !.saved = v] \in Process
    OBVIOUS
  <2>7. q.ctl \in WorkerState /\ q.child \in BOOLEAN  OBVIOUS
  <2> QED BY <2>1, <2>2, <2>3, <2>4, <2>5, <2>6, <2>7
<1> QED BY <1>1, <1>2, <1>3

LEMMA TypeInit == Init => TypeOK
<1> SUFFICES ASSUME Init PROVE TypeOK
  OBVIOUS
<1>1. proc \in [Pids -> Process]
  BY ProcessTypes DEF Init
<1>2. crashes \in 0..MaxCrashes /\ failures \in 0..MaxFailures
  BY SupervisorAssumption DEF Init
<1> QED BY <1>1, <1>2, NoRecord DEF Init, TypeOK

LEMMA TypeFinish ==
    ASSUME Finish
    PROVE  /\ op' \in {"idle", "list", "start", "stop", "stop_all"}
           /\ target' \in Agents \cup {None}
           /\ step' \in {"none", "probe", "spawn", "record", "ask", "retry",
                         "answered"}
           /\ pending' \in SUBSET Agents
           /\ probed' \in Workers
           /\ todo' \in SUBSET Agents
           /\ newpid' \in Pids \cup {None}
BY NoRecord DEF Finish

LEMMA TypeSave ==
    ASSUME TypeOK, NEW ws \in Workers, NEW ok \in BOOLEAN, Save(ws, ok)
    PROVE  mem' \in Workers /\ disk' \in Workers
           /\ failures' \in 0..MaxFailures
BY SupervisorAssumption DEF TypeOK, Save

LEMMA TypeRequest == ASSUME TypeOK, Request PROVE TypeOK'
<1> USE NoRecord DEF TypeOK, faults
<1>1. CASE BeginList
  BY <1>1 DEF BeginList, BeginRefresh, Recorded
<1>2. CASE BeginStopAll
  BY <1>2 DEF BeginStopAll, Recorded
<1>3. ASSUME NEW a \in Agents, BeginStart(a) PROVE TypeOK'
  BY <1>3 DEF BeginStart, BeginRefresh, Recorded
<1>4. ASSUME NEW a \in Agents, BeginStop(a) PROVE TypeOK'
  BY <1>4 DEF BeginStop
<1> QED BY <1>1, <1>2, <1>3, <1>4 DEF Request

\* What the helpers that return the next process table keep.
LEMMA TypeProc ==
    ASSUME TypeOK, NEW p \in Pids
    PROVE  /\ Reaped(p) \in [Pids -> Process]
           /\ Terminated(p) \in [Pids -> Process]
           /\ Acked(p) \in [Pids -> Process]
           /\ ToldToStop(p) \in [Pids -> Process]
<1> proc \in [Pids -> Process] /\ proc[p] \in Process
  BY DEF TypeOK
<1>1. Reaped(p) \in [Pids -> Process]
  BY ProcessTypes DEF Reaped
<1>2. Terminated(p) \in [Pids -> Process]
  <2>1. \A q \in Pids : [proc[q] EXCEPT !.signalled = TRUE] \in Process
    BY ProcessTypes DEF WorkerState, TypeOK
  <2> QED BY <2>1 DEF Terminated, TypeOK
<1>3. ToldToStop(p) \in [Pids -> Process]
  BY ProcessTypes DEF ToldToStop, WorkerState
<1>4. Acked(p) \in [Pids -> Process]
  <2>1. \A q \in Pids : [proc[q] EXCEPT !.acked = TRUE] \in Process
    BY ProcessTypes DEF WorkerState, TypeOK
  <2> QED BY <2>1 DEF Acked, TypeOK
<1> QED BY <1>1, <1>2, <1>3, <1>4

LEMMA TypeProbe ==
    ASSUME TypeOK, NEW a \in Agents, ProbeAnswered(a) \/ ProbeSilent(a),
           a \in pending => mem[a] # None
    PROVE  TypeOK'
<1> DEFINE r == mem[a]
<1>1. /\ a \in pending
      /\ r \in WorkerRecord
      /\ r.pid \in Pids
      /\ proc[r.pid] \in Process
  BY DEF ProbeAnswered, ProbeSilent, TypeOK, Workers, WorkerRecord
<1>2. ASSUME NEW q \in WorkerRecord \cup {None}, ProbeReturns(a, q),
             proc' \in [Pids -> Process]
      PROVE  TypeOK'
  BY <1>2 DEF TypeOK, ProbeReturns, Workers, faults
<1>3. CASE ProbeAnswered(a)
  <2> DEFINE s == proc[r.pid].ctl
             g == IF s = "stopping" THEN r.stopping ELSE "none"
  <2>1. s \in WorkerState /\ g \in {"none", "fresh", "old"}
    BY <1>1, ProcessTypes DEF WorkerRecord
  <2>2. [r EXCEPT !.state = s, !.stopping = g] \in WorkerRecord
    BY <1>1, <2>1, RecordTypes
  <2>3. ProbeReturns(a, [r EXCEPT !.state = s, !.stopping = g])
    BY <1>3 DEF ProbeAnswered
  <2> QED BY <1>2, <1>3, <2>2, <2>3 DEF ProbeAnswered, TypeOK
<1>4. CASE ProbeSilent(a)
  <2>1. [r EXCEPT !.state = "error"] \in WorkerRecord
    BY <1>1, RecordTypes DEF WorkerState
  <2> QED BY <1>1, <1>2, <1>4, <2>1, TypeProc DEF ProbeSilent, TypeOK
<1> QED BY <1>3, <1>4

LEMMA TypeMoves ==
    ASSUME TypeOK, NEW p \in Pids, NEW from,
           NEW to \in {"open", "serving", "failing", "closing"},
           NEW ctl \in WorkerState, WorkerMoves(p, from, to, ctl)
    PROVE  TypeOK'
BY ProcessTypes DEF TypeOK, WorkerMoves, server, faults

LEMMA TypeGone ==
    ASSUME TypeOK, NEW p \in Pids, ProcessGone(p)
    PROVE  TypeOK'
BY ProcessTypes DEF TypeOK, ProcessGone, server, faults

LEMMA TypeAged ==
    ASSUME NEW ws \in Workers, NEW p \in Pids
    PROVE  /\ [a \in Agents |-> StartAged(ws[a], p)] \in Workers
           /\ [a \in Agents |-> StopAged(ws[a], p)] \in Workers
<1>1. ASSUME NEW r \in WorkerRecord \cup {None}
      PROVE  /\ StartAged(r, p) \in WorkerRecord \cup {None}
             /\ StopAged(r, p) \in WorkerRecord \cup {None}
  <2>1. CASE r = None
    BY <2>1 DEF StartAged, StopAged
  <2>2. CASE r \in WorkerRecord
    <3>1. /\ [r EXCEPT !.starting = FALSE] \in WorkerRecord
          /\ [r EXCEPT !.stopping = "old"] \in WorkerRecord
      BY <2>2, RecordTypes DEF WorkerState
    <3> QED BY <2>2, <3>1 DEF StartAged, StopAged
  <2> QED BY <2>1, <2>2
<1> QED BY <1>1 DEF Workers

LEMMA TypeEnvironment == ASSUME TypeOK, Environment PROVE TypeOK'
<1> PICK p \in Pids :
        \/ OpenEndpoint(p)
        \/ WorkerStep(p)
        \/ CloseEndpoint(p)
        \/ WorkerExits(p)
        \/ WorkerFails(p)
        \/ AgentReturns(p)
        \/ WorkerKilled(p)
        \/ \E g \in Pids \cup {None} : OtherStarts(p, g)
        \/ OtherEnds(p)
        \/ StartGraceEnds(p)
        \/ StopGraceEnds(p)
  BY DEF Environment
<1>1. proc[p].ctl \in WorkerState /\ {"running", "error"} \subseteq WorkerState
  BY ProcessTypes DEF TypeOK, WorkerState
<1>2. CASE \/ OpenEndpoint(p) \/ MarkRunning(p) \/ CloseEndpoint(p)
           \/ WorkerFails(p) \/ WorkerFailed(p) \/ AgentReturns(p)
  BY <1>1, <1>2, TypeMoves
  DEF OpenEndpoint, MarkRunning, CloseEndpoint, WorkerFails, WorkerFailed,
      AgentReturns
<1>3. CASE WorkerExits(p) \/ SigtermArrives(p) \/ WorkerKilled(p) \/ OtherEnds(p)
  BY <1>3, TypeGone DEF WorkerExits, SigtermArrives, WorkerKilled, OtherEnds
<1>4. CASE \E g \in Pids \cup {None} : OtherStarts(p, g)
  BY <1>4, ProcessTypes DEF OtherStarts, TypeOK, server, faults
<1>5. CASE StartGraceEnds(p)
  BY <1>5, TypeAged DEF StartGraceEnds, TypeOK, faults
<1>6. CASE StopGraceEnds(p)
  BY <1>6, TypeAged DEF StopGraceEnds, TypeOK, faults
<1> QED BY <1>2, <1>3, <1>4, <1>5, <1>6 DEF WorkerStep

-----------------------------------------------------------------------------
(* No step but a START's makes a worker or a promise.                      *)

Quiet ==
    \A x \in Pids :
        /\ proc'[x].kind = "worker" =>
              /\ proc[x].kind = "worker"
              /\ proc'[x].agent = proc[x].agent
              /\ proc'[x].group = proc[x].group
              /\ proc'[x].saved = proc[x].saved
        /\ Promised(x)' => Promised(x)

LEMMA QuietUnchanged == ASSUME UNCHANGED proc PROVE Quiet
BY DEF Quiet, Promised, Answered, Working

LEMMA QuietHelpers ==
    ASSUME TypeOK, NEW p \in Pids,
           \/ proc' = Reaped(p)
           \/ proc' = Terminated(p)
           \/ proc' = ToldToStop(p)
    PROVE  Quiet
<1> proc \in [Pids -> Process]
  BY DEF TypeOK
<1>1. CASE proc' = Reaped(p)
  BY <1>1 DEF Quiet, Promised, Answered, Working, Reaped, NoProcess
<1>2. CASE proc' = Terminated(p)
  BY <1>2 DEF Quiet, Promised, Answered, Working, Terminated, Process
<1>3. CASE proc' = ToldToStop(p)
  BY <1>3 DEF Quiet, Promised, Answered, Working, ToldToStop, Process
<1> QED BY <1>1, <1>2, <1>3

LEMMA QuietEnvironment == ASSUME TypeOK, Environment PROVE Quiet
<1> PICK p \in Pids :
        \/ OpenEndpoint(p)
        \/ WorkerStep(p)
        \/ CloseEndpoint(p)
        \/ WorkerExits(p)
        \/ WorkerFails(p)
        \/ AgentReturns(p)
        \/ WorkerKilled(p)
        \/ \E g \in Pids \cup {None} : OtherStarts(p, g)
        \/ OtherEnds(p)
        \/ StartGraceEnds(p)
        \/ StopGraceEnds(p)
  BY DEF Environment
<1> proc \in [Pids -> Process]
  BY DEF TypeOK
<1>1. ASSUME NEW from, NEW to, NEW ctl, WorkerMoves(p, from, to, ctl)
      PROVE  Quiet
  BY <1>1 DEF WorkerMoves, Quiet, Promised, Answered, Working, Process
<1>2. CASE \/ OpenEndpoint(p) \/ MarkRunning(p) \/ CloseEndpoint(p)
           \/ WorkerFails(p) \/ WorkerFailed(p) \/ AgentReturns(p)
  BY <1>1, <1>2
  DEF OpenEndpoint, MarkRunning, CloseEndpoint, WorkerFails, WorkerFailed,
      AgentReturns
<1>3. ASSUME ProcessGone(p) PROVE Quiet
  BY <1>3 DEF ProcessGone, Quiet, Promised, Answered, Working, NoProcess
<1>4. CASE WorkerExits(p) \/ SigtermArrives(p) \/ WorkerKilled(p) \/ OtherEnds(p)
  BY <1>3, <1>4 DEF WorkerExits, SigtermArrives, WorkerKilled, OtherEnds
<1>5. CASE \E g \in Pids \cup {None} : OtherStarts(p, g)
  BY <1>5 DEF OtherStarts, Quiet, Promised, Answered, Working, NoProcess
<1>6. CASE StartGraceEnds(p) \/ StopGraceEnds(p)
  BY <1>6, QuietUnchanged DEF StartGraceEnds, StopGraceEnds
<1> QED BY <1>2, <1>4, <1>5, <1>6 DEF WorkerStep

\* A record still names the same worker after a step that leaves its pid alone.
LEMMA QuietWorkers ==
    ASSUME WorkersOK, Quiet
    PROVE  WorkersOK'
BY DEF WorkersOK, Quiet

LEMMA QuietSaved ==
    ASSUME MemoryIsSaved, WorkersOK, Quiet, UNCHANGED <<up, mem, disk>>
    PROVE  MemoryIsSaved'
BY DEF MemoryIsSaved, WorkersOK, Quiet, Names

\* Ageing changes neither the pid nor the state of a record.
SameRecords(old, new) ==
    \A a \in Agents :
        /\ new[a] = None <=> old[a] = None
        /\ old[a] # None => new[a].pid = old[a].pid /\ new[a].state = old[a].state

LEMMA AgedSame ==
    ASSUME NEW ws \in Workers, NEW p \in Pids
    PROVE  /\ SameRecords(ws, [a \in Agents |-> StartAged(ws[a], p)])
           /\ SameRecords(ws, [a \in Agents |-> StopAged(ws[a], p)])
<1>1. ASSUME NEW a \in Agents, ws[a] # None
      PROVE  /\ ws[a] \in WorkerRecord
             /\ [ws[a] EXCEPT !.starting = FALSE] \in WorkerRecord
             /\ [ws[a] EXCEPT !.stopping = "old"] \in WorkerRecord
  BY <1>1, RecordTypes DEF Workers, WorkerState
<1>2. ASSUME NEW a \in Agents, ws[a] # None
      PROVE  /\ StartAged(ws[a], p) # None
             /\ StopAged(ws[a], p) # None
  BY <1>1, <1>2, NoRecord DEF StartAged, StopAged
<1>3. ASSUME NEW a \in Agents, ws[a] # None
      PROVE  /\ StartAged(ws[a], p).pid = ws[a].pid
             /\ StartAged(ws[a], p).state = ws[a].state
             /\ StopAged(ws[a], p).pid = ws[a].pid
             /\ StopAged(ws[a], p).state = ws[a].state
  BY <1>1, <1>3 DEF StartAged, StopAged, WorkerRecord
<1>4. ASSUME NEW a \in Agents, ws[a] = None
      PROVE  StartAged(ws[a], p) = None /\ StopAged(ws[a], p) = None
  BY <1>4 DEF StartAged, StopAged
<1> QED BY <1>2, <1>3, <1>4 DEF SameRecords

LEMMA EnvironmentRecords ==
    ASSUME TypeOK, Environment
    PROVE  /\ UNCHANGED <<up, op, target, step, pending, todo, newpid>>
           /\ SameRecords(mem, mem')
           /\ SameRecords(disk, disk')
           /\ SameRecords(probed, probed')
<1> PICK p \in Pids :
        \/ OpenEndpoint(p)
        \/ WorkerStep(p)
        \/ CloseEndpoint(p)
        \/ WorkerExits(p)
        \/ WorkerFails(p)
        \/ AgentReturns(p)
        \/ WorkerKilled(p)
        \/ \E g \in Pids \cup {None} : OtherStarts(p, g)
        \/ OtherEnds(p)
        \/ StartGraceEnds(p)
        \/ StopGraceEnds(p)
  BY DEF Environment
<1>1. CASE StartGraceEnds(p)
  BY <1>1, AgedSame DEF StartGraceEnds, TypeOK
<1>2. CASE StopGraceEnds(p)
  BY <1>2, AgedSame DEF StopGraceEnds, TypeOK
<1>3. CASE UNCHANGED server
  BY <1>3 DEF server, SameRecords
<1> QED
  BY <1>1, <1>2, <1>3
  DEF WorkerStep, OpenEndpoint, MarkRunning, CloseEndpoint, WorkerFails,
      WorkerFailed, AgentReturns, WorkerExits, SigtermArrives, WorkerKilled,
      OtherStarts, OtherEnds, ProcessGone, WorkerMoves

LEMMA EnvironmentInductive ==
    ASSUME Inductive, Environment
    PROVE  Inductive'
<1>1. TypeOK /\ TypeOK' /\ Quiet
  BY TypeEnvironment, QuietEnvironment DEF Inductive
<1>2. WorkersOK'
  BY <1>1, QuietWorkers DEF Inductive
<1>3. /\ UNCHANGED <<up, op, target, step, pending, todo, newpid>>
      /\ SameRecords(mem, mem')
      /\ SameRecords(disk, disk')
      /\ SameRecords(probed, probed')
  BY <1>1, EnvironmentRecords
<1> USE DEF SameRecords
<1>5. RequestOK'
  <2>1. ~up => mem' = NoWorkers
    BY <1>1, <1>3, NoRecord DEF Inductive, RequestOK, TypeOK, Workers, NoWorkers
  <2>2. Recorded' = Recorded
    BY <1>3 DEF Recorded
  <2>3. target \in Agents /\ NeedsWorker(mem[target]) => NeedsWorker(mem'[target])
    BY <1>3 DEF NeedsWorker
  <2>4. step = "record" =>
          newpid \in Pids
          /\ (proc'[newpid].kind = "worker" => proc'[newpid].agent = target)
    BY <1>1 DEF Inductive, RequestOK, Quiet
  <2> QED BY <1>3, <2>1, <2>2, <2>3, <2>4 DEF Inductive, RequestOK
<1>6. AnsweredWorkersAreKept'
  BY <1>1, <1>2, <1>3 DEF Inductive, AnsweredWorkersAreKept, Quiet, Names, WorkersOK, Promised, Answered, Working
<1>7. ProbesKeep'
  BY <1>1, <1>2, <1>3 DEF Inductive, ProbesKeep, Quiet, Names, WorkersOK, Promised, Answered, Working
<1>8. StopAllProgress'
  BY <1>1, <1>2, <1>3 DEF Inductive, StopAllProgress, Quiet, Promised, Answered, Working
<1>9. MemoryIsSaved'
  BY <1>1, <1>2, <1>3 DEF Inductive, MemoryIsSaved, Quiet, Names, WorkersOK
<1>10. ProbedIsKnown'
  BY <1>3 DEF Inductive, ProbedIsKnown
<1> QED BY <1>1, <1>2, <1>5, <1>6, <1>7, <1>8, <1>9, <1>10 DEF Inductive

-----------------------------------------------------------------------------
(* The steps of the supervisor.                                            *)

LEMMA RequestInductive == ASSUME Inductive, Request PROVE Inductive'
<1>1. TypeOK' /\ Quiet /\ UNCHANGED <<proc, mem, disk, up>> /\ op = "idle"
  BY TypeRequest, QuietUnchanged
  DEF Request, BeginList, BeginStart, BeginRefresh, BeginStop, BeginStopAll,
      Inductive
<1>2. WorkersOK'
  BY <1>1, QuietWorkers DEF Inductive
<1>3. AnsweredWorkersAreKept'
  BY <1>1 DEF Inductive, AnsweredWorkersAreKept, Names, Promised, Answered, Working
<1>a. MemoryIsSaved'
  BY <1>1, QuietSaved DEF Inductive
<1>b. ProbedIsKnown'
  BY <1>1 DEF Request, BeginList, BeginStart, BeginRefresh, BeginStop,
              BeginStopAll, ProbedIsKnown, NoWorkers, Inductive
<1> USE DEF Inductive, RequestOK, ProbesKeep, StopAllProgress, Recorded, TypeOK
<1>4. CASE BeginList \/ \E a \in Agents : BeginStart(a)
  <2>1. PICK kind \in {"list", "start"}, a \in Agents \cup {None} :
           BeginRefresh(kind, a) /\ (kind = "start" => a \in Agents)
    BY <1>4 DEF BeginList, BeginStart
  <2>2. RequestOK' /\ StopAllProgress'
    BY <1>1, <2>1 DEF BeginRefresh
  <2>3. ASSUME NEW p \in Pids, Promised(p) PROVE proc[p].agent \in Recorded
    BY <2>1, <2>3 DEF BeginRefresh, AnsweredWorkersAreKept, Names, Promised,
                      Answered, Working, WorkersOK
  <2>4. ProbesKeep'
    BY <1>1, <2>1, <2>3 DEF BeginRefresh, Promised, Answered, Working
  <2> QED BY <1>1, <1>2, <1>3, <1>a, <1>b, <2>2, <2>4
<1>5. CASE BeginStopAll
  <2>1. RequestOK' /\ ProbesKeep'
    BY <1>1, <1>5, SupervisorAssumption DEF BeginStopAll
  <2>2. StopAllProgress'
    BY <1>1, <1>5 DEF BeginStopAll, AnsweredWorkersAreKept, Names, Promised,
                      Answered, Working, WorkersOK
  <2> QED BY <1>1, <1>2, <1>3, <1>a, <1>b, <2>1, <2>2
<1>6. ASSUME NEW a \in Agents, BeginStop(a) PROVE Inductive'
  <2>1. RequestOK' /\ ProbesKeep' /\ StopAllProgress'
    BY <1>1, <1>6 DEF BeginStop
  <2> QED BY <1>1, <1>2, <1>3, <1>a, <1>b, <2>1
<1> QED BY <1>4, <1>5, <1>6 DEF Request

LEMMA ProbeInductive ==
    ASSUME Inductive, NEW a \in Agents, ProbeAnswered(a) \/ ProbeSilent(a)
    PROVE  Inductive'
<1> DEFINE r == mem[a]
<1> USE DEF Inductive
<1>1. /\ step = "probe" /\ a \in pending /\ a \in Recorded
      /\ r \in WorkerRecord /\ r.pid \in Pids /\ up
      /\ UNCHANGED <<up, mem, disk, op, target, step, todo, newpid, faults>>
      /\ pending' = pending \ {a}
  BY SupervisorAssumption
  DEF ProbeAnswered, ProbeSilent, ProbeReturns, RequestOK, Recorded, TypeOK,
      Workers, WorkerRecord
<1>2. TypeOK'
  BY <1>1, TypeProbe DEF Recorded
<1>3. Quiet
  BY <1>1, QuietUnchanged, QuietHelpers DEF ProbeAnswered, ProbeSilent
<1>4. WorkersOK'
  BY <1>3, QuietWorkers
<1>5. RequestOK'
  BY <1>1 DEF RequestOK, Recorded
<1>6. AnsweredWorkersAreKept'
  BY <1>1, <1>3, <1>4 DEF AnsweredWorkersAreKept, Quiet, Names, Promised, Answered, Working
<1>7. StopAllProgress'
  BY <1>1, <1>3 DEF StopAllProgress, Quiet, Promised, Answered, Working, RequestOK
\* The worker promised for a is the one its record names, and it is given up
\* only when it is dead or has been signalled.
<1>8. ASSUME NEW x \in Pids, Promised(x)', proc'[x].agent = a
      PROVE  probed'[a] # None /\ probed'[a].pid = x
  <2>1. Promised(x) /\ proc[x].kind = "worker" /\ proc[x].agent = a /\ r.pid = x
    BY <1>1, <1>3, <1>8
    DEF Quiet, Promised, Answered, Working, AnsweredWorkersAreKept, Names
  <2>2. ASSUME NEW q \in WorkerRecord, q.pid = r.pid, ProbeReturns(a, q)
        PROVE  probed'[a] # None /\ probed'[a].pid = x
    BY <1>1, <2>1, <2>2, NoRecord DEF ProbeReturns, TypeOK, Workers
  <2>3. CASE ProbeAnswered(a)
    <3> DEFINE s == proc[r.pid].ctl
               g == IF s = "stopping" THEN r.stopping ELSE "none"
    <3>1. s \in WorkerState /\ g \in {"none", "fresh", "old"}
      BY <1>1, ProcessTypes DEF TypeOK, WorkerRecord
    <3>2. [r EXCEPT !.state = s, !.stopping = g] \in WorkerRecord
      BY <1>1, <3>1, RecordTypes
    <3>3. [r EXCEPT !.state = s, !.stopping = g].pid = r.pid
      BY <1>1 DEF WorkerRecord
    <3>4. ProbeReturns(a, [r EXCEPT !.state = s, !.stopping = g])
      BY <2>3 DEF ProbeAnswered
    <3> HIDE DEF s, g
    <3> QED BY <2>2, <3>2, <3>3, <3>4
  <2>4. CASE ProbeSilent(a)
    <3>1. PidAlive(r.pid)
      BY <2>1 DEF PidAlive
    <3>2. proc' # Terminated(r.pid)
      <4>1. SUFFICES ASSUME proc' = Terminated(r.pid) PROVE FALSE
        OBVIOUS
      <4>2. proc[x].group = x /\ proc[x] \in Process
        BY <2>1 DEF WorkersOK, TypeOK
      <4>3. proc'[x] = [proc[x] EXCEPT !.signalled = TRUE]
        BY <2>1, <4>1, <4>2 DEF Terminated
      <4>4. proc'[x].signalled
        BY <4>2, <4>3 DEF Process
      <4> QED BY <1>8, <4>4 DEF Promised, Answered, Working
    <3>3. [r EXCEPT !.state = "error"] \in WorkerRecord
          /\ [r EXCEPT !.state = "error"].pid = r.pid
      BY <1>1, RecordTypes DEF WorkerState
    <3>4. ProbeReturns(a, r) \/ ProbeReturns(a, [r EXCEPT !.state = "error"])
      BY <2>4, <3>1, <3>2 DEF ProbeSilent
    <3> QED BY <1>1, <2>2, <3>3, <3>4
  <2> QED BY <2>3, <2>4
<1>9. ProbesKeep'
  <2>1. \A b \in Agents : b # a => probed'[b] = probed[b]
    BY DEF ProbeAnswered, ProbeSilent, ProbeReturns, TypeOK, Workers
  <2>2. ASSUME NEW x \in Pids, Promised(x)', proc'[x].agent \notin pending'
        PROVE  Names(probed, x)'
    <3>1. /\ proc'[x].agent = proc[x].agent
          /\ proc[x].agent \in Agents
          /\ Promised(x)
      BY <1>3, <2>2 DEF Quiet, Promised, Answered, Working, WorkersOK
    <3>2. CASE proc[x].agent = a
      BY <1>8, <2>2, <3>1, <3>2 DEF Names
    <3>3. CASE proc[x].agent # a
      BY <1>1, <2>1, <2>2, <3>1, <3>3 DEF ProbesKeep, Names
    <3> QED BY <3>2, <3>3
  <2> QED BY <2>2 DEF ProbesKeep
<1>10. MemoryIsSaved'
  BY <1>1, <1>3, QuietSaved
<1>11. ProbedIsKnown'
  <2>1. \A b \in Agents : b # a => probed'[b] = probed[b]
    BY DEF ProbeAnswered, ProbeSilent, ProbeReturns, TypeOK, Workers
  <2>2. ASSUME NEW q, ProbeReturns(a, q) PROVE probed'[a] = q
    BY <2>2 DEF ProbeReturns, TypeOK, Workers
  <2>3. ASSUME NEW s \in WorkerState, NEW g \in {"none", "fresh", "old"}
        PROVE  /\ [r EXCEPT !.state = s, !.stopping = g].pid = r.pid
               /\ [r EXCEPT !.state = s].pid = r.pid
    BY <1>1 DEF WorkerRecord
  <2>4. probed'[a] = None \/ probed'[a].pid = r.pid
    <3>1. CASE ProbeAnswered(a)
      <4> DEFINE s == proc[r.pid].ctl
                 g == IF s = "stopping" THEN r.stopping ELSE "none"
      <4>1. s \in WorkerState /\ g \in {"none", "fresh", "old"}
        BY <1>1, ProcessTypes DEF TypeOK, WorkerRecord
      <4>2. ProbeReturns(a, [r EXCEPT !.state = s, !.stopping = g])
        BY <3>1 DEF ProbeAnswered
      <4> HIDE DEF s, g
      <4> QED BY <2>2, <2>3, <4>1, <4>2
    <3>2. CASE ProbeSilent(a)
      <4>1. \/ ProbeReturns(a, None) \/ ProbeReturns(a, r)
            \/ ProbeReturns(a, [r EXCEPT !.state = "error"])
        BY <3>2 DEF ProbeSilent
      <4> QED BY <2>2, <2>3, <4>1 DEF WorkerState
    <3> QED BY <3>1, <3>2
  <2> QED BY <1>1, <2>1, <2>4 DEF ProbedIsKnown, Recorded
<1> QED BY <1>2, <1>4, <1>5, <1>6, <1>7, <1>9, <1>10, <1>11

LEMMA EndRefreshInductive ==
    ASSUME Inductive, NEW ok \in BOOLEAN, EndRefresh(ok)
    PROVE  Inductive'
<1> USE DEF Inductive
<1>1. /\ step = "probe" /\ pending = {} /\ up /\ op \in {"list", "start"}
      /\ UNCHANGED <<up, crashes>>
      /\ probed \in Workers
  BY DEF EndRefresh, RequestOK, TypeOK
<1>2. /\ mem' = probed
      /\ \/ disk' = probed
         \/ disk' = disk /\ (ok => probed = mem)
      /\ failures' \in 0..MaxFailures
  BY <1>1, SupervisorAssumption DEF EndRefresh, Save, TypeOK
<1>3. \/ /\ op = "start" /\ NeedsWorker(probed[target]) /\ step' = "spawn"
         /\ UNCHANGED <<op, target, pending, probed, todo, newpid>>
      \/ Finish
  BY DEF EndRefresh
\* The START that found a worker is answered with it.
<1> DEFINE p == probed[target].pid
           found(x) == /\ ok /\ op = "start" /\ target \in Agents
                       /\ probed[target] # None /\ x = p
                       /\ IsWorkerOf(x, target)
<1>a. /\ proc' \in [Pids -> Process]
      /\ \A x \in Pids :
            \/ proc'[x] = proc[x]
            \/ proc'[x] = [proc[x] EXCEPT !.acked = TRUE] /\ found(x)
  <2>1. CASE ok /\ op = "start" /\ ~NeedsWorker(probed[target])
    <3>1. target \in Agents /\ probed[target] \in WorkerRecord /\ p \in Pids
      BY <1>1, <2>1 DEF RequestOK, NeedsWorker, Workers, WorkerRecord
    <3>2. proc' = Acked(p)
      BY <2>1 DEF EndRefresh
    <3> QED BY <2>1, <3>1, <3>2, TypeProc DEF Acked, NeedsWorker
  <2>2. CASE ~(ok /\ op = "start" /\ ~NeedsWorker(probed[target]))
    BY <2>2 DEF EndRefresh, TypeOK
  <2> QED BY <2>1, <2>2
<1> HIDE DEF found
<1>b. \A x \in Pids :
         /\ proc'[x].kind = proc[x].kind /\ proc'[x].agent = proc[x].agent
         /\ proc'[x].group = proc[x].group /\ proc'[x].saved = proc[x].saved
         /\ Promised(x)' => Promised(x) \/ found(x)
  <2>1. SUFFICES ASSUME NEW x \in Pids
                 PROVE  /\ proc'[x].kind = proc[x].kind
                        /\ proc'[x].agent = proc[x].agent
                        /\ proc'[x].group = proc[x].group
                        /\ proc'[x].saved = proc[x].saved
                        /\ Promised(x)' => Promised(x) \/ found(x)
    OBVIOUS
  <2>2. proc[x] \in Process
    BY DEF TypeOK
  <2>3. CASE proc'[x] = proc[x]
    BY <2>3 DEF Promised, Answered, Working
  <2>4. CASE proc'[x] = [proc[x] EXCEPT !.acked = TRUE] /\ found(x)
    BY <2>2, <2>4 DEF Process
  <2> QED BY <1>a, <2>3, <2>4
<1>4. TypeOK'
  BY <1>1, <1>2, <1>3, <1>a, TypeFinish DEF TypeOK
<1>5. WorkersOK'
  BY <1>b DEF WorkersOK
<1>6. RequestOK'
  BY <1>1, <1>2, <1>3, SupervisorAssumption DEF RequestOK, Finish, Recorded
<1>c. \A x \in Pids : proc[x].kind = "worker" /\ Names(probed, x) =>
                         Names(mem, x)
  BY <1>1 DEF ProbedIsKnown, WorkersOK, Names
<1>d. MemoryIsSaved'
  BY <1>1, <1>2, <1>b, <1>c DEF MemoryIsSaved, Names
<1>7. AnsweredWorkersAreKept'
  <2>1. SUFFICES ASSUME NEW x \in Pids, Promised(x)'
                 PROVE  Names(mem, x)' /\ (Names(disk, x)' \/ proc'[x].saved = "no")
    BY <1>1 DEF AnsweredWorkersAreKept
  <2>2. Names(probed, x) /\ proc[x].kind = "worker"
    <3>1. CASE Promised(x)
      BY <1>1, <3>1 DEF ProbesKeep, Promised, Answered, Working
    <3>2. CASE found(x)
      BY <3>2 DEF found, IsWorkerOf, Names
    <3> QED BY <1>b, <2>1, <3>1, <3>2
  <2>3. Names(mem, x)'
    BY <1>2, <1>b, <2>2 DEF Names
  <2> QED BY <1>1, <1>b, <1>d, <2>2, <2>3 DEF MemoryIsSaved
<1>8. ProbesKeep' /\ StopAllProgress' /\ ProbedIsKnown'
  BY <1>1, <1>3 DEF ProbesKeep, StopAllProgress, ProbedIsKnown, Finish
<1> QED BY <1>4, <1>5, <1>6, <1>d, <1>7, <1>8

LEMMA StartInductive ==
    ASSUME Inductive, NEW ok \in BOOLEAN,
           Spawn \/ StartRefused \/ RecordWorker(ok)
    PROVE  Inductive'
<1> USE DEF Inductive
<1>1. /\ op = "start" /\ target \in Agents /\ NeedsWorker(mem[target]) /\ up
      /\ UNCHANGED <<up, crashes>>
      /\ mem[target] \in WorkerRecord \cup {None}
  BY DEF Spawn, StartRefused, RecordWorker, RequestOK, TypeOK, Workers, faults
<1>2. CASE Spawn
  <2>1. PICK p \in Pids : /\ Available(p, target)
                          /\ proc' = [proc EXCEPT ![p] = NewWorker(p, target)]
                          /\ newpid' = p
    BY <1>2 DEF Spawn
  <2>2. /\ step' = "record"
        /\ UNCHANGED <<up, mem, disk, op, target, pending, probed, todo, faults>>
    BY <1>2 DEF Spawn
  <2>3. proc \in [Pids -> Process] /\ NewWorker(p, target) \in Process
    BY <1>1, ProcessTypes DEF TypeOK
  <2>4. TypeOK'
    BY <2>1, <2>2, <2>3 DEF TypeOK, faults
  <2>5. /\ proc'[p].kind = "worker" /\ proc'[p].agent = target
        /\ proc'[p].group = p /\ proc'[p].saved = "yes"
        /\ ~proc'[p].acked
        /\ \A x \in Pids : x # p => proc'[x] = proc[x]
    BY <2>1, <2>3 DEF NewWorker, NoProcess
  <2>6. \A x \in Pids : Promised(x)' => x # p /\ Promised(x)
    BY <2>5 DEF Promised, Answered, Working
  <2>7. WorkersOK'
    BY <1>1, <2>5 DEF WorkersOK
  <2>8. RequestOK'
    BY <1>1, <2>1, <2>2, <2>5 DEF RequestOK, Recorded
  <2>9. AnsweredWorkersAreKept'
    BY <2>2, <2>5, <2>6 DEF AnsweredWorkersAreKept, Names
  <2>10. ProbesKeep' /\ StopAllProgress' /\ ProbedIsKnown'
    BY <1>1, <2>2 DEF ProbesKeep, StopAllProgress, ProbedIsKnown
  \* No record of the agent names the pid it was given.
  <2>11. MemoryIsSaved'
    <3>1. ~Names(mem, p)'
      BY <1>1, <2>1, <2>2, <2>5 DEF Available, FreePid, Named, Names
    <3> QED BY <1>1, <2>2, <2>5, <3>1 DEF MemoryIsSaved, Names
  <2> QED BY <2>4, <2>7, <2>8, <2>9, <2>10, <2>11
<1>3. CASE StartRefused
  <2>1. Finish /\ UNCHANGED <<up, mem, disk, faults, proc>>
    BY <1>3 DEF StartRefused
  <2>2. TypeOK'
    BY <2>1, TypeFinish DEF TypeOK, faults
  <2>3. WorkersOK' /\ AnsweredWorkersAreKept' /\ MemoryIsSaved'
    BY <1>1, <2>1 DEF WorkersOK, AnsweredWorkersAreKept, MemoryIsSaved, Names,
                      Promised, Answered, Working
  <2>4. RequestOK' /\ ProbesKeep' /\ StopAllProgress' /\ ProbedIsKnown'
    BY <1>1, <2>1 DEF RequestOK, ProbesKeep, StopAllProgress, ProbedIsKnown,
                      Finish
  <2> QED BY <2>2, <2>3, <2>4
<1>4. CASE RecordWorker(ok)
  <2> DEFINE old == mem[target]
             ws == [mem EXCEPT ![target] = NewRecord(newpid)]
  <2>1. /\ step = "record" /\ newpid \in Pids
        /\ proc[newpid].kind = "worker" => proc[newpid].agent = target
        /\ Finish /\ Save(ws, ok) /\ ws \in Workers
    BY <1>1, <1>4, RecordTypes DEF RecordWorker, RequestOK, TypeOK, Workers
  <2>2. /\ mem' = ws /\ (ok => disk' = ws) /\ (~ok => disk' = disk)
        /\ disk' \in Workers /\ failures' \in 0..MaxFailures
    BY <2>1, TypeSave DEF Save
  <2>3. \A x \in Pids :
           proc'[x] = IF x = newpid
                      THEN [proc[x] EXCEPT !.acked = ok /\ proc[x].kind = "worker",
                                           !.saved = IF ok THEN "yes" ELSE "no"]
                      ELSE IF /\ old # None
                              /\ old.pid = x
                              /\ old.state = "error"
                              /\ IsWorkerOf(x, target)
                      THEN [proc[x] EXCEPT !.displaced = TRUE]
                      ELSE proc[x]
    BY <1>4 DEF RecordWorker
  <2> DEFINE acked == ok /\ proc[newpid].kind = "worker"
             saved == IF ok THEN "yes" ELSE "no"
             gives(x) == /\ old # None
                         /\ old.pid = x
                         /\ old.state = "error"
                         /\ IsWorkerOf(x, target)
  <2>a. /\ proc'[newpid] = [proc[newpid] EXCEPT !.acked = acked, !.saved = saved]
        /\ \A x \in Pids : x # newpid /\ gives(x) =>
              proc'[x] = [proc[x] EXCEPT !.displaced = TRUE]
        /\ \A x \in Pids : x # newpid /\ ~gives(x) => proc'[x] = proc[x]
    BY <2>1, <2>3
  <2>b. /\ acked \in BOOLEAN /\ saved \in {"yes", "no", "lost"}
        /\ \A x \in Pids : proc[x] \in Process
        /\ saved = "no" \/ ok
    BY DEF TypeOK
  <2> HIDE DEF acked, saved, gives
  <2>4. proc' \in [Pids -> Process]
    <3>1. [proc[newpid] EXCEPT !.acked = acked, !.saved = saved] \in Process
      BY <2>1, <2>b, ProcessTypes DEF WorkerState
    <3>2. \A x \in Pids : [proc[x] EXCEPT !.displaced = TRUE] \in Process
      BY <2>b, ProcessTypes DEF WorkerState
    <3>3. \A x \in Pids : proc'[x] \in Process
      BY <2>1, <2>a, <2>b, <3>1, <3>2
    <3> QED BY <1>4, <3>3 DEF RecordWorker
  <2>5. TypeOK'
    BY <1>1, <2>1, <2>2, <2>4, TypeFinish DEF TypeOK
  <2>6. \A x \in Pids : /\ proc'[x].kind = proc[x].kind
                        /\ proc'[x].agent = proc[x].agent
                        /\ proc'[x].group = proc[x].group
                        /\ x # newpid => proc'[x].saved = proc[x].saved
    <3>1. SUFFICES ASSUME NEW x \in Pids
                   PROVE  /\ proc'[x].kind = proc[x].kind
                          /\ proc'[x].agent = proc[x].agent
                          /\ proc'[x].group = proc[x].group
                          /\ x # newpid => proc'[x].saved = proc[x].saved
      OBVIOUS
    <3>2. proc[x] \in Process
      BY <2>b
    <3>3. CASE x = newpid
      BY <2>a, <3>2, <3>3 DEF Process
    <3>4. CASE x # newpid /\ gives(x)
      <4>1. proc'[x] = [proc[x] EXCEPT !.displaced = TRUE]
        BY <2>a, <3>4
      <4> QED BY <3>2, <4>1 DEF Process
    <3>5. CASE x # newpid /\ ~gives(x)
      BY <2>a, <3>5
    <3> QED BY <3>3, <3>4, <3>5
  <2>7. WorkersOK'
    BY <2>6 DEF WorkersOK
  <2>8. RequestOK' /\ ProbesKeep' /\ StopAllProgress' /\ ProbedIsKnown'
    BY <1>1, <2>1 DEF RequestOK, ProbesKeep, StopAllProgress, ProbedIsKnown,
                      Finish
  <2>9. ASSUME NEW x \in Pids, Promised(x)'
        PROVE  /\ Names(mem, x)'
               /\ Names(disk, x)' \/ proc'[x].saved = "no"
    <3>1. CASE x = newpid
      <4>1. ok /\ proc[newpid].kind = "worker"
        BY <2>1, <2>9, <2>a, <2>b, <3>1 DEF Promised, Answered, Working, acked, Process
      <4>2. /\ ws[target] = NewRecord(newpid)
            /\ NewRecord(newpid) # None
            /\ NewRecord(newpid).pid = newpid
        <5>1. NewRecord(newpid) \in WorkerRecord
          BY <2>1, RecordTypes
        <5>2. NewRecord(newpid) # None
          BY <5>1, NoRecord
        <5>3. NewRecord(newpid).pid = newpid
          BY DEF NewRecord
        <5>4. target \in Agents
          BY <1>1, <2>1 DEF RequestOK
        <5>5. ws[target] = NewRecord(newpid)
          BY <5>4 DEF TypeOK, Workers
        <5> QED BY <5>2, <5>3, <5>5
      <4> QED BY <2>1, <2>2, <2>6, <3>1, <4>1, <4>2 DEF Names
    <3>2. CASE x # newpid
      <4>1. ~gives(x) /\ proc'[x] = proc[x]
        BY <2>9, <2>a, <2>b, <3>2 DEF Promised, Answered, Working, Process
      <4>2. /\ Promised(x) /\ Names(mem, x)
            /\ Names(disk, x) \/ proc[x].saved = "no"
        BY <1>1, <2>9, <4>1 DEF Promised, Answered, Working, AnsweredWorkersAreKept
      <4>3. proc[x].agent \in Agents /\ IsWorkerOf(x, proc[x].agent)
        BY <4>2 DEF WorkersOK, Promised, Answered, Working, IsWorkerOf
      <4>4. proc[x].agent # target
        BY <1>1, <4>1, <4>2, <4>3 DEF gives, Names, NeedsWorker
      <4>5. ws[proc[x].agent] = mem[proc[x].agent]
        BY <4>3, <4>4 DEF TypeOK, Workers
      <4> QED BY <2>2, <4>1, <4>2, <4>5 DEF Names
    <3> QED BY <3>1, <3>2
  <2>10. MemoryIsSaved'
    <3>1. SUFFICES ASSUME NEW x \in Pids, proc'[x].kind = "worker",
                          Names(mem, x)', ~Names(disk, x)'
                   PROVE  proc'[x].saved = "no"
      BY DEF MemoryIsSaved
    <3>2. ~ok
      BY <2>2, <3>1 DEF Names
    <3>3. CASE x = newpid
      BY <2>1, <2>a, <2>b, <3>2, <3>3 DEF Process
    <3>4. CASE x # newpid
      <4>1. proc[x].agent \in Agents /\ ~Names(disk, x)
        BY <2>2, <2>6, <3>1, <3>2 DEF WorkersOK, Names
      <4>2. Names(mem, x)
        <5>1. proc[x].agent # target
          <6>1. SUFFICES ASSUME proc[x].agent = target PROVE FALSE
            OBVIOUS
          <6>2. ws[target].pid = newpid
            BY <1>1, <2>1 DEF TypeOK, Workers, NewRecord
          <6> QED BY <2>2, <2>6, <3>1, <3>4, <6>1, <6>2 DEF Names
        <5> QED BY <2>2, <2>6, <3>1, <4>1, <5>1 DEF Names, TypeOK, Workers
      <4> QED BY <1>1, <2>6, <3>1, <3>4, <4>1, <4>2 DEF MemoryIsSaved
    <3> QED BY <3>3, <3>4
  <2> QED BY <1>1, <2>5, <2>7, <2>8, <2>9, <2>10 DEF AnsweredWorkersAreKept
<1> QED BY <1>2, <1>3, <1>4

LEMMA StopInductive ==
    ASSUME Inductive, NEW ok \in BOOLEAN,
           \/ \E a \in Agents : StopAllNext(a)
           \/ StopAllDone
           \/ StopAnswered
           \/ StopSilent
           \/ StopAccepted(ok)
           \/ StopForced(ok)
    PROVE  Inductive'
<1> USE DEF Inductive
<1>1. up /\ UNCHANGED <<up, crashes>>
  BY SupervisorAssumption
  DEF StopAllNext, StopAllDone, StopAnswered, StopSilent, StopAccepted,
      StopForced, NoAnswerToWaitFor, GoTo, EndStop, RequestOK, faults
<1>2. ASSUME NEW a \in Agents, StopAllNext(a) PROVE Inductive'
  <2>1. TypeOK' /\ WorkersOK'
    BY <1>2 DEF StopAllNext, TypeOK, WorkersOK, faults
  <2>2. AnsweredWorkersAreKept' /\ ProbesKeep'
    BY <1>2 DEF StopAllNext, AnsweredWorkersAreKept, ProbesKeep, Names,
                Promised, Answered, Working
  <2>3. MemoryIsSaved' /\ ProbedIsKnown'
    BY <1>2 DEF StopAllNext, MemoryIsSaved, ProbedIsKnown, Names
  <2>4. RequestOK' /\ StopAllProgress'
    BY <1>1, <1>2 DEF StopAllNext, RequestOK, Recorded, StopAllProgress,
                      Promised, Answered, Working
  <2> QED BY <2>1, <2>2, <2>3, <2>4
<1>3. CASE StopAllDone
  <2>1. Finish /\ UNCHANGED <<up, mem, disk, faults, proc>>
    BY <1>3 DEF StopAllDone
  <2>2. TypeOK'
    BY <2>1, TypeFinish DEF TypeOK, faults
  <2>3. WorkersOK' /\ AnsweredWorkersAreKept' /\ MemoryIsSaved'
    BY <1>1, <2>1 DEF WorkersOK, AnsweredWorkersAreKept, MemoryIsSaved, Names,
                      Promised, Answered, Working
  <2>4. RequestOK' /\ ProbesKeep' /\ StopAllProgress' /\ ProbedIsKnown'
    BY <1>1, <2>1 DEF RequestOK, ProbesKeep, StopAllProgress, ProbedIsKnown,
                      Finish
  <2> QED BY <2>2, <2>3, <2>4
\* From here on a stop is in progress, for a worker that is on record.
<1> DEFINE r == mem[target]
           p == r.pid
<1>4. ASSUME StopAnswered \/ StopSilent \/ StopAccepted(ok) \/ StopForced(ok)
      PROVE  /\ step \in {"ask", "retry", "answered"}
             /\ op \in {"stop", "stop_all"} /\ target \in Agents
             /\ r # None /\ r \in WorkerRecord /\ p \in Pids
             /\ r.state \in WorkerState
  BY <1>4 DEF StopAnswered, StopSilent, StopAccepted, StopForced, RequestOK,
              NoAnswerToWaitFor, Recorded, TypeOK, Workers, WorkerRecord
<1>5. ASSUME StopAnswered \/ StopSilent
      PROVE  Inductive'
  <2>1. /\ step \in {"ask", "retry"}
        /\ step' \in {"answered", "retry"}
        /\ UNCHANGED <<up, mem, disk, op, target, pending, probed, todo, newpid,
                      faults>>
    BY <1>4, <1>5 DEF StopAnswered, StopSilent, GoTo
  <2>2. Quiet /\ proc' \in [Pids -> Process]
    BY <1>4, <1>5, QuietUnchanged, QuietHelpers, TypeProc
    DEF StopAnswered, StopSilent, TypeOK
  <2>3. TypeOK'
    BY <2>1, <2>2 DEF TypeOK, faults
  <2>4. WorkersOK'
    BY <2>2, QuietWorkers
  <2>5. RequestOK' /\ ProbesKeep'
    BY <1>4, <1>5, <2>1 DEF RequestOK, ProbesKeep, Recorded
  <2>6. AnsweredWorkersAreKept'
    BY <2>1, <2>2, <2>4
    DEF AnsweredWorkersAreKept, Quiet, Names, Promised, Answered, Working
  <2>7. StopAllProgress'
    <3>1. SUFFICES ASSUME op = "stop_all", NEW x \in Pids, Promised(x)',
                          proc'[x].agent \notin todo
                   PROVE  step' = "retry" /\ proc'[x].agent = target
      BY <2>1 DEF StopAllProgress
    <3>2. Promised(x) /\ proc'[x].agent = proc[x].agent /\ proc[x].agent = target
      BY <2>1, <2>2, <3>1 DEF Quiet, Promised, Answered, Working, StopAllProgress
    <3>3. p = x
      BY <1>1, <3>2 DEF AnsweredWorkersAreKept, Names
    <3>4. ~StopAnswered
      <4>1. SUFFICES ASSUME StopAnswered PROVE proc'[x].stop
        BY <3>1 DEF Promised, Answered, Working
      <4>2. proc'[x] = [proc[x] EXCEPT !.ctl = "stopping", !.stop = TRUE]
        BY <3>1, <3>3, <4>1 DEF StopAnswered, ToldToStop, TypeOK
      <4>3. proc[x] \in Process
        BY <3>1 DEF TypeOK
      <4> QED BY <4>2, <4>3 DEF Process
    <3> QED BY <1>5, <3>2, <3>4 DEF StopSilent, GoTo
  <2>8. MemoryIsSaved' /\ ProbedIsKnown'
    BY <2>1, <2>2, QuietSaved DEF ProbedIsKnown
  <2> QED BY <2>3, <2>4, <2>5, <2>6, <2>7, <2>8
\* The stop ends: the record is dropped for a worker that is dead or has been
\* signalled, and otherwise keeps its pid.
<1>6. ASSUME StopAccepted(ok) \/ StopForced(ok)
      PROVE  Inductive'
  <2>1. Quiet /\ proc' \in [Pids -> Process]
    BY <1>4, <1>6, QuietUnchanged, QuietHelpers, TypeProc
    DEF StopAccepted, StopForced, TypeOK
  <2>2. ASSUME StopForced(ok), NEW x \in Pids, x = p PROVE ~Promised(x)'
    <3>1. SUFFICES ASSUME Promised(x)' PROVE FALSE
      OBVIOUS
    <3>a. proc[x] \in Process
      BY DEF TypeOK
    <3>2. PidAlive(x) /\ MayTerminate(x)
      <4>1. proc[x].kind = "worker"
        BY <2>1, <3>1 DEF Quiet, Promised, Answered, Working
      <4> QED BY <4>1 DEF PidAlive, MayTerminate, WorkersOK
    <3>3. proc' = Terminated(x)
      BY <2>2, <3>2 DEF StopForced
    <3>4. proc'[x] = [proc[x] EXCEPT !.signalled = TRUE]
      BY <3>2, <3>3 DEF Terminated, MayTerminate
    <3>5. proc'[x].signalled
      BY <3>a, <3>4 DEF Process
    <3> QED BY <3>1, <3>5 DEF Promised, Answered, Working
  <2>3. PICK q \in WorkerRecord \cup {None} :
           /\ EndStop(q, ok)
           /\ q # None => q.pid = p
           /\ q = None => StopForced(ok)
    <3>1. /\ [r EXCEPT !.state = "stopping", !.stopping = "fresh"] \in WorkerRecord
          /\ [r EXCEPT !.state = "error", !.stopping = "none"] \in WorkerRecord
      BY <1>4, <1>6, RecordTypes DEF WorkerState
    <3>2. /\ [r EXCEPT !.state = "stopping", !.stopping = "fresh"].pid = p
          /\ [r EXCEPT !.state = "error", !.stopping = "none"].pid = p
      BY <1>4, <1>6 DEF WorkerRecord
    <3> QED BY <1>6, <3>1, <3>2, NoRecord DEF StopAccepted, StopForced
  <2> DEFINE ws == [mem EXCEPT ![target] = q]
  <2>4. /\ ws \in Workers /\ ws[target] = q
        /\ \A b \in Agents : b # target => ws[b] = mem[b]
        /\ Save(ws, ok)
    BY <1>4, <1>6, <2>3 DEF EndStop, TypeOK, Workers
  <2>5. /\ mem' = ws /\ disk' \in {disk, ws} /\ disk' \in Workers
        /\ failures' \in 0..MaxFailures
    BY <2>4, TypeSave DEF Save
  <2>6. \/ /\ op = "stop_all" /\ step' = "none" /\ target' = None
           /\ UNCHANGED <<op, pending, probed, todo, newpid>>
        \/ Finish
    BY <2>3 DEF EndStop
  <2> HIDE DEF ws
  <2>7. TypeOK'
    BY <1>1, <2>1, <2>4, <2>5, <2>6, TypeFinish DEF TypeOK
  <2>8. WorkersOK'
    BY <2>1, QuietWorkers
  <2>9. RequestOK'
    BY <1>1, <1>4, <1>6, <2>4, <2>5, <2>6, SupervisorAssumption
    DEF RequestOK, Recorded, Finish, TypeOK
  <2>10. ASSUME NEW x \in Pids, Promised(x)'
         PROVE  /\ Promised(x) /\ Names(mem, x)
                /\ Names(disk, x) \/ proc'[x].saved = "no"
                /\ proc'[x].agent = proc[x].agent /\ proc[x].agent \in Agents
                /\ proc[x].agent = target => p = x
    BY <1>1, <2>1, <2>10
    DEF Quiet, Promised, Answered, Working, WorkersOK, AnsweredWorkersAreKept, Names
  <2>11. AnsweredWorkersAreKept'
    <3>1. ASSUME NEW x \in Pids, Promised(x)' PROVE Names(ws, x)
      <4>1. CASE proc[x].agent = target
        <5>1. p = x /\ ~StopForced(ok)
          BY <2>2, <2>10, <3>1, <4>1
        <5>2. q # None /\ q.pid = x
          BY <2>3, <5>1
        <5> QED BY <2>4, <4>1, <5>2 DEF Names
      <4>2. CASE proc[x].agent # target
        BY <2>4, <2>10, <3>1, <4>2 DEF Names
      <4> QED BY <4>1, <4>2
    <3> QED BY <1>1, <2>5, <2>10, <3>1 DEF AnsweredWorkersAreKept, Names
  <2>12. ProbesKeep'
    BY <1>4, <1>6, <2>6 DEF ProbesKeep, Finish
  <2>13. StopAllProgress'
    <3>1. SUFFICES ASSUME op = "stop_all", UNCHANGED todo,
                          NEW x \in Pids, Promised(x)'
                   PROVE  proc'[x].agent \in todo
      BY <2>6 DEF StopAllProgress, Finish
    <3>2. CASE StopForced(ok)
      <4>1. Promised(x) /\ proc'[x].agent = proc[x].agent
        BY <2>10, <3>1
      <4>2. proc[x].agent # target
        BY <2>2, <2>10, <3>1, <3>2
      <4> QED BY <3>1, <4>1, <4>2 DEF StopAllProgress
    <3>3. CASE StopAccepted(ok)
      BY <2>10, <3>1, <3>3 DEF StopAccepted, StopAllProgress
    <3> QED BY <1>6, <3>2, <3>3
  <2>14. ProbedIsKnown'
    BY <1>4, <1>6, <2>6 DEF ProbedIsKnown, Finish
\* The stop only removes a record or keeps its pid, in memory and on disk.
  <2>15. MemoryIsSaved'
    <3>1. SUFFICES ASSUME NEW x \in Pids, proc'[x].kind = "worker",
                          Names(mem, x)', ~Names(disk, x)'
                   PROVE  proc'[x].saved = "no"
      BY DEF MemoryIsSaved
    <3>2. /\ proc[x].kind = "worker" /\ proc'[x].agent = proc[x].agent
          /\ proc'[x].saved = proc[x].saved /\ proc[x].agent \in Agents
      BY <2>1, <3>1 DEF Quiet, WorkersOK
    <3>3. disk' = disk /\ Names(ws, x)
      BY <2>5, <3>1, <3>2 DEF Names
    <3>4. Names(mem, x)
      BY <1>4, <1>6, <2>3, <2>4, <3>2, <3>3 DEF Names
    <3> QED BY <1>1, <3>1, <3>2, <3>3, <3>4 DEF MemoryIsSaved, Names
  <2> QED BY <2>7, <2>8, <2>9, <2>11, <2>12, <2>13, <2>14, <2>15
<1> QED BY <1>2, <1>3, <1>5, <1>6

LEMMA CrashInductive ==
    ASSUME Inductive, Crash \/ Restart
    PROVE  Inductive'
<1> USE DEF Inductive
<1>1. CASE Crash
  <2>1. Finish /\ up' = FALSE /\ mem' = NoWorkers /\ UNCHANGED disk
    BY <1>1 DEF Crash
  <2> DEFINE v(p) == IF proc[p].saved = "no" /\ ~OnDisk(p)
                     THEN "lost" ELSE proc[p].saved
  <2>2. \A p \in Pids :
           proc'[p] = IF proc[p].kind = "zombie" THEN NoProcess("free")
                      ELSE [proc[p] EXCEPT !.child = FALSE, !.saved = v(p)]
    BY <1>1 DEF Crash, TypeOK, Process
  <2>3. \A p \in Pids : v(p) \in {"yes", "no", "lost"}
    BY DEF TypeOK, Process
  <2> HIDE DEF v
  <2>4. TypeOK'
    <3>1. proc' \in [Pids -> Process]
      <4>1. \A p \in Pids :
               [proc[p] EXCEPT !.child = FALSE, !.saved = v(p)] \in Process
        BY <2>3, ProcessTypes DEF TypeOK, WorkerState
      <4>2. NoProcess("free") \in Process
        BY ProcessTypes
      <4> DEFINE left(p) == IF proc[p].kind = "zombie" THEN NoProcess("free")
                            ELSE [proc[p] EXCEPT !.child = FALSE,
                                     !.saved = IF @ = "no" /\ ~OnDisk(p)
                                               THEN "lost" ELSE @]
      <4>3. proc' = [p \in Pids |-> left(p)]
        BY <1>1 DEF Crash
      <4> HIDE DEF left
      <4>4. \A p \in Pids : proc'[p] = left(p)
        BY <4>3
      <4>5. \A p \in Pids : proc'[p] \in Process
        BY <2>2, <4>1, <4>2
      <4>6. \A p \in Pids : left(p) \in Process
        BY <4>4, <4>5
      <4> QED BY <4>3, <4>6
    <3>2. crashes' \in 0..MaxCrashes /\ UNCHANGED failures
      <4>1. crashes < MaxCrashes /\ crashes' = crashes + 1 /\ UNCHANGED failures
        BY <1>1 DEF Crash
      <4>2. crashes \in 0..MaxCrashes
        BY DEF TypeOK
      <4> QED BY <4>1, <4>2, SupervisorAssumption
    <3> QED BY <2>1, <3>1, <3>2, TypeFinish, NoRecord DEF TypeOK
  <2>5. ASSUME NEW x \in Pids, proc'[x].kind = "worker"
        PROVE  /\ proc[x].kind = "worker"
               /\ proc'[x].agent = proc[x].agent
               /\ proc'[x].group = proc[x].group
               /\ proc'[x].saved = v(x)
               /\ Answered(x)' => Answered(x)
    <3>1. proc'[x] = [proc[x] EXCEPT !.child = FALSE, !.saved = v(x)]
      <4>1. NoProcess("free").kind = "free"
        BY DEF NoProcess
      <4>2. proc[x].kind # "zombie"
        BY <2>2, <2>5, <4>1
      <4> QED BY <2>2, <4>2
    <3>2. proc[x] \in Process
      BY DEF TypeOK
    <3> QED BY <2>5, <3>1, <3>2 DEF Answered, Working, Process
  <2>6. WorkersOK'
    BY <2>5 DEF WorkersOK
\* A worker that is not on disk had no save, and is lost now.
  <2>7. AnsweredWorkersAreKept'
    <3>1. SUFFICES ASSUME NEW x \in Pids, Promised(x)'
                   PROVE  Names(disk, x)'
      BY <2>1 DEF AnsweredWorkersAreKept
    <3>2. proc'[x].kind = "worker" /\ Answered(x)'
      BY <3>1 DEF Promised, Answered, Working
    <3>3. proc[x].kind = "worker" /\ Answered(x) /\ v(x) # "lost"
      BY <2>5, <3>1, <3>2 DEF Promised
    <3>4. Names(disk, x) \/ proc[x].saved = "no"
      <4>1. proc[x].saved # "lost"
        BY <3>3 DEF v
      <4> QED BY <3>3, <4>1 DEF Promised, AnsweredWorkersAreKept
    <3>5. Names(disk, x)
      BY <3>3, <3>4 DEF v, OnDisk, Names
    <3> QED BY <2>1, <2>5, <3>2, <3>5 DEF Names
  <2>8. RequestOK' /\ ProbesKeep' /\ StopAllProgress' /\ MemoryIsSaved'
        /\ ProbedIsKnown'
    BY <2>1 DEF RequestOK, ProbesKeep, StopAllProgress, MemoryIsSaved,
                ProbedIsKnown, Finish
  <2> QED BY <2>4, <2>6, <2>7, <2>8
<1>2. CASE Restart
  <2>1. /\ mem' = disk /\ op = "idle" /\ step = "none" /\ up' = TRUE
        /\ UNCHANGED <<disk, op, target, step, pending, probed, todo, newpid,
                      faults, proc>>
    BY <1>2 DEF Restart, RequestOK
  <2>2. TypeOK' /\ WorkersOK'
    BY <2>1 DEF TypeOK, WorkersOK, faults
  <2>3. AnsweredWorkersAreKept'
    <3>1. SUFFICES ASSUME NEW x \in Pids, Promised(x)'
                   PROVE  Names(disk, x)
      BY <2>1 DEF AnsweredWorkersAreKept, Names
    <3> QED
      BY <1>2, <2>1, <3>1
      DEF Restart, AnsweredWorkersAreKept, Promised, Answered, Working
  <2>4. RequestOK' /\ ProbesKeep' /\ StopAllProgress' /\ MemoryIsSaved'
        /\ ProbedIsKnown'
    BY <2>1 DEF RequestOK, ProbesKeep, StopAllProgress, MemoryIsSaved,
                ProbedIsKnown, Names
  <2> QED BY <2>2, <2>3, <2>4
<1> QED BY <1>1, <1>2

-----------------------------------------------------------------------------
(* Theorems.                                                               *)

LEMMA InductiveInvariant == Spec => []Inductive
<1>1. Init => Inductive
  <2>1. Init => RequestOK /\ ProbesKeep /\ StopAllProgress /\ ProbedIsKnown
    BY DEF Init, RequestOK, ProbesKeep, StopAllProgress, ProbedIsKnown
  <2>2. Init => WorkersOK /\ AnsweredWorkersAreKept /\ MemoryIsSaved
    BY DEF Init, WorkersOK, AnsweredWorkersAreKept, MemoryIsSaved, Promised, Answered, Working, NoProcess
  <2> QED BY <2>1, <2>2, TypeInit DEF Inductive
<1>2. ASSUME Inductive, [Next]_vars PROVE Inductive'
  <2>1. CASE UNCHANGED vars
    <3>1. UNCHANGED <<up, mem, disk, op, target, step, pending, probed, todo,
                      newpid, crashes, failures, proc>>
      BY <2>1 DEF vars, server, faults
    <3>2. TypeOK' /\ WorkersOK'
      BY <1>2, <3>1 DEF Inductive, TypeOK, WorkersOK
    <3>3. RequestOK'
      BY <1>2, <3>1 DEF Inductive, RequestOK, Recorded
    <3>4. \A p \in Pids : Promised(p)' <=> Promised(p)
      BY <3>1 DEF Promised, Answered, Working
    <3>5. AnsweredWorkersAreKept' /\ ProbesKeep'
      BY <1>2, <3>1, <3>4 DEF Inductive, AnsweredWorkersAreKept, ProbesKeep, Names
    <3>6. StopAllProgress'
      BY <1>2, <3>1, <3>4 DEF Inductive, StopAllProgress
    <3>7. MemoryIsSaved' /\ ProbedIsKnown'
      BY <1>2, <3>1 DEF Inductive, MemoryIsSaved, ProbedIsKnown, Names
    <3> QED BY <3>2, <3>3, <3>5, <3>6, <3>7 DEF Inductive
  <2>2. CASE SupervisorStep
    <3>1. ASSUME NEW a \in Agents, ProbeAnswered(a) \/ ProbeSilent(a)
          PROVE  Inductive'
      BY <1>2, <3>1, ProbeInductive
    <3>2. ASSUME NEW ok \in BOOLEAN, EndRefresh(ok) PROVE Inductive'
      BY <1>2, <3>2, EndRefreshInductive
    <3>3. ASSUME NEW ok \in BOOLEAN, Spawn \/ StartRefused \/ RecordWorker(ok)
          PROVE  Inductive'
      BY <1>2, <3>3, StartInductive
    <3>4. ASSUME NEW ok \in BOOLEAN,
                 \/ \E a \in Agents : StopAllNext(a)
                 \/ StopAllDone
                 \/ StopAnswered
                 \/ StopSilent
                 \/ StopAccepted(ok)
                 \/ StopForced(ok)
          PROVE  Inductive'
      BY <1>2, <3>4, StopInductive
    <3> QED BY <2>2, <3>1, <3>2, <3>3, <3>4 DEF SupervisorStep
  <2> QED
    BY <1>2, <2>1, <2>2, RequestInductive, CrashInductive, EnvironmentInductive
    DEF Next
<1> QED BY <1>1, <1>2, PTL DEF Spec

\* Every record, request and process keeps its type, whatever crashes, fails
\* or answers late.
THEOREM TypeCorrect == Spec => []TypeOK
<1>1. Inductive => TypeOK
  BY DEF Inductive
<1> QED BY <1>1, InductiveInvariant, PTL

\* A worker that a START was answered with, the one that spawned it or one
\* that found it, stays on record in memory and in the state file until it has
\* been told to stop or is dead, after every crash and failed save, with one
\* exception: a worker whose own save failed is in memory alone, and a crash
\* loses it (_reconcile_worker, _start_worker, _stop_worker,
\* _load_or_create_state).
THEOREM Kept == Spec => []AnsweredWorkersAreKept
<1>1. Inductive => AnsweredWorkersAreKept
  BY DEF Inductive
<1> QED BY <1>1, InductiveInvariant, PTL

\* A STOP_ALL that is answered has told every worker that had to be told
\* (_stop_all_workers), which sign-out relies on.
THEOREM ToldAll == Spec => StopAllTellsEveryWorker
<1>1. Inductive /\ StopAllDone => \A p \in Pids : ~Promised(p)
  BY DEF Inductive, StopAllProgress, StopAllDone
<1>2. Inductive /\ [Next]_vars
      => [StopAllDone => \A p \in Pids : ~Promised(p)]_vars
  BY <1>1
<1> QED BY <1>2, InductiveInvariant, PTL DEF Spec, StopAllTellsEveryWorker
=============================================================================
