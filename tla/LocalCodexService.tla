------------------------- MODULE LocalCodexService --------------------------
(***************************************************************************)
(* The service that owns the Local Codex worker process                    *)
(* (src/hcs_ai/local_codex/service.py): the facade the GUI calls, the      *)
(* writer and reader threads of each process, and the supervisor thread    *)
(* that launches, restarts and terminates it.  Every `with self._lock'     *)
(* section is one action; what runs between two sections is not atomic.    *)
(*                                                                         *)
(* A process is named by its launch, 1..MaxLaunches.  Inside it runs a     *)
(* worker that behaves as WorkerContract says, or hangs, or crashes.       *)
(* Time is abstract: an armed deadline or restart delay runs out in a step *)
(* of its own.  Event publication is the module EventBuffer.               *)
(***************************************************************************)
EXTENDS Naturals, Sequences

CONSTANTS
    MaxLaunches,        \* bound: processes ever created
    MaxCommands,        \* bound: commands the user issues
    RestartLimit,       \* restart_limit
    QueueCapacity,      \* queue.Queue(maxsize=100)
    PipeCapacity,       \* lines the stdin pipe holds while the worker does not read
    KillMayFail         \* whether the terminator may leave the process alive

ASSUME ServiceAssumption ==
    /\ MaxLaunches \in Nat /\ MaxCommands \in Nat
    /\ RestartLimit \in Nat /\ QueueCapacity \in Nat \ {0} /\ PipeCapacity \in Nat \ {0}
    /\ KillMayFail \in BOOLEAN

VARIABLES
    wantStart, closing, proc, deadline, expectedExit, pipeBroken, workerState,
    survived,       \* history: processes that outlived a terminator; no action reads it
    restartCount, restartAt, pending, active, queue, writing,
    ui,             \* GUI thread: "idle", or between the two locked sections of a call
    issued,         \* commands issued; a command's id is its rank
    lastTask,       \* the latest task command the service accepted
    stopAsked,      \* task commands the user asked to stop
    sup,            \* supervisor thread: where it is in its loop
    snap,           \* what the supervisor read in its first locked section
    launches,       \* processes created so far
    os,             \* per process: "none", "alive", or how it ended
    phase, running, \* per process: the worker's contract phase and its task command
    leaving,        \* per process: the worker was told to shut down
    stdin, eof,     \* per process: the command pipe
    stdout          \* per process: the event pipe

flagVars    == <<wantStart, closing, restartCount, restartAt>>
procVars    == <<proc, expectedExit, pipeBroken, survived>>
taskVars    == <<pending, active>>
channelVars == <<queue, writing>>
uiVars      == <<ui, issued, lastTask, stopAsked>>
supVars     == <<sup, snap>>
workerVars  == <<phase, running, leaving, stdin, stdout>>
vars == <<flagVars, procVars, deadline, workerState, taskVars, channelVars, uiVars,
          supVars, launches, os, workerVars, eof>>

-----------------------------------------------------------------------------
Launches == 1..MaxLaunches
Commands == [kind : {"task", "stop", "shutdown"}, id : 0..MaxCommands]
Events   == [type : {"started", "ended", "error", "stopping", "heartbeat"}, cmd : 0..MaxCommands]
Event(type, cmd) == [type |-> type, cmd |-> cmd]

Alive(p) == p \in Launches /\ os[p] = "alive"
NoLook == [due |-> FALSE, set |-> FALSE, closing |-> FALSE]

\* a process is gone, and with it everything but the events left in its pipe
Exits(p, how) ==
    /\ os' = [os EXCEPT ![p] = how]
    /\ phase' = [phase EXCEPT ![p] = "idle"]
    /\ running' = [running EXCEPT ![p] = 0]
    /\ leaving' = [leaving EXCEPT ![p] = FALSE]
    /\ stdin' = [stdin EXCEPT ![p] = <<>>]
    /\ UNCHANGED stdout

Init ==
    /\ wantStart = FALSE /\ closing = FALSE /\ restartCount = 0 /\ restartAt = "none"
    /\ proc = 0 /\ expectedExit = FALSE /\ pipeBroken = FALSE /\ survived = {}
    /\ deadline = "none" /\ workerState = "stopped"
    /\ pending = 0 /\ active = FALSE
    /\ queue = <<>> /\ writing = FALSE
    /\ ui = "idle" /\ issued = 0 /\ lastTask = 0 /\ stopAsked = {}
    /\ sup = "off" /\ snap = NoLook
    /\ launches = 0
    /\ os = [p \in Launches |-> "none"]
    /\ phase = [p \in Launches |-> "idle"]
    /\ running = [p \in Launches |-> 0]
    /\ leaving = [p \in Launches |-> FALSE]
    /\ stdin = [p \in Launches |-> <<>>] /\ eof = [p \in Launches |-> FALSE]
    /\ stdout = [p \in Launches |-> <<>>]

-----------------------------------------------------------------------------
(* The facade, called from the GUI thread *)

\* the locked section of start()
StartSection ==
    IF proc # 0 \/ wantStart
    THEN UNCHANGED <<wantStart, workerState, sup>>
    ELSE /\ wantStart' = TRUE
         /\ workerState' = "starting"
         /\ sup' = IF sup = "off" THEN "loop" ELSE sup

Start ==
    /\ ui = "idle" /\ ~closing
    /\ StartSection
    /\ UNCHANGED <<closing, restartCount, restartAt, procVars, deadline, taskVars, channelVars,
                   uiVars, snap, launches, os, workerVars, eof>>

\* restart_worker(): its own locked section, then start()
RestartWorker ==
    /\ ui = "idle" /\ ~closing /\ proc = 0 /\ sup # "off"
    /\ restartCount' = 0 /\ restartAt' = "none"
    /\ ui' = "starting"
    /\ UNCHANGED <<wantStart, closing, procVars, deadline, workerState, taskVars, channelVars,
                   issued, lastTask, stopAsked, supVars, launches, os, workerVars, eof>>

RestartStarts ==
    /\ ui = "starting" /\ ui' = "idle"
    /\ IF closing THEN UNCHANGED <<wantStart, workerState, sup>> ELSE StartSection
    /\ UNCHANGED <<closing, restartCount, restartAt, procVars, deadline, taskVars, channelVars,
                   issued, lastTask, stopAsked, snap, launches, os, workerVars, eof>>

QueueFull == Len(queue) >= QueueCapacity

Busy == active

\* queue.Full in _command: a task command gives the claim on the worker back
ActiveAfterFull == FALSE

\* submit_task and resume_task through _command
Submit ==
    /\ ui = "idle" /\ issued < MaxCommands
    /\ ~closing /\ proc # 0 /\ ~pipeBroken /\ ~Busy
    /\ issued' = issued + 1
    /\ IF QueueFull
       THEN /\ active' = ActiveAfterFull /\ pending' = 0
            /\ UNCHANGED <<queue, lastTask>>
       ELSE /\ active' = TRUE /\ pending' = issued + 1
            /\ queue' = Append(queue, [kind |-> "task", id |-> issued + 1])
            /\ lastTask' = issued + 1
    /\ UNCHANGED <<flagVars, procVars, deadline, workerState, writing, ui, stopAsked,
                   supVars, launches, os, workerVars, eof>>

\* stop_task(), first section: the command is queued
StopTask ==
    /\ ui = "idle" /\ issued < MaxCommands
    /\ ~closing /\ proc # 0 /\ ~QueueFull
    /\ issued' = issued + 1
    /\ queue' = Append(queue, [kind |-> "stop", id |-> issued + 1])
    /\ stopAsked' = IF active THEN stopAsked \cup {lastTask} ELSE stopAsked
    /\ ui' = "stopping"
    /\ UNCHANGED <<flagVars, procVars, deadline, workerState, taskVars, writing, lastTask,
                   supVars, launches, os, workerVars, eof>>

StopArms_UnlessTask == pipeBroken \/ workerState = "unresponsive"
StopArms == active \/ pipeBroken \/ workerState = "unresponsive"

\* stop_task(), second section: the forced stop is scheduled
StopArmsDeadline ==
    /\ ui = "stopping" /\ ui' = "idle"
    /\ deadline' = IF StopArms THEN "armed" ELSE deadline
    /\ UNCHANGED <<flagVars, procVars, workerState, taskVars, channelVars, issued, lastTask,
                   stopAsked, supVars, launches, os, workerVars, eof>>

\* _command("stop_task") and _command("shutdown"), each dropped when the queue is full
WithShutdown(q) ==
    LET one == IF Len(q) < QueueCapacity THEN Append(q, [kind |-> "stop", id |-> 0]) ELSE q
    IN  IF Len(one) < QueueCapacity THEN Append(one, [kind |-> "shutdown", id |-> 0]) ELSE one

StateAtShutdown == IF proc # 0 THEN "stopping" ELSE workerState

\* shutdown(), from the desktop host
Shutdown ==
    /\ ~closing
    /\ closing' = TRUE /\ wantStart' = FALSE /\ restartAt' = "none"
    /\ workerState' = StateAtShutdown
    /\ IF proc # 0
       THEN queue' = WithShutdown(queue) /\ deadline' = "armed"
       ELSE UNCHANGED <<queue, deadline>>
    /\ UNCHANGED <<restartCount, procVars, taskVars, writing, uiVars, supVars, launches, os,
                   workerVars, eof>>

-----------------------------------------------------------------------------
(* The writer and reader threads of the current process *)

\* _write_command_loop: a line goes into the pipe once there is room
WriteCommand ==
    /\ writing /\ proc # 0 /\ queue # <<>>
    /\ os[proc] = "alive" /\ Len(stdin[proc]) < PipeCapacity
    /\ stdin' = [stdin EXCEPT ![proc] = Append(@, Head(queue))]
    /\ queue' = Tail(queue)
    /\ UNCHANGED <<flagVars, procVars, deadline, workerState, taskVars, writing, uiVars,
                   supVars, launches, os, phase, running, leaving, stdout, eof>>

\* the write raises: the thread ends and closes stdin
WriteFails ==
    /\ writing /\ proc # 0 /\ queue # <<>>
    /\ writing' = FALSE /\ queue' = Tail(queue)
    /\ pipeBroken' = TRUE /\ workerState' = "unresponsive"
    /\ IF pending # 0 /\ pending = Head(queue).id
       THEN pending' = 0 /\ active' = FALSE
       ELSE UNCHANGED taskVars
    /\ eof' = [eof EXCEPT ![proc] = TRUE]
    /\ UNCHANGED <<flagVars, proc, expectedExit, survived, deadline, uiVars, supVars, launches,
                   os, workerVars>>

\* _update_event looks only at events of the current process
Heeds(p) == proc = p

\* an event that ends the task the service believes in
Releases(e) == e.type = "ended" \/ (e.type = "error" /\ pending # 0 /\ e.cmd = pending)

\* _read_stdout and _update_event, for the current process or one that is gone
ReadEvent(p) ==
    /\ stdout[p] # <<>>
    /\ stdout' = [stdout EXCEPT ![p] = Tail(@)]
    /\ LET e == Head(stdout[p])
       IN  IF ~Heeds(p)
           THEN UNCHANGED <<workerState, taskVars, deadline>>
           ELSE /\ workerState' = IF e.type = "heartbeat" /\ ~closing /\ ~pipeBroken
                                  THEN "running" ELSE workerState
                /\ active' = IF e.type = "started" THEN TRUE
                             ELSE IF Releases(e) THEN FALSE ELSE active
                /\ pending' = IF e.type = "started" \/ Releases(e) THEN 0 ELSE pending
                /\ deadline' = IF Releases(e) /\ ~closing THEN "none" ELSE deadline
    /\ UNCHANGED <<flagVars, procVars, channelVars, uiVars, supVars, launches, os, phase,
                   running, leaving, stdin, eof>>

-----------------------------------------------------------------------------
(* The supervisor thread *)

\* the first locked section of an iteration
MayLaunch_IgnoresProcess(launch) == launch /\ ~closing
MayLaunch(launch) == launch /\ ~closing /\ proc = 0

SupervisorLooks ==
    /\ sup = "loop"
    /\ LET launch == wantStart \/ restartAt = "due"
       IN  /\ wantStart' = FALSE
           /\ restartAt' = IF launch THEN "none" ELSE restartAt
           /\ IF MayLaunch(launch) THEN sup' = "launching" /\ UNCHANGED <<snap, workerState>>
              ELSE IF proc # 0
              THEN /\ sup' = "poll"
                   /\ snap' = [due |-> deadline = "expired", set |-> deadline # "none",
                               closing |-> closing]
                   /\ UNCHANGED workerState
              ELSE IF closing
              THEN sup' = "done" /\ workerState' = "stopped" /\ UNCHANGED snap
              ELSE UNCHANGED <<sup, snap, workerState>>
    /\ UNCHANGED <<closing, restartCount, procVars, deadline, taskVars, channelVars, uiVars,
                   launches, os, workerVars, eof>>

\* _launch: the process factory, outside the lock
SpawnFails ==
    /\ sup = "launching"
    /\ sup' = "loop" /\ workerState' = "failed"
    /\ UNCHANGED <<flagVars, procVars, deadline, taskVars, channelVars, uiVars, snap, launches,
                   os, workerVars, eof>>

Spawn ==
    /\ sup = "launching" /\ launches < MaxLaunches
    /\ launches' = launches + 1
    /\ os' = [os EXCEPT ![launches + 1] = "alive"]
    /\ sup' = "spawned"
    /\ UNCHANGED <<flagVars, procVars, deadline, workerState, taskVars, channelVars, uiVars,
                   snap, workerVars, eof>>

\* _launch: the locked section that publishes the process; creation may have
\* overlapped shutdown(), which then found no process to stop
ExpectedAtLaunch_Kept == expectedExit
ExpectedAtLaunch == FALSE
LateGrace_Missing == deadline
LateGrace == "armed"
PublishProcess ==
    /\ sup = "spawned" /\ sup' = "loop"
    /\ proc' = launches
    /\ expectedExit' = ExpectedAtLaunch /\ pipeBroken' = FALSE
    /\ writing' = TRUE
    /\ IF closing
       THEN /\ queue' = WithShutdown(<<>>)
            /\ workerState' = "stopping" /\ deadline' = LateGrace
       ELSE /\ queue' = <<>>
            /\ workerState' = "running" /\ UNCHANGED deadline
    /\ UNCHANGED <<flagVars, survived, taskVars, uiVars, snap, launches, os, workerVars, eof>>

\* process.poll(): an exit stays visible, a running process may exit right after
Poll ==
    /\ sup = "poll"
    /\ sup' = IF ~Alive(proc) THEN "reap" ELSE IF snap.due THEN "expect" ELSE "beat"
    /\ UNCHANGED <<flagVars, procVars, deadline, workerState, taskVars, channelVars, uiVars,
                   snap, launches, os, workerVars, eof>>

ExitExpected == snap.closing \/ snap.set \/ expectedExit

\* the locked section after an exit: report it, and schedule a bounded restart
MayRestart == restartCount < RestartLimit
ActiveAfterExit_Kept == active
ActiveAfterExit == FALSE
Reap ==
    /\ sup = "reap" /\ sup' = "loop"
    /\ proc' = 0
    /\ workerState' = IF ExitExpected THEN "stopped" ELSE "crashed"
    /\ active' = ActiveAfterExit /\ pending' = 0 /\ deadline' = "none"
    /\ IF ~ExitExpected /\ MayRestart
       THEN restartCount' = restartCount + 1 /\ restartAt' = "waiting"
       ELSE UNCHANGED <<restartCount, restartAt>>
    /\ queue' = <<>> /\ writing' = FALSE /\ snap' = NoLook
    /\ UNCHANGED <<wantStart, closing, expectedExit, pipeBroken, survived, uiVars, launches, os,
                   workerVars, eof>>

\* the forced stop: mark, terminate outside the lock, forget the deadline
ExpectExit ==
    /\ sup = "expect" /\ sup' = "kill"
    /\ expectedExit' = TRUE
    /\ UNCHANGED <<flagVars, proc, pipeBroken, survived, deadline, workerState, taskVars,
                   channelVars, uiVars, snap, launches, os, workerVars, eof>>

Kill ==
    /\ sup = "kill" /\ sup' = "clear"
    /\ \/ Alive(proc) /\ Exits(proc, "killed") /\ UNCHANGED survived
       \/ Alive(proc) /\ KillMayFail /\ survived' = survived \cup {proc}
          /\ UNCHANGED <<os, workerVars>>
       \/ ~Alive(proc) /\ UNCHANGED <<survived, os, workerVars>>
    /\ UNCHANGED <<flagVars, proc, expectedExit, pipeBroken, deadline, workerState, taskVars,
                   channelVars, uiVars, snap, launches, eof>>

ClearDeadline ==
    /\ sup = "clear" /\ sup' = "loop"
    /\ deadline' = "none" /\ snap' = NoLook
    /\ UNCHANGED <<flagVars, procVars, workerState, taskVars, channelVars, uiVars,
                   launches, os, workerVars, eof>>

\* the heartbeat check reports and never kills
CheckHeartbeat ==
    /\ sup = "beat" /\ sup' = "loop" /\ snap' = NoLook
    /\ \/ UNCHANGED workerState
       \/ workerState = "running" /\ workerState' = "unresponsive"
    /\ UNCHANGED <<flagVars, procVars, deadline, taskVars, channelVars, uiVars, launches,
                   os, workerVars, eof>>

-----------------------------------------------------------------------------
(* Time, and the worker inside each process *)

DeadlineExpires ==
    /\ deadline = "armed" /\ deadline' = "expired"
    /\ UNCHANGED <<flagVars, procVars, workerState, taskVars, channelVars, uiVars, supVars,
                   launches, os, workerVars, eof>>

RestartDelayExpires ==
    /\ restartAt = "waiting" /\ restartAt' = "due"
    /\ UNCHANGED <<wantStart, closing, restartCount, procVars, deadline, workerState, taskVars,
                   channelVars, uiVars, supVars, launches, os, workerVars, eof>>

Says(p, e) == stdout' = [stdout EXCEPT ![p] = Append(@, e)]

serviceVars == <<flagVars, procVars, deadline, workerState, taskVars, channelVars, uiVars,
                 supVars, launches, eof>>

WorkerReads(p) ==
    /\ Alive(p) /\ stdin[p] # <<>> /\ ~leaving[p]
    /\ stdin' = [stdin EXCEPT ![p] = Tail(@)]
    /\ LET c == Head(stdin[p])
       IN  \/ /\ c.kind = "task" /\ phase[p] = "idle"
              /\ phase' = [phase EXCEPT ![p] = "running"]
              /\ running' = [running EXCEPT ![p] = c.id]
              /\ Says(p, Event("started", c.id))
              /\ UNCHANGED leaving
           \/ /\ c.kind = "task" \/ (c.kind = "stop" /\ phase[p] = "idle")
              /\ Says(p, Event("error", c.id))
              /\ UNCHANGED <<phase, running, leaving>>
           \/ /\ c.kind = "stop" /\ phase[p] # "idle"
              /\ phase' = [phase EXCEPT ![p] = "cancelled"]
              /\ Says(p, Event("stopping", c.id))
              /\ UNCHANGED <<running, leaving>>
           \/ /\ c.kind = "shutdown"
              /\ leaving' = [leaving EXCEPT ![p] = TRUE]
              /\ phase' = [phase EXCEPT ![p] = IF @ = "idle" THEN @ ELSE "cancelled"]
              /\ UNCHANGED <<running, stdout>>
    /\ UNCHANGED <<serviceVars, os>>

WorkerSeesEof(p) ==
    /\ Alive(p) /\ eof[p] /\ stdin[p] = <<>> /\ ~leaving[p]
    /\ leaving' = [leaving EXCEPT ![p] = TRUE]
    /\ phase' = [phase EXCEPT ![p] = IF @ = "idle" THEN @ ELSE "cancelled"]
    /\ UNCHANGED <<serviceVars, os, running, stdin, stdout>>

\* the terminal event of the task, written before the worker accepts another one
WorkerEndsTask(p) ==
    /\ Alive(p) /\ phase[p] # "idle"
    /\ phase' = [phase EXCEPT ![p] = "idle"]
    /\ running' = [running EXCEPT ![p] = 0]
    /\ Says(p, Event("ended", running[p]))
    /\ UNCHANGED <<serviceVars, os, leaving, stdin>>

WorkerBeats(p) ==
    /\ Alive(p) /\ stdout[p] = <<>>
    /\ Says(p, Event("heartbeat", 0))
    /\ UNCHANGED <<serviceVars, os, phase, running, leaving, stdin>>

WorkerExits(p) ==
    /\ Alive(p) /\ leaving[p] /\ phase[p] = "idle"
    /\ Exits(p, "left")
    /\ UNCHANGED serviceVars

\* a crash while the supervisor is about to terminate counts as that termination
WorkerCrashes(p) ==
    /\ Alive(p)
    /\ Exits(p, IF sup \in {"expect", "kill", "clear"} THEN "killed" ELSE "crashed")
    /\ UNCHANGED serviceVars

-----------------------------------------------------------------------------
User == Start \/ RestartWorker \/ Submit \/ StopTask
UserCallEnds == RestartStarts \/ StopArmsDeadline
PipeThreads == WriteCommand \/ WriteFails \/ \E p \in Launches : ReadEvent(p)
Supervisor == SupervisorLooks \/ SpawnFails \/ Spawn \/ PublishProcess \/ Poll \/ Reap
              \/ ExpectExit \/ Kill \/ ClearDeadline \/ CheckHeartbeat
Time == DeadlineExpires \/ RestartDelayExpires
Worker == \E p \in Launches :
              \/ WorkerReads(p) \/ WorkerSeesEof(p) \/ WorkerEndsTask(p) \/ WorkerBeats(p)
              \/ WorkerExits(p) \/ WorkerCrashes(p)

Next == User \/ UserCallEnds \/ Shutdown \/ PipeThreads \/ Supervisor \/ Time \/ Worker

Spec == Init /\ [][Next]_vars

\* The supervisor polls for ever, a call that returned from its first section goes on to
\* its second, and time passes.  Nothing is asked of the worker, which may hang, nor of
\* the pipes, nor of the user.
FairSpec == Spec /\ WF_vars(Supervisor) /\ WF_vars(UserCallEnds) /\ WF_vars(DeadlineExpires)

-----------------------------------------------------------------------------
(* Correctness *)

\* Every variable keeps its type.
TypeOK ==
    /\ {wantStart, closing, expectedExit, pipeBroken, active, writing} \subseteq BOOLEAN
    /\ restartCount \in 0..RestartLimit /\ restartAt \in {"none", "waiting", "due"}
    /\ proc \in 0..MaxLaunches /\ launches \in 0..MaxLaunches /\ survived \subseteq Launches
    /\ deadline \in {"none", "armed", "expired"}
    /\ workerState \in {"stopped", "starting", "running", "stopping", "unresponsive",
                        "crashed", "failed"}
    /\ pending \in 0..MaxCommands /\ issued \in 0..MaxCommands /\ lastTask \in 0..MaxCommands
    /\ stopAsked \subseteq 0..MaxCommands
    /\ queue \in Seq(Commands) /\ Len(queue) <= QueueCapacity
    /\ ui \in {"idle", "starting", "stopping"}
    /\ sup \in {"off", "loop", "launching", "spawned", "poll", "reap", "expect", "kill",
                "clear", "beat", "done"}
    /\ snap \in [due : BOOLEAN, set : BOOLEAN, closing : BOOLEAN]
    /\ os \in [Launches -> {"none", "alive", "left", "crashed", "killed"}]
    /\ phase \in [Launches -> {"idle", "running", "cancelled"}]
    /\ running \in [Launches -> 0..MaxCommands]
    /\ leaving \in [Launches -> BOOLEAN] /\ eof \in [Launches -> BOOLEAN]
    /\ stdin \in [Launches -> Seq(Commands)]
    /\ \A p \in Launches : Len(stdin[p]) <= PipeCapacity
    /\ stdout \in [Launches -> Seq(Events)]

\* Two workers never run at once, although start, restart, a scheduled restart and a slow
\* process creation overlap: they would share one data root and one event stream.
AtMostOneWorker == \A p, q \in Launches : Alive(p) /\ Alive(q) => p = q

\* A task command the service accepted never meets a worker that is busy with another task:
\* `busy' is answered at the facade, and nothing is queued silently behind a task.
AcceptedTaskFindsIdleWorker ==
    \A p \in Launches :
        Alive(p) /\ stdin[p] # <<>> /\ Head(stdin[p]).kind = "task" => phase[p] = "idle"

InTransit(kind, commands) == \E i \in 1..Len(commands) : commands[i].kind = kind

\* The service is busy only while something will release it: its command is on the way, the
\* worker has its task, the answer is on the way back, or the process is gone or going.
BusyIsJustified ==
    active => /\ proc # 0
              /\ \/ pipeBroken \/ ~Alive(proc) \/ leaving[proc]
                 \/ InTransit("task", queue) \/ InTransit("task", stdin[proc])
                 \/ phase[proc] # "idle"
                 \/ \E i \in 1..Len(stdout[proc]) : stdout[proc][i].type \in {"ended", "error"}

\* "Hosts await worker_state == 'stopped' and pid is None before exiting": in a shutdown that
\* combination says that no process is left and none is being created, also when the request
\* overlapped a launch, a scheduled restart or a crash.
HostMayExit ==
    closing /\ workerState = "stopped" /\ proc = 0
        => /\ \A p \in Launches : ~Alive(p)
           /\ sup \notin {"launching", "spawned"}

\* "Unexpected worker exit creates a worker_crashed event": a crash seen while no stop is
\* pending and no shutdown was requested, and that interrupts a task the user never asked to
\* stop, is reported as a crash (and so restarted while restarts are left), in every process
\* but one a terminator failed to end: the mark of an expected exit stays on that process and
\* on no later one.
Unexplained == /\ os[proc] = "crashed" /\ ~snap.closing /\ ~snap.set
               /\ active /\ lastTask \notin stopAsked
CrashIsReported ==
    [][sup = "reap" /\ sup' = "loop" /\ Unexplained /\ proc \notin survived
          => workerState' = "crashed"]_vars

\* The same of every process.  No run checks it: after a terminator that raised
\* (worker_termination_failed) the task may end by itself, and the crash that interrupts the
\* next one is then reported as an expected stop.
CrashAlwaysReported ==
    [][sup = "reap" /\ sup' = "loop" /\ Unexplained => workerState' = "crashed"]_vars

\* "HCS reports the condition but does not kill a task until the user presses Stop or
\* exits/restarts HCS": the task a forced stop kills is one the user asked to stop.
OnlyStoppedTasksAreKilled ==
    [][\A p \in Launches :
          sup = "kill" /\ Alive(p) /\ os'[p] = "killed" /\ running[p] # 0
              => running[p] \in stopAsked \/ closing]_vars

\* A stopped task ends even if the worker hangs.
StopEndsTask == (active /\ lastTask \in stopAsked) ~> ~active

\* Shutdown ends with the supervisor gone and no process left, even if the worker hangs
\* and even if the request overlapped a process creation.
ShutdownStops == (closing /\ sup # "off") ~> (sup = "done" /\ proc = 0)
=============================================================================
