-------------------------- MODULE LocalCodexWorker --------------------------
(***************************************************************************)
(* The worker process of Local Codex (src/hcs_ai/local_codex/worker.py     *)
(* with the tail of runtime.py): one reader thread that handles commands   *)
(* from standard input, one task thread per accepted task, and a heartbeat *)
(* thread.  `_lock' is held over a whole command handler and over each     *)
(* locked section of the task thread, so each of those is one action; the  *)
(* task thread runs unlocked between them.  The agent controller is        *)
(* abstracted to the status it returns.                                    *)
(***************************************************************************)
EXTENDS Naturals, Sequences

CONSTANTS
    MaxCommands     \* bound: commands the owner writes to the worker

ASSUME MaxCommandsAssumption == MaxCommands \in Nat

VARIABLES
    inbox,              \* stdin: commands written and not yet read
    sent,               \* commands written so far; a command's id is its rank
    eof,                \* the owner closed stdin
    reader,             \* reader thread: "reading", "draining" or "exited"
    state,              \* self.state
    active,             \* self._active
    task,               \* self.task_id; 0 is None
    created,            \* journals created so far; a task is its journal
    journal,            \* status saved on disk for each created task
    cancel,             \* self.cancel_event.is_set()
    request,            \* self._request_id; 0 is None
    requests,           \* review requests issued so far
    answer,             \* self._approval_answer
    shutdownRequested,  \* self._shutdown_requested
    stopped,            \* self._stopped.is_set()
    thread,             \* where the task thread is
    result,             \* what the task thread carries to its next step
    out                 \* stdout: every event emitted, in order

ownerVars   == <<sent, eof>>
taskVars    == <<task, created, journal>>
reviewVars  == <<request, requests, answer>>
threadVars  == <<thread, result>>
vars == <<inbox, ownerVars, reader, state, active, taskVars, cancel,
          reviewVars, shutdownRequested, stopped, threadVars, out>>

-----------------------------------------------------------------------------
(* Values *)

Ids   == 1..MaxCommands
States == {"idle", "working", "awaiting_approval", "stopping",
           "completed", "blocked", "failed"}

\* _TRANSITIONS
Transitions ==
    [s \in States |->
        CASE s = "working" ->
                 {"awaiting_approval", "stopping", "completed", "blocked", "failed"}
          [] s = "awaiting_approval" -> {"working", "stopping", "blocked", "failed"}
          [] s = "stopping"          -> {"blocked", "failed"}
          [] OTHER                   -> {"working"}]

\* AgentStatus, the members a journal of this worker can hold
JournalStatuses == {"working", "ready_for_approval", "done", "blocked", "interrupted", "failed"}

\* the statuses _resumable_journal accepts
Resumable == {"working", "ready_for_approval", "blocked", "interrupted"}

Commands == [type : {"submit_task", "resume_task", "stop_task", "shutdown", "status"},
             id : Ids, req : {0}, approved : {FALSE}]
            \cup [type : {"approve"}, id : Ids, req : Ids, approved : BOOLEAN]

EventTypes == {"task_started", "task_resumed", "approval_required", "approval_resolved",
               "task_stopping", "task_completed", "task_blocked", "task_failed",
               "command_error", "status_snapshot", "worker_stopping", "worker_stopped"}

\* cmd is the command id the event answers (0: none); task and req as in _snapshot,
\* ok is the `approved' of approval_resolved.
Events == [type : EventTypes, cmd : Nat, task : Nat, req : Nat, ok : BOOLEAN]

Event(type, cmd, t, req) == [type |-> type, cmd |-> cmd, task |-> t, req |-> req, ok |-> FALSE]

Init ==
    /\ inbox = <<>> /\ sent = 0 /\ eof = FALSE
    /\ reader = "reading"
    /\ state = "idle" /\ active = FALSE
    /\ task = 0 /\ created = 0 /\ journal = [t \in Ids |-> "absent"]
    /\ cancel = FALSE
    /\ request = 0 /\ requests = 0 /\ answer = "none"
    /\ shutdownRequested = FALSE /\ stopped = FALSE
    /\ thread = "none" /\ result = "none"
    /\ out = <<>>

Emit(events) == out' = out \o events

-----------------------------------------------------------------------------
(* The owner of the process *)

\* The owner writes a command line.  A review answer names any request it has seen.
Send(c) ==
    /\ ~eof /\ sent < MaxCommands
    /\ c.id = sent + 1
    /\ c.type = "approve" => c.req <= requests
    /\ inbox' = Append(inbox, c) /\ sent' = sent + 1
    /\ UNCHANGED <<eof, reader, state, active, taskVars, cancel, reviewVars,
                   shutdownRequested, stopped, threadVars, out>>

\* The owner closes stdin or dies: the reader sees end of file.
CloseStdin ==
    /\ ~eof
    /\ eof' = TRUE
    /\ UNCHANGED <<inbox, sent, reader, state, active, taskVars, cancel, reviewVars,
                   shutdownRequested, stopped, threadVars, out>>

-----------------------------------------------------------------------------
(* Command handlers, on the reader thread and under _lock *)

\* `while not self._shutdown_requested: readline()'
ReadCommand(c) ==
    /\ reader = "reading" /\ ~shutdownRequested
    /\ inbox # <<>> /\ c = Head(inbox)
    /\ inbox' = Tail(inbox)
    /\ UNCHANGED <<ownerVars, reader>>

\* handle: status
HandleStatus(c) ==
    /\ ReadCommand(c) /\ c.type = "status"
    /\ Emit(<<Event("status_snapshot", c.id, task, request)>>)
    /\ UNCHANGED <<state, active, taskVars, cancel, reviewVars, shutdownRequested,
                   stopped, threadVars>>

IsTaskCommand(c) == c.type \in {"submit_task", "resume_task"}

\* handle: a task command while a task runs is answered `busy'
MustRefuse == active

\* a task command that is refused: busy, or the workspace or journal setup fails
RefuseTask(c) ==
    /\ ReadCommand(c) /\ IsTaskCommand(c)
    /\ Emit(<<Event("command_error", c.id, 0, 0)>>)
    /\ UNCHANGED <<state, active, taskVars, cancel, reviewVars, shutdownRequested,
                   stopped, threadVars>>

ResumableTasks == {t \in 1..created : journal[t] \in Resumable}

\* _start after setup: t is the new journal, or the resumed one, saved as working
StartTask(c, t) ==
    /\ ReadCommand(c) /\ IsTaskCommand(c)
    /\ ~MustRefuse
    /\ \/ c.type = "submit_task" /\ t = created + 1
       \/ c.type = "resume_task" /\ t \in ResumableTasks
    /\ created' = IF c.type = "submit_task" THEN t ELSE created
    /\ journal' = [journal EXCEPT ![t] = "working"]
    /\ task' = t
    /\ cancel' = FALSE
    /\ request' = 0 /\ answer' = "none" /\ UNCHANGED requests
    /\ active' = TRUE /\ state' = "working"
    /\ Emit(<<Event(IF c.type = "submit_task" THEN "task_started" ELSE "task_resumed",
                    c.id, t, 0)>>)
    /\ thread' = "controller" /\ result' = "none"
    /\ UNCHANGED <<shutdownRequested, stopped>>

\* _stop: a second stop of the same task only repeats the notification
StopEvents(id) == IF state = "stopping" THEN <<>>
                  ELSE <<Event("task_stopping", id, task, 0)>>
StopState == "stopping"
StopCancel_UnlessReviewing == cancel \/ thread # "waiting"
StopCancel == TRUE
StopTask ==
    /\ state' = StopState
    /\ request' = (IF state = "stopping" THEN request ELSE 0)
    /\ cancel' = StopCancel

\* handle: stop_task
HandleStop(c) ==
    /\ ReadCommand(c) /\ c.type = "stop_task"
    /\ IF active
       THEN StopTask /\ Emit(StopEvents(c.id))
       ELSE /\ Emit(<<Event("command_error", c.id, 0, 0)>>)
            /\ UNCHANGED <<state, request, cancel>>
    /\ UNCHANGED <<active, taskVars, requests, answer, shutdownRequested, stopped, threadVars>>

\* _approve accepts only the answer to the open request
AnswersOpenRequest(c) == state = "awaiting_approval" /\ c.req = request

HandleApprove(c) ==
    /\ ReadCommand(c) /\ c.type = "approve"
    /\ IF AnswersOpenRequest(c)
       THEN /\ answer' = IF c.approved THEN "yes" ELSE "no"
            /\ request' = 0
            /\ state' = "working"
            /\ Emit(<<[Event("approval_resolved", c.id, task, request) EXCEPT !.ok = c.approved]>>)
       ELSE /\ Emit(<<Event("command_error", c.id, 0, 0)>>)
            /\ UNCHANGED <<answer, request, state>>
    /\ UNCHANGED <<active, taskVars, cancel, requests, shutdownRequested, stopped, threadVars>>

\* _shutdown, then _stop or _finish_shutdown
Shutdown(id) ==
    IF shutdownRequested
    THEN UNCHANGED <<state, request, cancel, shutdownRequested, stopped, out>>
    ELSE /\ shutdownRequested' = TRUE
         /\ IF active
            THEN /\ StopTask
                 /\ Emit(<<Event("worker_stopping", id, task, request)>> \o StopEvents(id))
                 /\ UNCHANGED stopped
            ELSE /\ stopped' = TRUE
                 /\ Emit(<<Event("worker_stopping", id, task, request),
                           Event("worker_stopped", 0, task, request)>>)
                 /\ UNCHANGED <<state, request, cancel>>

\* handle: shutdown
HandleShutdown(c) ==
    /\ ReadCommand(c) /\ c.type = "shutdown"
    /\ Shutdown(c.id)
    /\ UNCHANGED <<active, taskVars, requests, answer, threadVars>>

\* the reader leaves its loop, on shutdown or at end of file: `finally: self._shutdown()'
ReaderEnds ==
    /\ reader = "reading"
    /\ shutdownRequested \/ (inbox = <<>> /\ eof)
    /\ reader' = "draining"
    /\ Shutdown(0)
    /\ UNCHANGED <<inbox, ownerVars, active, taskVars, requests, answer, threadVars>>

\* both joins return: the task thread is over and the heartbeat saw `_stopped'
ProcessExits ==
    /\ reader = "draining"
    /\ thread = "none" /\ stopped
    /\ reader' = "exited"
    /\ UNCHANGED <<inbox, ownerVars, state, active, taskVars, cancel, reviewVars,
                   shutdownRequested, stopped, threadVars, out>>

-----------------------------------------------------------------------------
(* The task thread *)

\* controller.run() returns (or raises: "failed"); a cancelled controller may still
\* return what its last iteration produced
ControllerReturns(r) ==
    /\ thread = "controller"
    /\ r \in {"ready_for_approval", "blocked", "interrupted", "failed"}
    /\ r = "interrupted" => cancel
    /\ result' = r
    /\ journal' = IF r = "failed" THEN journal ELSE [journal EXCEPT ![task] = r]
    /\ thread' = IF r = "ready_for_approval" THEN "review" ELSE "finishing"
    /\ UNCHANGED <<inbox, ownerVars, reader, state, active, task, created, cancel,
                   reviewVars, shutdownRequested, stopped, out>>

\* _request_approval up to the wait
MayAskReview == ~cancel
RequestReview ==
    /\ thread = "review"
    /\ IF MayAskReview
       THEN /\ state' = "awaiting_approval"
            /\ requests' = requests + 1 /\ request' = requests + 1
            /\ answer' = "none"
            /\ Emit(<<Event("approval_required", 0, task, requests + 1)>>)
            /\ thread' = "waiting" /\ UNCHANGED result
       ELSE /\ thread' = "reviewed" /\ result' = "denied"
            /\ UNCHANGED <<state, reviewVars, out>>
    /\ UNCHANGED <<inbox, ownerVars, reader, active, taskVars, cancel,
                   shutdownRequested, stopped>>

\* the condition wakes the waiter; what it returns is decided under the lock
Verdict_NotCancelled == IF cancel THEN "denied" ELSE "approved"
Verdict == IF answer = "yes" /\ ~cancel THEN "approved" ELSE "denied"
WakesWaiter_OnAnswer == answer # "none"
WakesWaiter == answer # "none" \/ cancel
ReviewAnswered ==
    /\ thread = "waiting"
    /\ WakesWaiter
    /\ result' = Verdict
    /\ thread' = "reviewed"
    /\ UNCHANGED <<inbox, ownerVars, reader, state, active, taskVars, cancel, reviewVars,
                   shutdownRequested, stopped, out>>

\* run_task after the callback, without the lock: reads the cancel event again, saves
\* the journal; a save that raises ends the task as failed
ReviewDecided ==
    /\ thread = "reviewed"
    /\ LET r == IF cancel THEN "interrupted"
                ELSE IF result = "approved" THEN "done" ELSE "blocked"
       IN \/ result' = r /\ journal' = [journal EXCEPT ![task] = r]
          \/ result' = "failed" /\ UNCHANGED journal
    /\ thread' = "finishing"
    /\ UNCHANGED <<inbox, ownerVars, reader, state, active, task, created, cancel,
                   reviewVars, shutdownRequested, stopped, out>>

\* the status _execute settles on: a stop that arrived meanwhile wins over success
FinalStatus == IF cancel /\ result # "failed" THEN "interrupted" ELSE result

\* journal.save() of the final section
SavedStatus_BeforeOverride(saved, status) == IF saved THEN result ELSE journal[task]
SavedStatus(saved, status) == IF saved THEN status ELSE journal[task]

\* `if self._shutdown_requested: self._finish_shutdown()'
StopsWithTask_Forgotten == FALSE
StopsWithTask == shutdownRequested /\ ~stopped

\* the final locked section of _execute, ending in _finish_shutdown when requested
FinishTask(saved) ==
    /\ thread = "finishing"
    /\ LET status == IF saved THEN FinalStatus ELSE "failed"
           kind == CASE status = "done"   -> "task_completed"
                     [] status = "failed" -> "task_failed"
                     [] OTHER             -> "task_blocked"
       IN /\ journal' = [journal EXCEPT ![task] = SavedStatus(saved, status)]
          /\ state' = CASE kind = "task_completed" -> "completed"
                        [] kind = "task_failed"    -> "failed"
                        [] OTHER                   -> "blocked"
          /\ Emit(<<Event(kind, 0, task, 0)>> \o
                  IF StopsWithTask
                  THEN <<Event("worker_stopped", 0, task, 0)>> ELSE <<>>)
    /\ request' = 0
    /\ active' = FALSE
    /\ stopped' = (stopped \/ StopsWithTask)
    /\ thread' = "none" /\ result' = "none"
    /\ UNCHANGED <<inbox, ownerVars, reader, task, created, cancel, requests, answer,
                   shutdownRequested>>

-----------------------------------------------------------------------------
Reader ==
    \/ \E c \in Commands :
          \/ HandleStatus(c) \/ RefuseTask(c) \/ HandleStop(c)
          \/ HandleApprove(c) \/ HandleShutdown(c)
          \/ \E t \in Ids : StartTask(c, t)
    \/ ReaderEnds
    \/ ProcessExits

TaskThread ==
    \/ \E r \in JournalStatuses : ControllerReturns(r)
    \/ RequestReview \/ ReviewAnswered \/ ReviewDecided
    \/ \E saved \in BOOLEAN : FinishTask(saved)

Owner == CloseStdin \/ \E c \in Commands : Send(c)

Next == Owner \/ Reader \/ TaskThread

Spec == Init /\ [][Next]_vars

\* Both threads keep running: the reader's handlers never wait for a task, and a
\* controller iteration returns because every model call and command has a timeout (with the
\* provider pool: as long as Tornado's ChatEnds is not escaped by endless promises).
FairSpec == Spec /\ WF_vars(Reader) /\ WF_vars(TaskThread)

-----------------------------------------------------------------------------
(* Correctness *)

\* Every variable keeps its type.
TypeOK ==
    /\ inbox \in Seq(Commands) /\ sent \in 0..MaxCommands /\ eof \in BOOLEAN
    /\ reader \in {"reading", "draining", "exited"}
    /\ state \in States /\ active \in BOOLEAN
    /\ task \in Nat /\ created \in Nat
    /\ journal \in [Ids -> JournalStatuses \cup {"absent"}]
    /\ cancel \in BOOLEAN
    /\ request \in Nat /\ requests \in Nat
    /\ answer \in {"none", "yes", "no"}
    /\ shutdownRequested \in BOOLEAN /\ stopped \in BOOLEAN
    /\ thread \in {"none", "controller", "review", "waiting", "reviewed", "finishing"}
    /\ result \in JournalStatuses \cup {"none", "approved", "denied"}
    /\ out \in Seq(Events)

\* _transition raises ValueError on a step its table does not list; on the task thread
\* that would skip the terminal event and leave the worker busy for ever.  Whatever the
\* order of stop, approve, shutdown and the task thread, no step leaves the table.
LegalTransitions == [][state' # state => state' \in Transitions[state]]_vars

\* A task thread asleep in _request_approval can always be woken: unless it already has
\* an answer or was cancelled, the request it waits for is the one _approve accepts.
WaiterReachable ==
    thread = "waiting" /\ answer = "none" /\ ~cancel
        => state = "awaiting_approval" /\ request = requests

\* What the last terminal event said is what the disk says: a completed task can never
\* be resumed, and a blocked one always can.
JournalMatchesReport ==
    ~active =>
        /\ state = "completed" => journal[task] = "done"
        /\ state = "blocked"   => journal[task] \in Resumable

\* The worker implements WorkerContract: one terminal event per task, completion only
\* after an approved review that no stop overtook, worker_stopped once and last.
Contract == INSTANCE WorkerContract
    WITH phase <- IF ~active THEN "idle" ELSE IF cancel THEN "cancelled" ELSE "running",
         approved <- (answer = "yes"), down <- stopped, log <- out
ImplementsContract == Contract!ContractSpec

\* A stop request, or the shutdown that implies one, ends the running task.
StopEndsTask == (active /\ cancel) ~> ~active

\* After a shutdown command, and after stdin is closed, the process exits by itself.
ShutdownExits == (shutdownRequested \/ eof) ~> (reader = "exited")
=============================================================================
