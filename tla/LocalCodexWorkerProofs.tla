----------------------- MODULE LocalCodexWorkerProofs -----------------------
(***************************************************************************)
(* Safety of the Local Codex worker for every number of commands: the type *)
(* invariant, the table of task states is never left, a sleeping review    *)
(* can always be answered, and the report of a task agrees with its        *)
(* journal.                                                                *)
(***************************************************************************)
EXTENDS LocalCodexWorker, TLAPS

-----------------------------------------------------------------------------
(* The inductive invariant *)

\* the task thread, `_active' and the task state describe the same task
ThreadInv ==
    /\ active <=> thread # "none"
    /\ active <=> state \in {"working", "awaiting_approval", "stopping"}
    /\ state = "stopping" <=> active /\ cancel
    /\ active => task \in Ids
    /\ state \in {"completed", "blocked"} => task \in Ids

\* an open request belongs to the waiting thread, and to nothing else
ReviewInv ==
    /\ request # 0 => state = "awaiting_approval"
    /\ state = "awaiting_approval" =>
          thread = "waiting" /\ answer = "none" /\ request = requests /\ request # 0
    /\ thread = "waiting" /\ answer = "none" /\ ~cancel => state = "awaiting_approval"
    /\ thread \in {"controller", "review"} => answer = "none"

\* what the task thread carries was earned
ResultInv ==
    /\ thread = "reviewed" => result \in {"approved", "denied"}
    /\ thread = "reviewed" /\ result = "approved" => answer = "yes"
    /\ thread = "finishing" => result \in {"done", "blocked", "interrupted", "failed"}
    /\ thread = "finishing" /\ result = "done" => answer = "yes"

\* shutdown cancels the task that runs and stops the worker once none does
StopInv ==
    /\ stopped => shutdownRequested /\ ~active
    /\ shutdownRequested /\ ~active => stopped
    /\ shutdownRequested /\ active => cancel

IInv == TypeOK /\ ThreadInv /\ ReviewInv /\ ResultInv /\ StopInv /\ JournalMatchesReport

-----------------------------------------------------------------------------
(* Events are well typed *)

LEMMA EventType ==
    ASSUME NEW type \in EventTypes, NEW cmd \in Nat, NEW t \in Nat, NEW req \in Nat
    PROVE  Event(type, cmd, t, req) \in Events
BY DEF Event, Events

LEMMA EmitOne ==
    ASSUME out \in Seq(Events), NEW e \in Events, out' = out \o <<e>>
    PROVE  out' \in Seq(Events)
OBVIOUS

LEMMA EmitMany ==
    ASSUME out \in Seq(Events), NEW es \in Seq(Events), out' = out \o es
    PROVE  out' \in Seq(Events)
OBVIOUS

LEMMA EmitTwo ==
    ASSUME out \in Seq(Events), NEW e \in Events, NEW f \in Events, out' = out \o <<e, f>>
    PROVE  out' \in Seq(Events)
OBVIOUS

-----------------------------------------------------------------------------
(* One lemma per action: it preserves the inductive invariant *)

LEMMA ReadType ==
    ASSUME TypeOK, NEW c \in Commands, ReadCommand(c)
    PROVE  inbox' \in Seq(Commands) /\ c.id \in Nat /\ c.id # 0
<1>1. inbox' \in Seq(Commands)
  BY DEF TypeOK, ReadCommand
<1>2. c.id \in Ids
  BY DEF Commands
<1> QED
  BY <1>1, <1>2, MaxCommandsAssumption DEF Ids

LEMMA CommandErrorType ==
    ASSUME NEW cmd \in Nat
    PROVE  Event("command_error", cmd, 0, 0) \in Events
BY EventType DEF EventTypes

LEMMA SendStep ==
    ASSUME IInv, NEW c \in Commands, Send(c)
    PROVE  IInv'
BY MaxCommandsAssumption DEF IInv, TypeOK, ThreadInv, ReviewInv, ResultInv, StopInv, JournalMatchesReport, Send, taskVars, reviewVars, threadVars, ownerVars

LEMMA CloseStdinStep ==
    ASSUME IInv, CloseStdin
    PROVE  IInv'
BY DEF IInv, TypeOK, ThreadInv, ReviewInv, ResultInv, StopInv, JournalMatchesReport, CloseStdin, taskVars, reviewVars, threadVars, ownerVars

LEMMA HandleStatusStep ==
    ASSUME IInv, NEW c \in Commands, HandleStatus(c)
    PROVE  IInv'
<1>1. out' \in Seq(Events)
  BY ReadType, EventType, EmitOne DEF IInv, TypeOK, HandleStatus, Emit, EventTypes
<1>2. TypeOK'
  BY <1>1, ReadType DEF IInv, TypeOK, HandleStatus, ReadCommand, taskVars, reviewVars, threadVars, ownerVars
<1> QED
  BY <1>2 DEF IInv, ThreadInv, ReviewInv, ResultInv, StopInv, JournalMatchesReport, HandleStatus, ReadCommand, taskVars, reviewVars, threadVars, ownerVars

LEMMA RefuseTaskStep ==
    ASSUME IInv, NEW c \in Commands, RefuseTask(c)
    PROVE  IInv'
<1>1. out' \in Seq(Events)
  BY ReadType, CommandErrorType, EmitOne DEF IInv, TypeOK, RefuseTask, Emit
<1>2. TypeOK'
  BY <1>1, ReadType DEF IInv, TypeOK, RefuseTask, ReadCommand, taskVars, reviewVars, threadVars, ownerVars
<1> QED
  BY <1>2 DEF IInv, ThreadInv, ReviewInv, ResultInv, StopInv, JournalMatchesReport, RefuseTask, ReadCommand, taskVars, reviewVars, threadVars, ownerVars

LEMMA StartTaskStep ==
    ASSUME IInv, NEW c \in Commands, NEW t \in Ids, StartTask(c, t)
    PROVE  IInv'
<1>0. t \in Nat
  BY MaxCommandsAssumption DEF Ids
<1>1. out' \in Seq(Events)
  <2>1. PICK k \in {"task_started", "task_resumed"} :
            out' = out \o <<Event(k, c.id, t, 0)>>
    BY DEF StartTask, Emit
  <2> QED
    BY <1>0, <2>1, ReadType, EventType, EmitOne DEF IInv, TypeOK, StartTask, EventTypes
<1>2. TypeOK'
  BY <1>0, <1>1, ReadType DEF IInv, TypeOK, StartTask, ReadCommand, taskVars, reviewVars, threadVars, ownerVars,
     States, JournalStatuses
<1> QED
  BY <1>2 DEF IInv, ThreadInv, ReviewInv, ResultInv, StopInv, JournalMatchesReport, StartTask, MustRefuse, ReadCommand, taskVars, reviewVars, threadVars, ownerVars

LEMMA ControllerReturnsStep ==
    ASSUME IInv, NEW r \in JournalStatuses, ControllerReturns(r)
    PROVE  IInv'
<1>1. TypeOK'
  BY DEF IInv, TypeOK, ControllerReturns, taskVars, reviewVars, threadVars, ownerVars
<1> QED
  BY <1>1 DEF IInv, TypeOK, ThreadInv, ReviewInv, ResultInv, StopInv, JournalMatchesReport, ControllerReturns, taskVars, reviewVars, threadVars, ownerVars, JournalStatuses

LEMMA StopEventsType ==
    ASSUME TypeOK, NEW cmd \in Nat
    PROVE  StopEvents(cmd) \in Seq(Events)
<1>1. Event("task_stopping", cmd, task, 0) \in Events
  BY EventType DEF TypeOK, EventTypes
<1> QED
  BY <1>1 DEF StopEvents

LEMMA HandleStopStep ==
    ASSUME IInv, NEW c \in Commands, HandleStop(c)
    PROVE  IInv'
<1>1. out' \in Seq(Events)
  <2>1. CASE active
    <3>1. out' = out \o StopEvents(c.id)
      BY <2>1 DEF HandleStop, Emit
    <3>2. StopEvents(c.id) \in Seq(Events)
      BY ReadType, StopEventsType DEF IInv, HandleStop
    <3> QED
      BY <3>1, <3>2, EmitMany DEF IInv, TypeOK
  <2>2. CASE ~active
    BY <2>2, ReadType, CommandErrorType, EmitOne DEF IInv, TypeOK, HandleStop, Emit
  <2> QED
    BY <2>1, <2>2
<1>2. state' \in States /\ request' \in Nat /\ cancel' \in BOOLEAN
  <2>1. CASE active
    BY <2>1 DEF IInv, TypeOK, HandleStop, StopTask, StopState, StopCancel, States
  <2>2. CASE ~active
    BY <2>2 DEF IInv, TypeOK, HandleStop
  <2> QED
    BY <2>1, <2>2
<1>3. ReadCommand(c) /\ inbox' \in Seq(Commands)
  BY ReadType DEF IInv, HandleStop
<1>4. TypeOK'
  BY <1>1, <1>2, <1>3 DEF IInv, TypeOK, HandleStop, ReadCommand,
     taskVars, reviewVars, threadVars, ownerVars
<1> QED
  BY <1>4 DEF IInv, ThreadInv, ReviewInv, ResultInv, StopInv, JournalMatchesReport, HandleStop, StopTask,
     StopState, StopCancel, ReadCommand, taskVars, reviewVars, threadVars, ownerVars

LEMMA HandleApproveStep ==
    ASSUME IInv, NEW c \in Commands, HandleApprove(c)
    PROVE  IInv'
<1>1. out' \in Seq(Events)
  <2>1. CASE AnswersOpenRequest(c)
    <3> DEFINE e == [Event("approval_resolved", c.id, task, request) EXCEPT !.ok = c.approved]
    <3>1. e \in Events
      BY ReadType DEF IInv, TypeOK, HandleApprove, ReadCommand, Commands, Event, Events, EventTypes
    <3> QED
      BY <2>1, <3>1, EmitOne DEF IInv, TypeOK, HandleApprove, Emit
  <2>2. CASE ~AnswersOpenRequest(c)
    BY <2>2, ReadType, CommandErrorType, EmitOne DEF IInv, TypeOK, HandleApprove, Emit
  <2> QED
    BY <2>1, <2>2
<1>2. TypeOK'
  BY <1>1, ReadType DEF IInv, TypeOK, HandleApprove, States, ReadCommand, taskVars, reviewVars, threadVars, ownerVars
<1> QED
  BY <1>2 DEF IInv, ThreadInv, ReviewInv, ResultInv, StopInv, JournalMatchesReport, HandleApprove,
     AnswersOpenRequest, ReadCommand, taskVars, reviewVars, threadVars, ownerVars

LEMMA ShutdownStep ==
    ASSUME IInv, NEW id \in Nat, Shutdown(id), inbox' \in Seq(Commands),
           reader' \in {"reading", "draining", "exited"},
           UNCHANGED <<ownerVars, active, taskVars, requests, answer, threadVars>>
    PROVE  IInv'
<1>1. out' \in Seq(Events)
  <2>1. Event("worker_stopping", id, task, request) \in Events
    BY EventType DEF IInv, TypeOK, EventTypes
  <2>2. Event("worker_stopped", 0, task, request) \in Events
    BY EventType DEF IInv, TypeOK, EventTypes
  <2>3. CASE shutdownRequested
    BY <2>3 DEF IInv, TypeOK, Shutdown
  <2>4. CASE ~shutdownRequested /\ active
    <3>1. out' = out \o (<<Event("worker_stopping", id, task, request)>> \o StopEvents(id))
      BY <2>4 DEF Shutdown, Emit
    <3>2. StopEvents(id) \in Seq(Events)
      BY StopEventsType DEF IInv
    <3>3. <<Event("worker_stopping", id, task, request)>> \o StopEvents(id) \in Seq(Events)
      BY <2>1, <3>2
    <3> QED
      BY <3>1, <3>3, EmitMany DEF IInv, TypeOK
  <2>5. CASE ~shutdownRequested /\ ~active
    BY <2>5, <2>1, <2>2, EmitTwo DEF IInv, TypeOK, Shutdown, Emit
  <2> QED
    BY <2>3, <2>4, <2>5
<1>2. /\ state' \in States /\ request' \in Nat /\ cancel' \in BOOLEAN
      /\ shutdownRequested' \in BOOLEAN /\ stopped' \in BOOLEAN
  <2>1. CASE shutdownRequested
    BY <2>1 DEF IInv, TypeOK, Shutdown
  <2>2. CASE ~shutdownRequested /\ active
    BY <2>2 DEF IInv, TypeOK, Shutdown, StopTask, StopState, StopCancel, States
  <2>3. CASE ~shutdownRequested /\ ~active
    BY <2>3 DEF IInv, TypeOK, Shutdown
  <2> QED
    BY <2>1, <2>2, <2>3
<1>3. TypeOK'
  BY <1>1, <1>2 DEF IInv, TypeOK, taskVars, reviewVars, threadVars, ownerVars
<1> QED
  BY <1>3 DEF IInv, ThreadInv, ReviewInv, ResultInv, StopInv, JournalMatchesReport, Shutdown, StopTask,
     StopState, StopCancel, taskVars, reviewVars, threadVars, ownerVars

LEMMA HandleShutdownStep ==
    ASSUME IInv, NEW c \in Commands, HandleShutdown(c)
    PROVE  IInv'
BY ReadType, ShutdownStep DEF IInv, TypeOK, HandleShutdown, ReadCommand

LEMMA ReaderEndsStep ==
    ASSUME IInv, ReaderEnds
    PROVE  IInv'
BY ShutdownStep DEF IInv, TypeOK, ReaderEnds

LEMMA ProcessExitsStep ==
    ASSUME IInv, ProcessExits
    PROVE  IInv'
BY DEF IInv, TypeOK, ThreadInv, ReviewInv, ResultInv, StopInv, JournalMatchesReport, ProcessExits, taskVars, reviewVars, threadVars, ownerVars

LEMMA RequestReviewStep ==
    ASSUME IInv, RequestReview
    PROVE  IInv'
<1>1. out' \in Seq(Events)
  <2>1. Event("approval_required", 0, task, requests + 1) \in Events
    BY EventType DEF IInv, TypeOK, EventTypes
  <2> QED
    BY <2>1, EmitOne DEF IInv, TypeOK, RequestReview, Emit, reviewVars
<1>2. TypeOK'
  BY <1>1 DEF IInv, TypeOK, RequestReview, States, JournalStatuses, taskVars, reviewVars, threadVars, ownerVars
<1> QED
  BY <1>2 DEF IInv, TypeOK, ThreadInv, ReviewInv, ResultInv, StopInv, JournalMatchesReport, RequestReview,
     MayAskReview, taskVars, reviewVars, threadVars, ownerVars

LEMMA ReviewAnsweredStep ==
    ASSUME IInv, ReviewAnswered
    PROVE  IInv'
BY DEF IInv, TypeOK, ThreadInv, ReviewInv, ResultInv, StopInv, JournalMatchesReport, ReviewAnswered, WakesWaiter,
   Verdict, taskVars, reviewVars, threadVars, ownerVars

LEMMA ReviewDecidedStep ==
    ASSUME IInv, ReviewDecided
    PROVE  IInv'
<1>1. PICK r \in {"interrupted", "done", "blocked"} :
          /\ r = "done" => result = "approved"
          /\ result' \in {r, "failed"}
          /\ journal' \in {journal, [journal EXCEPT ![task] = r]}
  BY DEF ReviewDecided
<1>2. TypeOK'
  BY <1>1 DEF IInv, TypeOK, ReviewDecided, JournalStatuses, taskVars, reviewVars, threadVars, ownerVars
<1> QED
  BY <1>1, <1>2 DEF IInv, ThreadInv, ReviewInv, ResultInv, StopInv, JournalMatchesReport, ReviewDecided, taskVars, reviewVars, threadVars, ownerVars

LEMMA FinishTaskStep ==
    ASSUME IInv, NEW saved \in BOOLEAN, FinishTask(saved)
    PROVE  IInv'
<1> DEFINE status == IF saved THEN FinalStatus ELSE "failed"
           kind == CASE status = "done"   -> "task_completed"
                     [] status = "failed" -> "task_failed"
                     [] OTHER             -> "task_blocked"
<1>1. status \in {"done", "blocked", "interrupted", "failed"}
  BY DEF IInv, ResultInv, FinishTask, FinalStatus
<1>2. kind \in {"task_completed", "task_failed", "task_blocked"}
  OBVIOUS
<1>3. out' \in Seq(Events)
  <2>1. Event(kind, 0, task, 0) \in Events
    BY <1>2, EventType DEF IInv, TypeOK, EventTypes
  <2>2. Event("worker_stopped", 0, task, 0) \in Events
    BY EventType DEF IInv, TypeOK, EventTypes
  <2>3. out' = out \o (<<Event(kind, 0, task, 0)>> \o
               IF StopsWithTask THEN <<Event("worker_stopped", 0, task, 0)>> ELSE <<>>)
    BY DEF FinishTask, Emit
  <2>4. out' \in {out \o <<Event(kind, 0, task, 0)>>,
                  out \o <<Event(kind, 0, task, 0), Event("worker_stopped", 0, task, 0)>>}
    <3> HIDE DEF kind
    <3> QED
      BY <2>3
  <2> HIDE DEF kind
  <2> QED
    BY <2>1, <2>2, <2>4, EmitOne, EmitTwo DEF IInv, TypeOK
<1>4. /\ journal' = [journal EXCEPT ![task] = SavedStatus(saved, status)]
      /\ state' = CASE kind = "task_completed" -> "completed"
                    [] kind = "task_failed"    -> "failed"
                    [] OTHER                   -> "blocked"
  BY DEF FinishTask
<1>5. task \in Ids
  BY DEF IInv, ThreadInv, FinishTask
<1>6. journal[task] \in JournalStatuses \cup {"absent"}
  BY <1>5 DEF IInv, TypeOK
<1>7. TypeOK'
  BY <1>1, <1>3, <1>4, <1>6 DEF IInv, TypeOK, FinishTask, SavedStatus, States,
     JournalStatuses, taskVars, reviewVars, threadVars, ownerVars
<1>8. JournalMatchesReport'
  BY <1>1, <1>4, <1>5 DEF IInv, TypeOK, JournalMatchesReport, FinishTask, SavedStatus,
     Resumable, taskVars, reviewVars, threadVars, ownerVars
<1> QED
  BY <1>4, <1>5, <1>7, <1>8 DEF IInv, ThreadInv, ReviewInv, ResultInv, StopInv, FinishTask,
     StopsWithTask, taskVars, reviewVars, threadVars, ownerVars

LEMMA InitInv == Init => IInv
<1> SUFFICES ASSUME Init PROVE IInv
  OBVIOUS
<1>1. inbox \in Seq(Commands) /\ out \in Seq(Events)
  BY DEF Init
<1>2. journal \in [Ids -> JournalStatuses \cup {"absent"}]
  BY DEF Init
<1>3. sent \in 0..MaxCommands /\ task \in Nat /\ created \in Nat /\ request \in Nat /\ requests \in Nat
  BY MaxCommandsAssumption DEF Init
<1>4. /\ eof \in BOOLEAN /\ active \in BOOLEAN /\ cancel \in BOOLEAN
      /\ shutdownRequested \in BOOLEAN /\ stopped \in BOOLEAN
  BY DEF Init
<1>5. TypeOK
  BY <1>1, <1>2, <1>3, <1>4 DEF Init, TypeOK, States
<1> QED
  BY <1>5 DEF Init, IInv, ThreadInv, ReviewInv, ResultInv, StopInv, JournalMatchesReport

LEMMA StepInv == IInv /\ [Next]_vars => IInv'
<1> SUFFICES ASSUME IInv, [Next]_vars PROVE IInv'
  OBVIOUS
<1>1. CASE Owner
  BY <1>1, SendStep, CloseStdinStep DEF Owner
<1>2. CASE Reader
  BY <1>2, HandleStatusStep, RefuseTaskStep, HandleStopStep, HandleApproveStep,
     HandleShutdownStep, StartTaskStep, ReaderEndsStep, ProcessExitsStep DEF Reader
<1>3. CASE TaskThread
  BY <1>3, ControllerReturnsStep, RequestReviewStep, ReviewAnsweredStep,
     ReviewDecidedStep, FinishTaskStep DEF TaskThread
<1>4. CASE UNCHANGED vars
  BY <1>4 DEF IInv, TypeOK, ThreadInv, ReviewInv, ResultInv, StopInv, JournalMatchesReport, vars, taskVars, reviewVars, threadVars, ownerVars
<1> QED
  BY <1>1, <1>2, <1>3, <1>4 DEF Next

\* The inductive invariant holds in every reachable state.
THEOREM InductiveInvariant == Spec => []IInv
BY InitInv, StepInv, PTL DEF Spec

-----------------------------------------------------------------------------
(* What follows from it *)

\* Every variable of the worker keeps its type, for every number of commands.
THEOREM TypeCorrect == Spec => []TypeOK
<1>1. IInv => TypeOK
  BY DEF IInv
<1> QED
  BY <1>1, InductiveInvariant, PTL

\* A task thread asleep in _request_approval can always be woken by an answer or a stop.
THEOREM WaiterIsReachable == Spec => []WaiterReachable
<1>1. IInv => WaiterReachable
  BY DEF IInv, ReviewInv, WaiterReachable
<1> QED
  BY <1>1, InductiveInvariant, PTL

\* The terminal event of a task and the journal it leaves on disk agree.
THEOREM JournalAgrees == Spec => []JournalMatchesReport
<1>1. IInv => JournalMatchesReport
  BY DEF IInv
<1> QED
  BY <1>1, InductiveInvariant, PTL

LEMMA TransitionStep ==
    ASSUME IInv, Next, state' # state
    PROVE  state' \in Transitions[state]
<1> USE DEF IInv, TypeOK, ThreadInv, ReviewInv, Transitions, States
<1>1. ASSUME NEW c \in Commands, NEW t \in Ids, StartTask(c, t)
      PROVE  state' \in Transitions[state]
  BY <1>1 DEF StartTask, MustRefuse
<1>2. ASSUME NEW c \in Commands, HandleStop(c)
      PROVE  state' \in Transitions[state]
  BY <1>2 DEF HandleStop, StopTask, StopState
<1>3. ASSUME NEW c \in Commands, HandleApprove(c)
      PROVE  state' \in Transitions[state]
  BY <1>3 DEF HandleApprove, AnswersOpenRequest
<1>4. ASSUME NEW id, Shutdown(id)
      PROVE  state' \in Transitions[state]
  BY <1>4 DEF Shutdown, StopTask, StopState
<1>5. ASSUME RequestReview
      PROVE  state' \in Transitions[state]
  BY <1>5 DEF RequestReview, MayAskReview
<1>6. ASSUME NEW saved \in BOOLEAN, FinishTask(saved)
      PROVE  state' \in Transitions[state]
  <2>1. state' \in {"completed", "blocked", "failed"}
    BY <1>6 DEF FinishTask
  <2>2. state' = "completed" => ~cancel
    BY <1>6 DEF FinishTask, FinalStatus
  <2>3. state \in {"working", "stopping"}
    BY <1>6 DEF FinishTask
  <2> QED
    BY <2>1, <2>2, <2>3, <1>6 DEF FinishTask
<1>7. CASE Owner
  BY <1>7 DEF Owner, Send, CloseStdin
<1>8. CASE Reader
  BY <1>1, <1>2, <1>3, <1>4, <1>8 DEF Reader, HandleStatus, RefuseTask, HandleShutdown,
     ReaderEnds, ProcessExits
<1>9. CASE TaskThread
  BY <1>5, <1>6, <1>9 DEF TaskThread, ControllerReturns, ReviewAnswered, ReviewDecided
<1> QED
  BY <1>7, <1>8, <1>9 DEF Next

\* _transition never raises: every change of the task state is one its table lists.
THEOREM TransitionsAreLegal == Spec => LegalTransitions
<1>1. IInv /\ [Next]_vars => [state' # state => state' \in Transitions[state]]_vars
  BY TransitionStep
<1> QED
  BY <1>1, InductiveInvariant, PTL DEF Spec, LegalTransitions

-----------------------------------------------------------------------------
(* The worker implements its contract *)

LEMMA WritesOne ==
    ASSUME out \in Seq(Events), NEW e \in Events, out' = out \o <<e>>
    PROVE  Contract!Writes(<<e.type>>) /\ out'[Len(out')] = e
BY DEF Contract!Writes

LEMMA WritesTwo ==
    ASSUME out \in Seq(Events), NEW e \in Events, NEW f \in Events, out' = out \o <<e, f>>
    PROVE  Contract!Writes(<<e.type, f.type>>)
BY DEF Contract!Writes

LEMMA WritesEvent ==
    ASSUME TypeOK, NEW type \in EventTypes, NEW cmd \in Nat, NEW t \in Nat, NEW req \in Nat,
           out' = out \o <<Event(type, cmd, t, req)>>
    PROVE  Contract!Writes(<<type>>)
<1>1. Event(type, cmd, t, req) \in Events /\ Event(type, cmd, t, req).type = type
  BY EventType DEF Event
<1> QED
  BY <1>1, WritesOne DEF TypeOK

LEMMA WritesEvents ==
    ASSUME TypeOK, NEW type \in EventTypes, NEW cmd \in Nat, NEW t \in Nat, NEW req \in Nat,
           NEW type2 \in EventTypes, NEW cmd2 \in Nat, NEW t2 \in Nat, NEW req2 \in Nat,
           out' = out \o <<Event(type, cmd, t, req), Event(type2, cmd2, t2, req2)>>
    PROVE  Contract!Writes(<<type, type2>>)
<1>1. Event(type, cmd, t, req) \in Events /\ Event(type, cmd, t, req).type = type
  BY EventType DEF Event
<1>2. Event(type2, cmd2, t2, req2) \in Events /\ Event(type2, cmd2, t2, req2).type = type2
  BY EventType DEF Event
<1> QED
  BY <1>1, <1>2, WritesTwo DEF TypeOK

\* a worker that still reads commands has not stopped
LEMMA ReadingIsUp ==
    ASSUME IInv, NEW c \in Commands, ReadCommand(c)
    PROVE  ~stopped
BY DEF IInv, StopInv, ReadCommand

LEMMA ChatterRefines ==
    ASSUME IInv, NEW c \in Commands, HandleStatus(c) \/ RefuseTask(c)
    PROVE  Contract!Chatter
<1>1. c.id \in Nat /\ ~stopped
  BY ReadType, ReadingIsUp DEF IInv, HandleStatus, RefuseTask
<1>2. PICK k \in Contract!Neutral : Contract!Writes(<<k>>)
  BY <1>1, WritesEvent DEF HandleStatus, RefuseTask, Emit, IInv, TypeOK, EventTypes,
     Contract!Neutral
<1> QED
  BY <1>1, <1>2 DEF Contract!Chatter, HandleStatus, RefuseTask, taskVars, reviewVars, threadVars, ownerVars

LEMMA StartTaskRefines ==
    ASSUME IInv, NEW c \in Commands, NEW t \in Ids, StartTask(c, t)
    PROVE  Contract!Begin
<1>1. c.id \in Nat /\ ~stopped /\ t \in Nat
  BY ReadType, ReadingIsUp DEF IInv, StartTask, Ids
<1>2. PICK k \in Contract!Opening : Contract!Writes(<<k>>)
  <2>1. PICK k \in {"task_started", "task_resumed"} : out' = out \o <<Event(k, c.id, t, 0)>>
    BY DEF StartTask, Emit
  <2>2. k \in EventTypes
    BY DEF EventTypes
  <2> QED
    BY <1>1, <2>1, <2>2, WritesEvent DEF IInv, Contract!Opening
<1> QED
  BY <1>1, <1>2 DEF Contract!Begin, StartTask, MustRefuse

LEMMA HandleStopRefines ==
    ASSUME IInv, NEW c \in Commands, HandleStop(c)
    PROVE  [Contract!ContractNext]_Contract!contractVars
<1>1. c.id \in Nat /\ ~stopped /\ task \in Nat
  BY ReadType, ReadingIsUp DEF IInv, TypeOK, HandleStop
<1>2. CASE ~active
  <2>1. Contract!Writes(<<"command_error">>)
    BY <1>1, <1>2, WritesEvent DEF HandleStop, Emit, IInv, EventTypes
  <2>2. Contract!Chatter
    BY <1>1, <1>2, <2>1 DEF Contract!Chatter, Contract!Neutral, HandleStop
  <2> QED
    BY <2>2 DEF Contract!ContractNext
<1>3. CASE active /\ state # "stopping"
  <2>1. out' = out \o <<Event("task_stopping", c.id, task, 0)>>
    BY <1>3 DEF HandleStop, Emit, StopEvents
  <2>2. Contract!Writes(<<"task_stopping">>)
    BY <1>1, <2>1, WritesEvent DEF IInv, EventTypes
  <2>3. Contract!Cancel
    BY <1>3, <2>2 DEF Contract!Cancel, HandleStop, StopTask, StopCancel, IInv, ThreadInv
  <2> QED
    BY <2>3 DEF Contract!ContractNext
<1>4. CASE active /\ state = "stopping"
  <2>1. out' = out
    BY <1>4 DEF HandleStop, Emit, StopEvents, IInv, TypeOK
  <2> QED
    BY <1>4, <2>1 DEF Contract!contractVars, HandleStop, StopTask, StopCancel, IInv, ThreadInv
<1> QED
  BY <1>2, <1>3, <1>4

LEMMA HandleApproveRefines ==
    ASSUME IInv, NEW c \in Commands, HandleApprove(c)
    PROVE  Contract!Review \/ Contract!Chatter
<1>1. c.id \in Nat /\ ~stopped /\ task \in Nat /\ request \in Nat
  BY ReadType, ReadingIsUp DEF IInv, TypeOK, HandleApprove
<1>2. CASE AnswersOpenRequest(c)
  <2> DEFINE e == [Event("approval_resolved", c.id, task, request) EXCEPT !.ok = c.approved]
  <2>1. c.approved \in BOOLEAN
    BY DEF Commands
  <2>2. e \in Events /\ e.type = "approval_resolved" /\ e.ok = c.approved
    BY <1>1, <2>1 DEF Event, Events, EventTypes
  <2>3. out' = out \o <<e>>
    BY <1>2 DEF HandleApprove, Emit
  <2> HIDE DEF e
  <2>4. Contract!Writes(<<"approval_resolved">>) /\ out'[Len(out')].ok = c.approved
    BY <2>2, <2>3, WritesOne DEF IInv, TypeOK
  <2>5. active /\ active' /\ ~cancel /\ ~cancel'
    BY <1>2 DEF AnswersOpenRequest, HandleApprove, IInv, ThreadInv
  <2>6. (answer' = "yes") = c.approved
    BY <1>2, <2>1 DEF HandleApprove
  <2> QED
    BY <2>1, <2>4, <2>5, <2>6 DEF Contract!Review, HandleApprove
<1>3. CASE ~AnswersOpenRequest(c)
  <2>1. Contract!Writes(<<"command_error">>)
    BY <1>1, <1>3, WritesEvent DEF HandleApprove, Emit, IInv, EventTypes
  <2> QED
    BY <1>1, <1>3, <2>1 DEF Contract!Chatter, Contract!Neutral, HandleApprove
<1> QED
  BY <1>2, <1>3

LEMMA ShutdownRefines ==
    ASSUME IInv, NEW id \in Nat, Shutdown(id), UNCHANGED <<active, task, answer>>
    PROVE  [Contract!ContractNext]_Contract!contractVars
<1>1. task \in Nat /\ request \in Nat
  BY DEF IInv, TypeOK
<1>2. CASE shutdownRequested
  BY <1>2 DEF Shutdown, Contract!contractVars
<1>3. CASE ~shutdownRequested /\ ~active
  <2>1. Contract!Writes(<<"worker_stopping", "worker_stopped">>)
    BY <1>1, <1>3, WritesEvents DEF Shutdown, Emit, IInv, EventTypes
  <2>2. Contract!GoDown
    BY <1>3, <2>1 DEF Contract!GoDown, Shutdown, IInv, StopInv
  <2> QED
    BY <2>2 DEF Contract!ContractNext
<1>4. CASE ~shutdownRequested /\ active /\ state = "stopping"
  <2>1. out' = out \o (<<Event("worker_stopping", id, task, request)>> \o <<>>)
    BY <1>4 DEF Shutdown, Emit, StopEvents
  <2>2. out' = out \o <<Event("worker_stopping", id, task, request)>>
    BY <2>1
  <2>3. Contract!Writes(<<"worker_stopping">>)
    BY <1>1, <2>2, WritesEvent DEF IInv, EventTypes
  <2>4. Contract!Chatter
    BY <1>4, <2>3 DEF Contract!Chatter, Shutdown, StopTask, StopCancel, IInv, ThreadInv, StopInv
  <2> QED
    BY <2>4 DEF Contract!ContractNext
<1>5. CASE ~shutdownRequested /\ active /\ state # "stopping"
  <2>1. out' = out \o (<<Event("worker_stopping", id, task, request)>>
                         \o <<Event("task_stopping", id, task, 0)>>)
    BY <1>5 DEF Shutdown, Emit, StopEvents
  <2>2. out' = out \o <<Event("worker_stopping", id, task, request),
                        Event("task_stopping", id, task, 0)>>
    BY <2>1
  <2>3. Contract!Writes(<<"worker_stopping", "task_stopping">>)
    BY <1>1, <2>2, WritesEvents DEF IInv, EventTypes
  <2>4. Contract!Cancel
    BY <1>5, <2>3 DEF Contract!Cancel, Shutdown, StopTask, StopCancel, IInv, ThreadInv, StopInv
  <2> QED
    BY <2>4 DEF Contract!ContractNext
<1> QED
  BY <1>2, <1>3, <1>4, <1>5

LEMMA RequestReviewRefines ==
    ASSUME IInv, RequestReview
    PROVE  [Contract!ContractNext]_Contract!contractVars
<1>1. CASE cancel
  BY <1>1 DEF RequestReview, MayAskReview, reviewVars, taskVars, Contract!contractVars
<1>2. CASE ~cancel
  <2>0. TypeOK /\ task \in Nat /\ requests + 1 \in Nat
    BY DEF IInv, TypeOK
  <2>1. Contract!Writes(<<"approval_required">>)
    BY <1>2, <2>0, WritesEvent DEF RequestReview, MayAskReview, Emit, EventTypes
  <2>2. active /\ ~stopped /\ answer # "yes" /\ answer' # "yes"
    BY <1>2 DEF RequestReview, MayAskReview, IInv, ThreadInv, ReviewInv, StopInv
  <2>3. Contract!Chatter
    BY <2>1, <2>2 DEF RequestReview, Contract!Chatter, Contract!Neutral
  <2> QED
    BY <2>3 DEF Contract!ContractNext
<1> QED
  BY <1>1, <1>2

LEMMA FinishTaskRefines ==
    ASSUME IInv, NEW saved \in BOOLEAN, FinishTask(saved)
    PROVE  Contract!End
<1> DEFINE status == IF saved THEN FinalStatus ELSE "failed"
           kind == CASE status = "done"   -> "task_completed"
                     [] status = "failed" -> "task_failed"
                     [] OTHER             -> "task_blocked"
<1>1. kind \in Contract!Closing /\ kind \in EventTypes
  BY DEF Contract!Closing, EventTypes
<1>2. kind = "task_completed" => ~cancel /\ answer = "yes"
  BY DEF FinishTask, FinalStatus, IInv, ResultInv
<1>3. out' = out \o (<<Event(kind, 0, task, 0)>> \o
             IF StopsWithTask THEN <<Event("worker_stopped", 0, task, 0)>> ELSE <<>>)
  BY DEF FinishTask, Emit
<1>4. active /\ ~active' /\ answer' = answer /\ task \in Nat
  BY DEF FinishTask, IInv, ThreadInv, TypeOK
<1> HIDE DEF kind
<1>5. CASE StopsWithTask
  <2>1. out' = out \o <<Event(kind, 0, task, 0), Event("worker_stopped", 0, task, 0)>>
    BY <1>3, <1>5
  <2>2. Contract!Writes(<<kind, "worker_stopped">>)
    BY <1>1, <1>4, <2>1, WritesEvents DEF IInv, EventTypes
  <2>3. stopped' = TRUE
    BY <1>5 DEF FinishTask
  <2> QED
    BY <1>1, <1>2, <1>4, <2>2, <2>3 DEF Contract!End
<1>6. CASE ~StopsWithTask
  <2>1. out' = out \o <<Event(kind, 0, task, 0)>>
    BY <1>3, <1>6
  <2>2. Contract!Writes(<<kind>>)
    BY <1>1, <1>4, <2>1, WritesEvent DEF IInv
  <2>3. stopped' = stopped
    BY <1>6 DEF FinishTask, IInv, TypeOK
  <2> QED
    BY <1>1, <1>2, <1>4, <2>2, <2>3 DEF Contract!End
<1> QED
  BY <1>5, <1>6

LEMMA StepRefines ==
    ASSUME IInv, [Next]_vars
    PROVE  [Contract!ContractNext]_Contract!contractVars
<1>1. CASE Owner
  BY <1>1 DEF Owner, Send, CloseStdin, reviewVars, Contract!contractVars
<1>2. CASE Reader
  <2>1. ASSUME NEW c \in Commands, HandleShutdown(c)
        PROVE  [Contract!ContractNext]_Contract!contractVars
    BY <2>1, ReadType, ShutdownRefines DEF HandleShutdown, taskVars, IInv
  <2>2. ASSUME ReaderEnds
        PROVE  [Contract!ContractNext]_Contract!contractVars
    BY <2>2, ShutdownRefines DEF ReaderEnds, taskVars
  <2>3. ASSUME ProcessExits
        PROVE  [Contract!ContractNext]_Contract!contractVars
    BY <2>3 DEF ProcessExits, reviewVars, Contract!contractVars
  <2>4. ASSUME NEW c \in Commands, HandleStatus(c) \/ RefuseTask(c) \/ HandleApprove(c)
        PROVE  Contract!ContractNext
    BY <2>4, ChatterRefines, HandleApproveRefines DEF Contract!ContractNext
  <2>5. ASSUME NEW c \in Commands, NEW t \in Ids, StartTask(c, t)
        PROVE  Contract!ContractNext
    BY <2>5, StartTaskRefines DEF Contract!ContractNext
  <2> QED
    BY <1>2, <2>1, <2>2, <2>3, <2>4, <2>5, HandleStopRefines DEF Reader
<1>3. CASE TaskThread
  <2>1. ASSUME NEW r \in JournalStatuses, ControllerReturns(r)
        PROVE  UNCHANGED Contract!contractVars
    BY <2>1 DEF ControllerReturns, reviewVars, Contract!contractVars
  <2>2. ASSUME ReviewAnswered \/ ReviewDecided
        PROVE  UNCHANGED Contract!contractVars
    BY <2>2 DEF ReviewAnswered, ReviewDecided, reviewVars, Contract!contractVars
  <2> QED
    BY <1>3, <2>1, <2>2, RequestReviewRefines, FinishTaskRefines DEF TaskThread,
       Contract!ContractNext
<1>4. CASE UNCHANGED vars
  BY <1>4 DEF vars, reviewVars, Contract!contractVars
<1> QED
  BY <1>1, <1>2, <1>3, <1>4 DEF Next

\* The worker implements its contract: every event it writes is one the contract allows,
\* for every interleaving of commands, review answers and task results.
THEOREM WorkerImplementsContract == Spec => ImplementsContract
<1>1. Init => Contract!ContractInit
  BY DEF Init, Contract!ContractInit
<1>2. IInv /\ [Next]_vars => [Contract!ContractNext]_Contract!contractVars
  BY StepRefines
<1> QED
  BY <1>1, <1>2, InductiveInvariant, PTL DEF Spec, ImplementsContract, Contract!ContractSpec
=============================================================================
