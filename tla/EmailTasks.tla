----------------------------- MODULE EmailTasks -----------------------------
(***************************************************************************)
(* Tasks by e-mail: the persisted task queue with its workspace locks      *)
(* (local_codex/task_queue.py), the mailbox (mail_gateway.py) and the      *)
(* worker that answers mails and ticks tasks (email_worker.py).  One       *)
(* thread runs recover once, then poll_once and tick_tasks in any order.   *)
(* A handler is cut where it saves the queue, so that a crash may fall     *)
(* between any two saves; a mail that cannot be sent ends the poll.        *)
(* Agent and git work are reduced to their outcomes (see GitFinalize).     *)
(***************************************************************************)
EXTENDS Naturals, Sequences, FiniteSetsExt

CONSTANTS
    Workspaces,     \* registered workspaces
    NoWorkspace,    \* a task whose workspace could not be inferred
    MaxNew,         \* bound: task mails the user sends
    MaxReplies,     \* bound: replies the user sends
    MaxMails,       \* bound: mails the user sends
    MaxCrashes      \* bound: crashes of the worker

ASSUME EmailAssumption ==
    /\ NoWorkspace \notin Workspaces
    /\ MaxNew \in Nat /\ MaxReplies \in Nat /\ MaxMails \in Nat
    /\ MaxCrashes \in Nat

\* Each mail creates a task once, and once more for each crash that makes it come again.
Tasks == 1..(MaxNew + MaxCrashes)

VARIABLES
    status, approval, workspaceOf, threadOf,    \* per task: the saved record
    created,        \* tasks in the queue; a task's id is its rank of creation
    locks,          \* workspace_locks: the owning task, or 0
    inbox,          \* every mail the user sent, in order of arrival
    seen,           \* mails marked as processed; a mail's id is its rank
    aged,           \* per task: 24 hours passed since its confirmation mail
    asked,          \* per task: the approval the user was last asked for
    controllers,    \* tasks with a live controller (memory)
    held,           \* controllers with pause_requested set
    driver,         \* what the worker thread does
    todo,           \* the mails poll() returned that are still to handle, in order of arrival
    cont,           \* how the handler of the current mail goes on
    crashes,
    displaced       \* history: workspaces whose lock a restart took from a working task

recordVars == <<status, approval, workspaceOf, threadOf, created>>
mailVars   == <<inbox, seen>>
userVars   == <<aged, asked>>
agentVars  == <<controllers, held>>
crashVars  == <<crashes, displaced>>
vars == <<recordVars, locks, mailVars, userVars, agentVars, driver, todo, cont, crashVars>>

-----------------------------------------------------------------------------
Statuses == {"absent", "queued", "waiting_confirmation", "active", "paused",
             "ready_for_final_approval", "finalizing", "rejected", "cancelled", "blocked", "done"}
Approvals == {"not_requested", "pending", "approved", "rejected", "expired"}
Controls == {"approve", "reject", "pause", "resume", "cancel"}

\* A mail opens a task, or replies in its thread with a control word or with a text that may
\* name a workspace.  `answers' records what the user was asked for when writing it.
Mails == [kind : {"new", "text"} \cup Controls, thread : Nat,
          names : Workspaces \cup {NoWorkspace}, answers : {"none", "start", "final"}]

Init ==
    /\ status = [t \in Tasks |-> "absent"] /\ approval = [t \in Tasks |-> "not_requested"]
    /\ workspaceOf = [t \in Tasks |-> NoWorkspace] /\ threadOf = [t \in Tasks |-> 0]
    /\ created = 0 /\ locks = [w \in Workspaces |-> 0]
    /\ inbox = <<>> /\ seen = {}
    /\ aged = [t \in Tasks |-> FALSE] /\ asked = [t \in Tasks |-> "none"]
    /\ controllers = {} /\ held = {} /\ driver = "down" /\ todo = {} /\ cont = "none"
    /\ crashes = 0 /\ displaced = {}

Queue == 1..created
Owns(t) == workspaceOf[t] # NoWorkspace /\ locks[workspaceOf[t]] = t
Unlocked(t) == IF Owns(t) THEN [locks EXCEPT ![workspaceOf[t]] = 0] ELSE locks

\* find_by_thread: the thread of a task is that of the mail that created it, so there is one
\* task in it at most, in whatever order the tasks are looked through
TasksOfThread(m) == {t \in Queue : threadOf[t] = m.thread}
FoundTask(m) == Min(TasksOfThread(m))

\* can_activate
CanActivate(t) == workspaceOf[t] # NoWorkspace /\ locks[workspaceOf[t]] \in {0, t}

\* next_confirmable
NoneWaiting(w) == \A t \in Queue : workspaceOf[t] = w => status[t] # "waiting_confirmation"
Candidates(w) == {t \in Queue : /\ workspaceOf[t] = w /\ status[t] = "queued"
                                /\ approval[t] \in {"not_requested", "expired"}}
Confirmable == {Min(Candidates(w)) : w \in {v \in Workspaces :
                    locks[v] = 0 /\ NoneWaiting(v) /\ Candidates(v) # {}}}

-----------------------------------------------------------------------------
(* The user and time *)

\* A mail that arrives during a poll is found by the next one: nothing tells it from a mail
\* that arrives when the poll is over.
MailArrives == driver \notin {"polling", "recovering"}

Count(new) == Quantify(1..Len(inbox), LAMBDA i : (inbox[i].kind = "new") = new)

SendTask(w) ==
    /\ MailArrives /\ Count(TRUE) < MaxNew /\ Len(inbox) < MaxMails
    /\ inbox' = Append(inbox, [kind |-> "new", thread |-> 0, names |-> w, answers |-> "none"])
    /\ UNCHANGED <<recordVars, locks, seen, userVars, agentVars, driver, todo, cont, crashVars>>

\* The user answers an approval request, as often as they like, and may send anything else at
\* any time.
SendReply(t, kind, w) ==
    /\ MailArrives /\ Count(FALSE) < MaxReplies /\ Len(inbox) < MaxMails /\ t \in Queue
    /\ kind \in {"approve", "reject"} => asked[t] # "none"
    /\ inbox' = Append(inbox, [kind |-> kind, thread |-> threadOf[t], names |-> w,
                               answers |-> asked[t]])
    /\ UNCHANGED <<recordVars, locks, seen, userVars, agentVars, driver, todo, cont, crashVars>>

ConfirmationAges(t) ==
    /\ status[t] = "waiting_confirmation" /\ ~aged[t]
    /\ aged' = [aged EXCEPT ![t] = TRUE]
    /\ UNCHANGED <<recordVars, locks, mailVars, asked, agentVars, driver, todo, cont, crashVars>>

-----------------------------------------------------------------------------
(* poll_once *)

\* MailGateway.poll: every mail of the inbox that was not processed
PollStarts ==
    /\ driver = "idle" /\ driver' = "polling"
    /\ todo' = 1..Len(inbox) \ seen
    /\ UNCHANGED <<recordVars, locks, mailVars, userVars, agentVars, cont, crashVars>>

\* the mail that is being handled
Current == Min(todo)
Handles(m) == driver = "polling" /\ cont = "none" /\ todo # {} /\ m = inbox[Current]
handlerFrame == <<mailVars, aged, driver, todo, crashVars>>

\* _new_task
NewTask(m) ==
    /\ Handles(m) /\ m.kind = "new" /\ created + 1 \in Tasks
    /\ created' = created + 1
    /\ status' = [status EXCEPT ![created'] = "queued"]
    /\ workspaceOf' = [workspaceOf EXCEPT ![created'] = m.names]
    /\ threadOf' = [threadOf EXCEPT ![created'] = Current]
    /\ cont' = IF m.names = NoWorkspace THEN "answer" ELSE "mark"
    /\ UNCHANGED <<approval, locks, asked, agentVars, handlerFrame>>

\* a reply that finds a task in one of these states
Replies(m, t, statuses) ==
    /\ Handles(m) /\ m.kind # "new"
    /\ TasksOfThread(m) # {} /\ t = FoundTask(m)
    /\ status[t] \in statuses

NeedsWorkspace(t) == status[t] = "queued" /\ workspaceOf[t] = NoWorkspace

\* a reply to no task, or to one that takes no replies
IgnoredReply(m) ==
    /\ Handles(m) /\ m.kind # "new"
    /\ \A t \in TasksOfThread(m) : t = FoundTask(m) =>
          \/ status[t] \in {"finalizing", "rejected", "cancelled", "done"}
          \/ status[t] = "queued" /\ ~NeedsWorkspace(t)
    /\ cont' = "mark"
    /\ UNCHANGED <<recordVars, locks, asked, agentVars, handlerFrame>>

\* _handle_workspace_reply
WorkspaceReply(m, t) ==
    /\ Replies(m, t, {"queued"}) /\ NeedsWorkspace(t)
    /\ IF m.kind = "text" /\ m.names # NoWorkspace
       THEN workspaceOf' = [workspaceOf EXCEPT ![t] = m.names] /\ cont' = "mark"
       ELSE UNCHANGED workspaceOf /\ cont' = "answer"
    /\ UNCHANGED <<status, approval, threadOf, created, locks, asked, agentVars, handlerFrame>>

\* approve() raises when the approval is not pending or is too old: the user is told, and the
\* task must not be started
AfterRefusal_Ignored == "start"
AfterRefusal == "answer"

\* _handle_pending_reply: approve() saves, and the task is started after that save
PendingReply(m, t) ==
    /\ Replies(m, t, {"waiting_confirmation"})
    /\ CASE m.kind = "approve" /\ approval[t] # "pending" ->
              cont' = AfterRefusal /\ UNCHANGED <<status, approval, locks>>
         [] m.kind = "approve" /\ approval[t] = "pending" /\ aged[t] ->
              /\ approval' = [approval EXCEPT ![t] = "expired"]
              /\ status' = [status EXCEPT ![t] = "queued"]
              /\ cont' = AfterRefusal /\ UNCHANGED locks
         [] m.kind = "approve" /\ approval[t] = "pending" /\ ~aged[t] ->
              /\ approval' = [approval EXCEPT ![t] = "approved"]
              /\ cont' = "start" /\ UNCHANGED <<status, locks>>
         [] m.kind = "reject" ->
              /\ status' = [status EXCEPT ![t] = "rejected"]
              /\ approval' = [approval EXCEPT ![t] = "rejected"]
              /\ locks' = Unlocked(t) /\ cont' = "answer"
         [] m.kind = "text" ->
              /\ status' = [status EXCEPT ![t] = "queued"]
              /\ approval' = [approval EXCEPT ![t] = "not_requested"]
              /\ cont' = "mark" /\ UNCHANGED locks
         [] OTHER -> cont' = "mark" /\ UNCHANGED <<status, approval, locks>>
    /\ UNCHANGED <<workspaceOf, threadOf, created, asked, agentVars, handlerFrame>>

\* activate()
LocksAtStart_Kept(t) == locks
LocksAtStart(t) == [locks EXCEPT ![workspaceOf[t]] = t]

\* the branch cannot be created
StatusWithoutBranch_Kept(t) == status
StatusWithoutBranch(t) == [status EXCEPT ![t] = "blocked"]

\* _start_task from the branch to activate()
StartTask(t) ==
    /\ cont = "start" /\ t = FoundTask(inbox[Current])
    /\ \/ status' = StatusWithoutBranch(t)
          /\ cont' = "answer" /\ UNCHANGED locks
       \/ /\ CanActivate(t)
          /\ locks' = LocksAtStart(t)
          /\ status' = [status EXCEPT ![t] = "active"]
          /\ cont' = "control"
       \/ /\ ~CanActivate(t)                                \* RuntimeError
          /\ cont' = "abort" /\ UNCHANGED <<status, locks>>
    /\ UNCHANGED <<approval, workspaceOf, threadOf, created, asked, agentVars, handlerFrame>>

\* _start_task after activate(): the handoff, then the controller; either may raise
ControlTask(t) ==
    /\ cont = "control" /\ t = FoundTask(inbox[Current])
    /\ \/ controllers' = controllers \cup {t} /\ cont' = "mark"
       \/ cont' = "abort" /\ UNCHANGED controllers
    /\ UNCHANGED <<recordVars, locks, held, asked, handlerFrame>>

\* cancel(): a task that is over gives its workspace back
LocksAfterCancel_Kept(t) == locks
LocksAfterCancel(t) == Unlocked(t)
ControllersAfterCancel(t) == controllers \ {t}

\* _handle_active_reply; after a RESUME the handoff may raise before the controller is told
ActiveReply(m, t) ==
    /\ Replies(m, t, {"active", "paused", "blocked"})
    /\ CASE m.kind = "pause" ->
              /\ held' = held \cup ({t} \cap controllers)
              /\ IF status[t] = "active"
                 THEN status' = [status EXCEPT ![t] = "paused"] /\ cont' = "answer"
                 ELSE UNCHANGED status /\ cont' = "abort"                 \* RuntimeError
              /\ UNCHANGED <<locks, controllers>>
         [] m.kind = "resume" /\ status[t] = "paused" /\ CanActivate(t) ->
              /\ status' = [status EXCEPT ![t] = "active"]
              /\ locks' = [locks EXCEPT ![workspaceOf[t]] = t]
              /\ \/ held' = held \ {t} /\ cont' = "mark"
                 \/ UNCHANGED held /\ cont' = "abort"
              /\ UNCHANGED controllers
         [] m.kind = "resume" /\ status[t] = "paused" /\ ~CanActivate(t) ->
              cont' = "abort" /\ UNCHANGED <<status, locks, agentVars>>  \* RuntimeError
         [] m.kind = "resume" /\ status[t] # "paused" ->
              held' = held \ {t} /\ cont' = "mark" /\ UNCHANGED <<status, locks, controllers>>
         [] m.kind = "cancel" ->
              /\ status' = [status EXCEPT ![t] = "cancelled"]
              /\ locks' = LocksAfterCancel(t)
              /\ controllers' = ControllersAfterCancel(t) /\ held' = held \ {t}
              /\ cont' = "answer"
         [] OTHER -> cont' = "mark" /\ UNCHANGED <<status, locks, agentVars>>
    /\ UNCHANGED <<approval, workspaceOf, threadOf, created, asked, handlerFrame>>

\* _handle_final_reply up to its first save
FinalReply(m, t) ==
    /\ Replies(m, t, {"ready_for_final_approval"})
    /\ CASE m.kind = "reject"  -> status' = [status EXCEPT ![t] = "blocked"] /\ cont' = "answer"
         [] m.kind = "approve" -> status' = [status EXCEPT ![t] = "finalizing"]
                                  /\ cont' = "finalize"
         [] OTHER -> cont' = "mark" /\ UNCHANGED status
    /\ UNCHANGED <<approval, workspaceOf, threadOf, created, locks, asked, agentVars,
                   handlerFrame>>

\* the outcome of GitWorkflow.finalize: done, and the workspace is free whoever holds it, or
\* blocked
Finalized(t) ==
    \/ status' = [status EXCEPT ![t] = "done"]
       /\ locks' = [locks EXCEPT ![workspaceOf[t]] = 0] /\ controllers' = controllers \ {t} /\ held' = held \ {t}
    \/ status' = [status EXCEPT ![t] = "blocked"] /\ UNCHANGED <<locks, agentVars>>

FinalizeTask(t) ==
    /\ cont = "finalize" /\ t = FoundTask(inbox[Current])
    /\ \/ Finalized(t) /\ cont' = "answer"
       \/ cont' = "abort" /\ UNCHANGED <<status, locks, agentVars>>   \* git raises
    /\ UNCHANGED <<approval, workspaceOf, threadOf, created, asked, handlerFrame>>

\* mark_processed, in the finally clause; the exception of a handler or of the answering
\* mail then ends the poll
MarkProcessed ==
    /\ cont \in {"mark", "answer", "abort"}
    /\ seen' = seen \cup {Current} /\ cont' = "none"
    /\ \/ cont \in {"mark", "answer"} /\ todo' = todo \ {Current} /\ UNCHANGED driver
       \/ cont \in {"answer", "abort"} /\ todo' = {} /\ driver' = "idle"
    /\ UNCHANGED <<recordVars, locks, inbox, userVars, agentVars, crashVars>>

\* expire_confirmations
Expired == {t \in Queue : status[t] = "waiting_confirmation" /\ approval[t] = "pending" /\ aged[t]}
ExpireConfirmations ==
    /\ driver = "polling" /\ todo = {} /\ driver' = "confirming"
    /\ status' = [t \in Tasks |-> IF t \in Expired THEN "queued" ELSE status[t]]
    /\ approval' = [t \in Tasks |-> IF t \in Expired THEN "expired" ELSE approval[t]]
    /\ UNCHANGED <<workspaceOf, threadOf, created, locks, mailVars, userVars, agentVars, todo,
                   cont, crashVars>>

\* _send_available_confirmations: the mail first, the saved record after it
SendConfirmation(t) ==
    /\ driver = "confirming" /\ cont = "none" /\ t \in Confirmable
    /\ asked' = [asked EXCEPT ![t] = "start"]
    /\ cont' = "confirm"
    /\ UNCHANGED <<recordVars, locks, mailVars, aged, agentVars, driver, todo, crashVars>>

\* `asked' stands for the task the loop holds between the mail and the save
MarkConfirmationSent(t) ==
    /\ cont = "confirm" /\ t \in Confirmable /\ asked[t] = "start"
    /\ status' = [status EXCEPT ![t] = "waiting_confirmation"]
    /\ approval' = [approval EXCEPT ![t] = "pending"]
    /\ aged' = [aged EXCEPT ![t] = FALSE]
    /\ cont' = "none"
    /\ UNCHANGED <<workspaceOf, threadOf, created, locks, mailVars, asked, agentVars, driver,
                   todo, crashVars>>

\* all were sent, or one could not be
PollEnds ==
    /\ driver = "confirming" /\ cont = "none" /\ driver' = "idle"
    /\ UNCHANGED <<recordVars, locks, mailVars, userVars, agentVars, todo, cont, crashVars>>

-----------------------------------------------------------------------------
(* tick_tasks, recover and crashes *)

\* one controller step that changes the task; the final-approval mail may fail
TickTask(t) ==
    /\ driver = "idle" /\ t \in controllers /\ status[t] = "active"
    /\ \/ t \in held
          /\ status' = [status EXCEPT ![t] = "paused"] /\ UNCHANGED asked
       \/ t \notin held
          /\ status' = [status EXCEPT ![t] = "blocked"] /\ UNCHANGED asked
       \/ /\ t \notin held
          /\ status' = [status EXCEPT ![t] = "ready_for_final_approval"]
          /\ asked' = [asked EXCEPT ![t] = "final"] \/ UNCHANGED asked
    /\ UNCHANGED <<approval, workspaceOf, threadOf, created, locks, mailVars, aged, agentVars,
                   driver, todo, cont, crashVars>>

\* a task works in its workspace, or has work waiting there
Working == {"active", "paused", "ready_for_final_approval", "finalizing"}

\* rebuild_workspace_locks: the oldest task in one of these states gets the workspace
Locking == Working \cup {"blocked"}
RebuiltLocks ==
    [w \in Workspaces |->
        LET owners == {t \in Queue : workspaceOf[t] = w /\ status[t] \in Locking}
        IN  IF owners = {} THEN 0 ELSE Min(owners)]

\* The controllers are kept in memory: a restart that fails while it makes them (a Crash in
\* "recovering") leaves what it leaves once they are made.
Recover ==
    /\ driver = "down" /\ driver' = "recovering"
    /\ locks' = RebuiltLocks
    /\ controllers' = {t \in Queue : workspaceOf[t] # NoWorkspace
                                     /\ status[t] \in {"active", "paused"}}
    /\ held' = {t \in controllers' : status[t] = "paused"}
    /\ displaced' = displaced \cup {w \in Workspaces : \E t \in Queue :
                        workspaceOf[t] = w /\ status[t] \in Working /\ RebuiltLocks[w] # t}
    /\ UNCHANGED <<recordVars, mailVars, userVars, todo, cont, crashes>>

RecoverFinalizing(t) ==
    /\ driver = "recovering" /\ status[t] = "finalizing"
    /\ Finalized(t)
    /\ UNCHANGED <<approval, workspaceOf, threadOf, created, mailVars, userVars, driver, todo,
                   cont, crashVars>>

RecoverEnds ==
    /\ driver = "recovering" /\ \A t \in Queue : status[t] # "finalizing"
    /\ driver' = "idle"
    /\ UNCHANGED <<recordVars, locks, mailVars, userVars, agentVars, todo, cont, crashVars>>

Crash ==
    /\ driver # "down" /\ crashes < MaxCrashes
    /\ crashes' = crashes + 1
    /\ driver' = "down" /\ todo' = {} /\ cont' = "none" /\ controllers' = {} /\ held' = {}
    /\ UNCHANGED <<recordVars, locks, mailVars, userVars, displaced>>

-----------------------------------------------------------------------------
User == \/ \E w \in Workspaces \cup {NoWorkspace} : SendTask(w)
        \/ \E t \in Tasks, kind \in Controls : SendReply(t, kind, NoWorkspace)
        \/ \E t \in Tasks, w \in Workspaces \cup {NoWorkspace} : SendReply(t, "text", w)

Handler == \/ \E m \in {inbox[i] : i \in 1..Len(inbox)} :
                 \/ NewTask(m) \/ IgnoredReply(m)
                 \/ \E t \in Tasks : \/ WorkspaceReply(m, t) \/ PendingReply(m, t)
                                     \/ ActiveReply(m, t) \/ FinalReply(m, t)
           \/ \E t \in Tasks : StartTask(t) \/ ControlTask(t) \/ FinalizeTask(t)
           \/ MarkProcessed

Driver == \/ PollStarts \/ ExpireConfirmations \/ PollEnds \/ Recover \/ RecoverEnds
          \/ \E t \in Tasks : SendConfirmation(t) \/ MarkConfirmationSent(t) \/ TickTask(t)
                              \/ RecoverFinalizing(t)

Next == User \/ (\E t \in Tasks : ConfirmationAges(t)) \/ Handler \/ Driver \/ Crash

Spec == Init /\ [][Next]_vars

-----------------------------------------------------------------------------
(* Correctness *)

\* Every variable keeps its type; a controller belongs to a task that was started and is
\* not over.
TypeOK ==
    /\ status \in [Tasks -> Statuses] /\ approval \in [Tasks -> Approvals]
    /\ workspaceOf \in [Tasks -> Workspaces \cup {NoWorkspace}]
    /\ threadOf \in [Tasks -> 0..Len(inbox)] /\ created \in {0} \cup Tasks
    /\ locks \in [Workspaces -> 0..created]
    /\ inbox \in Seq(Mails) /\ seen \subseteq 1..Len(inbox)
    /\ aged \in [Tasks -> BOOLEAN] /\ asked \in [Tasks -> {"none", "start", "final"}]
    /\ controllers \subseteq {t \in Queue : status[t] \in Locking}
    /\ held \subseteq controllers
    /\ driver \in {"down", "recovering", "idle", "polling", "confirming"}
    /\ todo \subseteq 1..Len(inbox)
    /\ cont \in {"none", "mark", "answer", "abort", "start", "control", "finalize", "confirm"}
    /\ crashes \in 0..MaxCrashes /\ displaced \subseteq Workspaces

\* "workspace is busy": no two tasks work on, or have work waiting in, the same workspace,
\* whatever the user approves, cancels and resumes, unless a restart there took the lock from a
\* working task for an older one that is blocked (README, "What the models showed").
OneTaskPerWorkspace ==
    \A t, u \in Queue :
        status[t] \in Working /\ status[u] \in Working /\ workspaceOf[t] = workspaceOf[u]
        => t = u \/ workspaceOf[t] \in displaced

\* the same without the exception, which the restart breaks
NeverTwoTasks ==
    \A t, u \in Queue :
        status[t] \in Working /\ status[u] \in Working /\ workspaceOf[t] = workspaceOf[u] => t = u

\* A workspace is never reserved by a task that is over: every lock, also one rebuilt after a
\* crash between any two saves, belongs to a task that a CANCEL or its own end will release.
NoLeakedLock ==
    \A w \in Workspaces : locks[w] # 0 =>
        workspaceOf[locks[w]] = w /\ status[locks[w]] \in Locking

\* The user decides about one task of a workspace at a time, also when a confirmation expired,
\* was revised, or was mailed and the worker crashed before it noted that.
OneConfirmationPerWorkspace ==
    \A t, u \in Queue :
        /\ status[t] = "waiting_confirmation" /\ status[u] = "waiting_confirmation"
        /\ workspaceOf[t] = workspaceOf[u]
        => t = u

\* No task is worked on, finalized or reported done unless its confirmation was approved.
WorkWasApproved ==
    \A t \in Queue : status[t] \in Working \cup {"blocked", "done"} => approval[t] = "approved"

\* "Reply APPROVE to start": an approval that was accepted has had its effect once the mail is
\* dealt with, also when the branch, a mail or the controller fails.  A crash between its two
\* saves loses it (README, "What the models showed"), so the property is about the others.
ApprovalIsActedOn ==
    driver = "idle" /\ crashes = 0 => \A t \in Queue :
        ~(status[t] = "waiting_confirmation" /\ approval[t] = "approved")

\* "Start approve never calls git finalize": what finalizes a task is the answer to the request
\* for final approval, not an approval given before the work was done.
FinalApprovalWasAsked == cont = "finalize" => inbox[Current].answers = "final"
=============================================================================
